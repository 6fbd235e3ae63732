------------------------------ MODULE MCUpgrade ------------------------------
(***************************************************************************)
(* The instances of Upgrade that TLC checks: two old accounts, and at most *)
(* one validator's balance too high.                                       *)
(***************************************************************************)
EXTENDS MCMarinade, Upgrade

\* Nothing is missing, or one old amount for one validator.
MCOldMissing ==
  {[v \in Validator |-> IF v = w THEN lamports ELSE 0] :
     w \in Validator, lamports \in OldAmounts \cup {0}}

\* The old accounts are alike.
OldSymmetry == Permutations(OldStake)

\* Bound: one account loses lamports, before any other change of the old ones.
Slashable == {s \in OldStake : account[s].delegated \in OldAmounts
                 /\ \A a \in OldStake : account[a].delegated \in OldAmounts \cup {0}}

-----------------------------------------------------------------------------
(* What can happen during the upgrade: the instructions on stake accounts  *)
(* that do not ask for IsDone; accounts are deactivated from outside, and  *)
(* one is slashed.                                                         *)
UpgradeStep ==
  \/ NewEpoch
  \/ Tick
  \/ \E s \in Slashable, lamports \in Slashes : Slash(s, lamports)
  \/ \E s \in Stake : UpdateActive(s)
  \/ \E s \in Stake : UpdateDeactivated(s)
  \/ \E batch \in SUBSET Validator : FinalizeDelinquentUpgrade(batch)
  \/ \E s \in Stake, v \in Validator, delegated \in UserStakes :
       DepositStakeAccount(s, v, delegated, "active")

\* Outside deactivations strike only accounts the upgrade has not visited:
\* every step is one of UpgradeNext.
VisitsNext ==
  UpgradeStep \/ \E s \in Stake : ~Is(s, "Active") /\ DeactivateDelinquent(s)

VisitsSpec == UpgradeInit /\ [][VisitsNext]_vars

\* Outside deactivations strike at any time.
OutsideNext == UpgradeStep \/ \E s \in Stake : DeactivateDelinquent(s)

OutsideSpec == UpgradeInit /\ [][OutsideNext]_vars

\* Outside deactivations strike visited accounts, too, once the validators are
\* being visited.
LateNext ==
  UpgradeStep \/ \E s \in Stake :
    /\ Is(s, "Active") => delinquent_upgrader.stage = "IteratingValidators"
    /\ DeactivateDelinquent(s)

LateSpec == UpgradeInit /\ [][LateNext]_vars
=============================================================================
