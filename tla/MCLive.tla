------------------------------- MODULE MCLive --------------------------------
(***************************************************************************)
(* What must eventually happen.  Time does not end here: the epoch keeps   *)
(* its number and everything that is dated moves one epoch into the past   *)
(* instead, so that the behaviours are infinite and the states are not.    *)
(* Of a date the program only asks whether it is this epoch, and of a      *)
(* ticket's whether it is 1, or more than 1, epochs old.                   *)
(***************************************************************************)
EXTENDS MCMarinade

\* Small stakes, so that a list of two records can fill.
MCLiveConfig == [MCConfig EXCEPT !.min_stake = 2]

\* One epoch earlier; a ticket that is two epochs old does not age further.
Aged(t) ==
  IF ticket[t].open THEN [ticket[t] EXCEPT !.created_epoch = Monus(@, 1)] ELSE ticket[t]

(* The epoch boundary, seen from the epoch it begins.  Bound: nobody earns *)
(* rewards here, so update_active has nothing to do but to notice what was *)
(* sent to the reserve.                                                    *)
EpochPasses ==
  /\ phase = "window"
  /\ phase' = "early"
  /\ \E slow \in SUBSET SlowStake :
       account' = [s \in Stake |-> [account[s] EXCEPT !.activation = NextActivation(s, slow)]]
  /\ validator' = [v \in Validator |-> [validator[v] EXCEPT !.last_stake_delta_epoch = Never]]
  /\ last_stake_delta_epoch' = Never
  /\ ticket' = [t \in Ticket |-> Aged(t)]
  /\ UNCHANGED <<epoch, reserveVars, msolVars, stake, total_active_balance, coolingVars,
                 extra_stake_delta_runs, moveVars, circulating_ticket_balance,
                 circulating_ticket_count, adminVars, staking_sol_cap,
                 delinquent_upgrader, poolVars>>

\* No step below makes a canonical account.
NonCanonical == Stake \ {CanonicalStake[v] : v \in Validator}

\* Stake cools down at some epoch boundary.
CoolsDown(s) ==
  EpochPasses /\ account[s].activation = "deactivating" /\ account'[s].activation = "inactive"

LiveNext ==
  \/ Tick
  \/ EpochPasses
  \/ \E lamports \in Donations : Donate(lamports)
  \/ \E v \in Validator, score \in Scores : AddValidator(v, score)
  \/ \E s \in Stake : UpdateActive(s) \/ UpdateDeactivated(s)
  \/ \E v \in Validator, s \in Stake : StakeReserve(v, s)
  \/ \E s, new \in Stake : DeactivateStake(s, new)
  \/ \E lamports \in DepositAmounts : Deposit(lamports)
  \/ \E t \in Ticket, msol_amount \in MsolAmounts : OrderUnstake(t, msol_amount)
  \/ \E t \in Ticket : Claim(t)

(* Time passes; stake that is slow to cool down does cool down; the cranks,*)
(* which anybody may call, are called, and each ticket's holder claims it. *)
(* A call is possible in part of an epoch only, or while an account is in  *)
(* some state, so it is due when it is possible again and again; the       *)
(* collection of an account is due for itself, and not made up for by that *)
(* of another.  Users owe the program nothing, and no call of              *)
(* stake_reserve is taken for granted.                                     *)
Fairness ==
  /\ WF_vars(Tick)
  /\ WF_vars(EpochPasses)
  /\ \A s \in SlowStake : SF_vars(CoolsDown(s))
  /\ SF_vars(\E s \in Stake : UpdateActive(s))
  /\ \A s \in NonCanonical : SF_vars(UpdateDeactivated(s))
  /\ SF_vars(\E s, new \in Stake : DeactivateStake(s, new))
  /\ \A t \in Ticket : SF_vars(Claim(t))

LiveSpec == Init /\ [][LiveNext]_vars /\ Fairness

-----------------------------------------------------------------------------
(* Every ticket is paid: however long stake takes to cool down, whatever   *)
(* other tickets are ordered and paid meanwhile, and although the reserve  *)
(* is staked again and again, the stake delta and the collections bring    *)
(* the lamports a ticket waits for into the reserve.  Lamports sent to the *)
(* reserve from outside make the stake delta count on what the books do    *)
(* not have yet: claim finds them and fails on the books, until an update  *)
(* of some account brings these up to date.  The list must have room for   *)
(* one record again and again: deactivate_stake pushes a record when it    *)
(* splits an account, and while the list stays full a ticket that needs a  *)
(* split waits.                                                            *)
TicketsArePaid ==
  []<>RoomFor(1) => \A t \in Ticket : ticket[t].open ~> ~ticket[t].open
=============================================================================
