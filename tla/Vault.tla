-------------------------------- MODULE Vault --------------------------------
(***************************************************************************)
(* What the program promises to the holders of mSOL and of tickets: a      *)
(* vault that holds lamports, against shares (mSOL) and against fixed      *)
(* debts (the tickets).  What is not owed to a ticket belongs to the       *)
(* holders in equal parts.  A part never loses value, but for the rounding *)
(* of one instruction; a debt is what its holder's shares were worth, does *)
(* not change, and is paid in full.                                        *)
(*                                                                         *)
(* The actions are conditions on the change of assets, supply and owed:    *)
(* they do not say which instruction makes it, nor from where the lamports *)
(* of the vault come at that time.                                         *)
(***************************************************************************)
EXTENDS LamportSums

CONSTANT Ticket   \* finite

VARIABLES
  assets,     \* lamports under control
  supply,     \* shares
  owed        \* what each ticket claims; 0 when there is no such ticket

vars == <<assets, supply, owed>>

\* What belongs to the holders of shares.
Value == assets - Sum(owed)

Init ==
  /\ assets = 0
  /\ supply = 0
  /\ owed = [t \in Ticket |-> 0]

-----------------------------------------------------------------------------
(* Lamports come in: a deposit, rewards, tips.  Shares are issued for at   *)
(* most what they are worth; shares that were burned are struck off.       *)
Receive ==
  /\ UNCHANGED owed
  /\ assets' \in Nat /\ assets' >= assets
  /\ supply' \in Nat
  /\ \/ supply' <= supply
     \/ supply = 0 /\ supply' <= assets' - assets
     \/ supply > 0 /\ supply' * Value <= supply * (Value + assets' - assets)

(* Shares are exchanged for a debt of at most what they are worth.         *)
Order(t) ==
  /\ owed[t] = 0
  /\ owed'[t] \in Nat \ {0}
  /\ owed' = [owed EXCEPT ![t] = owed'[t]]
  /\ supply' \in 0..(supply - 1)
  /\ owed'[t] * supply <= (supply - supply') * Value
  /\ UNCHANGED assets

(* The debt is paid.                                                       *)
Pay(t) ==
  /\ owed[t] > 0
  /\ assets' = assets - owed[t]
  /\ owed' = [owed EXCEPT ![t] = 0]
  /\ UNCHANGED supply

(* Shares are exchanged for lamports: a unit more than the shares given up *)
(* would be worth more than these.                                         *)
Redeem ==
  /\ supply > 0 /\ supply' \in 0..supply
  /\ assets' \in Nat /\ assets' < assets
  /\ assets - assets' <= Value
  /\ (assets - assets') * supply < (supply - supply' + 1) * Value
  /\ UNCHANGED owed

Next ==
  \/ Receive
  \/ \E t \in Ticket : Order(t) \/ Pay(t)
  \/ Redeem

Spec == Init /\ [][Next]_vars

-----------------------------------------------------------------------------
(* What follows from the promise.                                          *)

(* No debt is without cover.                                               *)
Solvent == /\ assets \in Nat /\ supply \in Nat
           /\ owed \in [Ticket -> Nat]
           /\ Sum(owed) <= assets

(* A step costs the holders less than the price of one share in total,     *)
(* whoever takes it and whatever it exchanges.                             *)
PartFallsByDustAtMost ==
  [][supply > 0 /\ supply' > 0 => Value' * supply + Value >= Value * supply']_vars
=============================================================================
