-------------------------- MODULE RefinementProofs --------------------------
(***************************************************************************)
(* The program is a vault, for every value of the constants: the steps of  *)
(* Marinade are steps of Vault, or leave what the vault sees as it was.    *)
(* So what VaultProofs concludes from the promise holds of the program:    *)
(* the tickets are covered, and the price of mSOL falls by no more than    *)
(* rounding.  So the tokens of the liquidity pool hold their value, too.   *)
(*                                                                         *)
(* A step that stakes, unstakes or merges moves lamports from one balance  *)
(* of the books to another; the rest comes down to the inequalities of     *)
(* the conversions in calc.rs, which round down.                           *)
(***************************************************************************)
EXTENDS BooksProofs

VP == INSTANCE VaultProofs WITH
  assets <- TotalLamportsUnderControl,
  supply <- msol_supply,
  owed   <- [t \in Ticket |-> ticket[t].lamports_amount]

-----------------------------------------------------------------------------
(* The conversions.                                                        *)

(* A quotient is the largest whole number that fits.                       *)
LEMMA Quotient ==
  ASSUME NEW a \in Nat, NEW c \in Nat \ {0}
  PROVE  /\ a \div c \in Nat
         /\ (a \div c) * c <= a
         /\ a < (a \div c + 1) * c
<1> DEFINE q == a \div c
<1>1. q \in Nat /\ c * q <= a /\ a < c * (q + 1)
  BY QuotientType
<1> HIDE DEF q
<1>2. q * c = c * q /\ (q + 1) * c = c * (q + 1)
  BY <1>1
<1> QED
  BY <1>1, <1>2 DEF q

(* Shares are worth at most what they are given for; without a price they  *)
(* are given one to one.                                                   *)
LEMMA SharesWorth ==
  ASSUME NEW value \in Nat, NEW total \in Nat, NEW shares \in Nat
  PROVE  LET given == SharesFromValue(value, total, shares)
         IN /\ given \in Nat
            /\ shares = 0 \/ total = 0 => given = value
            /\ shares > 0 => given * total <= value * shares
            /\ shares > 0 /\ total > 0 => value * shares < (given + 1) * total
<1> DEFINE given == SharesFromValue(value, total, shares)
<1>1. given \in Nat
  BY SharesType
<1>2. CASE shares = 0
  BY <1>1, <1>2 DEF SharesFromValue
<1>3. CASE shares > 0 /\ total = 0
  <2>1. given = value
    BY <1>3 DEF SharesFromValue, Proportional
  <2>2. value * shares \in Nat /\ given * 0 = 0
    BY <1>1
  <2> HIDE DEF given
  <2> QED
    BY <1>1, <1>3, <2>1, <2>2 DEF given
<1>4. CASE shares > 0 /\ total > 0
  <2> DEFINE p == value * shares
  <2>1. p \in Nat /\ total \in Nat \ {0}
    BY <1>4
  <2>2. given = p \div total
    BY <1>4 DEF SharesFromValue, Proportional
  <2> HIDE DEF p, given
  <2>3. given * total <= p /\ p < (given + 1) * total
    BY <2>1, <2>2, Quotient
  <2> QED
    BY <1>1, <1>4, <2>3 DEF p, given
<1> QED
  BY <1>2, <1>3, <1>4

(* Lamports are given for at most what the shares are worth.               *)
LEMMA ValueWorth ==
  ASSUME NEW given \in Nat, NEW total \in Nat, NEW shares \in Nat \ {0}
  PROVE  LET value == ValueFromShares(given, total, shares)
         IN /\ value \in Nat
            /\ value * shares <= given * total
<1> DEFINE value == ValueFromShares(given, total, shares)
           p == given * total
<1>1. p \in Nat /\ value = p \div shares
  BY DEF ValueFromShares, Proportional
<1> HIDE DEF p, value
<1>2. value \in Nat /\ value * shares <= p
  BY <1>1, Quotient
<1> QED
  BY <1>2 DEF p, value

(* The treasury's fee is worth at most the rewards it is a part of.        *)
LEMMA FeeWorth ==
  ASSUME TypeOK, NEW lamports \in Nat, NEW total \in Nat, NEW supply \in Nat
  PROVE  LET fee == MintProtocolFees(lamports, total, supply)
         IN /\ fee \in Nat
            /\ supply = 0 \/ total = 0 => fee <= lamports
            /\ supply > 0 => fee * total <= lamports * supply
<1> DEFINE part == ApplyFee(config.reward_fee, lamports)
           given == SharesFromValue(part, total, supply)
<1>1. config.reward_fee \in 0..MAX_REWARD_FEE
  BY DEF TypeOK, Config
<1>2. config.reward_fee \in 0..MAX_BASIS_POINTS
  BY <1>1, SMT DEF MAX_REWARD_FEE, MAX_BASIS_POINTS
<1>3. part \in Nat /\ part <= lamports
  BY <1>2, FeeBound
<1> HIDE DEF part
<1>4. /\ given \in Nat
      /\ supply = 0 \/ total = 0 => given = part
      /\ supply > 0 => given * total <= part * supply
  BY <1>3, SharesWorth
<1>5. part * supply <= lamports * supply /\ part * supply \in Nat /\ lamports * supply \in Nat
  BY <1>3, VP!Scale
<1> HIDE DEF given
<1>6. /\ supply = 0 \/ total = 0 => given <= lamports
      /\ supply > 0 => given * total <= lamports * supply
  <2>1. given * total \in Nat
    BY <1>4
  <2> QED
    BY <1>3, <1>4, <1>5, <2>1
<1>7. CASE TreasuryReady
  <2>1. MintProtocolFees(lamports, total, supply) = given
    BY <1>7 DEF MintProtocolFees, given, part
  <2> QED
    BY <1>4, <1>6, <2>1
<1>8. CASE ~TreasuryReady
  <2>1. MintProtocolFees(lamports, total, supply) = 0
    BY <1>8 DEF MintProtocolFees
  <2>2. 0 * total = 0 /\ lamports * supply \in Nat
    OBVIOUS
  <2> QED
    BY <2>1, <2>2
<1> QED
  BY <1>7, <1>8

-----------------------------------------------------------------------------
(* Issuing mSOL.                                                           *)

\* income may come with a change of the supply from before to after, when the
\* shares are worth value.
Fair(value, before, income, after) ==
  \/ after <= before
  \/ before = 0 /\ after <= income
  \/ before > 0 /\ after * value <= before * (value + income)

(* Shares given for lamports at their price or above are fair.             *)
LEMMA GivenFairly ==
  ASSUME NEW value \in Nat, NEW before \in Nat, NEW income \in Nat, NEW given \in Nat,
         before = 0 => given <= income,
         before > 0 => given * value <= income * before
  PROVE  Fair(value, before, income, before + given)
<1>1. CASE before = 0
  BY <1>1 DEF Fair
<1>2. CASE before > 0
  <2>1. /\ (before + given) * value = before * value + given * value
        /\ before * (value + income) = before * value + income * before
        /\ before * value \in Nat /\ given * value \in Nat /\ income * before \in Nat
    OBVIOUS
  <2> QED
    BY <1>2, <2>1 DEF Fair
<1> QED
  BY <1>1, <1>2

(* The two fees of an update are fair: one for what waited in the account, *)
(* at the price with it, and one for the rewards, at the same price.  What *)
(* the reserve had been sent in the meantime only makes them cheaper.      *)
LEMMA FeesAreFair ==
  ASSUME NEW value \in Nat, NEW mint \in Nat, NEW found \in Nat, NEW extra \in Nat,
         NEW rewards \in Nat, NEW extra_fee \in Nat, NEW fee \in Nat, NEW total \in Nat,
         total = value + found + extra,
         mint = 0 \/ total = 0 => extra_fee <= extra,
         mint > 0 => extra_fee * total <= extra * mint,
         mint + extra_fee = 0 \/ total = 0 => fee <= rewards,
         mint + extra_fee > 0 => fee * total <= rewards * (mint + extra_fee)
  PROVE  /\ mint > 0 => (extra_fee + fee) * value <= (found + extra + rewards) * mint
         /\ mint = 0 => extra_fee + fee <= found + extra + rewards

<1>1. CASE mint = 0
  <2>1. extra_fee <= extra /\ extra <= total
    BY <1>1
  <2>2. CASE extra_fee = 0 \/ total = 0
    BY <1>1, <2>1, <2>2
  <2>3. CASE extra_fee > 0 /\ total > 0
    <3>1. fee * total <= rewards * extra_fee
      BY <1>1, <2>3
    <3>2. rewards * extra_fee <= rewards * total
      <4>1. extra_fee * rewards <= total * rewards
        BY <2>1, VP!Scale
      <4>2. extra_fee * rewards = rewards * extra_fee /\ total * rewards = rewards * total
        OBVIOUS
      <4> QED
        BY <4>1, <4>2
    <3>3. fee * total <= rewards * total
      <4>1. fee * total \in Nat /\ rewards * extra_fee \in Nat /\ rewards * total \in Nat
        OBVIOUS
      <4> QED
        BY <3>1, <3>2, <4>1
    <3>4. fee <= rewards
      BY <2>3, <3>3, VP!Cancel
    <3> QED
      BY <1>1, <2>1, <3>4
  <2> QED
    BY <2>2, <2>3
<1>2. CASE mint > 0 /\ total = 0
  <2>1. value = 0 /\ (extra_fee + fee) * 0 = 0 /\ (found + extra + rewards) * mint \in Nat
    BY <1>2
  <2> QED
    BY <1>2, <2>1
<1>3. CASE mint > 0 /\ total > 0
  <2>0. /\ value <= total /\ mint * value \in Nat /\ extra * mint \in Nat
        /\ extra_fee * value \in Nat /\ extra_fee * total \in Nat
        /\ found * mint \in Nat /\ rewards * mint \in Nat /\ fee * value \in Nat
    OBVIOUS
  <2>1. extra_fee * value <= extra * mint
    <3>1. value * extra_fee <= total * extra_fee
      BY <2>0, VP!Scale
    <3>2. value * extra_fee = extra_fee * value /\ total * extra_fee = extra_fee * total
      OBVIOUS
    <3> QED
      BY <1>3, <2>0, <3>1, <3>2
  <2>2. fee * value <= rewards * mint
    <3> DEFINE all == mint + extra_fee
    <3>1. all * value <= mint * total
      <4>1. all * value = mint * value + extra_fee * value
        OBVIOUS
      <4>2. mint * total = mint * value + found * mint + extra * mint
        OBVIOUS
      <4> QED
        BY <2>0, <2>1, <4>1, <4>2
    <3>2. all \in Nat /\ fee * total <= rewards * all
      BY <1>3
    <3> HIDE DEF all
    <3>3. rewards * (all * value) <= rewards * (mint * total)
      <4> DEFINE a == all * value
                 b == mint * total
      <4>1. a \in Nat /\ b \in Nat /\ a <= b
        BY <3>1, <3>2
      <4> HIDE DEF a, b
      <4>2. a * rewards <= b * rewards
        BY <4>1, VP!Scale
      <4>3. a * rewards = rewards * a /\ b * rewards = rewards * b
        BY <4>1
      <4>4. rewards * a <= rewards * b
        BY <4>1, <4>2, <4>3
      <4> QED
        BY <4>4 DEF a, b
    <3>4. (fee * total) * value <= (rewards * all) * value
      <4> DEFINE a == fee * total
                 b == rewards * all
      <4>1. a \in Nat /\ b \in Nat /\ a <= b
        BY <3>2
      <4> HIDE DEF a, b
      <4>2. a * value <= b * value
        BY <4>1, VP!Scale
      <4> QED
        BY <4>2 DEF a, b
    <3>5. (fee * value) * total <= (rewards * mint) * total
      <4>1. /\ (fee * total) * value = (fee * value) * total
            /\ (rewards * all) * value = rewards * (all * value)
            /\ rewards * (mint * total) = (rewards * mint) * total
        BY <3>2
      <4>2. /\ (fee * value) * total \in Nat /\ rewards * (all * value) \in Nat
            /\ (rewards * mint) * total \in Nat
        BY <3>2
      <4> QED
        BY <3>3, <3>4, <4>1, <4>2
    <3> DEFINE a == fee * value
               b == rewards * mint
    <3>6. a \in Nat /\ b \in Nat /\ total \in Nat \ {0} /\ a * total <= b * total
      BY <1>3, <3>5
    <3> HIDE DEF a, b
    <3>7. a <= b
      BY <3>6, VP!Cancel
    <3> QED
      BY <3>7 DEF a, b
  <2>3. /\ (extra_fee + fee) * value = extra_fee * value + fee * value
        /\ (found + extra + rewards) * mint = found * mint + extra * mint + rewards * mint
    OBVIOUS
  <2> QED
    BY <1>3, <2>0, <2>1, <2>2, <2>3
<1> QED
  BY <1>1, <1>2, <1>3

-----------------------------------------------------------------------------
(* The vault of the program.                                               *)

(* The two instances of Vault speak of the same sums ...                   *)
LEMMA SameSums == \A f : V!Sum(f) = Sum(f) /\ VP!Sum(f) = Sum(f)
<1>1. \A S : V!Cardinality(S) = Cardinality(S) /\ VP!Cardinality(S) = Cardinality(S)
  BY DEF V!Cardinality, VP!Cardinality, Cardinality
<1> QED
  BY <1>1 DEF V!Sum, VP!Sum, Sum, V!Points, VP!Points, Points

(* ... of the same initial states ...                                      *)
LEMMA SameInit == V!Init <=> VP!Init
BY DEF V!Init, VP!Init

(* ... and of the same steps.                                              *)
LEMMA SameNext == [V!Next]_(V!vars) <=> [VP!Next]_(VP!vars)
<1>1. V!Value = VP!Value /\ V!Value' = VP!Value'
  BY SameSums DEF V!Value, VP!Value
<1> QED
  BY <1>1 DEF V!Next, VP!Next, V!Receive, VP!Receive, V!Order, VP!Order, V!Pay, VP!Pay,
              V!Redeem, VP!Redeem, V!vars, VP!vars

\* A step of the vault that is no redemption.
Keeps == \/ V!Receive \/ \E t \in Ticket : V!Order(t) \/ V!Pay(t)
         \/ UNCHANGED V!vars

(* It is one of both instances of the vault.                               *)
LEMMA SameKeeps ==
  Keeps <=> \/ VP!Receive \/ \E t \in Ticket : VP!Order(t) \/ VP!Pay(t)
            \/ UNCHANGED VP!vars
<1>1. V!Value = VP!Value /\ V!Value' = VP!Value'
  BY SameSums DEF V!Value, VP!Value
<1> QED
  BY <1>1 DEF Keeps, V!Receive, VP!Receive, V!Order, VP!Order, V!Pay, VP!Pay, V!vars, VP!vars

(* The tickets are finitely many.                                          *)
LEMMA TicketsFinite == VP!IsFiniteSet(Ticket)
BY StakeAssumption DEF VP!IsFiniteSet, IsFiniteSet

\* What the steps of the vault rest on.
Sound == Books /\ NotSlashed /\ Large(1) /\ ReserveCovered /\ MintCovered /\ TicketBooks

\* While the books know of mSOL, somebody has some of it.
SomeoneHolds == msol_supply > 0 => msol_mint_supply > 0

(* The vault of a program with sound books.                                *)
LEMMA SoundVault ==
  ASSUME Sound
  PROVE  /\ TypeOK
         /\ Sum(TicketAmount) = circulating_ticket_balance
         /\ TicketAmount \in [Ticket -> Nat]
         /\ TotalLamportsUnderControl \in Nat /\ circulating_ticket_balance \in Nat
         /\ msol_supply \in Nat /\ msol_mint_supply \in Nat /\ msol_leg \in Nat
         /\ TotalVirtualStakedLamports \in Nat
         /\ Solvent <=> VP!Solvent
         /\ Solvent => /\ V!Value = TotalVirtualStakedLamports
                       /\ VP!Value = TotalVirtualStakedLamports
                       /\ TotalLamportsUnderControl
                            = TotalVirtualStakedLamports + circulating_ticket_balance
<1>1. TypeOK /\ TicketBooks
  BY DEF Sound, Books
<1>2. /\ TotalLamportsUnderControl \in Nat /\ circulating_ticket_balance \in Nat
      /\ msol_supply \in Nat /\ msol_mint_supply \in Nat /\ msol_leg \in Nat
      /\ TotalVirtualStakedLamports \in Nat
  BY <1>1, TotalsType DEF TypeOK
<1>3. Sum(TicketAmount) = circulating_ticket_balance /\ TicketAmount \in [Ticket -> Nat]
  BY <1>1 DEF TicketBooks, TicketAmount, TypeOK, TicketRecord
<1>4. /\ V!Value = TotalLamportsUnderControl - circulating_ticket_balance
      /\ VP!Value = TotalLamportsUnderControl - circulating_ticket_balance
      /\ VP!Solvent <=> circulating_ticket_balance <= TotalLamportsUnderControl
  BY <1>2, <1>3, SameSums DEF V!Value, VP!Value, VP!Solvent, TicketAmount
<1>5. Solvent => TotalVirtualStakedLamports
                   = TotalLamportsUnderControl - circulating_ticket_balance
  BY <1>2 DEF Solvent, TotalVirtualStakedLamports, Monus
<1> QED
  BY <1>1, <1>2, <1>3, <1>4, <1>5 DEF Solvent

\* The steps of the vault, in terms of the program.
Stays == UNCHANGED <<TotalLamportsUnderControl, msol_supply, ticketVars>>

Income == TotalLamportsUnderControl' - TotalLamportsUnderControl

Earns ==
  /\ UNCHANGED ticketVars
  /\ msol_supply' \in Nat
  /\ TotalLamportsUnderControl' \in Nat /\ Income \in Nat
  /\ SomeoneHolds => Fair(TotalVirtualStakedLamports, msol_supply, Income, msol_supply')

(* What stays does not show.                                               *)
LEMMA StaysStutters == Stays => UNCHANGED V!vars
BY DEF Stays, V!vars, ticketVars

(* What earns fairly receives.                                             *)
LEMMA EarnsReceives ==
  ASSUME Sound, Solvent, SomeoneHolds, Earns
  PROVE  V!Receive
<1> DEFINE value  == TotalVirtualStakedLamports
           assets == TotalLamportsUnderControl
           after  == TotalLamportsUnderControl'
<1>1. /\ value \in Nat /\ assets \in Nat /\ after \in Nat
      /\ msol_supply \in Nat /\ msol_supply' \in Nat
      /\ after - assets \in Nat
      /\ Fair(value, msol_supply, after - assets, msol_supply')
  BY SoundVault DEF Earns, Income
<1>2. V!Value = value /\ UNCHANGED [t \in Ticket |-> ticket[t].lamports_amount]
  BY SoundVault DEF Earns, ticketVars
<1> HIDE DEF value, assets, after
<1>3. after >= assets /\ value + (after - assets) = value + after - assets
  BY <1>1
<1>4. /\ after \in Nat /\ after >= assets
      /\ msol_supply' \in Nat
      /\ \/ msol_supply' <= msol_supply
         \/ msol_supply = 0 /\ msol_supply' <= after - assets
         \/ msol_supply > 0 /\ msol_supply' * value <= msol_supply * (value + after - assets)
  BY <1>1, <1>3 DEF Fair
<1> QED
  BY <1>2, <1>4, Zenon DEF V!Receive, value, assets, after

-----------------------------------------------------------------------------
(* The steps that stay: nothing is earned, owed or paid.                   *)

\* What the vault is made of.
balances == <<total_active_balance, coolingVars, available_reserve_balance,
              msol_supply, ticketVars>>

(* A step that leaves these alone stays.                                   *)
LEMMA SameStays == UNCHANGED balances => Stays
BY DEF balances, Stays, coolingVars, TotalLamportsUnderControl, TotalCoolingDown

\* The rest of what a quiet step leaves alone.
others == <<available_reserve_balance, msol_supply, ticketVars>>

(* Stake that begins to cool down is still under control.                  *)
LEMMA CoolsStays ==
  ASSUME TypeOK, UNCHANGED others, NEW s \in Stake, NEW new \in Stake,
         NEW is_emergency \in BOOLEAN,
         \/ Cools(s, is_emergency)
         \/ \E amount \in Nat : CoolsPart(s, new, amount, is_emergency)
  PROVE  Stays
<1>1. PICK amount \in Nat : /\ total_active_balance' = total_active_balance + (-amount)
                            /\ Cooling(is_emergency, amount)
  BY RecordFields DEF Cools, CoolsPart, Balances
<1>2. /\ total_active_balance \in Nat
      /\ delayed_unstake_cooling_down \in Nat /\ emergency_cooling_down \in Nat
  BY DEF TypeOK
<1>3. total_active_balance' + TotalCoolingDown' = total_active_balance + TotalCoolingDown
  BY <1>1, <1>2 DEF Cooling, TotalCoolingDown
<1> QED
  BY <1>3 DEF Stays, TotalLamportsUnderControl, others

(* The cluster, and what anybody does without the program: the books do    *)
(* not see it yet.                                                         *)
LEMMA EnvironmentStays == Environment => Stays
<1> USE DEF clockVars, reserveVars, msolVars, validatorVars
<1>1. Tick \/ NewEpoch => UNCHANGED balances
  BY DEF Tick, NewEpoch, balances
<1>2. ASSUME NEW s, NEW lamports
      PROVE  DeactivateDelinquent(s) \/ Tip(s, lamports) \/ Slash(s, lamports)
               => UNCHANGED balances
  BY DEF DeactivateDelinquent, Tip, Slash, ChangeAccount, balances
<1>3. ASSUME NEW lamports
      PROVE  Donate(lamports) \/ BurnMsol(lamports) => UNCHANGED balances
  BY DEF Donate, BurnMsol, balances
<1> QED
  BY <1>1, <1>2, <1>3, SameStays DEF Environment, ClusterStep, OutsideStep

(* The pool and the admin.                                                 *)
LEMMA PoolAdminStays == PoolStep \/ AdminStep \/ UNCHANGED vars => Stays
<1> USE DEF reserveVars, msolVars, validatorVars
<1>1. PoolStep => UNCHANGED balances
  BY DEF PoolStep, AddLiquidity, RemoveLiquidity, LiquidUnstake, BurnLp, DonateSolLeg,
         stakingVars, balances
<1>2. AdminStep => UNCHANGED balances
  BY DEF AdminStep, ConfigMarinade, ConfigLp, Pause, Resume, adminUnchanged, balances
<1>3. UNCHANGED vars => UNCHANGED balances
  BY DEF vars, balances
<1> QED
  BY <1>1, <1>2, <1>3, SameStays

(* The manager: stake moved to emergency cooling is still under control.   *)
LEMMA ManagerStays == TypeOK /\ ManagerStep => Stays
<1> SUFFICES ASSUME TypeOK, ManagerStep PROVE Stays
  OBVIOUS
<1>1. ASSUME NEW v, NEW score
      PROVE  AddValidator(v, score) \/ RemoveValidator(v) \/ SetValidatorScore(v, score)
               => UNCHANGED balances
  BY DEF AddValidator, RemoveValidator, SetValidatorScore, ChangeValidators, balances,
         reserveVars, msolVars
<1>2. ASSUME NEW extra_runs, ConfigValidatorSystem(extra_runs) PROVE UNCHANGED balances
  BY <1>2 DEF ConfigValidatorSystem, balances, reserveVars, msolVars, validatorVars
<1>3. \A v, lamports : MoveToEmergency(v, lamports) => UNCHANGED others
  BY DEF MoveToEmergency, reserveVars, msolVars, others
<1>4. ASSUME NEW s \in Stake, EmergencyUnstake(s) PROVE Stays
  <2>1. UNCHANGED others
    BY <1>3, <1>4 DEF EmergencyUnstake
  <2> QED
    BY <1>4, <2>1, EmergencyUnstakeCools, CoolsStays
<1>5. ASSUME NEW s \in Stake, NEW new \in Stake, NEW amount \in UnstakeAmounts,
             PartialUnstake(s, new, amount)
      PROVE  Stays
  <2>1. UNCHANGED others
    BY <1>3, <1>5 DEF PartialUnstake
  <2>2. Cools(s, TRUE) \/ \E lamports \in Nat : CoolsPart(s, new, lamports, TRUE)
    BY <1>5, PartialUnstakeCools
  <2> QED
    BY <2>1, <2>2, CoolsStays
<1> QED
  BY <1>1, <1>2, <1>4, <1>5, SameStays DEF ManagerStep

(* deactivate_stake, the same for the tickets                              *)
LEMMA DeactivateStakeStays ==
  ASSUME TypeOK, NEW s \in Stake, NEW new \in Stake, DeactivateStake(s, new)
  PROVE  Stays
<1>1. UNCHANGED others
  BY DEF DeactivateStake, reserveVars, msolVars, others
<1>2. Cools(s, FALSE) \/ \E amount \in Nat : CoolsPart(s, new, amount, FALSE)
  BY DeactivateStakeCools
<1> QED
  BY <1>1, <1>2, CoolsStays

(* stake_reserve: what leaves the reserve is active stake.                 *)
LEMMA StakeReserveStays ==
  ASSUME TypeOK, NEW v \in Validator, NEW s \in Stake, StakeReserve(v, s)
  PROVE  Stays
<1> DEFINE amount == ReserveStakeTarget(v)
<1>1. amount \in Nat
  BY ReserveStakeTargetType DEF StakeReserve, CanStakeReserve
<1>2. /\ available_reserve_balance' = available_reserve_balance - amount
      /\ total_active_balance' = total_active_balance + amount
      /\ UNCHANGED <<msol_supply, coolingVars, ticketVars>>
  BY DEF StakeReserve, OnTransferFromReserve, msolVars
<1> HIDE DEF amount
<1>3. total_active_balance \in Nat /\ available_reserve_balance \in Nat /\ TotalCoolingDown \in Nat
  BY TotalsType DEF TypeOK
<1>4. TotalCoolingDown' = TotalCoolingDown
  BY <1>2 DEF TotalCoolingDown, coolingVars
<1>5. TotalLamportsUnderControl' = TotalLamportsUnderControl
  BY <1>1, <1>2, <1>3, <1>4 DEF TotalLamportsUnderControl
<1> QED
  BY <1>2, <1>5 DEF Stays

(* The instructions of the crank that change no balance.                   *)
LEMMA IdleCrankStays ==
  ASSUME NEW v, NEW source, SpendExtraRun(v) \/ CreateCanonicalStake(v, source)
  PROVE  Stays
BY SameStays DEF SpendExtraRun, CreateCanonicalStake, balances, reserveVars, msolVars,
                 validatorVars

-----------------------------------------------------------------------------
(* The steps that earn.                                                    *)

(* merge_stakes: what is merged is all the books recorded, and possibly    *)
(* the rent of the source.                                                 *)
LEMMA MergeStakesEarns ==
  ASSUME Sound, Solvent, NEW v \in Validator, NEW source \in Stake, MergeStakes(v, source)
  PROVE  Earns
<1> DEFINE canonical == CanonicalStake[v]
           rent   == IF account[source].activation = "activating" THEN StakeRent ELSE 0
           merged == account[canonical].delegated + account[source].delegated + rent
           extra  == ExtraDelegated(canonical, source, merged)
<1>1. /\ canonical \in Stake
      /\ account[canonical].delegated = Recorded(canonical)
      /\ account[source].delegated = Recorded(source)
      /\ total_active_balance' = total_active_balance + extra
      /\ UNCHANGED <<coolingVars, available_reserve_balance, msol_supply, ticketVars>>
  BY CanonicalAssumption DEF MergeStakes, Updated, Tidy, reserveVars, msolVars
<1>2. /\ TypeOK /\ Recorded(canonical) \in Nat /\ Recorded(source) \in Nat /\ rent \in Nat
      /\ total_active_balance \in Nat /\ available_reserve_balance \in Nat
      /\ msol_supply \in Nat
  BY <1>1, SoundVault, RecordFields, RentAssumption DEF TypeOK
<1>3. TotalCoolingDown \in Nat
  BY <1>2, TotalsType
<1> HIDE DEF canonical, rent
<1>4. extra = rent
  BY <1>1, <1>2 DEF ExtraDelegated
<1> HIDE DEF extra
<1>5. TotalCoolingDown' = TotalCoolingDown
  BY <1>1 DEF TotalCoolingDown, coolingVars
<1>6. TotalLamportsUnderControl' \in Nat /\ Income \in Nat
  BY <1>1, <1>2, <1>3, <1>4, <1>5 DEF Income, TotalLamportsUnderControl
<1> QED
  BY <1>1, <1>2, <1>6 DEF Earns, Fair

(* What update finds in the reserve, and the price it computes its fees at.*)
LEMMA SyncedPrice ==
  ASSUME Sound, Solvent, NEW extra \in Nat
  PROVE  \E found \in Nat :
           /\ Synced = available_reserve_balance + found
           /\ SyncedVirtual(extra) = TotalVirtualStakedLamports + found + extra
<1> DEFINE found == Synced - available_reserve_balance
<1>1. /\ available_reserve_balance + RentExempt <= reserve_pda
      /\ available_reserve_balance \in Nat /\ RentExempt \in Nat /\ reserve_pda \in Nat
      /\ total_active_balance \in Nat /\ TotalCoolingDown \in Nat
  BY SoundVault, TotalsType, RentAssumption DEF Sound, ReserveCovered, TypeOK
<1>2. found \in Nat /\ Synced = available_reserve_balance + found
  BY <1>1 DEF Synced, Monus
<1> HIDE DEF found
<1>3. total_active_balance + TotalCoolingDown + Synced + extra
        = TotalVirtualStakedLamports + found + extra + circulating_ticket_balance
  <2>1. /\ TotalLamportsUnderControl = TotalVirtualStakedLamports + circulating_ticket_balance
        /\ TotalVirtualStakedLamports \in Nat /\ circulating_ticket_balance \in Nat
    BY SoundVault
  <2>2. TotalLamportsUnderControl
          = total_active_balance + TotalCoolingDown + available_reserve_balance
    BY DEF TotalLamportsUnderControl
  <2> QED
    BY <1>1, <1>2, <2>1, <2>2
<1>4. /\ TotalVirtualStakedLamports + found + extra \in Nat
      /\ circulating_ticket_balance \in Nat
  BY <1>2, SoundVault
<1> DEFINE sum == total_active_balance + TotalCoolingDown + Synced + extra
           rest == TotalVirtualStakedLamports + found + extra
<1>5. rest \in Nat /\ sum = rest + circulating_ticket_balance
  BY <1>3, <1>4
<1>6. SyncedVirtual(extra) = Monus(sum, circulating_ticket_balance)
  BY DEF SyncedVirtual
<1> HIDE DEF sum, rest
<1>7. SyncedVirtual(extra) = rest
  BY <1>4, <1>5, <1>6 DEF Monus
<1> QED
  BY <1>2, <1>7 DEF rest

(* An update that mints its fees at that price earns.                      *)
LEMMA UpdateEarns ==
  ASSUME Sound, Solvent,
         NEW found \in Nat, NEW extra \in Nat, NEW rewards \in Nat,
         NEW extra_fee \in Nat, NEW fee \in Nat, NEW total \in Nat,
         total = TotalVirtualStakedLamports + found + extra,
         msol_mint_supply = 0 \/ total = 0 => extra_fee <= extra,
         msol_mint_supply > 0 => extra_fee * total <= extra * msol_mint_supply,
         msol_mint_supply + extra_fee = 0 \/ total = 0 => fee <= rewards,
         msol_mint_supply + extra_fee > 0
           => fee * total <= rewards * (msol_mint_supply + extra_fee),
         TotalLamportsUnderControl' = TotalLamportsUnderControl + (found + extra + rewards),
         msol_supply' = msol_mint_supply + extra_fee + fee,
         UNCHANGED ticketVars
  PROVE  Earns
<1> DEFINE value  == TotalVirtualStakedLamports
           mint   == msol_mint_supply
           before == msol_supply
           fees   == extra_fee + fee
           income == found + extra + rewards
<1>1. /\ value \in Nat /\ mint \in Nat /\ before \in Nat /\ fees \in Nat /\ income \in Nat
      /\ TotalLamportsUnderControl \in Nat /\ mint <= before
  BY SoundVault DEF Sound, MintCovered
<1>2. /\ mint > 0 => fees * value <= income * mint
      /\ mint = 0 => fees <= income
  BY <1>1, FeesAreFair
<1>3. /\ msol_supply' = mint + fees /\ msol_supply' \in Nat
      /\ TotalLamportsUnderControl' \in Nat
      /\ Income = income
  BY <1>1 DEF Income
<1> HIDE DEF value, mint, before, fees, income
<1>4. ASSUME before > 0 => mint > 0
      PROVE  Fair(value, before, income, mint + fees)
  <2>1. CASE before = 0
    <3>1. mint = 0
      BY <1>1, <2>1
    <3> QED
      BY <1>1, <1>2, <2>1, <3>1 DEF Fair
  <2>2. CASE before > 0
    <3>1. fees * value <= income * mint
      BY <1>2, <1>4, <2>2
    <3>2. (mint + fees) * value <= mint * (value + income)
      <4>1. /\ (mint + fees) * value = mint * value + fees * value
            /\ mint * (value + income) = mint * value + income * mint
            /\ mint * value \in Nat /\ fees * value \in Nat /\ income * mint \in Nat
        BY <1>1
      <4> QED
        BY <3>1, <4>1
    <3>3. mint * (value + income) <= before * (value + income)
      <4>1. value + income \in Nat
        BY <1>1
      <4> QED
        BY <1>1, <4>1, VP!Scale
    <3>4. /\ (mint + fees) * value \in Nat /\ mint * (value + income) \in Nat
          /\ before * (value + income) \in Nat
      BY <1>1
    <3>5. (mint + fees) * value <= before * (value + income)
      BY <3>2, <3>3, <3>4
    <3> QED
      BY <2>2, <3>5 DEF Fair
  <2> QED
    BY <1>1, <2>1, <2>2
<1>5. SomeoneHolds => Fair(value, before, income, mint + fees)
  BY <1>4 DEF SomeoneHolds, before, mint
<1>6. SomeoneHolds => Fair(TotalVirtualStakedLamports, msol_supply, Income, msol_supply')
  BY <1>3, <1>5 DEF value, before
<1> QED
  BY <1>1, <1>3, <1>6 DEF Earns

(* update_active: the rewards are added to the active stake, and what else *)
(* was in the account to the reserve.                                      *)
LEMMA UpdateActiveEarns ==
  ASSUME Sound, Solvent, NEW s \in Stake, UpdateActive(s)
  PROVE  Earns
<1> DEFINE delegated == account[s].delegated
           extra     == account[s].extra
           rewards   == Monus(delegated, Recorded(s))
           slashed   == Monus(Recorded(s), delegated)
           total     == SyncedVirtual(extra)
           extra_fee == MintProtocolFees(extra, total, msol_mint_supply)
           fee       == MintProtocolFees(rewards, total, msol_mint_supply + extra_fee)
<1>1. /\ available_reserve_balance' = Synced + extra
      /\ msol_mint_supply' = msol_mint_supply + extra_fee + fee
      /\ msol_supply' = msol_mint_supply'
      /\ total_active_balance' = total_active_balance + rewards - slashed
      /\ UNCHANGED <<coolingVars, ticketVars>>
  BY DEF UpdateActive
<1>2. /\ TypeOK /\ Recorded(s) \in Nat /\ delegated \in Nat /\ extra \in Nat
      /\ Recorded(s) <= delegated
      /\ msol_mint_supply \in Nat /\ TotalCoolingDown \in Nat
      /\ total_active_balance \in Nat /\ available_reserve_balance \in Nat
  BY SoundVault, RecordFields, TotalsType DEF Sound, NotSlashed, TypeOK
<1> HIDE DEF delegated, extra
<1>3. rewards \in Nat /\ slashed = 0
  BY <1>2 DEF Monus
<1> HIDE DEF rewards, slashed
<1>4. PICK found \in Nat : /\ Synced = available_reserve_balance + found
                           /\ total = TotalVirtualStakedLamports + found + extra
  BY <1>2, SyncedPrice
<1>5. total \in Nat
  BY <1>2, <1>4, SoundVault
<1> HIDE DEF total
<1>6. /\ extra_fee \in Nat
      /\ msol_mint_supply = 0 \/ total = 0 => extra_fee <= extra
      /\ msol_mint_supply > 0 => extra_fee * total <= extra * msol_mint_supply
  BY <1>2, <1>5, FeeWorth
<1> HIDE DEF extra_fee
<1>7. /\ fee \in Nat
      /\ msol_mint_supply + extra_fee = 0 \/ total = 0 => fee <= rewards
      /\ msol_mint_supply + extra_fee > 0
           => fee * total <= rewards * (msol_mint_supply + extra_fee)
  <2>1. msol_mint_supply + extra_fee \in Nat
    BY <1>2, <1>6
  <2> QED
    BY <1>2, <1>3, <1>5, <2>1, FeeWorth
<1> HIDE DEF fee
<1>8. TotalLamportsUnderControl' = TotalLamportsUnderControl + (found + extra + rewards)
  <2>1. TotalCoolingDown' = TotalCoolingDown
    BY <1>1 DEF TotalCoolingDown, coolingVars
  <2> QED
    BY <1>1, <1>2, <1>3, <1>4, <2>1 DEF TotalLamportsUnderControl
<1> QED
  BY <1>1, <1>2, <1>3, <1>4, <1>5, <1>6, <1>7, <1>8, UpdateEarns

(* update_deactivated: what was recorded leaves the books and enters the   *)
(* reserve, with the rest of the account.                                  *)
LEMMA UpdateDeactivatedEarns ==
  ASSUME Sound, Solvent, NEW s \in Stake, UpdateDeactivated(s)
  PROVE  Earns
<1> DEFINE balance == account[s].delegated + account[s].extra
           rewards == Monus(balance, Recorded(s))
           total   == SyncedVirtual(0)
           fee     == MintProtocolFees(rewards, total, msol_mint_supply)
<1>1. /\ available_reserve_balance' = Synced + balance
      /\ msol_mint_supply' = msol_mint_supply + fee
      /\ msol_supply' = msol_mint_supply'
      /\ UNCHANGED ticketVars
  BY DEF UpdateDeactivated
<1>2. /\ TypeOK /\ Recorded(s) \in Nat /\ balance \in Nat /\ Recorded(s) <= balance
      /\ msol_mint_supply \in Nat
      /\ delayed_unstake_cooling_down \in Nat /\ emergency_cooling_down \in Nat
      /\ total_active_balance \in Nat /\ available_reserve_balance \in Nat
  <2>1. /\ TypeOK /\ Recorded(s) \in Nat /\ Recorded(s) <= account[s].delegated
        /\ account[s].delegated \in Nat /\ account[s].extra \in Nat
    BY SoundVault, RecordFields DEF Sound, NotSlashed
  <2> QED
    BY <2>1 DEF TypeOK
<1> HIDE DEF balance
<1>3. rewards \in Nat /\ balance = Recorded(s) + rewards
  BY <1>2 DEF Monus
<1> HIDE DEF rewards
<1>4. PICK found \in Nat : /\ Synced = available_reserve_balance + found
                           /\ total = TotalVirtualStakedLamports + found + 0
  BY SyncedPrice
<1>5. total \in Nat
  BY <1>4, SoundVault
<1> HIDE DEF total
<1>6. /\ fee \in Nat
      /\ msol_mint_supply = 0 \/ total = 0 => fee <= rewards
      /\ msol_mint_supply > 0 => fee * total <= rewards * msol_mint_supply
  BY <1>2, <1>3, <1>5, FeeWorth
<1> HIDE DEF fee
<1>7. TotalLamportsUnderControl' = TotalLamportsUnderControl + (found + 0 + rewards)
  <2>1. total_active_balance' + TotalCoolingDown'
          = total_active_balance + TotalCoolingDown - Recorded(s)
    <3>1. Leaves(s)
      BY <1>2, UpdateDeactivatedLeaves DEF Sound, Books
    <3>2. CASE Is(s, "Active")
      <4>1. total_active_balance' = total_active_balance + (-Recorded(s)) /\ UNCHANGED coolingVars
        BY <3>1, <3>2 DEF Leaves, Balances
      <4> QED
        BY <1>2, <4>1 DEF TotalCoolingDown, coolingVars
    <3>3. CASE ~Is(s, "Active")
      <4>1. /\ total_active_balance' = total_active_balance + 0
            /\ \/ /\ emergency_cooling_down' = emergency_cooling_down - Recorded(s)
                  /\ UNCHANGED delayed_unstake_cooling_down
               \/ /\ delayed_unstake_cooling_down' = delayed_unstake_cooling_down - Recorded(s)
                  /\ UNCHANGED emergency_cooling_down
        BY <3>1, <3>3 DEF Leaves, Balances
      <4> QED
        BY <1>2, <4>1 DEF TotalCoolingDown
    <3> QED
      BY <3>2, <3>3
  <2>2. /\ TotalCoolingDown \in Nat /\ TotalCoolingDown' \in Nat
        /\ total_active_balance' \in Nat
    <3>1. TypeOK'
      BY <1>2, UpdateDeactivatedType
    <3>2. /\ delayed_unstake_cooling_down' \in Nat /\ emergency_cooling_down' \in Nat
          /\ total_active_balance' \in Nat
      BY <3>1 DEF TypeOK
    <3>3. TotalCoolingDown' \in Nat
      <4>1. \A a, b \in Nat : a + b \in Nat
        OBVIOUS
      <4> QED
        BY <3>2, <4>1, Zenon DEF TotalCoolingDown
    <3>4. TotalCoolingDown \in Nat
      BY <1>2, TotalsType
    <3> QED
      BY <3>2, <3>3, <3>4
  <2> QED
    BY <1>1, <1>2, <1>3, <1>4, <2>1, <2>2 DEF TotalLamportsUnderControl
<1> DEFINE none == 0
<1>8. /\ none \in Nat /\ none <= none
      /\ msol_mint_supply > 0 => none * total <= none * msol_mint_supply
      /\ msol_mint_supply + none = msol_mint_supply
      /\ msol_supply' = msol_mint_supply + none + fee
  BY <1>1, <1>2, <1>5, <1>6
<1>9. /\ total = TotalVirtualStakedLamports + found + none
      /\ TotalLamportsUnderControl' = TotalLamportsUnderControl + (found + none + rewards)
  BY <1>4, <1>7
<1> HIDE DEF none
<1>10. /\ msol_mint_supply + none = 0 \/ total = 0 => fee <= rewards
       /\ msol_mint_supply + none > 0 => fee * total <= rewards * (msol_mint_supply + none)
  BY <1>6, <1>8
<1> QED
  BY <1>1, <1>3, <1>4, <1>5, <1>6, <1>8, <1>9, <1>10, UpdateEarns

(* What the users' conversions give is worth no more than what they take.  *)
LEMMA PricesWorth ==
  ASSUME TypeOK, NEW amount \in Nat
  PROVE  /\ CalcMsolFromLamports(amount) \in Nat
         /\ msol_supply = 0 => CalcMsolFromLamports(amount) = amount
         /\ msol_supply > 0 => CalcMsolFromLamports(amount) * TotalVirtualStakedLamports
                                 <= amount * msol_supply
         /\ msol_supply > 0 /\ TotalVirtualStakedLamports > 0
              => amount * msol_supply
                   < (CalcMsolFromLamports(amount) + 1) * TotalVirtualStakedLamports
         /\ MsolToSol(amount) \in Nat
         /\ msol_supply > 0 => MsolToSol(amount) * msol_supply
                                 <= amount * TotalVirtualStakedLamports
         /\ msol_supply = 0 => MsolToSol(amount) = amount
<1>1. msol_supply \in Nat /\ TotalVirtualStakedLamports \in Nat
  BY TotalsType DEF TypeOK
<1>2. /\ CalcMsolFromLamports(amount)
           = SharesFromValue(amount, TotalVirtualStakedLamports, msol_supply)
      /\ MsolToSol(amount)
           = ValueFromShares(amount, TotalVirtualStakedLamports, msol_supply)
  BY DEF CalcMsolFromLamports, MsolToSol
<1>3. msol_supply = 0 => MsolToSol(amount) = amount
  BY DEF MsolToSol, ValueFromShares, Proportional
<1>4. msol_supply > 0 => /\ MsolToSol(amount) \in Nat
                         /\ MsolToSol(amount) * msol_supply
                              <= amount * TotalVirtualStakedLamports
  BY <1>1, <1>2, ValueWorth
<1> DEFINE given == SharesFromValue(amount, TotalVirtualStakedLamports, msol_supply)
           value == TotalVirtualStakedLamports
<1>5. /\ given \in Nat
      /\ msol_supply = 0 => given = amount
      /\ msol_supply > 0 => given * value <= amount * msol_supply
      /\ msol_supply > 0 /\ value > 0 => amount * msol_supply < (given + 1) * value
  <2> HIDE DEF value
  <2> QED
    BY <1>1, SharesWorth DEF value
<1>6. CalcMsolFromLamports(amount) = given
  BY <1>2
<1>7. MsolToSol(amount) \in Nat
  BY PricesType
<1> HIDE DEF given
<1> QED
  BY <1>3, <1>4, <1>5, <1>6, <1>7, Zenon DEF value

(* deposit: the reserve receives what the minted mSOL costs; what the pool *)
(* sells is paid to the pool.                                              *)
LEMMA DepositEarns ==
  ASSUME Sound, Solvent, NEW lamports \in DepositAmounts, Deposit(lamports)
  PROVE  Earns
<1> DEFINE fee           == ApplyFeeCents(config.deposit_sol_fee, lamports)
           net           == Monus(lamports, fee)
           buy_order     == CalcMsolFromLamports(net)
           msol_swapped  == Lesser(buy_order, msol_leg)
           sol_swapped   == IF msol_swapped = 0 THEN 0
                            ELSE IF msol_swapped = buy_order THEN lamports
                            ELSE MsolToSol(msol_swapped)
           sol_deposited == lamports - sol_swapped
           minted        == buy_order - msol_swapped
           value         == TotalVirtualStakedLamports
           before        == msol_supply
<1>1. /\ sol_deposited >= 0
      /\ available_reserve_balance' = available_reserve_balance + sol_deposited
      /\ msol_supply' = before + minted
      /\ UNCHANGED <<total_active_balance, coolingVars, ticketVars>>
  BY DEF Deposit, OnTransferToReserve, OnMsolMint, validatorVars
<1>2. /\ TypeOK /\ lamports \in Nat /\ value \in Nat /\ before \in Nat
      /\ msol_leg \in Nat /\ msol_leg <= before
      /\ available_reserve_balance \in Nat /\ total_active_balance \in Nat
      /\ TotalCoolingDown \in Nat
  BY SoundVault, UsersAssumption, TotalsType DEF Sound, MintCovered, TypeOK
<1>3. net \in Nat /\ net <= lamports
  <2>1. fee \in Nat
    BY <1>2, UserFees
  <2> HIDE DEF fee
  <2> QED
    BY <1>2, <2>1 DEF Monus
<1> HIDE DEF net
<1>4. /\ buy_order \in Nat
      /\ before = 0 => buy_order = net
      /\ before > 0 => buy_order * value <= net * before
  BY <1>2, <1>3, PricesWorth
<1> HIDE DEF buy_order
<1>5. msol_swapped \in Nat /\ msol_swapped <= msol_leg /\ msol_swapped <= buy_order
  BY <1>2, <1>4 DEF Lesser
<1> HIDE DEF msol_swapped
<1>6. /\ MsolToSol(msol_swapped) \in Nat
      /\ before > 0 => MsolToSol(msol_swapped) * before <= msol_swapped * value
  BY <1>2, <1>5, PricesWorth
<1>7. /\ sol_swapped \in Nat
      /\ \/ msol_swapped = 0 /\ sol_swapped = 0
         \/ msol_swapped = buy_order /\ sol_swapped = lamports
         \/ msol_swapped > 0 /\ sol_swapped = MsolToSol(msol_swapped)
  BY <1>2, <1>5, <1>6
<1> HIDE DEF sol_swapped
<1>8. /\ sol_deposited \in Nat /\ minted \in Nat
      /\ lamports = sol_deposited + sol_swapped /\ buy_order = minted + msol_swapped
  <2>1. minted \in Nat /\ buy_order = minted + msol_swapped
    BY <1>4, <1>5
  <2>2. lamports - sol_swapped >= 0
    BY <1>1
  <2>3. sol_deposited \in Nat /\ lamports = sol_deposited + sol_swapped
    BY <1>2, <1>7, <2>2
  <2> QED
    BY <2>1, <2>3
<1> HIDE DEF sol_deposited, minted, value, before
<1>9. ASSUME before = 0 PROVE minted <= sol_deposited
  <2>1. msol_swapped = 0 /\ minted = buy_order /\ buy_order <= lamports
    BY <1>2, <1>3, <1>4, <1>5, <1>8, <1>9
  <2>2. sol_swapped = 0 \/ minted = 0
    BY <1>7, <2>1
  <2> QED
    BY <1>2, <1>7, <1>8, <2>1, <2>2
<1>10. ASSUME before > 0 PROVE minted * value <= sol_deposited * before
  <2>1. /\ buy_order * value = minted * value + msol_swapped * value
        /\ lamports * before = sol_deposited * before + sol_swapped * before
        /\ minted * value \in Nat /\ msol_swapped * value \in Nat
        /\ sol_deposited * before \in Nat /\ sol_swapped * before \in Nat
        /\ buy_order * value \in Nat /\ net * before \in Nat /\ lamports * before \in Nat
    BY <1>2, <1>3, <1>4, <1>5, <1>7, <1>8
  <2>2. net * before <= lamports * before
    BY <1>2, <1>3, VP!Scale
  <2>3. buy_order * value <= lamports * before
    BY <1>4, <1>10, <2>1, <2>2
  <2>4. CASE msol_swapped = 0 /\ sol_swapped = 0
    <3>1. msol_swapped * value = 0 /\ sol_swapped * before = 0
      BY <1>2, <2>4
    <3> QED
      BY <2>1, <2>3, <3>1
  <2>5. CASE msol_swapped = buy_order /\ sol_swapped = lamports
    <3>1. minted = 0 /\ sol_deposited = 0
      BY <1>2, <1>8, <1>5, <2>5
    <3>2. minted * value = 0 /\ sol_deposited * before = 0
      BY <1>2, <3>1
    <3> QED
      BY <3>2
  <2>6. CASE msol_swapped > 0 /\ sol_swapped = MsolToSol(msol_swapped)
    <3>1. sol_swapped * before <= msol_swapped * value
      BY <1>6, <1>10, <2>6
    <3> QED
      BY <2>1, <2>3, <3>1
  <2> QED
    BY <1>7, <2>4, <2>5, <2>6
<1>11. Fair(value, before, sol_deposited, before + minted)
  BY <1>2, <1>8, <1>9, <1>10, GivenFairly
<1>12. /\ TotalLamportsUnderControl' \in Nat /\ Income = sol_deposited
  <2>1. TotalCoolingDown' = TotalCoolingDown
    BY <1>1 DEF TotalCoolingDown, coolingVars
  <2> QED
    BY <1>1, <1>2, <1>8, <2>1 DEF Income, TotalLamportsUnderControl
<1>13. Fair(TotalVirtualStakedLamports, msol_supply, Income, msol_supply')
  BY <1>1, <1>11, <1>12 DEF value, before
<1>14. msol_supply' \in Nat
  BY <1>1, <1>2, <1>8
<1> QED
  BY <1>1, <1>8, <1>12, <1>13, <1>14 DEF Earns

(* deposit_stake_account: the delegation comes under control, for mSOL at  *)
(* its price.                                                              *)
LEMMA DepositStakeAccountEarns ==
  ASSUME Sound, Solvent, NEW s \in Stake, NEW v \in Validator, NEW delegated \in UserStakes,
         NEW activation \in Activation, DepositStakeAccount(s, v, delegated, activation)
  PROVE  Earns
<1> DEFINE fee    == ApplyFeeCents(config.deposit_stake_account_fee, delegated)
           net    == Monus(delegated, fee)
           minted == CalcMsolFromLamports(net)
           value  == TotalVirtualStakedLamports
           before == msol_supply
<1>1. /\ msol_supply' = before + minted
      /\ total_active_balance' = total_active_balance + delegated
      /\ UNCHANGED <<available_reserve_balance, coolingVars, ticketVars>>
  BY DEF DepositStakeAccount, MintForStake, OnMsolMint, CountDeposited, reserveVars
<1>2. /\ TypeOK /\ delegated \in Nat /\ value \in Nat /\ before \in Nat
      /\ available_reserve_balance \in Nat /\ total_active_balance \in Nat
      /\ TotalCoolingDown \in Nat
  BY SoundVault, UsersAssumption, TotalsType DEF TypeOK
<1>3. net \in Nat /\ net <= delegated
  <2>1. fee \in Nat
    BY <1>2, UserFees
  <2> HIDE DEF fee
  <2> QED
    BY <1>2, <2>1 DEF Monus
<1> HIDE DEF net
<1>4. /\ minted \in Nat
      /\ before = 0 => minted = net
      /\ before > 0 => minted * value <= net * before
  BY <1>2, <1>3, PricesWorth
<1> HIDE DEF minted, value, before
<1>5. net * before <= delegated * before
  BY <1>2, <1>3, VP!Scale
<1>6. /\ before = 0 => minted <= delegated
      /\ before > 0 => minted * value <= delegated * before
  <2>1. minted * value \in Nat /\ net * before \in Nat /\ delegated * before \in Nat
    BY <1>2, <1>3, <1>4
  <2> QED
    BY <1>2, <1>3, <1>4, <1>5, <2>1
<1>7. Fair(value, before, delegated, before + minted)
  BY <1>2, <1>4, <1>6, GivenFairly
<1>8. /\ TotalLamportsUnderControl' \in Nat /\ Income = delegated
  <2>1. TotalCoolingDown' = TotalCoolingDown
    BY <1>1 DEF TotalCoolingDown, coolingVars
  <2> QED
    BY <1>1, <1>2, <2>1 DEF Income, TotalLamportsUnderControl
<1>9. Fair(TotalVirtualStakedLamports, msol_supply, Income, msol_supply')
  BY <1>1, <1>7, <1>8 DEF value, before
<1>10. msol_supply' \in Nat
  BY <1>1, <1>2, <1>4
<1> QED
  BY <1>1, <1>2, <1>8, <1>9, <1>10 DEF Earns

-----------------------------------------------------------------------------
(* The steps that owe, pay or give back.                                   *)

(* What mSOL is exchanged for, less any fee, is no more than it is worth,  *)
(* and nothing for nothing.                                                *)
LEMMA ExchangeWorth ==
  ASSUME Sound, NEW msol \in Nat, msol <= UserMsol, NEW fee \in Nat, fee <= MsolToSol(msol)
  PROVE  LET lamports == MsolToSol(msol) - fee
         IN /\ lamports \in Nat
            /\ msol <= msol_supply
            /\ lamports > 0 => msol_supply > 0 /\ msol > 0
            /\ lamports * msol_supply <= msol * TotalVirtualStakedLamports
            /\ lamports > 0 => lamports <= TotalVirtualStakedLamports
<1> DEFINE value == TotalVirtualStakedLamports
           shares == msol_supply
           worth == MsolToSol(msol)
           lamports == worth - fee
<1>1. /\ TypeOK /\ value \in Nat /\ shares \in Nat /\ msol <= shares
  <2>1. /\ msol_leg \in Nat /\ msol_mint_supply \in Nat /\ shares \in Nat
        /\ msol_mint_supply <= shares /\ msol <= msol_mint_supply - msol_leg
    BY SoundVault DEF Sound, MintCovered, UserMsol
  <2> QED
    BY <2>1, SoundVault
<1>2. /\ worth \in Nat
      /\ shares > 0 => worth * shares <= msol * value
      /\ shares = 0 => worth = msol
  BY <1>1, PricesWorth
<1> HIDE DEF value, shares, worth
<1>3. lamports \in Nat /\ lamports <= worth
  BY <1>2 DEF worth
<1> HIDE DEF lamports
<1>4. CASE shares = 0
  <2>1. lamports = 0 /\ msol = 0
    BY <1>1, <1>2, <1>3, <1>4
  <2>2. lamports * shares = 0 /\ msol * value = 0
    BY <1>1, <1>4, <2>1
  <2> QED
    BY <1>1, <1>3, <2>1, <2>2 DEF lamports, worth, shares, value
<1>5. CASE shares > 0
  <2>1. lamports * shares <= worth * shares
    BY <1>1, <1>2, <1>3, VP!Scale
  <2>2. /\ lamports * shares \in Nat /\ worth * shares \in Nat /\ msol * value \in Nat
        /\ shares * value \in Nat
    BY <1>1, <1>2, <1>3
  <2>3. lamports * shares <= msol * value
    BY <1>2, <1>5, <2>1, <2>2
  <2>4. msol * value <= shares * value
    BY <1>1, VP!Scale
  <2>5. lamports * shares <= value * shares
    <3>1. shares * value = value * shares
      BY <1>1
    <3> QED
      BY <2>2, <2>3, <2>4, <3>1
  <2>6. lamports <= value
    BY <1>1, <1>3, <1>5, <2>5, VP!Cancel
  <2>7. ASSUME msol = 0 PROVE lamports = 0
    <3>1. msol * value = 0
      BY <1>1, <2>7
    <3>2. 0 * shares = 0
      BY <1>1
    <3>3. lamports * shares <= 0 * shares
      BY <2>2, <2>3, <3>1, <3>2
    <3>4. shares \in Nat \ {0} /\ 0 \in Nat
      BY <1>1, <1>5
    <3>5. lamports <= 0
      BY <1>3, <3>3, <3>4, VP!Cancel
    <3> QED
      BY <1>3, <3>5
  <2>8. lamports > 0 => msol > 0
    BY <1>3, <2>7
  <2> QED
    BY <1>1, <1>3, <1>5, <2>3, <2>6, <2>8 DEF lamports, worth, shares, value
<1> QED
  BY <1>1, <1>4, <1>5

(* What one ticket is owed changes.                                        *)
LEMMA OneDebt ==
  ASSUME TypeOK, NEW t \in Ticket, NEW record \in TicketRecord,
         ticket' = [ticket EXCEPT ![t] = record]
  PROVE  LET owed == [u \in Ticket |-> ticket[u].lamports_amount]
         IN /\ owed' = [owed EXCEPT ![t] = record.lamports_amount]
            /\ owed[t] = ticket[t].lamports_amount
            /\ owed'[t] = record.lamports_amount
BY DEF TypeOK

(* order_unstake: a ticket over no more than the burned mSOL is worth.  A  *)
(* ticket over nothing is no debt: the mSOL is simply struck off.          *)
LEMMA OrderUnstakeOrders ==
  ASSUME Sound, Solvent, NEW t \in Ticket, NEW msol_amount \in MsolAmounts,
         OrderUnstake(t, msol_amount)
  PROVE  V!Receive \/ V!Order(t)
<1> DEFINE sol_value == MsolToSol(msol_amount)
           fee       == ApplyFeeCents(config.delayed_unstake_fee, sol_value)
           lamports  == sol_value - fee
           created   == CreatedEpoch
           record    == [open |-> TRUE, lamports_amount |-> lamports, created_epoch |-> created]
           owed      == [u \in Ticket |-> ticket[u].lamports_amount]
           value     == TotalVirtualStakedLamports
<1>1. /\ ~ticket[t].open /\ msol_amount <= UserMsol
      /\ circulating_ticket_balance' = circulating_ticket_balance + lamports
      /\ circulating_ticket_count' = circulating_ticket_count + 1
      /\ msol_supply' = msol_supply - msol_amount
      /\ ticket' = [ticket EXCEPT ![t] = record]
      /\ UNCHANGED <<available_reserve_balance, total_active_balance, coolingVars>>
  BY DEF OrderUnstake, OnMsolBurn, reserveVars, validatorVars
<1>2. /\ TypeOK /\ msol_amount \in Nat /\ value \in Nat /\ msol_supply \in Nat
      /\ TotalLamportsUnderControl \in Nat /\ V!Value = value /\ created \in Nat
  BY SoundVault, UsersAssumption DEF TypeOK, CreatedEpoch
<1> HIDE DEF created
<1>3. fee \in Nat /\ fee <= sol_value
  <2>1. sol_value \in Nat
    BY <1>2, PricesType
  <2> HIDE DEF sol_value
  <2> QED
    BY <1>2, <2>1, UserFees
<1> HIDE DEF fee
<1>4. /\ lamports \in Nat /\ msol_amount <= msol_supply
      /\ lamports > 0 => msol_supply > 0 /\ msol_amount > 0
      /\ lamports * msol_supply <= msol_amount * value
  BY <1>1, <1>2, <1>3, ExchangeWorth
<1> HIDE DEF lamports, value
<1>5. record \in TicketRecord /\ record.lamports_amount = lamports
  BY <1>2, <1>4 DEF TicketRecord
<1> HIDE DEF record
<1>6. /\ owed' = [owed EXCEPT ![t] = lamports] /\ owed'[t] = lamports
      /\ owed[t] = ticket[t].lamports_amount
  BY <1>1, <1>2, <1>5, OneDebt
<1>7. ticket[t].lamports_amount = 0
  BY <1>1 DEF Sound, TicketBooks, OpenTickets, ClosedTicket
<1>8. UNCHANGED TotalLamportsUnderControl
  BY <1>1 DEF TotalLamportsUnderControl, TotalCoolingDown, coolingVars
<1>9. /\ msol_supply' \in 0..msol_supply
      /\ lamports > 0 => msol_supply' \in 0..(msol_supply - 1)
      /\ msol_supply - msol_supply' = msol_amount
  BY <1>1, <1>2, <1>4
<1>10. CASE lamports > 0
  <2>1. /\ owed[t] = 0 /\ owed'[t] \in Nat \ {0}
        /\ owed' = [owed EXCEPT ![t] = owed'[t]]
        /\ msol_supply' \in 0..(msol_supply - 1)
        /\ owed'[t] * msol_supply <= (msol_supply - msol_supply') * V!Value
        /\ UNCHANGED TotalLamportsUnderControl
    <3> HIDE DEF owed
    <3>1. owed'[t] = lamports /\ lamports \in Nat \ {0} /\ owed[t] = 0
      BY <1>4, <1>6, <1>7, <1>10
    <3>2. owed'[t] * msol_supply <= (msol_supply - msol_supply') * V!Value
      BY <1>2, <1>4, <1>9, <3>1, Zenon
    <3> QED
      BY <1>6, <1>8, <1>9, <1>10, <3>1, <3>2
  <2> QED
    BY <2>1, Zenon DEF V!Order, owed
<1>11. CASE lamports = 0
  <2> HIDE DEF owed
  <2>1. owed' = owed
    <3>1. owed \in [Ticket -> Nat]
      BY <1>2 DEF owed, TicketRecord, TypeOK
    <3> QED
      BY <1>6, <1>7, <1>11, <3>1
  <2>2. /\ UNCHANGED owed
        /\ TotalLamportsUnderControl' \in Nat
        /\ TotalLamportsUnderControl' >= TotalLamportsUnderControl
        /\ msol_supply' \in Nat /\ msol_supply' <= msol_supply
    BY <1>2, <1>8, <1>9, <2>1
  <2> QED
    BY <2>2 DEF V!Receive, owed
<1> QED
  BY <1>4, <1>10, <1>11

(* claim: the ticket is paid what it is over.                              *)
LEMMA ClaimPays ==
  ASSUME TypeOK, NEW t \in Ticket, Claim(t)
  PROVE  V!Pay(t)
<1> DEFINE owed   == [u \in Ticket |-> ticket[u].lamports_amount]
           amount == ticket[t].lamports_amount
<1>1. /\ amount # 0
      /\ ticket' = [ticket EXCEPT ![t] = ClosedTicket]
      /\ available_reserve_balance' = available_reserve_balance - amount
      /\ UNCHANGED <<total_active_balance, coolingVars, msol_supply>>
  BY DEF Claim, TicketDue, CloseTicket, OnTransferFromReserve, validatorVars, msolVars
<1>2. /\ amount \in Nat \ {0} /\ total_active_balance \in Nat
      /\ delayed_unstake_cooling_down \in Nat /\ emergency_cooling_down \in Nat
      /\ available_reserve_balance \in Nat
  BY <1>1 DEF TypeOK, TicketRecord
<1>3. ClosedTicket \in TicketRecord /\ ClosedTicket.lamports_amount = 0
  BY DEF ClosedTicket, TicketRecord
<1>4. owed' = [owed EXCEPT ![t] = 0] /\ owed[t] = amount
  BY <1>1, <1>3, OneDebt
<1> HIDE DEF owed, amount
<1>5. TotalLamportsUnderControl' = TotalLamportsUnderControl - amount
  BY <1>1, <1>2 DEF TotalLamportsUnderControl, TotalCoolingDown, coolingVars
<1>6. /\ owed[t] > 0
      /\ TotalLamportsUnderControl' = TotalLamportsUnderControl - owed[t]
      /\ owed' = [owed EXCEPT ![t] = 0]
      /\ UNCHANGED msol_supply
  BY <1>1, <1>2, <1>4, <1>5
<1> QED
  BY <1>6, Zenon DEF V!Pay, owed

(* withdraw_stake_account: the stake that leaves is worth less than the    *)
(* mSOL burned for it and one unit more.                                   *)
LEMMA WithdrawStakeAccountRedeems ==
  ASSUME Sound, Solvent, NEW s \in Stake, NEW msol_amount \in MsolAmounts,
         WithdrawStakeAccount(s, msol_amount)
  PROVE  V!Redeem
<1> DEFINE sol_value == MsolToSol(msol_amount)
           fee       == ApplyFeeCents(config.withdraw_stake_account_fee, sol_value)
           split     == sol_value - fee
           price     == CalcMsolFromLamports(split)
           fees      == WithdrawFees(msol_amount)
           burned    == msol_amount - fees
           value     == TotalVirtualStakedLamports
           shares    == msol_supply
           assets    == TotalLamportsUnderControl
<1>1. /\ msol_amount <= UserMsol
      /\ split >= config.min_stake
      /\ burned <= msol_supply
      /\ msol_supply' = msol_supply - burned
      /\ split <= total_active_balance
      /\ total_active_balance' = total_active_balance - split
      /\ UNCHANGED <<coolingVars, available_reserve_balance, ticketVars>>
  BY DEF WithdrawStakeAccount, SplitToUser, SplitLamports, OnMsolBurn, MovableFrom, reserveVars
<1>2. /\ TypeOK /\ msol_amount \in Nat /\ value \in Nat /\ shares \in Nat /\ assets \in Nat
      /\ config.min_stake \in Nat \ {0}
      /\ V!Value = value /\ value <= assets
      /\ total_active_balance \in Nat
      /\ delayed_unstake_cooling_down \in Nat /\ emergency_cooling_down \in Nat
      /\ available_reserve_balance \in Nat
  <2>1. /\ TypeOK /\ value \in Nat /\ shares \in Nat /\ assets \in Nat
        /\ V!Value = value /\ assets = value + circulating_ticket_balance
        /\ circulating_ticket_balance \in Nat
    BY SoundVault
  <2>2. value <= assets
    BY <2>1
  <2> QED
    BY <2>1, <2>2, UsersAssumption DEF TypeOK, Config
<1>3. fee \in Nat /\ fee <= sol_value
  <2>1. sol_value \in Nat
    BY <1>2, PricesType
  <2> HIDE DEF sol_value
  <2> QED
    BY <1>2, <2>1, UserFees
<1> HIDE DEF fee
<1>4. /\ split \in Nat /\ msol_amount <= shares
      /\ split > 0 => shares > 0 /\ msol_amount > 0
      /\ split * shares <= msol_amount * value
      /\ split > 0 => split <= value
  BY <1>1, <1>2, <1>3, ExchangeWorth
<1>5. fees = IF TreasuryReady THEN Monus(msol_amount, price) ELSE 0
  BY DEF WithdrawFees, SplitLamports, fee
<1> HIDE DEF split, fees
<1>6. split > 0 /\ shares > 0 /\ msol_amount > 0 /\ split <= value /\ value > 0
  BY <1>1, <1>2, <1>4
<1>7. price \in Nat /\ split * shares < (price + 1) * value
  BY <1>2, <1>4, <1>6, PricesWorth
<1> HIDE DEF price
<1>8. assets' = assets - split
  BY <1>1, <1>2, <1>4 DEF TotalLamportsUnderControl, TotalCoolingDown, coolingVars
<1> HIDE DEF value, assets
<1>9. burned \in Nat /\ (burned = msol_amount \/ burned = price)
  BY <1>2, <1>5, <1>7 DEF Monus
<1>10. split * shares < (burned + 1) * value
  <2>1. CASE burned = msol_amount
    <3>1. (msol_amount + 1) * value = msol_amount * value + value
      BY <1>2
    <3>2. split * shares \in Nat /\ msol_amount * value \in Nat
      BY <1>2, <1>4
    <3>3. split * shares < (msol_amount + 1) * value
      BY <1>2, <1>4, <1>6, <3>1, <3>2
    <3> QED
      BY <2>1, <3>3
  <2>2. CASE burned = price
    BY <1>7, <2>2
  <2> QED
    BY <1>9, <2>1, <2>2
<1>11. /\ UNCHANGED ticketVars
       /\ burned <= shares /\ shares' = shares - burned
  BY <1>1
<1> HIDE DEF burned, shares
<1>12. /\ shares > 0 /\ shares' \in 0..shares
       /\ shares - shares' = burned
  BY <1>2, <1>6, <1>9, <1>11
<1>13. /\ assets' \in Nat /\ assets' < assets /\ assets - assets' = split
  BY <1>2, <1>4, <1>6, <1>8
<1>14. (assets - assets') * shares < (shares - shares' + 1) * V!Value
  BY <1>2, <1>10, <1>12, <1>13, Zenon
<1>15. assets - assets' <= V!Value
  BY <1>2, <1>6, <1>13, Zenon
<1> QED
  BY <1>11, <1>12, <1>13, <1>14, <1>15, Zenon DEF V!Redeem, ticketVars, assets, shares

-----------------------------------------------------------------------------
(* Every step is one of the vault.                                         *)

\* The one instruction that rounds against the holders.
Withdraws ==
  \E s \in Stake, msol_amount \in MsolAmounts : WithdrawStakeAccount(s, msol_amount)

\* What the vault sees of a step that trades with users.
Trades ==
  \/ V!Receive
  \/ \E t \in Ticket : V!Order(t) \/ V!Pay(t)
  \/ Withdraws /\ V!Redeem

(* The instructions of the crank stay, or earn the rewards and tips that   *)
(* they collect.                                                           *)
LEMMA CrankStays == ASSUME Sound, Solvent, CrankStep PROVE Stays \/ Earns
<1>1. TypeOK /\ Upgraded
  BY DEF Sound, Books
<1>2. ASSUME NEW batch \in SUBSET Validator, FinalizeDelinquentUpgrade(batch) PROVE FALSE
  BY <1>1, <1>2 DEF FinalizeDelinquentUpgrade, Upgraded, UpgradeDone
<1>3. ASSUME NEW s \in Stake, UpdateActive(s) \/ UpdateDeactivated(s) PROVE Earns
  BY <1>3, UpdateActiveEarns, UpdateDeactivatedEarns
<1>4. ASSUME NEW v \in Validator, NEW s \in Stake, MergeStakes(v, s) PROVE Earns
  BY <1>4, MergeStakesEarns
<1>5. ASSUME NEW v \in Validator, NEW s \in Stake,
             StakeReserve(v, s) \/ SpendExtraRun(v) \/ CreateCanonicalStake(v, s)
      PROVE  Stays
  BY <1>1, <1>5, StakeReserveStays, IdleCrankStays
<1>6. ASSUME NEW v \in Validator, SpendExtraRun(v) PROVE Stays
  BY <1>6, IdleCrankStays
<1>7. ASSUME NEW s \in Stake, NEW new \in Stake, DeactivateStake(s, new) PROVE Stays
  BY <1>1, <1>7, DeactivateStakeStays
<1> QED
  BY <1>2, <1>3, <1>4, <1>5, <1>6, <1>7 DEF CrankStep

(* The instructions of the users earn, or trade.                           *)
LEMMA UsersTrade == ASSUME Sound, Solvent, UserStep PROVE Earns \/ Trades
<1>1. TypeOK
  BY DEF Sound, Books
<1>2. ASSUME NEW lamports \in DepositAmounts, Deposit(lamports) PROVE Earns
  BY <1>2, DepositEarns
<1>3. ASSUME NEW s \in Stake, NEW v \in Validator, NEW delegated \in UserStakes,
             NEW activation \in Activation, DepositStakeAccount(s, v, delegated, activation)
      PROVE  Earns
  BY <1>3, DepositStakeAccountEarns
<1>4. ASSUME NEW s \in Stake, NEW msol_amount \in MsolAmounts,
             WithdrawStakeAccount(s, msol_amount)
      PROVE  V!Redeem
  BY <1>4, WithdrawStakeAccountRedeems
<1>5. ASSUME NEW t \in Ticket, NEW msol_amount \in MsolAmounts, OrderUnstake(t, msol_amount)
      PROVE  V!Receive \/ V!Order(t)
  BY <1>5, OrderUnstakeOrders
<1>6. ASSUME NEW t \in Ticket, Claim(t) PROVE V!Pay(t)
  BY <1>1, <1>6, ClaimPays
<1> QED
  BY <1>2, <1>3, <1>4, <1>5, <1>6 DEF UserStep, Trades, Withdraws

(* All of them.                                                            *)
LEMMA StepsAreVaultSteps ==
  ASSUME Sound, Solvent, [Next]_vars
  PROVE  Stays \/ Earns \/ Trades
<1>1. TypeOK
  BY DEF Sound, Books
<1> QED
  BY <1>1, EnvironmentStays, CrankStays, UsersTrade, PoolAdminStays, ManagerStays DEF Next

(* What trades is a step of the vault; what earns is one, too, as long as  *)
(* somebody holds mSOL.                                                    *)
LEMMA VaultStep ==
  ASSUME Sound, Solvent, SomeoneHolds, [Next]_vars
  PROVE  [V!Next]_(V!vars)
<1>1. CASE Stays
  BY <1>1, StaysStutters
<1>2. CASE Earns
  BY <1>2, EarnsReceives DEF V!Next
<1>3. CASE Trades
  BY <1>3 DEF Trades, V!Next
<1> QED
  BY <1>1, <1>2, <1>3, StepsAreVaultSteps

-----------------------------------------------------------------------------
(* What the vault promises, of the program.                                *)

(* No step but a withdrawal of stake is a redemption.                      *)
LEMMA OthersKeepPrice ==
  ASSUME Sound, Solvent, SomeoneHolds, [Next]_vars, ~Withdraws
  PROVE  Keeps
<1>1. CASE Stays
  BY <1>1, StaysStutters DEF Keeps
<1>2. CASE Earns
  BY <1>2, EarnsReceives DEF Keeps
<1>3. CASE Trades
  BY <1>3 DEF Trades, Keeps
<1> QED
  BY <1>1, <1>2, <1>3, StepsAreVaultSteps

(* The vault after a step, when the books are sound.                       *)
LEMMA SoundVaultAfter ==
  ASSUME TypeOK', TicketBooks'
  PROVE  /\ Solvent' <=> VP!Solvent'
         /\ Solvent' => /\ VP!Value' = TotalVirtualStakedLamports'
                        /\ TotalVirtualStakedLamports' \in Nat
<1>1. /\ TotalLamportsUnderControl' \in Nat /\ circulating_ticket_balance' \in Nat
      /\ msol_supply' \in Nat
  <2>1. /\ total_active_balance' \in Nat /\ available_reserve_balance' \in Nat
        /\ delayed_unstake_cooling_down' \in Nat /\ emergency_cooling_down' \in Nat
        /\ circulating_ticket_balance' \in Nat /\ msol_supply' \in Nat
    BY DEF TypeOK
  <2>2. TotalLamportsUnderControl' = total_active_balance'
          + (delayed_unstake_cooling_down' + emergency_cooling_down')
          + available_reserve_balance'
    BY Zenon DEF TotalLamportsUnderControl, TotalCoolingDown
  <2>3. \A a, b, c, d \in Nat : a + (b + c) + d \in Nat
    OBVIOUS
  <2> QED
    BY <2>1, <2>2, <2>3, Zenon
<1>2. /\ Sum(TicketAmount)' = circulating_ticket_balance'
      /\ TicketAmount' \in [Ticket -> Nat]
  BY DEF TicketBooks, TicketAmount, TypeOK, TicketRecord
<1>3. /\ VP!Value' = TotalLamportsUnderControl' - circulating_ticket_balance'
      /\ VP!Solvent' <=> circulating_ticket_balance' <= TotalLamportsUnderControl'
  BY <1>1, <1>2, SameSums DEF VP!Value, VP!Solvent, TicketAmount
<1>4. Solvent' => /\ TotalVirtualStakedLamports'
                       = TotalLamportsUnderControl' - circulating_ticket_balance'
                  /\ TotalVirtualStakedLamports' \in Nat
  <2>1. \A all, claims \in Nat : claims <= all
          => (IF all >= claims THEN all - claims ELSE 0) = all - claims /\ all - claims \in Nat
    OBVIOUS
  <2> QED
    BY <1>1, <2>1, Zenon DEF Solvent, TotalVirtualStakedLamports, Monus
<1> QED
  BY <1>3, <1>4 DEF Solvent

(* A step leaves the tickets covered, whoever holds mSOL.                  *)
LEMMA SolventStays ==
  ASSUME Sound, Solvent, TypeOK', TicketBooks', [Next]_vars
  PROVE  Solvent'
<1>1. CASE Stays
  BY <1>1 DEF Stays, Solvent, ticketVars
<1>2. CASE Earns
  <2>1. /\ circulating_ticket_balance' = circulating_ticket_balance
        /\ circulating_ticket_balance <= TotalLamportsUnderControl
        /\ TotalLamportsUnderControl \in Nat /\ TotalLamportsUnderControl' \in Nat
        /\ TotalLamportsUnderControl' - TotalLamportsUnderControl \in Nat
        /\ circulating_ticket_balance \in Nat
    BY <1>2, SoundVault DEF Earns, Income, Solvent, ticketVars
  <2>2. \A before, after, claims \in Nat :
          claims <= before /\ after - before \in Nat => claims <= after
    OBVIOUS
  <2>3. circulating_ticket_balance' <= TotalLamportsUnderControl'
    BY <2>1, <2>2, Zenon
  <2> QED
    BY <2>3 DEF Solvent
<1>3. CASE Trades
  <2>1. [V!Next]_(V!vars)
    BY <1>3 DEF Trades, V!Next
  <2>2. VP!Solvent'
    BY <2>1, SoundVault, SameNext, TicketsFinite, VP!SolventStep
  <2> QED
    BY <2>2, SoundVaultAfter
<1> QED
  BY <1>1, <1>2, <1>3, StepsAreVaultSteps

(* The books are sound, and nothing is owed, from the first state on.      *)
LEMMA SoundHolds == ASSUME Slashes = {} PROVE Spec => []Sound
<1>1. Sound <=> /\ Books /\ (NotSlashed /\ Large(1)) /\ ReserveCovered /\ MintCovered
                /\ TicketBooks
  BY DEF Sound
<1> QED
  BY <1>1, BooksHold, NotSlashedHolds, ReserveAlwaysCovered, MintAlwaysCovered,
     TicketBooksHold, PTL

LEMMA SolventInit ==
  Init => Solvent /\ V!Init
BY DEF Init, Solvent, V!Init, TotalLamportsUnderControl, TotalCoolingDown, ClosedTicket

(* The outstanding tickets never claim more than the program controls, so  *)
(* claim can pay each of them when its lamports are back in the reserve    *)
(* (claim.rs), and the saturating subtraction of                           *)
(* total_virtual_staked_lamports never saturates (state/mod.rs), for a     *)
(* stake program that does not slash.                                      *)
THEOREM StaysSolvent == ASSUME Slashes = {} PROVE Spec => []Solvent
<1>1. Init => Solvent
  BY SolventInit
<1>2. Sound => TypeOK /\ TicketBooks
  BY DEF Sound, Books
<1>3. Sound /\ Solvent /\ TypeOK' /\ TicketBooks' /\ [Next]_vars => Solvent'
  BY SolventStays
<1> QED
  BY <1>1, <1>2, <1>3, SoundHolds, PTL DEF Spec

(* The program implements the vault: as long as somebody holds mSOL while  *)
(* the books know of some, every instruction is a step of the vault, or    *)
(* one that it does not see.  (When holders have burned all of their mSOL  *)
(* with the token program, the next fee of update.rs is minted one to one, *)
(* as the first mSOL is, although there is value to share.)                *)
THEOREM ProgramIsVault ==
  ASSUME Slashes = {}
  PROVE  Spec /\ []SomeoneHolds => ImplementsVault
<1>1. Init => V!Init
  BY SolventInit
<1>2. Sound /\ Solvent /\ SomeoneHolds /\ [Next]_vars => [V!Next]_(V!vars)
  BY VaultStep
<1> QED
  BY <1>1, <1>2, SoundHolds, StaysSolvent, PTL DEF Spec, ImplementsVault, V!Spec

(* No instruction lowers the price of mSOL by more than the rounding of    *)
(* one unit, whatever it converts, mints, burns, pays or collects (the     *)
(* conversions of calc.rs, in the order the handlers use them).            *)
THEOREM PriceFallsByDust ==
  ASSUME Slashes = {}
  PROVE  Spec /\ []SomeoneHolds => PriceFallsByDustAtMost
<1>1. Sound => TypeOK /\ TicketBooks
  BY DEF Sound, Books
<1>2. Sound /\ Solvent /\ SomeoneHolds /\ TypeOK' /\ TicketBooks' /\ Solvent' /\ [Next]_vars
        => [PriceHolds(TotalVirtualStakedLamports)]_vars
  <2> SUFFICES ASSUME Sound, Solvent, SomeoneHolds, TypeOK', TicketBooks', Solvent',
                      [Next]_vars, msol_supply > 0, msol_supply' > 0
               PROVE  TotalVirtualStakedLamports' * msol_supply + TotalVirtualStakedLamports
                        >= TotalVirtualStakedLamports * msol_supply'
    BY DEF PriceHolds
  <2>1. VP!Solvent /\ [VP!Next]_(VP!vars)
    BY VaultStep, SoundVault, SameNext
  <2>2. VP!Value' * msol_supply + VP!Value >= VP!Value * msol_supply'
    BY <2>1, TicketsFinite, VP!PriceStep
  <2>3. VP!Value = TotalVirtualStakedLamports /\ VP!Value' = TotalVirtualStakedLamports'
    BY SoundVault, SoundVaultAfter
  <2> QED
    BY <2>2, <2>3, Zenon
<1> QED
  BY <1>1, <1>2, SoundHolds, StaysSolvent, PTL DEF Spec, PriceFallsByDustAtMost

-----------------------------------------------------------------------------
(* Without withdrawals of stake, the price never falls at all.             *)

(* A step that does not withdraw stake rounds for the holders.             *)
LEMMA OthersHoldPrice ==
  ASSUME Sound, Solvent, SomeoneHolds, TypeOK', TicketBooks', Solvent', [Next]_vars,
         ~Withdraws
  PROVE  PriceHolds(0)
<1> SUFFICES ASSUME msol_supply > 0, msol_supply' > 0
             PROVE  TotalVirtualStakedLamports' * msol_supply + 0
                      >= TotalVirtualStakedLamports * msol_supply'
  BY DEF PriceHolds
<1>1. /\ VP!Solvent
      /\ \/ VP!Receive \/ \E t \in Ticket : VP!Order(t) \/ VP!Pay(t)
         \/ UNCHANGED VP!vars
  BY OthersKeepPrice, SoundVault, SameKeeps
<1>2. VP!Value' * msol_supply >= VP!Value * msol_supply'
  BY <1>1, TicketsFinite, VP!PriceKept
<1>3. VP!Value = TotalVirtualStakedLamports /\ VP!Value' = TotalVirtualStakedLamports'
  BY SoundVault, SoundVaultAfter
<1>4. TotalVirtualStakedLamports' * msol_supply >= TotalVirtualStakedLamports * msol_supply'
  BY <1>2, <1>3, Zenon
<1>5. \A after, s \in Nat : after * s + 0 = after * s
  <2> TAKE after, s \in Nat
  <2>1. after * s \in Nat
    OBVIOUS
  <2> QED
    BY <2>1
<1>6. TotalVirtualStakedLamports' \in Nat /\ msol_supply \in Nat
  BY SoundVault, SoundVaultAfter
<1> QED
  BY <1>4, <1>5, <1>6, Zenon

(* The only instruction that ever lowers the price is                      *)
(* withdraw_stake_account; deposits, orders, claims, fees, rewards and     *)
(* collections all round for the holders.                                  *)
THEOREM OnlyWithdrawalsCost ==
  ASSUME Slashes = {}
  PROVE  Spec /\ []SomeoneHolds => [][~Withdraws => PriceHolds(0)]_vars
<1>1. Sound => TypeOK /\ TicketBooks
  BY DEF Sound, Books
<1>2. Sound /\ Solvent /\ SomeoneHolds /\ TypeOK' /\ TicketBooks' /\ Solvent' /\ [Next]_vars
        => [~Withdraws => PriceHolds(0)]_vars
  BY OthersHoldPrice
<1> QED
  BY <1>1, <1>2, SoundHolds, StaysSolvent, PTL DEF Spec

(* The switch stays off when no configuration turns it on.                 *)
LEMMA SwitchStaysOff ==
  ASSUME ~InitialConfig.withdraw_stake_account_enabled,
         \A c \in ConfigChoices : ~c.withdraw_stake_account_enabled
  PROVE  Spec => []~config.withdraw_stake_account_enabled
<1> DEFINE Off == ~config.withdraw_stake_account_enabled
<1>1. Init => Off
  BY DEF Init
<1>2. TypeOK /\ Off /\ [Next]_vars => Off'
  <2> SUFFICES ASSUME TypeOK, Off, AdminStep PROVE Off'
    BY ConfigStays
  <2>1. ASSUME NEW c \in ConfigChoices, NEW cap, ConfigMarinade(c, cap) PROVE Off'
    <3>1. config'.withdraw_stake_account_enabled = c.withdraw_stake_account_enabled
      BY <2>1, ConfigAssumption DEF ConfigMarinade, Config
    <3> QED
      BY <3>1
  <2>2. ASSUME NEW c \in ConfigChoices, ConfigLp(c) PROVE Off'
    <3>1. config'.withdraw_stake_account_enabled = config.withdraw_stake_account_enabled
      BY <2>2 DEF ConfigLp, TypeOK, Config
    <3> QED
      BY <3>1
  <2>3. Pause \/ Resume => Off'
    BY DEF Pause, Resume
  <2> QED
    BY <2>1, <2>2, <2>3 DEF AdminStep
<1> HIDE DEF Off
<1>3. Spec => []Off
  BY <1>1, <1>2, TypeCorrect, PTL DEF Spec
<1> QED
  BY <1>3 DEF Off

(* While withdraw_stake_account_enabled is off, as initialize leaves it,   *)
(* the price of mSOL never falls.                                          *)
THEOREM PriceNeverFallsWhileOff ==
  ASSUME Slashes = {}, ~InitialConfig.withdraw_stake_account_enabled,
         \A c \in ConfigChoices : ~c.withdraw_stake_account_enabled
  PROVE  Spec /\ []SomeoneHolds => PriceNeverFalls
<1>1. ~config.withdraw_stake_account_enabled => ~Withdraws
  BY DEF Withdraws, WithdrawStakeAccount
<1>2. [~Withdraws => PriceHolds(0)]_vars /\ ~config.withdraw_stake_account_enabled
        => [PriceHolds(0)]_vars
  BY <1>1
<1> QED
  BY <1>2, OnlyWithdrawalsCost, SwitchStaysOff, PTL DEF PriceNeverFalls

-----------------------------------------------------------------------------
(* When nobody burns mSOL with the token program, the books know all of it.*)
MintIsKnown == msol_mint_supply = msol_supply

(* Each instruction registers what it mints and burns.                     *)
LEMMA MintIsKnownStep == ASSUME Burns = {}, MintIsKnown, [Next]_vars PROVE MintIsKnown'
<1> USE DEF MintIsKnown, msolVars
<1>1. ASSUME UNCHANGED msolVars PROVE MintIsKnown'
  BY <1>1
<1>2. CASE Environment
  BY <1>1, <1>2 DEF Environment, ClusterStep, OutsideStep, Tick, NewEpoch,
     DeactivateDelinquent, Tip, Slash, ChangeAccount, Donate
<1>3. \A amount : OnMsolMint(amount) \/ OnMsolBurn(amount) => MintIsKnown'
  BY DEF OnMsolMint, OnMsolBurn
<1>4. CASE CrankStep
  <2>1. ASSUME NEW s, UpdateActive(s) \/ UpdateDeactivated(s) PROVE MintIsKnown'
    BY <2>1 DEF UpdateActive, UpdateDeactivated
  <2>2. ASSUME NEW v, NEW s, NEW new, NEW batch,
               \/ FinalizeDelinquentUpgrade(batch)
               \/ StakeReserve(v, s)
               \/ SpendExtraRun(v)
               \/ DeactivateStake(s, new)
               \/ MergeStakes(v, s)
               \/ CreateCanonicalStake(v, s)
        PROVE  MintIsKnown'
    BY <1>1, <2>2 DEF FinalizeDelinquentUpgrade, StakeReserve, SpendExtraRun, DeactivateStake,
       MergeStakes, CreateCanonicalStake
  <2> QED
    BY <1>4, <2>1, <2>2 DEF CrankStep
<1>5. CASE UserStep
  <2>1. ASSUME NEW lamports, NEW s, NEW v, NEW activation,
               Deposit(lamports) \/ DepositStakeAccount(s, v, lamports, activation)
        PROVE  MintIsKnown'
    BY <1>3, <2>1 DEF Deposit, DepositStakeAccount, MintForStake
  <2>2. ASSUME NEW s, NEW t, NEW msol_amount,
               WithdrawStakeAccount(s, msol_amount) \/ OrderUnstake(t, msol_amount)
        PROVE  MintIsKnown'
    BY <1>3, <2>2 DEF WithdrawStakeAccount, OrderUnstake
  <2>3. ASSUME NEW t, Claim(t) PROVE MintIsKnown'
    BY <1>1, <2>3 DEF Claim
  <2> QED
    BY <1>5, <2>1, <2>2, <2>3 DEF UserStep
<1>6. CASE PoolStep
  BY <1>1, <1>6 DEF PoolStep, AddLiquidity, RemoveLiquidity, LiquidUnstake, BurnLp,
     DonateSolLeg, stakingVars
<1>7. CASE ManagerStep
  BY <1>1, <1>7 DEF ManagerStep, AddValidator, RemoveValidator, SetValidatorScore,
     ChangeValidators, ConfigValidatorSystem, EmergencyUnstake, PartialUnstake, MoveToEmergency
<1>8. CASE AdminStep
  BY <1>1, <1>8 DEF AdminStep, ConfigMarinade, ConfigLp, Pause, Resume, adminUnchanged
<1>9. CASE UNCHANGED vars
  BY <1>1, <1>9 DEF vars
<1> QED
  BY <1>2, <1>4, <1>5, <1>6, <1>7, <1>8, <1>9 DEF Next

(* Without burns outside the program somebody always holds the mSOL of the *)
(* books: the two theorems above need nothing else then.                   *)
LEMMA SomebodyHolds == ASSUME Burns = {} PROVE Spec => []SomeoneHolds
<1>1. Init => MintIsKnown
  BY DEF Init, MintIsKnown
<1>2. MintIsKnown /\ [Next]_vars => MintIsKnown'
  BY MintIsKnownStep
<1>3. MintIsKnown => SomeoneHolds
  BY DEF MintIsKnown, SomeoneHolds
<1> QED
  BY <1>1, <1>2, <1>3, PTL DEF Spec

(* So the program is a vault outright.                                     *)
THEOREM UnburnedIsVault ==
  ASSUME Slashes = {}, Burns = {}
  PROVE  Spec => ImplementsVault /\ PriceFallsByDustAtMost
BY ProgramIsVault, PriceFallsByDust, SomebodyHolds, PTL

-----------------------------------------------------------------------------
(* The liquidity pool: an LP token keeps its value up to a lamport.        *)

(* The value of shares is the most lamports that they are worth in full.   *)
LEMMA WorthFits ==
  ASSUME NEW given \in Nat, NEW total \in Nat, NEW shares \in Nat \ {0}, NEW value \in Nat
  PROVE  LET worth == ValueFromShares(given, total, shares)
         IN /\ worth \in Nat
            /\ worth * shares <= given * total
            /\ value * shares <= given * total => value <= worth
            /\ given * total < value * shares => worth < value
<1> DEFINE worth == ValueFromShares(given, total, shares)
           p == given * total
<1>1. p \in Nat /\ worth = p \div shares
  BY DEF ValueFromShares, Proportional
<1> HIDE DEF p, worth
<1>2. worth \in Nat /\ worth * shares <= p /\ p < (worth + 1) * shares
  BY <1>1, Quotient
<1>3. \A a, b, c \in Nat : a * c <= b /\ b < (a + 1) * c => a * c < (a + 1) * c
  OBVIOUS
<1>4. value * shares <= p => value <= worth
  <2> SUFFICES ASSUME value * shares <= p, worth + 1 <= value PROVE FALSE
    BY <1>2
  <2>1. (worth + 1) * shares <= value * shares
    BY <1>2, VP!Scale
  <2>2. (worth + 1) * shares \in Nat /\ value * shares \in Nat
    BY <1>2
  <2> QED
    BY <1>1, <1>2, <2>1, <2>2
<1>5. p < value * shares => worth < value
  <2> SUFFICES ASSUME p < value * shares, value <= worth PROVE FALSE
    BY <1>2
  <2>1. value * shares <= worth * shares
    BY <1>2, VP!Scale
  <2>2. worth * shares \in Nat /\ value * shares \in Nat
    BY <1>2
  <2> QED
    BY <1>1, <1>2, <2>1, <2>2
<1> QED
  BY <1>2, <1>4, <1>5 DEF p, worth

(* No shares are worth nothing, whatever the price.                        *)
LEMMA NothingWorth ==
  ASSUME NEW total \in Nat, NEW shares \in Nat
  PROVE  ValueFromShares(0, total, shares) = 0
<1>1. CASE shares = 0
  BY <1>1 DEF ValueFromShares, Proportional
<1>2. CASE shares # 0
  <2> DEFINE worth == ValueFromShares(0, total, shares)
  <2>1. worth \in Nat /\ (0 * total < 1 * shares => worth < 1)
    BY <1>2, WorthFits
  <2> HIDE DEF worth
  <2>2. 0 * total < 1 * shares
    BY <1>2
  <2>3. worth = 0
    BY <2>1, <2>2
  <2> QED
    BY <2>3 DEF worth
<1> QED
  BY <1>1, <1>2

(* Two parts are worth what they are worth together, or a lamport less.    *)
LEMMA WorthTogether ==
  ASSUME NEW a \in Nat, NEW b \in Nat, NEW total \in Nat, NEW shares \in Nat
  PROVE  LET Worth(given) == ValueFromShares(given, total, shares)
         IN /\ Worth(a) \in Nat /\ Worth(b) \in Nat /\ Worth(a + b) \in Nat
            /\ Worth(a) + Worth(b) <= Worth(a + b)
            /\ Worth(a + b) <= Worth(a) + Worth(b) + 1
<1> DEFINE Worth(given) == ValueFromShares(given, total, shares)
           wa == Worth(a)
           wb == Worth(b)
           wab == Worth(a + b)
<1>1. CASE shares = 0
  <2>1. \A given : Worth(given) = given
    BY <1>1 DEF ValueFromShares, Proportional
  <2> QED
    BY <2>1
<1>2. CASE shares # 0
  <2>1. /\ wa \in Nat /\ wb \in Nat /\ wab \in Nat
        /\ wa * shares <= a * total /\ wb * shares <= b * total
    <3>1. \A g \in Nat : /\ Worth(g) \in Nat
                          /\ Worth(g) * shares <= g * total
      BY <1>2, WorthFits
    <3>2. a + b \in Nat
      OBVIOUS
    <3> HIDE DEF Worth
    <3> QED
      BY <3>1, <3>2
  <2>2. a * total < (wa + 1) * shares /\ b * total < (wb + 1) * shares
    <3>1. \A v, g \in Nat : v * shares <= g * total => v <= ValueFromShares(g, total, shares)
      BY <1>2, WorthFits
    <3>2. ~((wa + 1) * shares <= a * total) /\ ~((wb + 1) * shares <= b * total)
      <4> HIDE DEF wa, wb
      <4>1. wa + 1 \in Nat /\ wb + 1 \in Nat /\ ~(wa + 1 <= wa) /\ ~(wb + 1 <= wb)
        BY <2>1
      <4> QED
        BY <3>1, <4>1 DEF wa, wb
    <3> HIDE DEF wa, wb
    <3>3. /\ (wa + 1) * shares \in Nat /\ (wb + 1) * shares \in Nat
          /\ a * total \in Nat /\ b * total \in Nat
      BY <2>1
    <3> QED
      BY <3>2, <3>3
  <2> HIDE DEF wa, wb
  <2>3. /\ (wa + wb) * shares = wa * shares + wb * shares
        /\ (wa + wb + 2) * shares = (wa + 1) * shares + (wb + 1) * shares
        /\ (a + b) * total = a * total + b * total
        /\ wa * shares \in Nat /\ wb * shares \in Nat /\ a * total \in Nat /\ b * total \in Nat
        /\ (wa + 1) * shares \in Nat /\ (wb + 1) * shares \in Nat
    BY <2>1
  <2>4. (wa + wb) * shares <= (a + b) * total /\ (a + b) * total < (wa + wb + 2) * shares
    BY <2>1, <2>2, <2>3
  <2>5. wa + wb \in Nat /\ wa + wb + 2 \in Nat /\ a + b \in Nat
    BY <2>1
  <2>6. wa + wb <= wab /\ wab < wa + wb + 2
    BY <1>2, <2>4, <2>5, WorthFits
  <2> HIDE DEF wab
  <2>7. wab <= wa + wb + 1
    BY <2>1, <2>6
  <2> QED
    BY <2>1, <2>6, <2>7 DEF wa, wb, wab
<1> QED
  BY <1>1, <1>2

(* More shares are worth no less.                                          *)
LEMMA WorthMore ==
  ASSUME NEW a \in Nat, NEW b \in Nat, a <= b, NEW total \in Nat, NEW shares \in Nat
  PROVE  ValueFromShares(a, total, shares) <= ValueFromShares(b, total, shares)
<1>1. b - a \in Nat /\ a + (b - a) = b
  OBVIOUS
<1> DEFINE wa == ValueFromShares(a, total, shares)
           wd == ValueFromShares(b - a, total, shares)
           wb == ValueFromShares(a + (b - a), total, shares)
<1>2. wa \in Nat /\ wd \in Nat /\ wb \in Nat /\ wa + wd <= wb
  BY <1>1, WorthTogether
<1>3. wb = ValueFromShares(b, total, shares)
  BY <1>1
<1> HIDE DEF wa, wd, wb
<1>4. wa <= wb
  BY <1>2
<1> QED
  BY <1>3, <1>4 DEF wa

(* At a price that is no lower, shares are worth no less.                  *)
LEMMA WorthLater ==
  ASSUME NEW given \in Nat, NEW total \in Nat, NEW shares \in Nat \ {0},
         NEW total_after \in Nat, NEW shares_after \in Nat \ {0},
         total * shares_after <= total_after * shares
  PROVE  ValueFromShares(given, total, shares)
           <= ValueFromShares(given, total_after, shares_after)
<1> DEFINE worth == ValueFromShares(given, total, shares)
<1>1. worth \in Nat /\ worth * shares <= given * total
  BY WorthFits
<1> HIDE DEF worth
<1>2. /\ (worth * shares) * shares_after = (worth * shares_after) * shares
      /\ (given * total) * shares_after = (total * shares_after) * given
      /\ (total_after * shares) * given = (given * total_after) * shares
      /\ worth * shares \in Nat /\ given * total \in Nat
      /\ worth * shares_after \in Nat /\ given * total_after \in Nat
      /\ total * shares_after \in Nat /\ total_after * shares \in Nat
  BY <1>1
<1>3. (worth * shares) * shares_after <= (given * total) * shares_after
  BY <1>1, <1>2, VP!Scale
<1>4. (total * shares_after) * given <= (total_after * shares) * given
  BY <1>2, VP!Scale
<1>5. (worth * shares_after) * shares <= (given * total_after) * shares
  <2>1. \A w, x, y, z \in Nat : w <= x /\ x = y /\ y <= z => w <= z
    OBVIOUS
  <2>2. /\ (worth * shares) * shares_after \in Nat /\ (given * total) * shares_after \in Nat
        /\ (total * shares_after) * given \in Nat /\ (total_after * shares) * given \in Nat
    BY <1>2
  <2> QED
    BY <1>2, <1>3, <1>4, <2>1, <2>2, Zenon
<1>6. worth * shares_after <= given * total_after
  BY <1>2, <1>5, VP!Cancel
<1> QED
  BY <1>1, <1>6, WorthFits DEF worth

(* What is left of the legs is worth, to the lamport, what is left of the  *)
(* LP tokens: k of l, for no more than their part of each leg taken.       *)
LEMMA LeftIsWorth ==
  ASSUME NEW worth \in Nat, NEW left \in Nat, NEW msol \in Nat, NEW kept \in Nat,
         NEW total \in Nat, NEW shares \in Nat \ {0}, NEW l \in Nat, NEW k \in Nat,
         msol * k <= kept * l,
         worth * shares <= msol * total,
         kept * total < (left + 1) * shares
  PROVE  worth * k <= (left + 1) * l
<1>1. /\ (worth * shares) * k = (worth * k) * shares
      /\ (msol * total) * k = (msol * k) * total
      /\ (kept * l) * total = (kept * total) * l
      /\ ((left + 1) * shares) * l = ((left + 1) * l) * shares
  <2>1. \A x, y, z \in Nat : (x * y) * z = (x * z) * y
    OBVIOUS
  <2> DEFINE after == left + 1
  <2>2. after \in Nat
    OBVIOUS
  <2> HIDE DEF after
  <2>3. (worth * shares) * k = (worth * k) * shares
    BY <2>1
  <2>4. (msol * total) * k = (msol * k) * total
    BY <2>1
  <2>5. (kept * l) * total = (kept * total) * l
    BY <2>1
  <2>6. (after * shares) * l = (after * l) * shares
    BY <2>1, <2>2
  <2> QED
    BY <2>3, <2>4, <2>5, <2>6, Zenon DEF after
<1>2. /\ worth * shares \in Nat /\ msol * total \in Nat /\ msol * k \in Nat
      /\ kept * l \in Nat /\ kept * total \in Nat
      /\ (left + 1) * shares \in Nat /\ worth * k \in Nat /\ (left + 1) * l \in Nat
  OBVIOUS
<1>3. (worth * shares) * k <= (msol * total) * k
  BY <1>2, VP!Scale
<1>4. (msol * k) * total <= (kept * l) * total
  BY <1>2, VP!Scale
<1>5. (kept * total) * l <= ((left + 1) * shares) * l
  BY <1>2, VP!Scale
<1>6. \A a, b, c, d, e, f \in Nat :
        a <= b /\ b = c /\ c <= d /\ d = e /\ e <= f => a <= f
  OBVIOUS
<1>7. /\ (worth * shares) * k \in Nat /\ (msol * total) * k \in Nat
      /\ (msol * k) * total \in Nat /\ (kept * l) * total \in Nat
      /\ (kept * total) * l \in Nat /\ ((left + 1) * shares) * l \in Nat
  BY <1>2
<1>8. (worth * shares) * k <= ((left + 1) * shares) * l
  <2> DEFINE a == (worth * shares) * k
             b == (msol * total) * k
             c == (msol * k) * total
             d == (kept * l) * total
             e == (kept * total) * l
             f == ((left + 1) * shares) * l
  <2>1. a <= b /\ b = c /\ c <= d /\ d = e /\ e <= f
    BY <1>1, <1>3, <1>4, <1>5, Zenon
  <2>2. a \in Nat /\ b \in Nat /\ c \in Nat /\ d \in Nat /\ e \in Nat /\ f \in Nat
    BY <1>7, Zenon
  <2> HIDE DEF a, b, c, d, e, f
  <2>3. a <= f
    BY <1>6, <2>1, <2>2
  <2> QED
    BY <2>3 DEF a, f
<1>9. (worth * k) * shares <= ((left + 1) * l) * shares
  BY <1>1, <1>8, Zenon
<1> QED
  BY <1>2, <1>9, VP!Cancel

(* A part of a leg, rounded down, leaves at least the rest of it.          *)
LEMMA PartLeaves ==
  ASSUME NEW leg \in Nat, NEW tokens \in Nat, NEW supply \in Nat \ {0}, tokens <= supply
  PROVE  LET out == Proportional(tokens, leg, supply)
         IN /\ out \in Nat
            /\ leg * (supply - tokens) <= (leg - out) * supply
<1> DEFINE out == Proportional(tokens, leg, supply)
<1>1. out \in Nat /\ out * supply <= tokens * leg
  BY ValueWorth DEF ValueFromShares
<1> HIDE DEF out
<1>2. /\ leg * (supply - tokens) = leg * supply - tokens * leg
      /\ (leg - out) * supply = leg * supply - out * supply
      /\ leg * supply \in Nat /\ tokens * leg \in Nat /\ out * supply \in Nat
  BY <1>1
<1> QED
  BY <1>1, <1>2 DEF out

(* The pool of a program with sound books: its value is a natural number,  *)
(* and so is that of every part of the mSOL leg.                           *)
LEMMA PoolValues ==
  ASSUME Sound, PoolCovered
  PROVE  /\ TypeOK /\ MintCovered
         /\ TotalVirtualStakedLamports \in Nat /\ msol_supply \in Nat
         /\ msol_leg \in Nat /\ sol_leg \in Nat /\ lp_mint_supply \in Nat
         /\ sol_leg - RentExempt \in Nat
         /\ msol_supply = 0 => msol_leg = 0
         /\ \A msol \in Nat : MsolToSol(msol) \in Nat
         /\ LpValue \in Nat
<1>1. /\ TypeOK /\ MintCovered
      /\ TotalVirtualStakedLamports \in Nat /\ msol_supply \in Nat
  BY SoundVault DEF Sound
<1>2. /\ msol_leg \in Nat /\ sol_leg \in Nat /\ lp_mint_supply \in Nat
      /\ msol_mint_supply \in Nat
  BY <1>1 DEF TypeOK
<1>3. sol_leg - RentExempt \in Nat
  BY <1>2, RentAssumption DEF PoolCovered
<1>4. msol_supply = 0 => msol_leg = 0
  BY <1>1, <1>2 DEF MintCovered
<1>5. \A msol \in Nat : MsolToSol(msol) \in Nat
  BY <1>1, SharesType DEF MsolToSol
<1>6. MsolToSol(msol_leg) \in Nat
  BY <1>2, <1>5
<1>7. LpValue \in Nat
  BY <1>3, <1>6 DEF LpValue
<1> QED
  BY <1>1, <1>2, <1>3, <1>4, <1>5, <1>7

(* The same after a step.                                                  *)
LEMMA PoolValuesAfter ==
  ASSUME TypeOK', TicketBooks', Solvent', PoolCovered', MintCovered'
  PROVE  /\ TotalVirtualStakedLamports' \in Nat /\ msol_supply' \in Nat
         /\ msol_leg' \in Nat /\ sol_leg' \in Nat /\ lp_mint_supply' \in Nat
         /\ sol_leg' - RentExempt \in Nat
         /\ msol_supply' = 0 => msol_leg' = 0
         /\ ValueFromShares(msol_leg', TotalVirtualStakedLamports', msol_supply') \in Nat
         /\ LpValue' = sol_leg' - RentExempt
              + ValueFromShares(msol_leg', TotalVirtualStakedLamports', msol_supply')
         /\ LpValue' \in Nat
<1>1. TotalVirtualStakedLamports' \in Nat
  BY SoundVaultAfter
<1>2. /\ msol_leg' \in Nat /\ sol_leg' \in Nat /\ lp_mint_supply' \in Nat
      /\ msol_mint_supply' \in Nat /\ msol_supply' \in Nat
  BY DEF TypeOK
<1>3. sol_leg' - RentExempt \in Nat
  <2>1. sol_leg' >= RentExempt
    BY DEF PoolCovered
  <2>2. \A a, r \in Nat : a >= r => a - r \in Nat
    OBVIOUS
  <2>3. RentExempt \in Nat
    BY RentAssumption
  <2> QED
    BY <1>2, <2>1, <2>2, <2>3, Zenon
<1>4. msol_supply' = 0 => msol_leg' = 0
  BY <1>2 DEF MintCovered
<1>5. ValueFromShares(msol_leg', TotalVirtualStakedLamports', msol_supply') \in Nat
  BY <1>1, <1>2, SharesType
<1>6. LpValue' = sol_leg' - RentExempt
        + ValueFromShares(msol_leg', TotalVirtualStakedLamports', msol_supply')
  BY DEF LpValue, MsolToSol, ValueFromShares, Proportional
<1>7. LpValue' \in Nat
  BY <1>3, <1>5, <1>6
<1> QED
  BY <1>1, <1>2, <1>3, <1>4, <1>5, <1>6, <1>7

(* LP tokens hold their value when the pool loses at most a lamport, and   *)
(* no token is made.                                                       *)
LEMMA LpEnough ==
  ASSUME LpValue \in Nat, LpValue' \in Nat, lp_mint_supply \in Nat, lp_mint_supply' \in Nat,
         LpValue <= LpValue' + 1, lp_mint_supply' <= lp_mint_supply
  PROVE  LpHolds
<1>1. \A v, w, l, m \in Nat : v <= w + 1 /\ m <= l => (w + 1) * l >= v * m
  <2> SUFFICES ASSUME NEW v \in Nat, NEW w \in Nat, NEW l \in Nat, NEW m \in Nat,
                      v <= w + 1, m <= l
               PROVE  (w + 1) * l >= v * m
    OBVIOUS
  <2>1. m * v <= l * v
    BY VP!Scale
  <2>2. v * l <= (w + 1) * l
    BY VP!Scale
  <2>3. m * v = v * m /\ l * v = v * l
    OBVIOUS
  <2>4. v * m \in Nat /\ v * l \in Nat /\ (w + 1) * l \in Nat
    OBVIOUS
  <2> QED
    BY <2>1, <2>2, <2>3, <2>4
<1> QED
  BY <1>1 DEF LpHolds

\* A step of a sound program that withdraws no stake.
LpStep ==
  /\ Sound /\ Solvent /\ SomeoneHolds /\ PoolCovered
  /\ TypeOK' /\ TicketBooks' /\ Solvent' /\ PoolCovered' /\ MintCovered'
  /\ [Next]_vars /\ ~Withdraws

(* What stays in the mSOL leg loses no value, since the price of mSOL does *)
(* not fall.                                                               *)
LEMMA LegKeepsValue ==
  ASSUME LpStep, NEW msol \in Nat, msol <= msol_leg, msol <= msol_leg'
  PROVE  MsolToSol(msol)
           <= ValueFromShares(msol, TotalVirtualStakedLamports', msol_supply')
<1> DEFINE value == ValueFromShares(msol, TotalVirtualStakedLamports, msol_supply)
           after == ValueFromShares(msol, TotalVirtualStakedLamports', msol_supply')
<1>1. /\ TotalVirtualStakedLamports \in Nat /\ msol_supply \in Nat /\ msol_leg \in Nat
      /\ msol_supply = 0 => msol_leg = 0
  BY PoolValues DEF LpStep
<1>2. /\ TotalVirtualStakedLamports' \in Nat /\ msol_supply' \in Nat /\ msol_leg' \in Nat
      /\ msol_supply' = 0 => msol_leg' = 0
  BY PoolValuesAfter DEF LpStep
<1>3. after \in Nat
  BY <1>2, SharesType
<1>4. CASE msol_supply = 0 \/ msol_supply' = 0
  <2>1. msol = 0
    BY <1>1, <1>2, <1>4
  <2>2. value = 0
    BY <1>1, <2>1, NothingWorth
  <2> HIDE DEF after, value
  <2> QED
    BY <1>3, <2>2 DEF after, value, MsolToSol
<1>5. CASE msol_supply # 0 /\ msol_supply' # 0
  <2>1. PriceHolds(0)
    BY OthersHoldPrice DEF LpStep
  <2>2. TotalVirtualStakedLamports' * msol_supply + 0
          >= TotalVirtualStakedLamports * msol_supply'
    <3>1. msol_supply > 0 /\ msol_supply' > 0
      BY <1>1, <1>2, <1>5
    <3> QED
      BY <2>1, <3>1, Zenon DEF PriceHolds
  <2>3. TotalVirtualStakedLamports * msol_supply'
          <= TotalVirtualStakedLamports' * msol_supply
    <3> DEFINE x == TotalVirtualStakedLamports' * msol_supply
               y == TotalVirtualStakedLamports * msol_supply'
    <3>1. x \in Nat /\ y \in Nat
      BY <1>1, <1>2, ProductType
    <3>2. x + 0 >= y
      BY <2>2, Zenon
    <3> HIDE DEF x, y
    <3>3. y <= x
      BY <3>1, <3>2
    <3> QED
      BY <3>3 DEF x, y
  <2> QED
    BY <1>1, <1>2, <1>5, <2>3, WorthLater DEF MsolToSol
<1> QED
  BY <1>4, <1>5

(* A step that leaves both legs alone, and makes no LP token.              *)
LEMMA LpRests ==
  ASSUME LpStep, UNCHANGED <<sol_leg, msol_leg>>, lp_mint_supply' <= lp_mint_supply
  PROVE  LpHolds
<1>1. /\ msol_leg \in Nat /\ lp_mint_supply \in Nat /\ LpValue \in Nat
      /\ MsolToSol(msol_leg) \in Nat /\ sol_leg - RentExempt \in Nat
  BY PoolValues DEF LpStep
<1> DEFINE after == ValueFromShares(msol_leg', TotalVirtualStakedLamports', msol_supply')
<1>2. /\ LpValue' = sol_leg' - RentExempt + after
      /\ LpValue' \in Nat /\ lp_mint_supply' \in Nat /\ after \in Nat
  BY PoolValuesAfter DEF LpStep
<1>3. MsolToSol(msol_leg) <= after
  BY <1>1, LegKeepsValue
<1> HIDE DEF after
<1>4. LpValue <= LpValue' + 1
  BY <1>1, <1>2, <1>3 DEF LpValue
<1> QED
  BY <1>1, <1>2, <1>4, LpEnough

(* deposit pays at least what the mSOL it takes from the leg is worth.     *)
LEMMA DepositPays ==
  ASSUME Sound, PoolCovered, NEW lamports \in DepositAmounts, Deposit(lamports)
  PROVE  \E sold, paid \in Nat :
           /\ sold <= msol_leg
           /\ msol_leg' = msol_leg - sold
           /\ sol_leg' = sol_leg + paid
           /\ MsolToSol(sold) <= paid
           /\ UNCHANGED lp_mint_supply
<1> DEFINE part == Monus(lamports, ApplyFeeCents(config.deposit_sol_fee, lamports))
           buy  == CalcMsolFromLamports(part)
           sold == Lesser(buy, msol_leg)
           paid == IF sold = 0 THEN 0 ELSE IF sold = buy THEN lamports ELSE MsolToSol(sold)
<1>1. /\ TypeOK /\ msol_leg \in Nat
      /\ TotalVirtualStakedLamports \in Nat /\ msol_supply \in Nat
      /\ msol_supply = 0 => msol_leg = 0
      /\ \A msol \in Nat : MsolToSol(msol) \in Nat
  BY PoolValues
<1>2. /\ msol_leg' = msol_leg - sold
      /\ sol_leg' = sol_leg + paid
      /\ UNCHANGED lp_mint_supply
  BY DEF Deposit
<1>3. lamports \in Nat
  BY UsersAssumption
<1>4. part \in Nat /\ part <= lamports
  BY <1>1, <1>3, UserFees, MonusType, MonusBound
<1> HIDE DEF part
<1>5. /\ buy \in Nat
      /\ msol_supply > 0 => buy * TotalVirtualStakedLamports <= part * msol_supply
  BY <1>1, <1>4, SharesWorth DEF CalcMsolFromLamports
<1> HIDE DEF buy
<1>6. sold \in Nat /\ sold <= msol_leg
  BY <1>1, <1>5 DEF Lesser
<1> HIDE DEF sold
<1>7. paid \in Nat /\ MsolToSol(sold) <= paid
  <2>1. CASE sold = 0
    <3>1. MsolToSol(sold) = 0
      BY <1>1, <2>1, NothingWorth DEF MsolToSol
    <3> QED
      BY <2>1, <3>1
  <2>2. CASE sold # 0 /\ sold = buy
    <3>1. msol_supply > 0
      BY <1>1, <1>6, <2>2
    <3> DEFINE worth == ValueFromShares(buy, TotalVirtualStakedLamports, msol_supply)
    <3>2. worth \in Nat /\ worth * msol_supply <= buy * TotalVirtualStakedLamports
      <4>1. msol_supply \in Nat \ {0} /\ buy \in Nat
        BY <1>1, <1>5, <3>1
      <4> QED
        BY <1>1, <4>1, ValueWorth
    <3> HIDE DEF worth
    <3>3. worth * msol_supply <= part * msol_supply
      <4>1. /\ worth * msol_supply \in Nat /\ part * msol_supply \in Nat
            /\ buy * TotalVirtualStakedLamports \in Nat
        BY <1>1, <1>4, <1>5, <3>2
      <4> QED
        BY <1>5, <3>1, <3>2, <4>1
    <3>4. worth <= part
      BY <1>1, <1>4, <3>1, <3>2, <3>3, VP!Cancel
    <3>5. MsolToSol(sold) <= lamports
      BY <1>3, <1>4, <2>2, <3>2, <3>4 DEF worth, MsolToSol
    <3> QED
      BY <1>3, <2>2, <3>5
  <2>3. CASE sold # 0 /\ sold # buy
    BY <1>1, <1>6, <2>3
  <2> QED
    BY <2>1, <2>2, <2>3
<1> HIDE DEF paid
<1> QED
  BY <1>2, <1>6, <1>7

(* A deposit: what it pays into the SOL leg makes up for what it takes.    *)
LEMMA DepositHoldsLp ==
  ASSUME LpStep, NEW lamports \in DepositAmounts, Deposit(lamports)
  PROVE  LpHolds
<1>1. PICK sold, paid \in Nat : /\ sold <= msol_leg
                                /\ msol_leg' = msol_leg - sold
                                /\ sol_leg' = sol_leg + paid
                                /\ MsolToSol(sold) <= paid
                                /\ UNCHANGED lp_mint_supply
  BY DepositPays DEF LpStep
<1>2. /\ TotalVirtualStakedLamports \in Nat /\ msol_supply \in Nat
      /\ msol_leg \in Nat /\ sol_leg \in Nat /\ lp_mint_supply \in Nat
      /\ sol_leg - RentExempt \in Nat /\ LpValue \in Nat
  BY PoolValues DEF LpStep
<1> DEFINE kept  == msol_leg - sold
           after == ValueFromShares(msol_leg', TotalVirtualStakedLamports', msol_supply')
<1>3. /\ LpValue' = sol_leg' - RentExempt + after
      /\ LpValue' \in Nat /\ lp_mint_supply' \in Nat /\ after \in Nat
  BY PoolValuesAfter DEF LpStep
<1>4. kept \in Nat /\ kept + sold = msol_leg /\ kept = msol_leg' /\ kept <= msol_leg
  BY <1>1, <1>2
<1> HIDE DEF kept, after
<1>5. MsolToSol(kept) <= after
  <2>1. kept <= msol_leg'
    BY <1>4
  <2>2. MsolToSol(kept)
          <= ValueFromShares(kept, TotalVirtualStakedLamports', msol_supply')
    BY <1>4, <2>1, LegKeepsValue
  <2> QED
    BY <1>4, <2>2, Zenon DEF after
<1>6. /\ MsolToSol(kept) \in Nat /\ MsolToSol(sold) \in Nat /\ MsolToSol(msol_leg) \in Nat
      /\ MsolToSol(msol_leg) <= MsolToSol(kept) + MsolToSol(sold) + 1
  <2>1. /\ MsolToSol(kept) \in Nat /\ MsolToSol(sold) \in Nat /\ MsolToSol(kept + sold) \in Nat
        /\ MsolToSol(kept + sold) <= MsolToSol(kept) + MsolToSol(sold) + 1
    BY <1>1, <1>2, <1>4, WorthTogether DEF MsolToSol
  <2> QED
    BY <1>4, <2>1
<1>7. LpValue <= LpValue' + 1
  <2>1. LpValue = sol_leg - RentExempt + MsolToSol(msol_leg)
    BY DEF LpValue
  <2>2. RentExempt \in Nat
    BY RentAssumption
  <2> QED
    BY <1>1, <1>2, <1>3, <1>5, <1>6, <2>1, <2>2
<1> QED
  BY <1>1, <1>2, <1>3, <1>7, LpEnough

(* An instruction of the pool leaves the price of mSOL as it is.           *)
LEMMA PoolKeepsPrice ==
  UNCHANGED <<stakingVars, msol_supply>>
    => UNCHANGED <<TotalVirtualStakedLamports, msol_supply>>
BY DEF stakingVars, validatorVars, coolingVars, reserveVars, ticketVars,
       TotalVirtualStakedLamports, TotalLamportsUnderControl, TotalCoolingDown, Monus

(* add_liquidity gives LP tokens for at most what is brought.              *)
LEMMA AddLiquidityHoldsLp ==
  ASSUME LpStep, NEW lamports \in LiquidityAmounts, AddLiquidity(lamports)
  PROVE  LpHolds
<1> DEFINE given == SharesFromValue(lamports, TotalPoolValue, lp_mint_supply)
<1>1. /\ sol_leg' = sol_leg + lamports
      /\ lp_mint_supply' = lp_mint_supply + given
      /\ UNCHANGED <<stakingVars, msol_supply, msol_leg>>
  BY DEF AddLiquidity, msolVars
<1>2. /\ TotalVirtualStakedLamports \in Nat /\ msol_supply \in Nat
      /\ msol_leg \in Nat /\ sol_leg \in Nat /\ lp_mint_supply \in Nat
      /\ sol_leg - RentExempt \in Nat /\ LpValue \in Nat /\ MsolToSol(msol_leg) \in Nat
  BY PoolValues DEF LpStep
<1>3. lamports \in Nat /\ RentExempt \in Nat
  BY LiqPoolAssumption, RentAssumption
<1>4. TotalPoolValue = LpValue
  BY DEF TotalPoolValue, SolLegLiquidity, LpValue
<1>5. given \in Nat /\ (lp_mint_supply > 0 => given * LpValue <= lamports * lp_mint_supply)
  BY <1>2, <1>3, <1>4, SharesWorth
<1> HIDE DEF given
<1>6. LpValue' = LpValue + lamports
  <2>1. UNCHANGED <<TotalVirtualStakedLamports, msol_supply>>
    BY <1>1, PoolKeepsPrice
  <2>2. LpValue' = sol_leg' - RentExempt
          + ValueFromShares(msol_leg', TotalVirtualStakedLamports', msol_supply')
    BY PoolValuesAfter DEF LpStep
  <2>3. LpValue' = sol_leg' - RentExempt + MsolToSol(msol_leg)
    BY <1>1, <2>1, <2>2, Zenon DEF MsolToSol
  <2> QED
    BY <1>1, <1>2, <1>3, <2>3 DEF LpValue
<1>7. \A v, a, l, g \in Nat : g * v <= a * l => (v + a + 1) * l >= v * (l + g)
  <2> SUFFICES ASSUME NEW v \in Nat, NEW a \in Nat, NEW l \in Nat, NEW g \in Nat,
                      g * v <= a * l
               PROVE  (v + a + 1) * l >= v * (l + g)
    OBVIOUS
  <2>1. (v + a + 1) * l = v * l + a * l + l /\ v * (l + g) = v * l + g * v
    OBVIOUS
  <2>2. v * l \in Nat /\ a * l \in Nat /\ g * v \in Nat
    OBVIOUS
  <2> QED
    BY <2>1, <2>2
<1> SUFFICES ASSUME lp_mint_supply > 0 PROVE LpHolds
  BY DEF LpHolds
<1>8. (LpValue + lamports + 1) * lp_mint_supply >= LpValue * (lp_mint_supply + given)
  BY <1>2, <1>3, <1>5, <1>7
<1> QED
  BY <1>1, <1>6, <1>8, Zenon DEF LpHolds

(* remove_liquidity takes from each leg at most the part that belongs to   *)
(* the LP tokens it burns.                                                 *)
LEMMA RemoveLiquidityHoldsLp ==
  ASSUME LpStep, NEW tokens \in LpAmounts, RemoveLiquidity(tokens)
  PROVE  LpHolds
<1> SUFFICES ASSUME lp_mint_supply > 0 PROVE LpHolds
  BY DEF LpHolds
<1>1. /\ TotalVirtualStakedLamports \in Nat /\ msol_supply \in Nat
      /\ msol_leg \in Nat /\ sol_leg \in Nat /\ lp_mint_supply \in Nat
      /\ sol_leg - RentExempt \in Nat /\ LpValue \in Nat /\ MsolToSol(msol_leg) \in Nat
      /\ msol_supply = 0 => msol_leg = 0
  BY PoolValues DEF LpStep
<1>2. tokens \in Nat /\ RentExempt \in Nat
  BY LiqPoolAssumption, RentAssumption
<1> DEFINE l        == lp_mint_supply
           liquid   == SolLegLiquidity
           sol_out  == Proportional(tokens, liquid, l)
           msol_out == Proportional(tokens, msol_leg, l)
           k        == l - tokens
           kept     == msol_leg - msol_out
           value    == MsolToSol(msol_leg)
           left     == ValueFromShares(kept, TotalVirtualStakedLamports, msol_supply)
<1>3. /\ tokens <= l
      /\ sol_leg' = sol_leg - sol_out
      /\ msol_out <= msol_leg /\ msol_leg' = kept
      /\ lp_mint_supply' = k
      /\ UNCHANGED <<stakingVars, msol_supply>>
  <2>1. lp_supply \in Nat
    BY DEF LpStep, Sound, Books, TypeOK
  <2>2. ~(lp_mint_supply > lp_supply)
    BY <1>1, <2>1 DEF LpStep, PoolCovered
  <2> QED
    BY <2>2 DEF RemoveLiquidity, msolVars
<1>4. liquid \in Nat /\ liquid = sol_leg - RentExempt
  BY <1>1 DEF SolLegLiquidity
<1>5. l \in Nat \ {0} /\ k \in Nat
  BY <1>1, <1>2, <1>3
<1> HIDE DEF liquid
<1>6. /\ sol_out \in Nat /\ liquid * k <= (liquid - sol_out) * l
      /\ msol_out \in Nat /\ msol_leg * k <= kept * l
  BY <1>1, <1>2, <1>3, <1>4, <1>5, PartLeaves
<1>7. kept \in Nat
  BY <1>1, <1>3, <1>6
<1>8. LpValue' = sol_leg' - RentExempt + left /\ LpValue' \in Nat /\ left \in Nat
  <2>1. UNCHANGED <<TotalVirtualStakedLamports, msol_supply>>
    BY <1>3, PoolKeepsPrice
  <2>2. /\ LpValue' = sol_leg' - RentExempt
             + ValueFromShares(msol_leg', TotalVirtualStakedLamports', msol_supply')
        /\ LpValue' \in Nat
    BY PoolValuesAfter DEF LpStep
  <2>3. left \in Nat
    BY <1>1, <1>7, SharesType
  <2> QED
    BY <1>3, <2>1, <2>2, <2>3, Zenon
<1>9. value * k <= (left + 1) * l
  <2>1. CASE msol_supply = 0
    <3>1. value = 0
      BY <1>1, <2>1, NothingWorth DEF MsolToSol
    <3> HIDE DEF value, left, k, l
    <3>2. (left + 1) * l \in Nat /\ 0 * k = 0
      BY <1>5, <1>8
    <3> QED
      BY <3>1, <3>2
  <2>2. CASE msol_supply # 0
    <3>1. value * msol_supply <= msol_leg * TotalVirtualStakedLamports
      BY <1>1, <2>2, WorthFits DEF MsolToSol
    <3>2. kept * TotalVirtualStakedLamports < (left + 1) * msol_supply
      <4>1. ~((left + 1) * msol_supply <= kept * TotalVirtualStakedLamports)
        <5>1. \A v \in Nat : v * msol_supply <= kept * TotalVirtualStakedLamports => v <= left
          BY <1>1, <1>7, <2>2, WorthFits
        <5> HIDE DEF left, kept
        <5>2. left + 1 \in Nat /\ ~(left + 1 <= left)
          BY <1>8
        <5> QED
          BY <5>1, <5>2
      <4> HIDE DEF left, kept
      <4>2. (left + 1) * msol_supply \in Nat /\ kept * TotalVirtualStakedLamports \in Nat
        BY <1>1, <1>7, <1>8
      <4> QED
        BY <4>1, <4>2
    <3> HIDE DEF value, left, kept, k, l
    <3> QED
      BY <1>1, <1>5, <1>6, <1>7, <1>8, <2>2, <3>1, <3>2, LeftIsWorth DEF value
  <2> QED
    BY <2>1, <2>2
<1>10. LpValue' = liquid - sol_out + left /\ LpValue = liquid + value
  BY <1>1, <1>2, <1>3, <1>4, <1>6, <1>8 DEF LpValue
<1>11. value \in Nat
  BY <1>1
<1> HIDE DEF l, k, sol_out, kept, value, left
<1>12. (liquid - sol_out + left + 1) * l >= (liquid + value) * k
  <2>1. /\ (liquid - sol_out + left + 1) * l = (liquid - sol_out) * l + (left + 1) * l
        /\ (liquid + value) * k = liquid * k + value * k
    BY <1>4, <1>5, <1>6, <1>8, <1>11
  <2>2. /\ (liquid - sol_out) * l \in Int /\ (left + 1) * l \in Int
        /\ liquid * k \in Int /\ value * k \in Int
    BY <1>4, <1>5, <1>6, <1>8, <1>11
  <2> QED
    BY <1>6, <1>9, <2>1, <2>2
<1> QED
  BY <1>3, <1>10, <1>12, Zenon DEF LpHolds, l

(* liquid_unstake pays for at most what stays in the mSOL leg.             *)
LEMMA LiquidUnstakeHoldsLp ==
  ASSUME LpStep, NEW msol_amount \in MsolAmounts, LiquidUnstake(msol_amount)
  PROVE  LpHolds
<1> DEFINE fee     == ApplyFee(LiquidUnstakeFee(MsolToSol(msol_amount)), msol_amount)
           cut     == IF TreasuryReady THEN ApplyFee(config.treasury_cut, fee) ELSE 0
           bought  == msol_amount - fee
           working == MsolToSol(bought)
           after   == MsolToSol(msol_leg + msol_amount - cut)
<1>1. /\ sol_leg' = sol_leg - working
      /\ msol_leg' = msol_leg + msol_amount - cut
      /\ UNCHANGED <<stakingVars, msol_supply, lp_mint_supply>>
  BY DEF LiquidUnstake, msolVars
<1>2. /\ TypeOK
      /\ TotalVirtualStakedLamports \in Nat /\ msol_supply \in Nat
      /\ msol_leg \in Nat /\ sol_leg \in Nat /\ lp_mint_supply \in Nat
      /\ sol_leg - RentExempt \in Nat /\ LpValue \in Nat
      /\ \A msol \in Nat : MsolToSol(msol) \in Nat
  BY PoolValues DEF LpStep
<1>3. msol_amount \in Nat /\ RentExempt \in Nat
  BY UsersAssumption, RentAssumption
<1>4. fee \in Nat /\ fee <= msol_amount
  BY <1>2, <1>3, LiquidUnstakeFeeType, FeeBound
<1> HIDE DEF fee
<1>5. cut \in Nat /\ cut <= fee
  <2>1. config.treasury_cut \in 0..LP_MAX_TREASURY_CUT
    BY <1>2 DEF TypeOK, Config
  <2>2. config.treasury_cut \in 0..MAX_BASIS_POINTS
    BY <2>1, SMT DEF LP_MAX_TREASURY_CUT, MAX_BASIS_POINTS
  <2>3. /\ ApplyFee(config.treasury_cut, fee) \in Nat
        /\ ApplyFee(config.treasury_cut, fee) <= fee
    BY <1>4, <2>2, FeeBound
  <2> QED
    BY <1>4, <2>3
<1> HIDE DEF cut
<1>6. /\ bought \in Nat /\ msol_leg + bought \in Nat
      /\ msol_leg + msol_amount - cut \in Nat
      /\ msol_leg + bought <= msol_leg + msol_amount - cut
  BY <1>2, <1>3, <1>4, <1>5
<1>7. MsolToSol(msol_leg) + working <= after
  <2>1. /\ MsolToSol(msol_leg) \in Nat /\ working \in Nat /\ MsolToSol(msol_leg + bought) \in Nat
        /\ MsolToSol(msol_leg) + working <= MsolToSol(msol_leg + bought)
    BY <1>2, <1>6, WorthTogether DEF MsolToSol
  <2>2. MsolToSol(msol_leg + bought) <= after
    BY <1>2, <1>6, WorthMore DEF MsolToSol
  <2>3. after \in Nat
    BY <1>2, <1>6
  <2> HIDE DEF working, after, bought
  <2> QED
    BY <2>1, <2>2, <2>3
<1>8. /\ working \in Nat /\ after \in Nat /\ MsolToSol(msol_leg) \in Nat
  BY <1>2, <1>6
<1>9. LpValue' = sol_leg' - RentExempt + after /\ LpValue' \in Nat
  <2>1. UNCHANGED <<TotalVirtualStakedLamports, msol_supply>>
    BY <1>1, PoolKeepsPrice
  <2>2. /\ LpValue' = sol_leg' - RentExempt
             + ValueFromShares(msol_leg', TotalVirtualStakedLamports', msol_supply')
        /\ LpValue' \in Nat
    BY PoolValuesAfter DEF LpStep
  <2> QED
    BY <1>1, <2>1, <2>2, Zenon DEF MsolToSol
<1> HIDE DEF working, after, bought
<1>10. LpValue <= LpValue' + 1
  BY <1>1, <1>2, <1>3, <1>7, <1>8, <1>9 DEF LpValue
<1>11. lp_mint_supply' = lp_mint_supply
  BY <1>1
<1> QED
  BY <1>2, <1>9, <1>10, <1>11, LpEnough

(* Every step that withdraws no stake keeps the value of the LP tokens.    *)
LEMMA StepHoldsLp == LpStep => LpHolds
<1> SUFFICES ASSUME LpStep PROVE LpHolds
  OBVIOUS
<1>0. lp_mint_supply \in Nat /\ sol_leg \in Nat
  BY PoolValues DEF LpStep
<1>1. ASSUME UNCHANGED poolVars PROVE LpHolds
  BY <1>0, <1>1, LpRests DEF poolVars
<1>2. CASE Quiet
  BY <1>1, <1>2, QuietFrame DEF covered
<1>3. CASE \E s \in Stake : UpdateActive(s) \/ UpdateDeactivated(s)
  BY <1>1, <1>3 DEF UpdateActive, UpdateDeactivated
<1>4. CASE \E v \in Validator, s \in Stake : StakeReserve(v, s)
  BY <1>1, <1>4 DEF StakeReserve
<1>5. CASE \/ \E lamports \in Donations : Donate(lamports)
           \/ \E msol \in Burns : BurnMsol(msol)
  <2>1. UNCHANGED <<sol_leg, msol_leg, lp_mint_supply>>
    BY <1>5 DEF Donate, BurnMsol, poolVars
  <2> QED
    BY <1>0, <2>1, LpRests
<1>6. CASE \E s \in Stake, v \in Validator, amount \in UserStakes,
              activation \in Activation :
             DepositStakeAccount(s, v, amount, activation)
  BY <1>1, <1>6 DEF DepositStakeAccount
<1>7. CASE \/ \E t \in Ticket, msol_amount \in MsolAmounts : OrderUnstake(t, msol_amount)
           \/ \E t \in Ticket : Claim(t)
  BY <1>1, <1>7 DEF OrderUnstake, Claim, poolVars
<1>8. ASSUME NEW tokens \in LpAmounts, BurnLp(tokens) PROVE LpHolds
  <2>1. tokens \in Nat
    BY LiqPoolAssumption
  <2>2. /\ lp_mint_supply' = lp_mint_supply - tokens
        /\ UNCHANGED <<sol_leg, msol_leg>>
    BY <1>8 DEF BurnLp
  <2>3. lp_mint_supply' <= lp_mint_supply
    BY <1>0, <2>1, <2>2
  <2> QED
    BY <2>2, <2>3, LpRests
<1>9. ASSUME NEW lamports \in Donations, DonateSolLeg(lamports) PROVE LpHolds
  <2>1. /\ sol_leg' = sol_leg + lamports
        /\ UNCHANGED <<stakingVars, msol_supply, msol_leg, lp_mint_supply>>
    BY <1>9 DEF DonateSolLeg, msolVars
  <2>2. lamports \in Nat /\ RentExempt \in Nat
    BY ClusterAssumption, RentAssumption
  <2>3. MsolToSol(msol_leg) \in Nat /\ LpValue \in Nat
    BY PoolValues DEF LpStep
  <2>4. UNCHANGED <<TotalVirtualStakedLamports, msol_supply>>
    BY <2>1, PoolKeepsPrice
  <2>5. /\ LpValue' = sol_leg' - RentExempt
             + ValueFromShares(msol_leg', TotalVirtualStakedLamports', msol_supply')
        /\ LpValue' \in Nat
    BY PoolValuesAfter DEF LpStep
  <2>6. LpValue' = sol_leg' - RentExempt + MsolToSol(msol_leg)
    BY <2>1, <2>4, <2>5, Zenon DEF MsolToSol
  <2>7. LpValue <= LpValue' + 1
    BY <1>0, <2>1, <2>2, <2>3, <2>6 DEF LpValue
  <2>8. lp_mint_supply' = lp_mint_supply
    BY <2>1
  <2> QED
    BY <1>0, <2>3, <2>5, <2>7, <2>8, LpEnough
<1>10. CASE \E lamports \in DepositAmounts : Deposit(lamports)
  BY <1>10, DepositHoldsLp
<1>11. CASE \E lamports \in LiquidityAmounts : AddLiquidity(lamports)
  BY <1>11, AddLiquidityHoldsLp
<1>12. CASE \E tokens \in LpAmounts : RemoveLiquidity(tokens)
  BY <1>12, RemoveLiquidityHoldsLp
<1>13. CASE \E msol_amount \in MsolAmounts : LiquidUnstake(msol_amount)
  BY <1>13, LiquidUnstakeHoldsLp
<1>14. ~Withdraws /\ [Next]_vars
  BY DEF LpStep
<1> QED
  BY <1>2, <1>3, <1>4, <1>5, <1>6, <1>7, <1>8, <1>9, <1>10, <1>11, <1>12, <1>13, <1>14
     DEF Next, Quiet, Environment, ClusterStep, OutsideStep, CrankStep, UserStep, PoolStep,
         Withdraws

(* An LP token never loses value, beyond a lamport, to an instruction that *)
(* is no withdraw_stake_account: not to deposits that buy the pool's mSOL, *)
(* liquid_unstake, or other providers (instructions/liq_pool, deposit.rs). *)
THEOREM LpHoldsUnlessWithdrawn ==
  ASSUME Slashes = {}
  PROVE  Spec /\ []SomeoneHolds => [][~Withdraws => LpHolds]_vars
<1>1. Sound => TypeOK /\ TicketBooks /\ MintCovered
  BY DEF Sound, Books
<1>2. Sound /\ Solvent /\ SomeoneHolds /\ PoolCovered /\ TypeOK' /\ TicketBooks' /\ MintCovered'
        /\ Solvent' /\ PoolCovered' /\ [Next]_vars
        => [~Withdraws => LpHolds]_vars
  BY StepHoldsLp DEF LpStep
<1> QED
  BY <1>1, <1>2, SoundHolds, StaysSolvent, PoolAlwaysCovered, PTL DEF Spec

(* While withdraw_stake_account_enabled is off, as initialize leaves it,   *)
(* no instruction takes more than the rounding from the LP tokens ("mSOL-  *)
(* SOL-LP Price should increase on each operation", Backend-Design.md).    *)
THEOREM LpPriceHoldsWhileOff ==
  ASSUME Slashes = {}, ~InitialConfig.withdraw_stake_account_enabled,
         \A c \in ConfigChoices : ~c.withdraw_stake_account_enabled
  PROVE  Spec /\ []SomeoneHolds => LpPriceHolds
<1>1. ~config.withdraw_stake_account_enabled => ~Withdraws
  BY DEF Withdraws, WithdrawStakeAccount
<1>2. [~Withdraws => LpHolds]_vars /\ ~config.withdraw_stake_account_enabled
        => [LpHolds]_vars
  BY <1>1
<1> QED
  BY <1>2, LpHoldsUnlessWithdrawn, SwitchStaysOff, PTL DEF LpPriceHolds
=============================================================================
