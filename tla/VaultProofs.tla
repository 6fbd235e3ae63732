---------------------------- MODULE VaultProofs -----------------------------
(***************************************************************************)
(* What a holder may conclude from the promise of Vault, for any set of    *)
(* tickets and any amounts: the debts are covered, and no step takes more  *)
(* from the other holders than rounding does.                              *)
(***************************************************************************)
EXTENDS Vault, LamportSumsProofs

-----------------------------------------------------------------------------
(* Arithmetic.                                                             *)

(* What a smaller number leaves of a larger one.                           *)
LEMMA Difference ==
  ASSUME NEW a \in Nat, NEW b \in Nat, a <= b
  PROVE  b - a \in Nat
OBVIOUS

(* What a strictly smaller one leaves, when it leaves little.              *)
LEMMA BoundedDifference ==
  ASSUME NEW a \in Nat, NEW b \in Nat, NEW bound \in Nat, a < b, b - a <= bound
  PROVE  b - a \in 0..bound
OBVIOUS

(* Of a product that is at most another by the same factor.                *)
LEMMA Cancel ==
  ASSUME NEW a \in Nat, NEW b \in Nat, NEW c \in Nat \ {0}, a * c <= b * c
  PROVE  a <= b
<1>1. SUFFICES ASSUME b + 1 <= a PROVE FALSE
  OBVIOUS
<1>2. PICK d \in Nat : a = b + 1 + d
  <2>1. a - (b + 1) \in Nat /\ a = b + 1 + (a - (b + 1))
    BY <1>1
  <2> QED
    BY <2>1
<1>3. a * c = b * c + c + d * c
  BY <1>2
<1>4. d * c \in Nat /\ b * c \in Nat
  OBVIOUS
<1> QED
  BY <1>3, <1>4

(* Multiplication keeps the order.                                         *)
LEMMA Scale ==
  ASSUME NEW a \in Nat, NEW b \in Nat, NEW c \in Nat, a <= b
  PROVE  a * c <= b * c
<1>1. PICK d \in Nat : b = a + d
  <2>1. b - a \in Nat /\ b = a + (b - a)
    OBVIOUS
  <2> QED
    BY <2>1
<1>2. b * c = a * c + d * c
  BY <1>1
<1>3. d * c \in Nat /\ a * c \in Nat
  OBVIOUS
<1> QED
  BY <1>2, <1>3

(* What is worth at most the shares given up is worth at most the vault.   *)
LEMMA WorthBound ==
  ASSUME NEW value \in Nat, NEW shares \in Nat \ {0}, NEW left \in 0..shares,
         NEW lamports \in Nat, lamports * shares <= (shares - left) * value
  PROVE  lamports <= value
<1>1. shares - left \in Nat /\ shares - left <= shares
  OBVIOUS
<1>2. (shares - left) * value <= shares * value
  BY <1>1, Scale
<1>3. shares * value = value * shares
  OBVIOUS
<1>4. lamports * shares \in Nat /\ (shares - left) * value \in Nat /\ value * shares \in Nat
  BY <1>1
<1>5. lamports * shares <= value * shares
  BY <1>2, <1>3, <1>4
<1> QED
  BY <1>5, Cancel

(* Giving up shares for at most what they are worth costs the others       *)
(* nothing; when a share more would be worth more, it costs them less than *)
(* one share.                                                              *)
LEMMA ExchangePrice ==
  ASSUME NEW value \in Nat, NEW shares \in Nat, NEW left \in 0..shares,
         NEW lamports \in 0..value, NEW rest \in Nat, rest = value - lamports
  PROVE  /\ lamports * shares <= (shares - left) * value => rest * shares >= value * left
         /\ lamports * shares < (shares - left + 1) * value
              => rest * shares + value >= value * left
<1>1. /\ value * left \in Nat /\ value * shares \in Nat /\ lamports * shares \in Nat
  OBVIOUS
<1>2. rest * shares = value * shares - lamports * shares
  OBVIOUS
<1>3. (shares - left) * value = value * shares - value * left
  OBVIOUS
<1>4. (shares - left + 1) * value = value * shares - value * left + value
  OBVIOUS
<1> QED
  BY <1>1, <1>2, <1>3, <1>4

(* Income costs nobody anything when shares are issued for at most its     *)
(* value, or struck off.                                                   *)
LEMMA IncomePrice ==
  ASSUME NEW value \in Nat, NEW shares \in Nat, NEW after \in Nat, NEW income \in Nat,
         NEW sum \in Nat, sum = value + income,
         after <= shares \/ after * value <= shares * (value + income)
  PROVE  sum * shares >= value * after
<1>1. /\ value * shares \in Nat /\ value * after \in Nat /\ income * shares \in Nat
      /\ sum * shares = value * shares + income * shares
      /\ shares * (value + income) = value * shares + income * shares
      /\ after * value = value * after
  OBVIOUS
<1>2. CASE after <= shares
  <2>1. after * value <= shares * value
    BY <1>2, Scale
  <2>2. shares * value = value * shares
    OBVIOUS
  <2> QED
    BY <1>1, <2>1, <2>2
<1>3. CASE after * value <= shares * (value + income)
  BY <1>1, <1>3
<1> QED
  BY <1>2, <1>3

-----------------------------------------------------------------------------
(* The sum of the debts when one of them changes.                          *)
LEMMA DebtUpdate ==
  ASSUME IsFiniteSet(Ticket), owed \in [Ticket -> Nat], owed' \in [Ticket -> Nat],
         NEW t \in Ticket, \A u \in Ticket \ {t} : owed'[u] = owed[u]
  PROVE  /\ Sum(owed) \in Nat /\ Sum(owed') \in Nat
         /\ Sum(owed') = Sum(owed) - owed[t] + owed'[t]
<1>1. Sum(owed) \in Nat /\ Sum(owed') \in Nat
  BY SumType
<1>2. Sum(owed') - owed'[t] = Sum(owed) - owed[t]
  BY SumUpdate
<1>3. owed[t] \in Nat /\ owed'[t] \in Nat
  OBVIOUS
<1> QED
  BY <1>1, <1>2, <1>3

(* The value is a natural number as long as the vault is solvent ...       *)
LEMMA ValueType == ASSUME IsFiniteSet(Ticket), Solvent PROVE Sum(owed) \in Nat /\ Value \in Nat
<1>1. Sum(owed) \in Nat
  BY SumType DEF Solvent
<1> QED
  BY <1>1 DEF Solvent, Value

(* ... after a step as before it.                                          *)
LEMMA ValueTypeAfter == ASSUME IsFiniteSet(Ticket), Solvent' PROVE Value' \in Nat
<1>1. owed' \in [Ticket -> Nat] /\ assets' \in Nat /\ Sum(owed') <= assets'
  BY DEF Solvent
<1>2. Sum(owed') \in Nat
  BY <1>1, SumType
<1> QED
  BY <1>1, <1>2 DEF Value

(* An order leaves the vault solvent: the debt is worth no more than what  *)
(* all the shares were worth.                                              *)
LEMMA OrderSolvent ==
  ASSUME IsFiniteSet(Ticket), Solvent, NEW t \in Ticket, Order(t)
  PROVE  Solvent' /\ owed'[t] \in 0..Value /\ Value' = Value - owed'[t]
<1> DEFINE debt == owed'[t]
<1>1. /\ owed[t] = 0 /\ debt \in Nat \ {0}
      /\ owed' = [owed EXCEPT ![t] = debt]
      /\ supply' \in 0..(supply - 1) /\ assets' = assets
      /\ debt * supply <= (supply - supply') * Value
  BY DEF Order
<1>2. /\ supply \in Nat \ {0} /\ supply' \in 0..supply
      /\ assets \in Nat /\ owed \in [Ticket -> Nat] /\ Sum(owed) <= assets
  BY <1>1 DEF Solvent
<1>3. Sum(owed) \in Nat /\ Value \in Nat
  BY ValueType
<1>4. debt <= Value
  BY <1>1, <1>2, <1>3, WorthBound
<1> HIDE DEF debt
<1>5. owed' \in [Ticket -> Nat] /\ Sum(owed') = Sum(owed) + debt
  <2>1. /\ owed' \in [Ticket -> Nat] /\ owed'[t] = debt
        /\ \A u \in Ticket \ {t} : owed'[u] = owed[u]
    BY <1>1, <1>2
  <2>2. Sum(owed') = Sum(owed) - owed[t] + owed'[t]
    BY <1>2, <2>1, DebtUpdate
  <2> QED
    BY <1>1, <1>3, <2>1, <2>2
<1>6. Sum(owed') <= assets' /\ Value' = Value - debt
  BY <1>1, <1>2, <1>3, <1>4, <1>5 DEF Value
<1>7. Solvent'
  BY <1>1, <1>2, <1>5, <1>6 DEF Solvent
<1> QED
  BY <1>1, <1>3, <1>4, <1>6, <1>7 DEF debt

(* So does a payment, which takes as much from the assets as from the debts.*)
LEMMA PaySolvent ==
  ASSUME IsFiniteSet(Ticket), Solvent, NEW t \in Ticket, Pay(t)
  PROVE  Solvent' /\ Value' = Value /\ supply' = supply
<1>1. /\ assets' = assets - owed[t] /\ supply' = supply
      /\ owed' = [owed EXCEPT ![t] = 0]
  BY DEF Pay
<1>2. /\ assets \in Nat /\ supply \in Nat
      /\ owed \in [Ticket -> Nat] /\ Sum(owed) <= assets
  BY DEF Solvent
<1>3. owed' \in [Ticket -> Nat] /\ Sum(owed') = Sum(owed) - owed[t]
  <2>1. /\ owed' \in [Ticket -> Nat] /\ owed'[t] = 0
        /\ \A u \in Ticket \ {t} : owed'[u] = owed[u]
    BY <1>1, <1>2
  <2>2. /\ Sum(owed) \in Nat /\ Sum(owed') = Sum(owed) - owed[t] + owed'[t]
    BY <1>2, <2>1, DebtUpdate
  <2>3. owed[t] \in Nat
    BY <1>2
  <2> QED
    BY <2>1, <2>2, <2>3
<1>4. Sum(owed) \in Nat /\ owed[t] \in Nat /\ owed[t] <= Sum(owed)
  BY <1>2, SumType, SumMember
<1>5. assets' \in Nat /\ Sum(owed') <= assets' /\ Value' = Value
  BY <1>1, <1>2, <1>3, <1>4 DEF Value
<1> QED
  BY <1>1, <1>2, <1>3, <1>5 DEF Solvent

(* Income does not touch the debts, and all of it is value.                *)
LEMMA ReceiveSolvent ==
  ASSUME IsFiniteSet(Ticket), Solvent, Receive
  PROVE  Solvent' /\ assets' - assets \in Nat /\ Value' = Value + (assets' - assets)
<1>1. /\ owed' = owed /\ supply' \in Nat /\ assets' \in Nat /\ assets' >= assets
  BY DEF Receive
<1>2. Sum(owed) \in Nat /\ Sum(owed') = Sum(owed)
  BY <1>1, ValueType
<1>3. Value = assets - Sum(owed) /\ Value' = assets' - Sum(owed')
  BY DEF Value
<1>4. assets \in Nat /\ supply \in Nat /\ owed \in [Ticket -> Nat] /\ Sum(owed) <= assets
  BY DEF Solvent
<1>5. assets' - assets \in Nat
  <2>1. assets \in Nat /\ assets' \in Nat /\ assets <= assets'
    BY <1>1, <1>4
  <2> QED
    BY <2>1, Difference
<1>6. Value' = Value + (assets' - assets) /\ Sum(owed') <= assets'
  BY <1>1, <1>2, <1>3, <1>4
<1>7. Solvent'
  BY <1>1, <1>4, <1>6 DEF Solvent
<1> QED
  BY <1>5, <1>6, <1>7

(* A redemption does not touch the debts either, and takes all of its      *)
(* lamports from the value.                                                *)
LEMMA RedeemSolvent ==
  ASSUME IsFiniteSet(Ticket), Solvent, Redeem
  PROVE  Solvent' /\ assets - assets' \in 0..Value /\ Value' = Value - (assets - assets')
<1>1. /\ owed' = owed /\ supply' \in 0..supply
      /\ assets' \in Nat /\ assets' < assets /\ assets - assets' <= Value
  BY DEF Redeem
<1>2. Sum(owed) \in Nat /\ Value \in Nat /\ Sum(owed') = Sum(owed)
  BY <1>1, ValueType
<1>3. Value = assets - Sum(owed) /\ Value' = assets' - Sum(owed')
  BY DEF Value
<1>4. assets \in Nat /\ supply \in Nat /\ owed \in [Ticket -> Nat]
  BY DEF Solvent
<1>5. assets - assets' \in 0..Value
  <2>1. assets \in Nat /\ assets' \in Nat /\ Value \in Nat
    BY <1>1, <1>2, <1>4
  <2>2. assets' < assets /\ assets - assets' <= Value
    BY <1>1
  <2> QED
    BY <2>1, <2>2, BoundedDifference
<1>6. Sum(owed') <= assets'
  BY <1>1, <1>2, <1>3, <1>4
<1>7. Solvent'
  BY <1>1, <1>4, <1>6 DEF Solvent
<1>8. Value' = Value - (assets - assets')
  BY <1>1, <1>2, <1>3, <1>4
<1> QED
  BY <1>5, <1>7, <1>8

-----------------------------------------------------------------------------
(* Solvent is inductive.                                                   *)
LEMMA SolventStep ==
  ASSUME IsFiniteSet(Ticket), Solvent, [Next]_vars
  PROVE  Solvent'
<1>1. CASE Receive
  BY <1>1, ReceiveSolvent
<1>2. ASSUME NEW t \in Ticket, Order(t) PROVE Solvent'
  BY <1>2, OrderSolvent
<1>3. ASSUME NEW t \in Ticket, Pay(t) PROVE Solvent'
  BY <1>3, PaySolvent
<1>4. CASE Redeem
  BY <1>4, RedeemSolvent
<1>5. CASE UNCHANGED vars
  BY <1>5 DEF vars, Solvent
<1> QED
  BY <1>1, <1>2, <1>3, <1>4, <1>5 DEF Next

(* An empty vault owes nothing.                                            *)
LEMMA SolventInit == ASSUME IsFiniteSet(Ticket), Init PROVE Solvent
<1>1. assets = 0 /\ supply = 0 /\ owed = [t \in Ticket |-> 0]
  BY DEF Init
<1>2. owed \in [Ticket -> Nat] /\ \A t \in Ticket : owed[t] = 0
  BY <1>1
<1>3. Sum(owed) = 0
  BY <1>2, SumZero
<1> QED
  BY <1>1, <1>2, <1>3 DEF Solvent

(* The vault never owes its tickets more than it holds, for any set of     *)
(* tickets and any amounts: so claim pays each of them in full (claim.rs), *)
(* and the saturating subtraction of total_virtual_staked_lamports never   *)
(* saturates (state/mod.rs).                                               *)
THEOREM VaultSolvent == ASSUME IsFiniteSet(Ticket) PROVE Spec => []Solvent
<1>1. Init => Solvent
  BY SolventInit
<1>2. Solvent /\ [Next]_vars => Solvent'
  BY SolventStep
<1> QED
  BY <1>1, <1>2, PTL DEF Spec

(* One step, when there are shares before it and after it: but for a       *)
(* redemption, it costs the holders nothing at all ...                     *)
LEMMA PriceKept ==
  ASSUME IsFiniteSet(Ticket), Solvent, supply > 0, supply' > 0,
         \/ Receive \/ \E t \in Ticket : Order(t) \/ Pay(t)
         \/ UNCHANGED vars
  PROVE  Value' * supply >= Value * supply'
<1>0. supply \in Nat /\ supply' \in Nat /\ Value \in Nat /\ Value' \in Nat
  BY SolventStep, ValueType, ValueTypeAfter DEF Solvent, Next
<1>1. CASE Receive
  <2> DEFINE income == assets' - assets
  <2>1. income \in Nat /\ Value' = Value + income
    BY <1>1, ReceiveSolvent
  <2>2. supply' <= supply \/ supply' * Value <= supply * (Value + income)
    BY <1>0, <1>1, <2>1 DEF Receive
  <2> HIDE DEF income
  <2> QED
    BY <1>0, <2>1, <2>2, IncomePrice
<1>2. ASSUME NEW t \in Ticket, Order(t)
      PROVE  Value' * supply >= Value * supply'
  <2> DEFINE debt == owed'[t]
  <2>1. /\ debt \in Nat /\ supply' \in 0..supply
        /\ debt * supply <= (supply - supply') * Value
    BY <1>0, <1>2 DEF Order
  <2>2. debt \in 0..Value /\ Value' = Value - debt
    BY <1>2, OrderSolvent
  <2> HIDE DEF debt
  <2> QED
    BY <1>0, <2>1, <2>2, ExchangePrice
<1>3. ASSUME NEW t \in Ticket, Pay(t)
      PROVE  Value' * supply >= Value * supply'
  <2>1. Value' = Value /\ supply' = supply
    BY <1>3, PaySolvent
  <2>2. Value * supply \in Nat
    BY <1>0
  <2> QED
    BY <1>0, <2>1, <2>2
<1>4. CASE UNCHANGED vars
  <2>1. Value' = Value /\ supply' = supply
    BY <1>4 DEF vars, Value
  <2>2. Value * supply \in Nat
    BY <1>0
  <2> QED
    BY <1>0, <2>1, <2>2
<1> QED
  BY <1>1, <1>2, <1>3, <1>4

(* ... and a redemption less than the price of one share.                  *)
LEMMA PriceStep ==
  ASSUME IsFiniteSet(Ticket), Solvent, [Next]_vars, supply > 0, supply' > 0
  PROVE  Value' * supply + Value >= Value * supply'
<1>0. supply \in Nat /\ supply' \in Nat /\ Value \in Nat /\ Value' \in Nat
  BY SolventStep, ValueType, ValueTypeAfter DEF Solvent
<1>1. CASE Redeem
  <2> DEFINE lamports == assets - assets'
  <2>1. lamports \in 0..Value /\ Value' = Value - lamports
    BY <1>1, RedeemSolvent
  <2>2. supply' \in 0..supply /\ lamports * supply < (supply - supply' + 1) * Value
    BY <1>1 DEF Redeem
  <2> HIDE DEF lamports
  <2> QED
    BY <1>0, <2>1, <2>2, ExchangePrice
<1>2. CASE ~Redeem
  <2>1. Value' * supply >= Value * supply'
    BY <1>2, PriceKept DEF Next
  <2>2. \A before, after, s, left \in Nat :
          after * s >= before * left => after * s + before >= before * left
    <3> TAKE before, after, s, left \in Nat
    <3>1. after * s \in Nat /\ before * left \in Nat
      OBVIOUS
    <3> QED
      BY <3>1
  <2> QED
    BY <1>0, <2>1, <2>2, Zenon
<1> QED
  BY <1>1, <1>2

(* No step of the vault takes more from the other holders than the price   *)
(* of one share, whatever it exchanges: the rounding of the conversions of *)
(* calc.rs is all that anybody can lose.                                   *)
THEOREM VaultPriceHolds == ASSUME IsFiniteSet(Ticket) PROVE Spec => PartFallsByDustAtMost
<1>1. Solvent /\ [Next]_vars
        => [supply > 0 /\ supply' > 0 => Value' * supply + Value >= Value * supply']_vars
  BY PriceStep
<1> QED
  BY <1>1, VaultSolvent, PTL DEF Spec, PartFallsByDustAtMost
=============================================================================
