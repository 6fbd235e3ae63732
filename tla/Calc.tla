-------------------------------- MODULE Calc --------------------------------
(***************************************************************************)
(* The arithmetic of calc.rs, fee.rs and the saturating operations of the  *)
(* handlers, over naturals.  The program computes products in u128 and     *)
(* converts the quotient back to u64; amounts of lamports and of mSOL are  *)
(* bounded by the SOL in existence (about 2^59 lamports), so the additive  *)
(* u64 bound is never met and is not modelled.  Subtraction is another     *)
(* matter: the program is built with overflow-checks, so a - b aborts the  *)
(* instruction when a < b; such subtractions have a guard in the handlers. *)
(***************************************************************************)
EXTENDS Integers

\* saturating_sub
Monus(a, b) == IF a >= b THEN a - b ELSE 0

Lesser(a, b) == IF a <= b THEN a ELSE b

Proportional(amount, numerator, denominator) ==
  IF denominator = 0 THEN amount ELSE (amount * numerator) \div denominator

ValueFromShares(shares, total_value, total_shares) ==
  Proportional(shares, total_value, total_shares)

SharesFromValue(value, total_value, total_shares) ==
  IF total_shares = 0
  THEN value                            \* the first mint
  ELSE Proportional(value, total_shares, total_value)

MAX_BASIS_POINTS == 10000

MAX_BP_CENTS == 100 * MAX_BASIS_POINTS

\* Fee::apply, for a fee in basis points
ApplyFee(basis_points, lamports) ==
  (lamports * basis_points) \div MAX_BASIS_POINTS

\* FeeCents::apply, for a fee in hundredths of a basis point
ApplyFeeCents(bp_cents, lamports) ==
  (lamports * bp_cents) \div MAX_BP_CENTS
=============================================================================
