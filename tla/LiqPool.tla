------------------------------ MODULE LiqPool -------------------------------
(***************************************************************************)
(* The SOL/mSOL liquidity pool: instructions/liq_pool and the functions of *)
(* state/liq_pool.rs.  The pool never changes the stake side of the State; *)
(* it reads the price of mSOL from it.                                     *)
(***************************************************************************)
EXTENDS Users

CONSTANTS
  LiquidityAmounts,   \* lamports of add_liquidity
  LpAmounts           \* tokens of remove_liquidity, and LP tokens burned directly

ASSUME LiqPoolAssumption == LiquidityAmounts \subseteq Nat /\ LpAmounts \subseteq Nat

stakingVars == <<clockVars, reserveVars, stakeVars, validatorVars, coolingVars, deltaVars,
                 moveVars, ticketVars, adminVars, staking_sol_cap, delinquent_upgrader>>

LinearFee(lamports) ==
  IF lamports >= config.lp_liquidity_target
  THEN config.lp_min_fee
  ELSE config.lp_max_fee
         - Proportional(Monus(config.lp_max_fee, config.lp_min_fee),
                        lamports, config.lp_liquidity_target)

\* lp_max_fee when the user takes all there is, else the fee for what is left.
LiquidUnstakeFee(user_remove_lamports) ==
  LET liquidity == Monus(sol_leg, RentExempt)
  IN IF user_remove_lamports >= liquidity
     THEN config.lp_max_fee
     ELSE LinearFee(liquidity - user_remove_lamports)

SolLegAll == sol_leg     \* mutant

\* The lamports of the SOL leg that are not its rent.
SolLegLiquidity == sol_leg - RentExempt

TotalPoolValueForgetsMsol == SolLegLiquidity     \* mutant

\* total_liq_pool_value of add_liquidity
TotalPoolValue == SolLegLiquidity + MsolToSol(msol_leg)

AddLiquidity(lamports) ==
  LET shares == SharesFromValue(lamports, TotalPoolValue, lp_mint_supply)
  IN /\ ~paused
     /\ lamports >= config.min_deposit
     /\ sol_leg + lamports <= config.liquidity_sol_cap
     /\ lp_mint_supply <= lp_supply
     /\ sol_leg >= RentExempt
     /\ sol_leg' = sol_leg + lamports
     /\ lp_mint_supply' = lp_mint_supply + shares
     /\ lp_supply' = lp_mint_supply'
     /\ UNCHANGED <<stakingVars, msolVars, msol_leg>>

RemoveLiquidity(tokens) ==
  LET supply   == IF lp_mint_supply > lp_supply THEN lp_supply ELSE lp_mint_supply
      sol_out  == Proportional(tokens, SolLegLiquidity, supply)
      msol_out == Proportional(tokens, msol_leg, supply)
  IN /\ ~paused
     /\ tokens <= lp_mint_supply
     /\ sol_leg >= RentExempt
     /\ sol_out + MsolToSol(msol_out) >= config.min_withdraw
     /\ sol_out <= sol_leg
     /\ msol_out <= msol_leg
     /\ tokens <= supply
     /\ sol_leg' = sol_leg - sol_out
     /\ msol_leg' = msol_leg - msol_out
     /\ lp_mint_supply' = lp_mint_supply - tokens
     /\ lp_supply' = supply - tokens
     /\ UNCHANGED <<stakingVars, msolVars>>

LiquidUnstake(msol_amount) ==
  LET msol_fee == ApplyFee(LiquidUnstakeFee(MsolToSol(msol_amount)), msol_amount)
      working_lamports_value == MsolToSol(msol_amount - msol_fee)
      treasury_msol_cut == IF TreasuryReady THEN ApplyFee(config.treasury_cut, msol_fee) ELSE 0
  IN /\ ~paused
     /\ msol_amount <= UserMsol
     /\ working_lamports_value + RentExempt <= sol_leg
     /\ working_lamports_value >= config.min_withdraw
     /\ sol_leg' = sol_leg - working_lamports_value
     /\ msol_leg' = msol_leg + msol_amount - treasury_msol_cut
     /\ UNCHANGED <<stakingVars, msolVars, lp_mint_supply, lp_supply>>

\* A holder burns LP tokens with the token program.  Bounded to one burn
\* between two instructions that notice.
BurnLp(tokens) ==
  /\ lp_mint_supply = lp_supply
  /\ tokens <= lp_mint_supply
  /\ lp_mint_supply' = lp_mint_supply - tokens
  /\ UNCHANGED <<stakingVars, msolVars, sol_leg, msol_leg, lp_supply>>

\* Lamports arrive in the SOL leg behind the program's back.  Bounded to a
\* leg that holds less than what arrives.
DonateSolLeg(lamports) ==
  /\ sol_leg - RentExempt < lamports
  /\ sol_leg' = sol_leg + lamports
  /\ UNCHANGED <<stakingVars, msolVars, msol_leg, lp_mint_supply, lp_supply>>
=============================================================================
