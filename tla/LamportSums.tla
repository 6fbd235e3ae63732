---------------------------- MODULE LamportSums ----------------------------
(***************************************************************************)
(* Sums of lamports over a finite index set.  The program keeps several    *)
(* running totals next to lists of records (StakeSystem, ValidatorSystem,  *)
(* the outstanding TicketAccountData accounts); the invariants say that a  *)
(* running total equals the sum over its list.                             *)
(*                                                                         *)
(* The sum is defined by counting: f[x] becomes the f[x] points <<x, 1>>,  *)
(* ..., <<x, f[x]>>.  It is the usual sum for natural-valued functions and *)
(* needs no recursion, so the facts proved in LamportSumsProofs hold for   *)
(* every finite index set.                                                 *)
(***************************************************************************)
EXTENDS Integers, FiniteSets

Points(f) == UNION {{<<x, i>> : i \in 1..f[x]} : x \in DOMAIN f}

Sum(f) == Cardinality(Points(f))
=============================================================================
