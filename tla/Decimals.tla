------------------------------ MODULE Decimals ------------------------------
(***************************************************************************)
(* The arithmetic of the contracts: cosmwasm's Uint128 and Decimal, and    *)
(* the helpers of packages/utils/src/math.rs on top of them.               *)
(*                                                                         *)
(* A Decimal is a number of atomics: the natural number n stands for the   *)
(* decimal n / One.  In the code One is 10^18; it is a parameter here so   *)
(* that TLC can work with small numbers.  Uint128 is Nat: every overflow   *)
(* aborts the transaction (checked_* returns an error, the operators       *)
(* panic), so a bound on the integers only removes steps.                  *)
(***************************************************************************)
EXTENDS Integers

CONSTANT One    \* the number of atomics of the decimal 1

ASSUME OneAssumption == One \in Nat \ {0}

Decimal == Nat

Uint == Nat

-----------------------------------------------------------------------------
(***************************************************************************)
(* cosmwasm_std.  A multiplication truncates; so does a ratio.             *)
(***************************************************************************)

\* Decimal::checked_mul
DecimalMul(a, b) == (a * b) \div One

\* Decimal::from_ratio
FromRatio(numerator, denominator) == (numerator * One) \div denominator

\* Uint128 * Decimal
UintMul(n, a) == (n * a) \div One

-----------------------------------------------------------------------------
(***************************************************************************)
(* packages/utils/src/math.rs                                              *)
(***************************************************************************)

DivCeil(numerator, denominator) ==
    numerator \div denominator + (IF numerator % denominator = 0 THEN 0 ELSE 1)

DivideDecimalByDecimal(a, b) == FromRatio(a, b)

DivideUintByDecimal(n, a) == (n * One) \div a

DivideUintByDecimalCeil(n, a) == DivCeil(n * One, a)
=============================================================================
