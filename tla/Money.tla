------------------------------- MODULE Money -------------------------------
(***************************************************************************)
(* The money columns.  Every amount and balance is a DECIMAL(20, 4) column *)
(* that the services read with Number(...), add to or subtract from as a   *)
(* JavaScript number, and write back with String(...): PostgreSQL rounds   *)
(* what it is handed to four decimals, half away from zero, and refuses a  *)
(* value whose integer part is too wide.                                   *)
(*                                                                         *)
(* A value is a count of quarters of 0.0001.  Quantum of them make one     *)
(* 0.0001, the finest amount a column keeps, so that a request can carry   *)
(* an amount a column cannot.  Sums of JavaScript numbers are exact here:  *)
(* up to 2^53 in units of 0.0001 the noise of a binary fraction is far     *)
(* below a quarter of a quantum, and the column's rounding removes it.     *)
(***************************************************************************)
EXTENDS Integers

CONSTANT
    \* The largest value a column holds: 9999999999999999.9999 in the code.
    MaxNumeric

\* A column is at least wide enough for 0.
ASSUME MaxNumericAssumption == MaxNumeric \in Nat

Quantum == 4

\* What a DECIMAL(20, 4) column stores of the number x.
ToNumeric(x) == IF x >= 0
                THEN Quantum * ((x + 2) \div Quantum)
                ELSE -(Quantum * ((2 - x) \div Quantum))

\* Mutated form of Fits: a column of any width.
FitsAlways(x) == TRUE

\* PostgreSQL raises numeric_value_out_of_range (22003) on any other value.
Fits(x) == ToNumeric(x) \in (-MaxNumeric)..MaxNumeric

\* A number a column can hold unchanged.
IsWhole(x) == x % Quantum = 0
=============================================================================
