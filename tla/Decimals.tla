------------------------------ MODULE Decimals ------------------------------
(***************************************************************************)
(* The `decimal` library (external, a dependency of programs/amm): a       *)
(* Decimal is a natural number of units of 1/Wad, and each operation       *)
(* truncates to a whole unit.  A result below zero is an error, which the  *)
(* callers exclude before they subtract.                                   *)
(***************************************************************************)
EXTENDS Integers

CONSTANT Wad  \* the scale; 10^18 in the library

ASSUME WadAssumption == Wad \in Nat \ {0, 1}

Dec(n)    == n * Wad
Mul(a, b) == (a * b) \div Wad
Div(a, b) == (a * Wad) \div b

Floor(a) == a \div Wad
Ceil(a)  == (a + Wad - 1) \div Wad
Round(a) == (a + Wad \div 2) \div Wad

\* By repeated squaring, which decides where the truncations fall.
Pow(a, n) ==
  LET Raise[b \in Nat, k \in Nat] ==
        IF k = 0 THEN Dec(1)
        ELSE IF k = 1 THEN b
        ELSE IF k % 2 = 0 THEN Raise[Mul(b, b), k \div 2]
        ELSE Mul(b, Raise[Mul(b, b), k \div 2])
  IN  Raise[a, n]

\* The integer part of the square root of n: two bits of n for one of the root.
NextBit(low, n) == IF (low + 1) * (low + 1) <= n THEN low + 1 ELSE low

IntegerRoot[n \in Nat] == IF n = 0 THEN 0 ELSE NextBit(2 * IntegerRoot[n \div 4], n)

Sqrt(a) == IntegerRoot[a * Wad]
=============================================================================
