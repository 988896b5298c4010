------------------------------ MODULE Money ------------------------------
(***************************************************************************)
(* utils/money.ts.  A decimal string is units * 10^-places: the number its *)
(* digits make and the digits behind its point, "1.50" being 150 with 2    *)
(* places.  Base units are natural numbers.                                *)
(***************************************************************************)
EXTENDS Naturals

Decimal == [units: Nat, places: Nat]

\* 10 to the n-th.
Pow10[n \in Nat] == IF n = 0 THEN 1 ELSE 10 * Pow10[n - 1]

\* decimalPlacesOf(amount) is amount.places.
Scaled(a, places) == a.units * Pow10[places - a.places]

\* isPositiveDecimalString.
isPositive(a) == a.units > 0

\* moneyString: what the schemas let in.
moneyString(a, maxDecimals, maxIntegerDigits) ==
  /\ isPositive(a)
  /\ a.places <= maxDecimals
  /\ a.units < Pow10[maxIntegerDigits + a.places]

\* parseUnits refuses digits the asset has no place for, unless they are zeros.
Converts(a, decimals) ==
  IF a.places <= decimals THEN TRUE ELSE a.units % Pow10[a.places - decimals] = 0

toBaseUnits(a, decimals) ==
  IF a.places <= decimals THEN Scaled(a, decimals)
  ELSE a.units \div Pow10[a.places - decimals]

\* formatUnits and the cut of an all-zero fraction: no trailing zeros are left.
Fits(value, decimals, places) == value % Pow10[decimals - places] = 0

fromBaseUnits(value, decimals) ==
  LET p == CHOOSE p \in 0..decimals :
             /\ Fits(value, decimals, p)
             /\ \A q \in 0..decimals : Fits(value, decimals, q) => p <= q
  IN  [units |-> value \div Pow10[decimals - p], places |-> p]

\* isAtLeast of externalTransfer.service: an amount that does not convert is too much.
isAtLeast(available, required, decimals) ==
  /\ Converts(available, decimals) /\ Converts(required, decimals)
  /\ toBaseUnits(available, decimals) >= toBaseUnits(required, decimals)

\* The order of amounts as the fractions they are, for what is said of the code.
AtMost(a, b) == a.units * Pow10[b.places] <= b.units * Pow10[a.places]
=============================================================================
