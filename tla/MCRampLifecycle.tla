-------------------------- MODULE MCRampLifecycle --------------------------
EXTENDS RampLifecycle

\* Between 1 and 2 Naira: the upper limit, and amounts just outside.
MCAmounts == {[whole |-> 2, frac |-> <<>>], [whole |-> 2, frac |-> <<0, 1>>],
              [whole |-> 0, frac |-> <<9, 9>>], [whole |-> 1, frac |-> <<0, 0, 5>>]}

Digit == {0, 1, 5, 9}

\* The limits are compared as fractions of a Naira: no padding of the digits and no
\* rounding lets an amount slip past, and no third digit is let in.
ASSUME KoboComparesFractions ==
  \A whole \in 0..3, places \in 0..3 : \A frac \in [1..places -> Digit] :
    LET thousandths == 1000 * whole + (IF places > 0 THEN 100 * frac[1] ELSE 0)
                       + (IF places > 1 THEN 10 * frac[2] ELSE 0) + (IF places > 2 THEN frac[3] ELSE 0)
    IN  assertValidNgnAmount([whole |-> whole, frac |-> frac], MinNgn, MaxNgn)
          <=> places <= 2 /\ thousandths \in (1000 * MinNgn)..(1000 * MaxNgn)
=============================================================================
