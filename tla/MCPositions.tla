------------------------------ MODULE MCPositions ------------------------------
(* Positions on small markets: see MCPositions.cfg.                         *)
EXTENDS Positions, TLC

\* Traders are interchangeable, and so are markets.
Symmetry == Permutations(Users) \union Permutations(Markets)

\* Longs and shorts.
LongAndShort == {10, -10}

\* Rates on both sides of zero, one of them beyond the cap.
RatesBothWays == {5, -9}
NoRates == {}

=============================================================================
