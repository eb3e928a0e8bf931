------------------------------ MODULE MarginMath ------------------------------
(***************************************************************************)
(* The arithmetic of crates/margin and crates/funding: what a position is  *)
(* worth, what it must hold, how its remains are shared out, and how the   *)
(* funding index grows.  Amounts are in quote units, ratios in basis       *)
(* points.  Rust's integer division truncates toward zero; its `as u64`    *)
(* keeps the low 64 bits, and a 128-bit product wraps in a release build.  *)
(***************************************************************************)
EXTENDS Integers

CONSTANTS
    FUNDING_INDEX_SCALE,  \* index units per quote unit (10^9 in the program)
    U64_MAX, I64_MAX, U128_MAX

ASSUME WidthAssumption ==
    /\ FUNDING_INDEX_SCALE \in Nat \ {0}
    /\ U64_MAX \in Nat \ {0} /\ I64_MAX \in Nat \ {0} /\ U128_MAX \in Nat \ {0}
    /\ I64_MAX <= U64_MAX /\ U64_MAX <= U128_MAX

BPS_DENOMINATOR == 10000

----------------------------------------------------------------------------
Abs(x) == IF x < 0 THEN -x ELSE x
Smaller(a, b) == IF a < b THEN a ELSE b
Larger(a, b) == IF a < b THEN b ELSE a

AsU64(x) == x % (U64_MAX + 1)
Wrap128(x) == x % (U128_MAX + 1)

\* x / d of Rust for d > 0.
TruncDiv(x, d) == IF x < 0 THEN -((-x) \div d) ELSE x \div d

\* n * bps / 10_000 on u128.
BpsOf(n, bps) == Wrap128(n * bps) \div BPS_DENOMINATOR

----------------------------------------------------------------------------
(* crates/funding.                                                          *)

ClampRate(proposed, max_abs) == Smaller(Larger(proposed, -max_abs), max_abs)

\* The index after prior_rate has been in effect for elapsed seconds.
Accrue(cumulative, prior_rate, elapsed) ==
    Smaller(Larger(cumulative + prior_rate * elapsed, -I64_MAX - 1), I64_MAX)

FundingPnl(size, snapshot, index_now) ==
    TruncDiv((index_now - snapshot) * size, FUNDING_INDEX_SCALE)

----------------------------------------------------------------------------
(* crates/margin.                                                           *)

\* |size| * mark.
Notional(size, mark) == Abs(size) * mark

\* Collateral and what price and funding have added to it since the position
\* was opened. Negative: underwater.
Equity(position, mark, index_now) ==
    position.collateral + position.size * (mark - position.entry_price)
        + FundingPnl(position.size, position.funding_snapshot_index, index_now)

\* (mutant: divides first)
DivideFirst(notional, bps) == (notional \div BPS_DENOMINATOR) * bps
InitialMargin(notional, bps) == BpsOf(notional, bps)
MaintenanceMargin(notional, bps) == BpsOf(notional, bps)
IsLiquidatable(equity, maintenance_margin) == equity < maintenance_margin

\* The penalty of a liquidation never exceeds the equity that is left.
Penalty(equity, notional, penalty_bps) ==
    Smaller(Smaller(BpsOf(notional, penalty_bps), I64_MAX), Larger(equity, 0))

LiquidationSplit(equity, notional, penalty_bps, fund_share_bps) ==
    LET penalty == Penalty(equity, notional, penalty_bps)
        fund_slice == BpsOf(penalty, fund_share_bps)
    IN [penalty           |-> penalty,
        to_liquidator     |-> AsU64(penalty - fund_slice),
        to_insurance_fund |-> AsU64(fund_slice),
        to_owner          |-> AsU64(Larger(Larger(equity, 0) - penalty, 0))]

ClosePayout(equity) == IF equity < 0 THEN 0 ELSE AsU64(equity)

\* The loss, as far as the fund's balance goes. (mutants: the whole loss;
\* nothing unless the balance covers all of it)
WholeLoss(equity, fund_balance) == IF equity < 0 THEN Smaller(-equity, U64_MAX) ELSE 0
AllOrNothing(equity, fund_balance) == IF equity < 0 /\ -equity <= fund_balance THEN -equity ELSE 0
InsuranceDraw(equity, fund_balance) ==
    IF equity < 0 THEN Smaller(Smaller(-equity, U64_MAX), fund_balance) ELSE 0

=============================================================================
