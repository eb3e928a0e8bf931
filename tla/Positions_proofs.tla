--------------------------- MODULE Positions_proofs ---------------------------
(***************************************************************************)
(* Proofs about Positions: the variables keep their types, the tokens that *)
(* the record of an insurance fund promises are always there, funding      *)
(* never reaches back, a settlement pays out no more than it should and no *)
(* less, leaves its account behind for good and is there for every bad     *)
(* debt, and no position opens that could be liquidated at once.           *)
(***************************************************************************)
EXTENDS Positions, TLAPS

----------------------------------------------------------------------------
(* Products, quotients and remainders of naturals.                          *)

\* A product grows with its factor.
LEMMA ProductMonotone ==
    ASSUME NEW x \in Int, NEW y \in Int, NEW n \in Nat, x <= y
    PROVE  /\ n * x \in Int /\ n * y \in Int /\ n * x <= n * y
           /\ x * n \in Int /\ y * n \in Int /\ x * n <= y * n
OBVIOUS

\* A quotient is no larger than what is divided.
LEMMA QuotientBound ==
    ASSUME NEW x \in Nat, NEW y \in Nat, NEW n \in Nat \ {0}, x <= y * n
    PROVE  x \div n <= y
OBVIOUS

\* More divided by the same is no less.
LEMMA QuotientMonotone ==
    ASSUME NEW x \in Nat, NEW y \in Nat, NEW n \in Nat \ {0}, x <= y
    PROVE  x \div n <= y \div n
OBVIOUS

\* A remainder is no larger than what is divided, and a small number is its own.
LEMMA ModSmaller ==
    ASSUME NEW x \in Nat, NEW n \in Nat \ {0}
    PROVE  x % n <= x /\ (x < n => x % n = x)
OBVIOUS

\* A remainder by a positive number is smaller than it.
LEMMA ModRange ==
    ASSUME NEW x \in Int, NEW n \in Nat \ {0}
    PROVE  x % n \in 0 .. n - 1
OBVIOUS

\* The conversions of the code yield naturals.
LEMMA Widths ==
    ASSUME NEW x \in Int
    PROVE  AsU64(x) \in Nat /\ Wrap128(x) \in Nat
<1>1. U64_MAX + 1 \in Nat \ {0} /\ U128_MAX + 1 \in Nat \ {0}
    BY WidthAssumption
<1>2. x % (U64_MAX + 1) \in 0 .. (U64_MAX + 1) - 1
    BY <1>1, ModRange
<1>3. x % (U128_MAX + 1) \in 0 .. (U128_MAX + 1) - 1
    BY <1>1, ModRange
<1> QED
    BY <1>2, <1>3 DEF AsU64, Wrap128

\* The share of an amount is a natural.
LEMMA BpsNat ==
    ASSUME NEW n \in Int, NEW bps \in Int
    PROVE  BpsOf(n, bps) \in Nat
<1>1. n * bps \in Int
    OBVIOUS
<1>2. Wrap128(n * bps) \in Nat
    BY <1>1, Widths
<1> QED
    BY <1>2 DEF BpsOf, BPS_DENOMINATOR

\* Equity and notional of a well-typed position are integers.
LEMMA EquityInt ==
    ASSUME NEW position, position.collateral \in Int, position.size \in Int,
           position.entry_price \in Int, position.funding_snapshot_index \in Int,
           NEW mark \in Int, NEW index_now \in Int
    PROVE  Equity(position, mark, index_now) \in Int /\ Notional(position.size, mark) \in Int
<1> DEFINE delta == (index_now - position.funding_snapshot_index) * position.size
           pnl == position.size * (mark - position.entry_price)
<1>1. delta \in Int /\ pnl \in Int
    OBVIOUS
<1>2. TruncDiv(delta, FUNDING_INDEX_SCALE) \in Int
    <2> HIDE DEF delta
    <2> QED BY <1>1, WidthAssumption DEF TruncDiv
<1>3. FundingPnl(position.size, position.funding_snapshot_index, index_now) \in Int
    BY <1>2 DEF FundingPnl
<1>4. Equity(position, mark, index_now) \in Int
    <2> HIDE DEF pnl
    <2>1. Equity(position, mark, index_now)
            = position.collateral + pnl
                + FundingPnl(position.size, position.funding_snapshot_index, index_now)
        BY DEF Equity, pnl
    <2> QED BY <2>1, <1>1, <1>3
<1>5. Notional(position.size, mark) \in Int
    BY DEF Notional, Abs
<1> QED
    BY <1>4, <1>5

\* What a settlement pays is a natural, and the fund is asked for no more than
\* its balance.
LEMMA PaymentsNat ==
    ASSUME NEW equity \in Int, NEW notional \in Int, NEW balance \in Nat
    PROVE  LET split == LiquidationSplit(equity, notional, LIQUIDATION_PENALTY_BPS,
                                         INSURANCE_FUND_PENALTY_SHARE_BPS)
           IN /\ split.to_liquidator \in Nat
              /\ split.to_insurance_fund \in Nat
              /\ split.to_owner \in Nat
              /\ ClosePayout(equity) \in Nat
              /\ InsuranceDraw(equity, balance) \in 0 .. balance
<1> DEFINE raw == BpsOf(notional, LIQUIDATION_PENALTY_BPS)
           penalty == Penalty(equity, notional, LIQUIDATION_PENALTY_BPS)
           slice == BpsOf(penalty, INSURANCE_FUND_PENALTY_SHARE_BPS)
<1>1. raw \in Nat
    <2>1. LIQUIDATION_PENALTY_BPS \in Int
        BY PolicyAssumption
    <2> QED BY <2>1, BpsNat
<1>2. penalty \in Int
    <2> HIDE DEF raw
    <2>1. penalty = Smaller(Smaller(raw, I64_MAX), Larger(equity, 0))
        BY DEF Penalty, raw
    <2> HIDE DEF penalty
    <2> QED BY <2>1, <1>1, WidthAssumption DEF Smaller, Larger
<1>3. slice \in Nat
    <2> HIDE DEF penalty
    <2>1. INSURANCE_FUND_PENALTY_SHARE_BPS \in Int
        BY PolicyAssumption DEF BPS_DENOMINATOR
    <2> QED BY <2>1, <1>2, BpsNat
<1>4. /\ AsU64(penalty - slice) \in Nat
      /\ AsU64(slice) \in Nat
      /\ AsU64(Larger(Larger(equity, 0) - penalty, 0)) \in Nat
    <2> HIDE DEF penalty, slice
    <2>1. /\ penalty - slice \in Int
          /\ slice \in Int
          /\ Larger(Larger(equity, 0) - penalty, 0) \in Int
        BY <1>2, <1>3 DEF Larger
    <2> QED BY <2>1, Widths
<1>5. ClosePayout(equity) \in Nat
    BY Widths DEF ClosePayout
<1>6. InsuranceDraw(equity, balance) \in 0 .. balance
    BY WidthAssumption DEF InsuranceDraw, Smaller
<1> QED
    BY <1>4, <1>5, <1>6 DEF LiquidationSplit

\* A covered transfer leaves balances natural and takes only from its source.
LEMMA TransferKeeps ==
    ASSUME NEW balances \in [TokenAccounts -> Nat],
           NEW from \in TokenAccounts, NEW to \in TokenAccounts, NEW amount \in Nat,
           Covers(balances, from, amount)
    PROVE  /\ Transfer(balances, from, to, amount) \in [TokenAccounts -> Nat]
           /\ \A a \in TokenAccounts \ {from} : Transfer(balances, from, to, amount)[a] >= balances[a]
           /\ Transfer(balances, from, to, amount)[from] >= balances[from] - amount
           /\ to # from => Transfer(balances, from, to, amount)[to] = balances[to] + amount
<1>1. CASE from = to
    BY <1>1 DEF Transfer, Covers
<1>2. CASE from # to
    <2>1. Transfer(balances, from, to, amount)
            = [balances EXCEPT ![from] = @ - amount, ![to] = @ + amount]
        BY <1>2 DEF Transfer
    <2>2. balances[from] \in Nat /\ balances[to] \in Nat /\ amount <= balances[from]
        BY DEF Covers
    <2> QED BY <1>2, <2>1, <2>2
<1> QED
    BY <1>1, <1>2

\* Token accounts of different kinds are different accounts.
LEMMA AccountsDiffer ==
    /\ \A u \in Users : Wallet(u) \in TokenAccounts
    /\ \A m \in Markets : Vault(m) \in TokenAccounts /\ FundToken(m) \in TokenAccounts
    /\ \A m, n \in Markets : FundToken(m) # Vault(n)
    /\ \A m \in Markets, u \in Users : FundToken(m) # Wallet(u)
    /\ \A m, n \in Markets : m # n => FundToken(m) # FundToken(n)
BY DEF TokenAccounts, Wallet, Vault, FundToken

----------------------------------------------------------------------------
(* The inductive invariant: types and solvency, in the parts that a step    *)
(* can disturb one by one.                                                  *)

FeedsOK ==
    /\ now \in 0 .. MaxSlot
    /\ oracle \in [Markets -> [price : Int, publish_slot : 0 .. now]]
    /\ funding \in [Markets -> [cumulative_funding_index : Int,
                                current_rate_per_sec : Int, last_update_ts : 0 .. now]]
Position == [size : Int, entry_price : Int, collateral : Nat, funding_snapshot_index : Int]
PositionsOK ==
    /\ DOMAIN positions \subseteq Users \X Markets
    /\ \A p \in DOMAIN positions : positions[p] \in Position
MoneyOK ==
    /\ fund \in [Markets -> [balance : Nat, total_deposits : Nat, total_drawdowns : Nat]]
    /\ tokens \in [TokenAccounts -> Nat]

IInv == FeedsOK /\ PositionsOK /\ MoneyOK /\ FundSolvent

\* The parts are those of TypeOK.
LEMMA IInvTypeOK == IInv => TypeOK
BY DEF IInv, FeedsOK, PositionsOK, MoneyOK, Position, TypeOK

\* New feeds and funds, no positions, wallets with their first tokens.
LEMMA InitIInv == Init => IInv
<1> SUFFICES ASSUME Init PROVE IInv
    OBVIOUS
<1>1. FeedsOK
    BY InputAssumption DEF Init, FeedsOK
<1>2. PositionsOK
    BY DEF Init, PositionsOK
<1>3. MoneyOK /\ FundSolvent
    BY InputAssumption, AccountsDiffer DEF Init, MoneyOK, FundSolvent
<1> QED
    BY <1>1, <1>2, <1>3 DEF IInv

\* A longer clock range holds what a shorter one did.
LEMMA TickIInv == IInv /\ Tick => IInv'
<1> SUFFICES ASSUME IInv, Tick PROVE IInv'
    OBVIOUS
<1>1. now \in Nat /\ MaxSlot \in Nat /\ now' = now + 1 /\ now' \in 0 .. MaxSlot
    BY InputAssumption DEF IInv, FeedsOK, Tick
<1>2. 0 .. now \subseteq 0 .. now'
    BY <1>1
<1>3. FeedsOK'
    BY <1>1, <1>2 DEF IInv, FeedsOK, Tick
<1>4. PositionsOK' /\ MoneyOK' /\ FundSolvent'
    BY DEF IInv, PositionsOK, MoneyOK, FundSolvent, Tick
<1> QED
    BY <1>3, <1>4 DEF IInv

\* Any signed price fits the oracle's field.
LEMMA SetOraclePriceIInv ==
    ASSUME IInv, NEW market \in Markets, NEW price \in Prices, SetOraclePrice(market, price)
    PROVE  IInv'
<1>1. price \in Int /\ now \in 0 .. now
    BY InputAssumption, WidthAssumption DEF IInv, FeedsOK
<1>2. FeedsOK'
    BY <1>1 DEF IInv, FeedsOK, SetOraclePrice
<1>3. PositionsOK' /\ MoneyOK' /\ FundSolvent'
    BY DEF IInv, PositionsOK, MoneyOK, FundSolvent, SetOraclePrice
<1> QED
    BY <1>2, <1>3 DEF IInv

\* Accrual and clamping yield integers.
LEMMA UpdateFundingIInv ==
    ASSUME IInv, NEW market \in Markets, NEW rate \in Rates, UpdateFunding(market, rate)
    PROVE  IInv'
<1> DEFINE f == funding[market]
           index == Accrue(f.cumulative_funding_index, f.current_rate_per_sec,
                           now - f.last_update_ts)
<1>1. now \in 0 .. now /\ rate \in Int
    BY InputAssumption, WidthAssumption DEF IInv, FeedsOK
<1>2. /\ f.cumulative_funding_index \in Int /\ f.current_rate_per_sec \in Int
      /\ f.last_update_ts \in Int /\ now \in Int
    BY DEF IInv, FeedsOK
<1>3. index \in Int
    <2>1. f.cumulative_funding_index + f.current_rate_per_sec * (now - f.last_update_ts) \in Int
        BY <1>2
    <2> QED BY <2>1, WidthAssumption DEF Accrue, Smaller, Larger
<1>4. ClampRate(rate, MAX_FUNDING_RATE_PER_SEC_ABS) \in Int
    BY <1>1, PolicyAssumption DEF ClampRate, Smaller, Larger
<1>5. funding' = [funding EXCEPT ![market] =
            [cumulative_funding_index |-> index,
             current_rate_per_sec |-> ClampRate(rate, MAX_FUNDING_RATE_PER_SEC_ABS),
             last_update_ts |-> now]]
    BY DEF UpdateFunding, RateInEffect
<1>6. FeedsOK'
    <2> HIDE DEF index, f
    <2>1. now' = now /\ oracle' = oracle
        BY DEF UpdateFunding
    <2> QED BY <1>1, <1>3, <1>4, <1>5, <2>1 DEF IInv, FeedsOK
<1>7. PositionsOK' /\ MoneyOK' /\ FundSolvent'
    BY DEF IInv, PositionsOK, MoneyOK, FundSolvent, UpdateFunding
<1> QED
    BY <1>6, <1>7 DEF IInv

\* Tokens that enter a vault or a wallet leave every fund as it was.
LEMMA OpenPositionIInv ==
    ASSUME IInv, NEW user \in Users, NEW market \in Markets, NEW feed \in Markets,
           NEW vault \in Markets, NEW size \in Sizes, NEW collateral \in Collaterals,
           OpenPosition(user, market, feed, vault, size, collateral)
    PROVE  IInv'
<1> DEFINE p == <<user, market>>
           opened == [size |-> size, entry_price |-> oracle[feed].price,
                      collateral |-> collateral,
                      funding_snapshot_index |-> funding[feed].cumulative_funding_index]
<1>1. opened \in Position
    BY InputAssumption, WidthAssumption DEF IInv, FeedsOK, Position
<1>2. PositionsOK'
    <2>1. positions' = [q \in DOMAIN positions \union {p} |->
                            IF q # p THEN positions[q] ELSE opened]
        BY DEF OpenPosition
    <2> HIDE DEF opened
    <2> QED BY <1>1, <2>1 DEF IInv, PositionsOK
<1>3. collateral \in Nat
    BY InputAssumption, WidthAssumption
<1>4. /\ tokens' \in [TokenAccounts -> Nat]
      /\ \A a \in TokenAccounts \ {Wallet(user)} : tokens'[a] >= tokens[a]
    BY <1>3, AccountsDiffer, TransferKeeps DEF IInv, MoneyOK, OpenPosition
<1>5. MoneyOK' /\ FundSolvent'
    <2>1. \A m \in Markets : tokens'[FundToken(m)] >= tokens[FundToken(m)]
        BY <1>4, AccountsDiffer
    <2>2. fund' = fund
        BY DEF OpenPosition
    <2>3. \A m \in Markets : /\ fund[m].balance \in Int
                             /\ tokens[FundToken(m)] \in Int /\ tokens'[FundToken(m)] \in Int
        BY <1>4, AccountsDiffer DEF IInv, MoneyOK
    <2>4. FundSolvent'
        BY <2>1, <2>2, <2>3 DEF IInv, FundSolvent
    <2>5. MoneyOK'
        BY <1>4, <2>2 DEF IInv, MoneyOK
    <2> QED BY <2>4, <2>5
<1>6. FeedsOK'
    BY DEF OpenPosition, IInv, FeedsOK
<1> QED
    BY <1>2, <1>5, <1>6 DEF IInv

\* A settled position is a position.
LEMMA SettledPosition ==
    ASSUME IInv, NEW p \in DOMAIN positions, NEW feed \in Markets,
           positions' = [positions EXCEPT ![p] = Dormant(feed)]
    PROVE  PositionsOK'
<1>1. Dormant(feed) \in Position
    BY DEF IInv, FeedsOK, Position, Dormant
<1> QED
    BY <1>1 DEF IInv, PositionsOK

\* What the equity of a position is computed from are integers.
LEMMA EquityAtInt ==
    ASSUME IInv, NEW p \in DOMAIN positions, NEW feed \in Markets
    PROVE  EquityAt(p, feed) \in Int /\ NotionalAt(p, feed) \in Int
<1>1. positions[p] \in Position
    BY DEF IInv, PositionsOK
<1>2. /\ positions[p].collateral \in Int /\ positions[p].size \in Int
      /\ positions[p].entry_price \in Int /\ positions[p].funding_snapshot_index \in Int
    BY <1>1 DEF Position
<1>3. oracle[feed].price \in Int /\ funding[feed].cumulative_funding_index \in Int
    BY DEF IInv, FeedsOK
<1> QED
    BY <1>2, <1>3, EquityInt DEF EquityAt, NotionalAt

\* The counters of a fund move with its tokens: enough for solvency.
LEMMA FundMoves ==
    ASSUME IInv, NEW m \in Markets, NEW credit \in Nat, NEW draw \in Nat,
           draw <= fund[m].balance + credit,
           fund' = [fund EXCEPT ![m] = Draw(Credit(fund[m], credit), draw)],
           tokens' \in [TokenAccounts -> Nat],
           tokens'[FundToken(m)] >= tokens[FundToken(m)] + credit - draw,
           \A n \in Markets \ {m} : tokens'[FundToken(n)] >= tokens[FundToken(n)]
    PROVE  MoneyOK' /\ FundSolvent'
<1> DEFINE after == Draw(Credit(fund[m], credit), draw)
<1>1. /\ fund[m].balance \in Nat /\ fund[m].total_deposits \in Nat
      /\ fund[m].total_drawdowns \in Nat
      /\ fund[m].balance = fund[m].total_deposits - fund[m].total_drawdowns
      /\ fund[m].balance <= tokens[FundToken(m)]
    BY DEF IInv, MoneyOK, FundSolvent
<1>2. /\ after = [balance |-> fund[m].balance + credit - draw,
                  total_deposits |-> fund[m].total_deposits + credit,
                  total_drawdowns |-> fund[m].total_drawdowns + draw]
      /\ fund[m].balance + credit - draw \in Nat
    BY <1>1 DEF Draw, Credit
<1>3. after \in [balance : Nat, total_deposits : Nat, total_drawdowns : Nat]
    <2> HIDE DEF after
    <2> QED BY <1>1, <1>2
<1>4. MoneyOK'
    <2> HIDE DEF after
    <2>1. fund' = [fund EXCEPT ![m] = after]
        BY DEF after
    <2> QED BY <1>3, <2>1 DEF IInv, MoneyOK
<1>5. \A n \in Markets : tokens[FundToken(n)] \in Nat /\ tokens'[FundToken(n)] \in Nat
    BY AccountsDiffer DEF IInv, MoneyOK
<1>6. /\ fund'[m].balance = fund'[m].total_deposits - fund'[m].total_drawdowns
      /\ fund'[m].balance <= tokens'[FundToken(m)]
    <2> HIDE DEF after
    <2>1. fund'[m] = after
        BY DEF after, IInv, MoneyOK
    <2> QED BY <1>1, <1>2, <1>5, <2>1
<1>7. ASSUME NEW n \in Markets \ {m}
      PROVE  /\ fund'[n].balance = fund'[n].total_deposits - fund'[n].total_drawdowns
             /\ fund'[n].balance <= tokens'[FundToken(n)]
    <2>1. fund'[n] = fund[n] /\ fund[n].balance \in Nat
        BY DEF IInv, MoneyOK
    <2>2. fund[n].balance <= tokens[FundToken(n)] /\ tokens'[FundToken(n)] >= tokens[FundToken(n)]
        BY DEF IInv, FundSolvent
    <2>3. fund[n].balance = fund[n].total_deposits - fund[n].total_drawdowns
        BY DEF IInv, FundSolvent
    <2> QED BY <1>5, <2>1, <2>2, <2>3
<1>8. FundSolvent'
    BY <1>6, <1>7 DEF FundSolvent
<1> QED
    BY <1>4, <1>8

\* The payout leaves the vault, so the fund gives up no more than it draws.
LEMMA ClosePositionIInv ==
    ASSUME IInv, NEW p \in DOMAIN positions, NEW market \in Markets, NEW feed \in Markets,
           NEW vault \in Markets, NEW record \in Markets, NEW token \in Markets,
           ClosePosition(p, market, feed, vault, record, token)
    PROVE  IInv'
<1> DEFINE payout == ClosePayout(EquityAt(p, feed))
           drawn == InsuranceDraw(EquityAt(p, feed), fund[record].balance)
<1>1. fund[record].balance \in Nat /\ fund[record].total_deposits \in Nat
    BY DEF IInv, MoneyOK
<1>2. payout \in Nat /\ drawn \in Nat /\ drawn <= fund[record].balance
    <2>1. payout \in Nat /\ drawn \in 0 .. fund[record].balance
        BY <1>1, EquityAtInt, PaymentsNat
    <2> HIDE DEF drawn, payout
    <2> QED BY <1>1, <2>1
<1>3. record = market /\ token = market
    BY DEF ClosePosition, VerifyFund
<1>4. PICK user_token \in TokenAccounts :
            LET paid == Transfer(tokens, Vault(vault), user_token, payout)
            IN /\ Covers(paid, FundToken(token), drawn)
               /\ tokens' = Transfer(paid, FundToken(token), Vault(vault), drawn)
    BY DEF ClosePosition
<1> DEFINE paid == Transfer(tokens, Vault(vault), user_token, payout)
<1>5. /\ paid \in [TokenAccounts -> Nat]
      /\ \A m \in Markets : paid[FundToken(m)] >= tokens[FundToken(m)]
    <2>1. Covers(tokens, Vault(vault), payout)
        BY DEF ClosePosition
    <2> HIDE DEF payout
    <2> QED BY <1>2, <2>1, AccountsDiffer, TransferKeeps DEF IInv, MoneyOK
<1>6. /\ tokens' \in [TokenAccounts -> Nat]
      /\ tokens'[FundToken(token)] >= paid[FundToken(token)] - drawn
      /\ \A m \in Markets \ {token} : tokens'[FundToken(m)] >= paid[FundToken(m)]
    <2> HIDE DEF paid, drawn
    <2>1. Covers(paid, FundToken(token), drawn)
        BY <1>4 DEF paid
    <2>2. tokens' = Transfer(paid, FundToken(token), Vault(vault), drawn)
        BY <1>4 DEF paid
    <2>3. FundToken(token) \in TokenAccounts /\ Vault(vault) \in TokenAccounts
        BY AccountsDiffer
    <2>4. \A m \in Markets \ {token} : FundToken(m) \in TokenAccounts \ {FundToken(token)}
        BY AccountsDiffer
    <2> QED BY <1>2, <1>5, <2>1, <2>2, <2>3, <2>4, TransferKeeps
<1>7. fund' = [fund EXCEPT ![market] = Draw(Credit(fund[market], 0), drawn)]
    <2>1. fund' = [fund EXCEPT ![record] = Draw(fund[record], drawn)]
        BY DEF ClosePosition
    <2> HIDE DEF drawn
    <2>2. Draw(Credit(fund[record], 0), drawn) = Draw(fund[record], drawn)
        BY <1>1 DEF Draw, Credit
    <2> QED BY <1>3, <2>1, <2>2
<1>8. MoneyOK' /\ FundSolvent'
    <2> HIDE DEF drawn, paid
    <2>1. \A m \in Markets : /\ tokens[FundToken(m)] \in Nat /\ paid[FundToken(m)] \in Nat
                             /\ tokens'[FundToken(m)] \in Nat
        BY <1>5, <1>6, AccountsDiffer DEF IInv, MoneyOK
    <2>2. tokens'[FundToken(market)] >= tokens[FundToken(market)] + 0 - drawn
        BY <1>2, <1>3, <1>5, <1>6, <2>1
    <2>3. \A m \in Markets \ {market} : tokens'[FundToken(m)] >= tokens[FundToken(m)]
        BY <1>3, <1>5, <1>6, <2>1
    <2>4. drawn <= fund[market].balance + 0
        BY <1>1, <1>2, <1>3
    <2> QED BY <1>2, <1>6, <1>7, <2>2, <2>3, <2>4, FundMoves
<1>9. PositionsOK'
    BY SettledPosition DEF ClosePosition
<1>10. FeedsOK'
    BY DEF ClosePosition, IInv, FeedsOK
<1> QED
    BY <1>8, <1>9, <1>10 DEF IInv

\* Vault pays liquidator, fund and owner: the fund gains its slice at least,
\* then gives up what it draws.
LEMMA LiquidateIInv ==
    ASSUME IInv, NEW p \in DOMAIN positions, NEW market \in Markets, NEW feed \in Markets,
           NEW vault \in Markets, NEW record \in Markets, NEW token \in Markets,
           Liquidate(p, market, feed, vault, record, token)
    PROVE  IInv'
<1> DEFINE equity == EquityAt(p, feed)
           split == LiquidationSplit(equity, NotionalAt(p, feed), LIQUIDATION_PENALTY_BPS,
                                     INSURANCE_FUND_PENALTY_SHARE_BPS)
           slice == split.to_insurance_fund
           credited == Credit(fund[record], slice)
           drawn == InsuranceDraw(equity, credited.balance)
<1>1. fund[record].balance \in Nat
    BY DEF IInv, MoneyOK
<1>2. equity \in Int /\ NotionalAt(p, feed) \in Int
    BY EquityAtInt
<1>3. split.to_liquidator \in Nat /\ slice \in Nat /\ split.to_owner \in Nat
    <2> HIDE DEF equity
    <2> QED BY <1>1, <1>2, PaymentsNat
<1>4. credited.balance = fund[record].balance + slice /\ credited.balance \in Nat
    <2> HIDE DEF slice
    <2> QED BY <1>1, <1>3 DEF Credit
<1>5. drawn \in Nat /\ drawn <= fund[record].balance + slice
    <2> HIDE DEF equity, credited
    <2>1. drawn \in 0 .. credited.balance
        BY <1>2, <1>4, PaymentsNat
    <2> HIDE DEF drawn, slice
    <2> QED BY <1>1, <1>3, <1>4, <2>1
<1>6. record = market /\ token = market
    BY DEF Liquidate, VerifyFund
<1>7. PICK owner_token \in TokenAccounts, liquidator_token \in TokenAccounts :
            LET t1 == Transfer(tokens, Vault(vault), liquidator_token, split.to_liquidator)
                t2 == Transfer(t1, Vault(vault), FundToken(token), split.to_insurance_fund)
                t3 == Transfer(t2, Vault(vault), owner_token, split.to_owner)
            IN /\ Covers(tokens, Vault(vault), split.to_liquidator)
               /\ Covers(t1, Vault(vault), split.to_insurance_fund)
               /\ Covers(t2, Vault(vault), split.to_owner)
               /\ Covers(t3, FundToken(token), drawn)
               /\ tokens' = Transfer(t3, FundToken(token), Vault(vault), drawn)
    BY DEF Liquidate
<1> DEFINE t1 == Transfer(tokens, Vault(vault), liquidator_token, split.to_liquidator)
           t2 == Transfer(t1, Vault(vault), FundToken(token), slice)
           t3 == Transfer(t2, Vault(vault), owner_token, split.to_owner)
<1>8. /\ t1 \in [TokenAccounts -> Nat]
      /\ \A m \in Markets : t1[FundToken(m)] >= tokens[FundToken(m)]
    <2>1. Covers(tokens, Vault(vault), split.to_liquidator)
        BY <1>7
    <2>2. tokens \in [TokenAccounts -> Nat] /\ Vault(vault) \in TokenAccounts
          /\ \A m \in Markets : FundToken(m) \in TokenAccounts \ {Vault(vault)}
        BY AccountsDiffer DEF IInv, MoneyOK
    <2> HIDE DEF split
    <2> QED BY <1>3, <2>1, <2>2, TransferKeeps
<1>9. /\ t2 \in [TokenAccounts -> Nat]
      /\ t2[FundToken(token)] = t1[FundToken(token)] + slice
      /\ \A m \in Markets : t2[FundToken(m)] >= t1[FundToken(m)]
    <2>1. Covers(t1, Vault(vault), slice)
        BY <1>7
    <2>2. /\ Vault(vault) \in TokenAccounts /\ FundToken(token) \in TokenAccounts
          /\ \A m \in Markets : FundToken(m) \in TokenAccounts \ {Vault(vault)}
        BY AccountsDiffer
    <2> HIDE DEF t1, slice
    <2> QED BY <1>3, <1>8, <2>1, <2>2, TransferKeeps
<1>10. /\ t3 \in [TokenAccounts -> Nat]
       /\ \A m \in Markets : t3[FundToken(m)] >= t2[FundToken(m)]
    <2>1. Covers(t2, Vault(vault), split.to_owner)
        BY <1>7
    <2>2. /\ Vault(vault) \in TokenAccounts
          /\ \A m \in Markets : FundToken(m) \in TokenAccounts \ {Vault(vault)}
        BY AccountsDiffer
    <2> HIDE DEF t2, split
    <2> QED BY <1>3, <1>9, <2>1, <2>2, TransferKeeps
<1>11. /\ tokens' \in [TokenAccounts -> Nat]
       /\ tokens'[FundToken(token)] >= t3[FundToken(token)] - drawn
       /\ \A m \in Markets \ {token} : tokens'[FundToken(m)] >= t3[FundToken(m)]
    <2>1. Covers(t3, FundToken(token), drawn)
        BY <1>7
    <2>2. tokens' = Transfer(t3, FundToken(token), Vault(vault), drawn)
        BY <1>7
    <2> HIDE DEF t3, drawn
    <2>3. FundToken(token) \in TokenAccounts /\ Vault(vault) \in TokenAccounts
        BY AccountsDiffer
    <2>4. \A m \in Markets \ {token} : FundToken(m) \in TokenAccounts \ {FundToken(token)}
        BY AccountsDiffer
    <2> QED BY <1>5, <1>10, <2>1, <2>2, <2>3, <2>4, TransferKeeps
<1>12. fund' = [fund EXCEPT ![market] = Draw(Credit(fund[market], slice), drawn)]
    BY <1>6 DEF Liquidate
<1>13. MoneyOK' /\ FundSolvent'
    <2> HIDE DEF drawn, slice, t1, t2, t3
    <2>1. \A m \in Markets : /\ tokens[FundToken(m)] \in Nat /\ t1[FundToken(m)] \in Nat
                             /\ t2[FundToken(m)] \in Nat /\ t3[FundToken(m)] \in Nat
                             /\ tokens'[FundToken(m)] \in Nat
        BY <1>8, <1>9, <1>10, <1>11, AccountsDiffer DEF IInv, MoneyOK
    <2>2. tokens'[FundToken(market)] >= tokens[FundToken(market)] + slice - drawn
        BY <1>3, <1>5, <1>6, <1>8, <1>9, <1>10, <1>11, <2>1
    <2>3. \A m \in Markets \ {market} : tokens'[FundToken(m)] >= tokens[FundToken(m)]
        BY <1>6, <1>8, <1>9, <1>10, <1>11, <2>1
    <2>4. drawn <= fund[market].balance + slice
        BY <1>5, <1>6
    <2> QED BY <1>3, <1>5, <1>11, <1>12, <2>2, <2>3, <2>4, FundMoves
<1>14. PositionsOK'
    BY SettledPosition DEF Liquidate
<1>15. FeedsOK'
    BY DEF Liquidate, IInv, FeedsOK
<1> QED
    BY <1>13, <1>14, <1>15 DEF IInv

\* A bare transfer may only add to a fund's tokens.
LEMMA DepositIInv ==
    ASSUME IInv, NEW user \in Users, NEW to \in TokenAccounts, NEW amount \in Amounts,
           Deposit(user, to, amount)
    PROVE  IInv'
<1>1. amount \in Nat
    BY InputAssumption, WidthAssumption
<1>2. /\ tokens' \in [TokenAccounts -> Nat]
      /\ \A a \in TokenAccounts \ {Wallet(user)} : tokens'[a] >= tokens[a]
    BY <1>1, AccountsDiffer, TransferKeeps DEF IInv, MoneyOK, Deposit
<1>3. \A m \in Markets : /\ tokens'[FundToken(m)] >= tokens[FundToken(m)]
                         /\ fund[m].balance \in Int
                         /\ tokens[FundToken(m)] \in Int /\ tokens'[FundToken(m)] \in Int
    BY <1>2, AccountsDiffer DEF IInv, MoneyOK
<1>4. fund' = fund
    BY DEF Deposit
<1>5. FundSolvent'
    BY <1>3, <1>4 DEF IInv, FundSolvent
<1>6. MoneyOK'
    BY <1>2, <1>4 DEF IInv, MoneyOK
<1>7. FeedsOK' /\ PositionsOK'
    BY DEF Deposit, IInv, FeedsOK, PositionsOK
<1> QED
    BY <1>5, <1>6, <1>7 DEF IInv

\* Record and tokens of a fund gain the same amount.
LEMMA InsuranceFundDepositIInv ==
    ASSUME IInv, NEW user \in Users, NEW market \in Markets, NEW record \in Markets,
           NEW token \in Markets, NEW amount \in Amounts,
           InsuranceFundDeposit(user, market, record, token, amount)
    PROVE  IInv'
<1>1. amount \in Nat /\ fund[record].balance \in Nat /\ fund[record].total_drawdowns \in Nat
    BY InputAssumption, WidthAssumption DEF IInv, MoneyOK
<1>2. record = market /\ token = market
    BY DEF InsuranceFundDeposit, VerifyFund
<1>3. Wallet(user) # FundToken(token) /\ Covers(tokens, Wallet(user), amount)
    BY AccountsDiffer DEF InsuranceFundDeposit
<1>4. tokens' = Transfer(tokens, Wallet(user), FundToken(token), amount)
    BY DEF InsuranceFundDeposit
<1>5. /\ tokens' \in [TokenAccounts -> Nat]
      /\ tokens'[FundToken(token)] = tokens[FundToken(token)] + amount
      /\ \A a \in TokenAccounts \ {Wallet(user)} : tokens'[a] >= tokens[a]
    BY <1>1, <1>3, <1>4, AccountsDiffer, TransferKeeps DEF IInv, MoneyOK
<1>6. fund' = [fund EXCEPT ![market] = Draw(Credit(fund[market], amount), 0)]
    <2>1. fund' = [fund EXCEPT ![record] = Credit(fund[record], amount)]
        BY DEF InsuranceFundDeposit
    <2>2. Draw(Credit(fund[record], amount), 0) = Credit(fund[record], amount)
        BY <1>1 DEF Draw, Credit
    <2> QED BY <1>2, <2>1, <2>2
<1>7. tokens[FundToken(market)] \in Nat
    BY AccountsDiffer DEF IInv, MoneyOK
<1>8. tokens'[FundToken(market)] >= tokens[FundToken(market)] + amount - 0
    BY <1>1, <1>2, <1>5, <1>7
<1>9. \A m \in Markets \ {market} : tokens'[FundToken(m)] >= tokens[FundToken(m)]
    BY <1>5, AccountsDiffer
<1>10. 0 <= fund[market].balance + amount
    BY <1>1, <1>2
<1>11. MoneyOK' /\ FundSolvent'
    BY <1>1, <1>5, <1>6, <1>8, <1>9, <1>10, FundMoves
<1>12. FeedsOK' /\ PositionsOK'
    BY DEF InsuranceFundDeposit, IInv, FeedsOK, PositionsOK
<1> QED
    BY <1>11, <1>12 DEF IInv

\* Every step keeps the invariant: a case for each action.
LEMMA NextIInv == IInv /\ [Next]_vars => IInv'
<1> SUFFICES ASSUME IInv, [Next]_vars PROVE IInv'
    OBVIOUS
<1>1. CASE Tick
    BY <1>1, TickIInv
<1>2. CASE \E m \in Markets, price \in Prices : SetOraclePrice(m, price)
    BY <1>2, SetOraclePriceIInv
<1>3. CASE \E m \in Markets, rate \in Rates : UpdateFunding(m, rate)
    BY <1>3, UpdateFundingIInv
<1>4. CASE \E u \in Users, m, feed, vault \in Markets, size \in Sizes,
              collateral \in Collaterals :
                OpenPosition(u, m, feed, vault, size, collateral)
    BY <1>4, OpenPositionIInv
<1>5. CASE \E p \in DOMAIN positions, m, feed, vault, record, token \in Markets :
                ClosePosition(p, m, feed, vault, record, token)
    BY <1>5, ClosePositionIInv
<1>6. CASE \E p \in DOMAIN positions, m, feed, vault, record, token \in Markets :
                Liquidate(p, m, feed, vault, record, token)
    BY <1>6, LiquidateIInv
<1>7. CASE \E u \in Users, to \in TokenAccounts, amount \in Amounts : Deposit(u, to, amount)
    BY <1>7, DepositIInv
<1>8. CASE \E u \in Users, m, record, token \in Markets, amount \in Amounts :
                InsuranceFundDeposit(u, m, record, token, amount)
    BY <1>8, InsuranceFundDepositIInv
<1>9. CASE UNCHANGED vars
    BY <1>9 DEF vars, IInv, FeedsOK, PositionsOK, MoneyOK, FundSolvent
<1> QED
    BY <1>1, <1>2, <1>3, <1>4, <1>5, <1>6, <1>7, <1>8, <1>9 DEF Next

\* The inductive invariant holds in every reachable state.
THEOREM Invariant == Spec => []IInv
BY InitIInv, NextIInv, PTL DEF Spec

\* In every reachable state the variables keep their types: no token balance
\* and no counter of a fund is ever taken below zero.
THEOREM TypeCorrect == Spec => []TypeOK
BY Invariant, IInvTypeOK, PTL

\* Whatever sequence of openings, closings, liquidations and deposits is run
\* on whatever accounts, the record of an insurance fund never promises more
\* than its token account holds, so a drawdown sized from the record never
\* fails for want of tokens.
THEOREM FundAlwaysSolvent == Spec => []FundSolvent
<1>1. IInv => FundSolvent
    BY DEF IInv
<1> QED
    BY <1>1, Invariant, PTL

----------------------------------------------------------------------------
(* Funding accrues with the clock alone.                                    *)

\* Accruing in two goes is accruing at once: the index can only saturate on
\* the side the rate pushes it to.
LEMMA AccrueTwice ==
    ASSUME NEW c \in -I64_MAX - 1 .. I64_MAX, NEW r \in Int, NEW a \in Nat, NEW b \in Nat
    PROVE  Accrue(Accrue(c, r, a), r, b) = Accrue(c, r, a + b)
<1>0. I64_MAX \in Nat
    BY WidthAssumption
<1> DEFINE ra == r * a
           rb == r * b
<1>1. ra \in Int /\ rb \in Int /\ r * (a + b) = ra + rb
    OBVIOUS
<1>2. (ra >= 0 /\ rb >= 0) \/ (ra <= 0 /\ rb <= 0)
    <2>1. CASE r >= 0
        BY <2>1
    <2>2. CASE r <= 0
        BY <2>2
    <2> QED BY <2>1, <2>2
<1> HIDE DEF ra, rb
<1>3. Accrue(c, r, a) = Smaller(Larger(c + ra, -I64_MAX - 1), I64_MAX)
    BY DEF Accrue, ra
<1>4. Accrue(c, r, a + b) = Smaller(Larger(c + (ra + rb), -I64_MAX - 1), I64_MAX)
    BY <1>1 DEF Accrue
<1>5. Accrue(Accrue(c, r, a), r, b)
        = Smaller(Larger(Accrue(c, r, a) + rb, -I64_MAX - 1), I64_MAX)
    BY DEF Accrue, rb
<1> QED
    BY <1>0, <1>1, <1>2, <1>3, <1>4, <1>5 DEF Smaller, Larger

\* The index fits its type.
IndexOK ==
    \A m \in Markets : funding[m].cumulative_funding_index \in -I64_MAX - 1 .. I64_MAX

\* Accrual saturates into the type of the index.
LEMMA AccrueInRange ==
    ASSUME NEW c \in Int, NEW r \in Int, NEW a \in Int
    PROVE  Accrue(c, r, a) \in -I64_MAX - 1 .. I64_MAX
<1>1. c + r * a \in Int
    OBVIOUS
<1> QED
    BY <1>1, WidthAssumption DEF Accrue, Smaller, Larger

\* Accruing for no time changes nothing.
LEMMA AccrueNothing ==
    ASSUME NEW c \in -I64_MAX - 1 .. I64_MAX, NEW r \in Int
    PROVE  Accrue(c, r, 0) = c
<1>1. c + r * 0 = c
    OBVIOUS
<1> QED
    BY <1>1, WidthAssumption DEF Accrue, Smaller, Larger

\* UpdateFunding alone touches funding, and Tick alone the clock.
LEMMA FundingMoves ==
    ASSUME [Next]_vars
    PROVE  \/ funding' = funding /\ now' = now
           \/ funding' = funding /\ now' = now + 1
           \/ now' = now /\ \E m \in Markets, rate \in Rates : UpdateFunding(m, rate)
<1>1. CASE Tick
    BY <1>1 DEF Tick
<1>2. CASE \E m \in Markets, price \in Prices : SetOraclePrice(m, price)
    BY <1>2 DEF SetOraclePrice
<1>3. CASE \E m \in Markets, rate \in Rates : UpdateFunding(m, rate)
    BY <1>3 DEF UpdateFunding
<1>4. CASE \E u \in Users, m, feed, vault \in Markets, size \in Sizes,
              collateral \in Collaterals :
                OpenPosition(u, m, feed, vault, size, collateral)
    BY <1>4 DEF OpenPosition
<1>5. CASE \E p \in DOMAIN positions, m, feed, vault, record, token \in Markets :
                ClosePosition(p, m, feed, vault, record, token)
    BY <1>5 DEF ClosePosition
<1>6. CASE \E p \in DOMAIN positions, m, feed, vault, record, token \in Markets :
                Liquidate(p, m, feed, vault, record, token)
    BY <1>6 DEF Liquidate
<1>7. CASE \E u \in Users, to \in TokenAccounts, amount \in Amounts : Deposit(u, to, amount)
    BY <1>7 DEF Deposit
<1>8. CASE \E u \in Users, m, record, token \in Markets, amount \in Amounts :
                InsuranceFundDeposit(u, m, record, token, amount)
    BY <1>8 DEF InsuranceFundDeposit
<1>9. CASE UNCHANGED vars
    BY <1>9 DEF vars
<1> QED
    BY <1>1, <1>2, <1>3, <1>4, <1>5, <1>6, <1>7, <1>8, <1>9 DEF Next

\* What UpdateFunding does to the funding state of market n.
LEMMA UpdatedFunding ==
    ASSUME IInv, NEW m \in Markets, NEW rate \in Rates, UpdateFunding(m, rate), NEW n \in Markets
    PROVE  \/ n # m /\ funding'[n] = funding[n]
           \/ /\ n = m
              /\ funding'[n].cumulative_funding_index =
                    Accrue(funding[n].cumulative_funding_index, funding[n].current_rate_per_sec,
                           now - funding[n].last_update_ts)
              /\ funding'[n].current_rate_per_sec = ClampRate(rate, MAX_FUNDING_RATE_PER_SEC_ABS)
              /\ funding'[n].last_update_ts = now
<1>1. funding \in [Markets -> [cumulative_funding_index : Int,
                               current_rate_per_sec : Int, last_update_ts : 0 .. now]]
    BY DEF IInv, FeedsOK
<1> QED
    BY <1>1 DEF UpdateFunding, RateInEffect

\* Every step keeps the index within its type.
LEMMA IndexStep == IInv /\ IndexOK /\ [Next]_vars => IndexOK'
<1> SUFFICES ASSUME IInv, IndexOK, [Next]_vars, NEW n \in Markets
             PROVE  funding'[n].cumulative_funding_index \in -I64_MAX - 1 .. I64_MAX
    BY DEF IndexOK
<1>1. CASE funding' = funding
    BY <1>1 DEF IndexOK
<1>2. CASE \E m \in Markets, rate \in Rates : UpdateFunding(m, rate)
    <2>1. PICK m \in Markets, rate \in Rates : UpdateFunding(m, rate)
        BY <1>2
    <2>2. /\ funding[n].cumulative_funding_index \in Int
          /\ funding[n].current_rate_per_sec \in Int
          /\ now - funding[n].last_update_ts \in Int
        BY DEF IInv, FeedsOK
    <2>3. Accrue(funding[n].cumulative_funding_index, funding[n].current_rate_per_sec,
                 now - funding[n].last_update_ts) \in -I64_MAX - 1 .. I64_MAX
        BY <2>2, AccrueInRange
    <2> QED
        BY <2>1, <2>3, UpdatedFunding DEF IndexOK
<1> QED
    BY <1>1, <1>2, FundingMoves

\* A step moves the accrued index by what its time has cost at the old rate.
LEMMA FundingStep ==
    ASSUME IInv, IndexOK, [Next]_vars, NEW n \in Markets
    PROVE  IntegratedIndex(n)' =
                Accrue(IntegratedIndex(n), funding[n].current_rate_per_sec, now' - now)
<1> DEFINE c == funding[n].cumulative_funding_index
           r == funding[n].current_rate_per_sec
           elapsed == now - funding[n].last_update_ts
           accrued == Accrue(c, r, elapsed)
<1>1. /\ c \in -I64_MAX - 1 .. I64_MAX /\ c \in Int /\ r \in Int
      /\ elapsed \in Nat /\ elapsed \in Int /\ now \in Nat
    BY InputAssumption DEF IInv, FeedsOK, IndexOK
<1>2. accrued \in -I64_MAX - 1 .. I64_MAX
    BY <1>1, AccrueInRange
<1>3. IntegratedIndex(n) = accrued
    BY DEF IntegratedIndex
<1>4. IntegratedIndex(n)' = Accrue(funding'[n].cumulative_funding_index,
                                   funding'[n].current_rate_per_sec,
                                   now' - funding'[n].last_update_ts)
    BY DEF IntegratedIndex
<1>5. CASE funding' = funding /\ now' = now
    <2>1. now' - now = 0
        BY <1>1, <1>5
    <2>2. IntegratedIndex(n)' = accrued
        BY <1>4, <1>5
    <2> QED BY <2>1, <2>2, <1>1, <1>2, <1>3, AccrueNothing
<1>6. CASE funding' = funding /\ now' = now + 1
    <2>1. now' - now = 1 /\ now' - funding'[n].last_update_ts = elapsed + 1
        BY <1>1, <1>6 DEF IInv, FeedsOK
    <2>2. IntegratedIndex(n)' = Accrue(c, r, elapsed + 1)
        BY <2>1, <1>4, <1>6
    <2>3. Accrue(accrued, r, 1) = Accrue(c, r, elapsed + 1)
        <3> HIDE DEF c, r, elapsed
        <3>1. 1 \in Nat
            OBVIOUS
        <3> QED BY <1>1, <3>1, AccrueTwice
    <2> QED BY <2>1, <2>2, <2>3, <1>3
<1>7. CASE now' = now /\ \E m \in Markets, rate \in Rates : UpdateFunding(m, rate)
    <2>1. PICK m \in Markets, rate \in Rates : UpdateFunding(m, rate)
        BY <1>7
    <2>2. now' - now = 0
        BY <1>1, <1>7
    <2>3. CASE funding'[n] = funding[n]
        <3>1. IntegratedIndex(n)' = accrued
            BY <1>4, <1>7, <2>3
        <3> QED BY <2>2, <3>1, <1>1, <1>2, <1>3, AccrueNothing
    <2>4. CASE n = m
        <3>1. /\ funding'[n].cumulative_funding_index = accrued
              /\ funding'[n].current_rate_per_sec = ClampRate(rate, MAX_FUNDING_RATE_PER_SEC_ABS)
              /\ funding'[n].last_update_ts = now
            BY <2>1, <2>4, UpdatedFunding
        <3>2. ClampRate(rate, MAX_FUNDING_RATE_PER_SEC_ABS) \in Int
            BY InputAssumption, WidthAssumption, PolicyAssumption DEF ClampRate, Smaller, Larger
        <3>3. now' - now = 0 /\ now' - funding'[n].last_update_ts = 0
            BY <3>1, <1>1, <1>7
        <3>4. IntegratedIndex(n)' = accrued
            BY <3>1, <3>2, <3>3, <1>2, <1>4, AccrueNothing
        <3> QED BY <3>4, <2>2, <1>1, <1>2, <1>3, AccrueNothing
    <2> QED
        BY <2>1, <2>3, <2>4, UpdatedFunding
<1> QED
    BY <1>5, <1>6, <1>7, FundingMoves

\* For every schedule of UpdateFunding calls and every rate: time is charged
\* at the rate in effect while it passed, and never again.
THEOREM FundingByTheClock == Spec => FundingNeverRetroactive
<1>1. Init => IndexOK
    BY WidthAssumption DEF Init, IndexOK
<1>2. Spec => []IndexOK
    BY <1>1, IndexStep, Invariant, PTL DEF Spec
<1>3. IInv /\ IndexOK /\ [Next]_vars =>
        [\A m \in Markets :
            IntegratedIndex(m)' =
                Accrue(IntegratedIndex(m), funding[m].current_rate_per_sec, now' - now)]_vars
    BY FundingStep
<1> QED
    BY <1>2, <1>3, Invariant, PTL DEF Spec, FundingNeverRetroactive

----------------------------------------------------------------------------
(* What a settlement pays.                                                  *)

\* The cast to u64 adds nothing, and loses nothing that fits.
LEMMA CastBound ==
    ASSUME NEW x \in Nat
    PROVE  AsU64(x) \in Nat /\ AsU64(x) <= x /\ (x <= U64_MAX => AsU64(x) = x)
<1>1. U64_MAX + 1 \in Nat \ {0} /\ U64_MAX \in Nat
    BY WidthAssumption
<1>2. x % (U64_MAX + 1) <= x /\ (x < U64_MAX + 1 => x % (U64_MAX + 1) = x)
    BY <1>1, ModSmaller
<1>3. AsU64(x) \in Nat
    BY Widths
<1> QED
    BY <1>1, <1>2, <1>3 DEF AsU64

\* A wrapped product is no larger than the product, and the same if it fits.
LEMMA WrapBound ==
    ASSUME NEW x \in Nat
    PROVE  Wrap128(x) \in Nat /\ Wrap128(x) <= x /\ (x <= U128_MAX => Wrap128(x) = x)
<1>1. U128_MAX + 1 \in Nat \ {0} /\ U128_MAX \in Nat
    BY WidthAssumption
<1>2. x % (U128_MAX + 1) <= x /\ (x < U128_MAX + 1 => x % (U128_MAX + 1) = x)
    BY <1>1, ModSmaller
<1>3. Wrap128(x) \in Nat
    BY Widths
<1> QED
    BY <1>1, <1>2, <1>3 DEF Wrap128

\* A share of at most the whole is at most the amount.
LEMMA ShareBound ==
    ASSUME NEW n \in Nat, NEW bps \in 0 .. BPS_DENOMINATOR
    PROVE  BpsOf(n, bps) \in Nat /\ BpsOf(n, bps) <= n
<1>1. bps \in Nat /\ BPS_DENOMINATOR \in Nat \ {0} /\ bps <= BPS_DENOMINATOR
    BY DEF BPS_DENOMINATOR
<1>2. n * bps \in Nat /\ n * bps <= n * BPS_DENOMINATOR
    BY <1>1, ProductMonotone
<1>4. Wrap128(n * bps) \in Nat /\ Wrap128(n * bps) <= n * bps
    BY <1>2, WrapBound
<1>5. n * BPS_DENOMINATOR \in Nat
    BY <1>1, ProductMonotone
<1>6. Wrap128(n * bps) <= n * BPS_DENOMINATOR
    <2>1. \A x, y, z \in Nat : x <= y /\ y <= z => x <= z
        OBVIOUS
    <2> QED
        BY <1>2, <1>4, <1>5, <2>1
<1>7. Wrap128(n * bps) \div BPS_DENOMINATOR <= n
    BY <1>1, <1>4, <1>6, QuotientBound
<1>8. BpsOf(n, bps) \in Nat
    BY <1>1, BpsNat
<1> QED
    BY <1>7, <1>8 DEF BpsOf

\* Between them liquidator, fund and owner are paid no more than the equity;
\* the owner is paid all that the penalty leaves, if u64 can say it.
LEMMA SplitBound ==
    ASSUME NEW equity \in Int, NEW notional \in Int
    PROVE  LET split == LiquidationSplit(equity, notional, LIQUIDATION_PENALTY_BPS,
                                         INSURANCE_FUND_PENALTY_SHARE_BPS)
               owed == Larger(equity, 0) - Penalty(equity, notional, LIQUIDATION_PENALTY_BPS)
           IN /\ split.to_liquidator \in Nat /\ split.to_insurance_fund \in Nat
              /\ split.to_owner \in Nat
              /\ split.to_liquidator + split.to_insurance_fund + split.to_owner
                    <= Larger(equity, 0)
              /\ owed <= U64_MAX => split.to_owner = owed
<1> DEFINE rest == Larger(equity, 0)
           penalty == Penalty(equity, notional, LIQUIDATION_PENALTY_BPS)
           slice == BpsOf(penalty, INSURANCE_FUND_PENALTY_SHARE_BPS)
<1>1. rest \in Nat
    BY DEF Larger
<1>2. penalty \in Nat /\ penalty <= rest
    <2>1. LIQUIDATION_PENALTY_BPS \in Int
        BY PolicyAssumption
    <2>2. BpsOf(notional, LIQUIDATION_PENALTY_BPS) \in Nat
        BY <2>1, BpsNat
    <2>3. penalty = Smaller(Smaller(BpsOf(notional, LIQUIDATION_PENALTY_BPS), I64_MAX), rest)
        BY DEF Penalty
    <2> HIDE DEF penalty, rest
    <2> QED
        BY <1>1, <2>2, <2>3, WidthAssumption DEF Smaller
<1>3. slice \in Nat /\ slice <= penalty
    <2> HIDE DEF penalty
    <2> QED
        BY <1>2, ShareBound, PolicyAssumption
<1>4. Larger(rest - penalty, 0) = rest - penalty /\ rest - penalty \in Nat
    <2> HIDE DEF rest, penalty
    <2> QED
        BY <1>1, <1>2 DEF Larger
<1>5. /\ AsU64(penalty - slice) \in Nat /\ AsU64(penalty - slice) <= penalty - slice
      /\ AsU64(slice) \in Nat /\ AsU64(slice) <= slice
      /\ AsU64(rest - penalty) \in Nat /\ AsU64(rest - penalty) <= rest - penalty
      /\ rest - penalty <= U64_MAX => AsU64(rest - penalty) = rest - penalty
    <2> HIDE DEF rest, penalty, slice
    <2>1. penalty - slice \in Nat
        BY <1>2, <1>3
    <2> QED
        BY <1>3, <1>4, <2>1, CastBound
<1>6. AsU64(penalty - slice) + AsU64(slice) + AsU64(rest - penalty) <= rest
    <2> HIDE DEF rest, penalty, slice
    <2> QED
        BY <1>1, <1>2, <1>3, <1>5
<1> HIDE DEF rest, penalty, slice
<1>7. LET split == LiquidationSplit(equity, notional, LIQUIDATION_PENALTY_BPS,
                                    INSURANCE_FUND_PENALTY_SHARE_BPS)
      IN /\ split.to_liquidator = AsU64(penalty - slice)
         /\ split.to_insurance_fund = AsU64(slice)
         /\ split.to_owner = AsU64(rest - penalty)
    BY <1>4 DEF LiquidationSplit, rest, penalty, slice
<1> QED
    BY <1>5, <1>6, <1>7 DEF rest, penalty

\* A payment out of a vault takes from its own market's pot alone.
LEMMA PaymentFromPot ==
    ASSUME NEW balances \in [TokenAccounts -> Nat], NEW m \in Markets, NEW to \in TokenAccounts,
           NEW amount \in Nat, Covers(balances, Vault(m), amount)
    PROVE  LET after == Transfer(balances, Vault(m), to, amount)
           IN /\ after \in [TokenAccounts -> Nat]
              /\ \A n \in Markets :
                    Pot(after, n) >= Pot(balances, n) - (IF n = m THEN amount ELSE 0)
<1> DEFINE after == Transfer(balances, Vault(m), to, amount)
<1>1. /\ after \in [TokenAccounts -> Nat]
      /\ \A a \in TokenAccounts \ {Vault(m)} : after[a] >= balances[a]
      /\ after[Vault(m)] >= balances[Vault(m)] - amount
    BY AccountsDiffer, TransferKeeps
<1> HIDE DEF after
<1>2. ASSUME NEW n \in Markets
      PROVE  Pot(after, n) >= Pot(balances, n) - (IF n = m THEN amount ELSE 0)
    <2>1. FundToken(n) \in TokenAccounts \ {Vault(m)}
        BY AccountsDiffer
    <2>2. after[FundToken(n)] >= balances[FundToken(n)]
        BY <1>1, <2>1
    <2>3. after[Vault(n)] >= balances[Vault(n)] - (IF n = m THEN amount ELSE 0)
        <3>1. CASE n = m
            BY <1>1, <3>1
        <3>2. CASE n # m
            <4>1. Vault(n) \in TokenAccounts \ {Vault(m)}
                BY <3>2, AccountsDiffer DEF Vault
            <4> QED
                BY <1>1, <3>2, <4>1
        <3> QED
            BY <3>1, <3>2
    <2>4. /\ after[FundToken(n)] \in Nat /\ balances[FundToken(n)] \in Nat
          /\ after[Vault(n)] \in Nat /\ balances[Vault(n)] \in Nat
        BY <1>1, AccountsDiffer
    <2> QED
        BY <2>2, <2>3, <2>4 DEF Pot
<1> QED
    BY <1>1, <1>2 DEF after

\* What the fund gives the vault stays in the pot.
LEMMA DrawInPot ==
    ASSUME NEW balances \in [TokenAccounts -> Nat], NEW m \in Markets, NEW amount \in Nat,
           Covers(balances, FundToken(m), amount)
    PROVE  LET after == Transfer(balances, FundToken(m), Vault(m), amount)
           IN /\ after \in [TokenAccounts -> Nat]
              /\ after[Vault(m)] = balances[Vault(m)] + amount
              /\ \A n \in Markets : Pot(after, n) = Pot(balances, n)
              /\ \A u \in Users : after[Wallet(u)] = balances[Wallet(u)]
<1>1. FundToken(m) # Vault(m) /\ FundToken(m) \in TokenAccounts /\ Vault(m) \in TokenAccounts
    BY AccountsDiffer
<1> DEFINE after == [balances EXCEPT ![FundToken(m)] = @ - amount, ![Vault(m)] = @ + amount]
<1>2. Transfer(balances, FundToken(m), Vault(m), amount) = after
    BY <1>1 DEF Transfer
<1>3. balances[FundToken(m)] \in Nat /\ balances[Vault(m)] \in Nat
      /\ amount <= balances[FundToken(m)]
    BY <1>1 DEF Covers
<1>4. /\ after \in [TokenAccounts -> Nat]
      /\ after[Vault(m)] = balances[Vault(m)] + amount
      /\ after[FundToken(m)] = balances[FundToken(m)] - amount
      /\ \A a \in TokenAccounts \ {Vault(m), FundToken(m)} : after[a] = balances[a]
    BY <1>1, <1>3
<1> HIDE DEF after
<1>5. ASSUME NEW n \in Markets PROVE Pot(after, n) = Pot(balances, n)
    <2>1. CASE n = m
        BY <1>3, <1>4, <2>1 DEF Pot
    <2>2. CASE n # m
        <3>1. /\ Vault(n) \in TokenAccounts \ {Vault(m), FundToken(m)}
              /\ FundToken(n) \in TokenAccounts \ {Vault(m), FundToken(m)}
            BY <2>2, AccountsDiffer DEF Vault
        <3> QED
            BY <1>4, <3>1 DEF Pot
    <2> QED
        BY <2>1, <2>2
<1>6. ASSUME NEW u \in Users PROVE after[Wallet(u)] = balances[Wallet(u)]
    <2>1. Wallet(u) \in TokenAccounts \ {Vault(m), FundToken(m)}
        BY AccountsDiffer DEF Wallet, Vault
    <2> QED
        BY <1>4, <2>1
<1> QED
    BY <1>2, <1>4, <1>5, <1>6

\* A transfer of nothing is none.
LEMMA NothingMoves ==
    ASSUME NEW balances \in [TokenAccounts -> Nat],
           NEW from \in TokenAccounts, NEW to \in TokenAccounts
    PROVE  Transfer(balances, from, to, 0) = balances
<1>1. balances[from] \in Nat /\ balances[to] \in Nat
    OBVIOUS
<1> QED
    BY <1>1 DEF Transfer

----------------------------------------------------------------------------
(* What the two settlements do to vaults, funds and wallets.                *)

\* The counters of a fund fit their fields, as the checked additions see to.
FundFits == \A m \in Markets : InRange(fund[m])

\* Every step keeps the counters of a fund within their fields.
LEMMA FundFitsStep == IInv /\ FundFits /\ [Next]_vars => FundFits'
<1> SUFFICES ASSUME IInv, FundFits, [Next]_vars PROVE FundFits'
    OBVIOUS
<1>0. /\ DOMAIN fund = Markets
      /\ \A r \in Markets : \A after :
            fund' = [fund EXCEPT ![r] = after] /\ InRange(after) => FundFits'
    BY DEF IInv, MoneyOK, FundFits, InRange
<1>1. CASE fund' = fund
    BY <1>1 DEF FundFits
<1>2. ASSUME NEW p \in DOMAIN positions, NEW m \in Markets, NEW feed \in Markets,
             NEW vault \in Markets, NEW record \in Markets, NEW token \in Markets,
             ClosePosition(p, m, feed, vault, record, token)
      PROVE  FundFits'
    BY <1>0, <1>2 DEF ClosePosition
<1>3. ASSUME NEW p \in DOMAIN positions, NEW m \in Markets, NEW feed \in Markets,
             NEW vault \in Markets, NEW record \in Markets, NEW token \in Markets,
             Liquidate(p, m, feed, vault, record, token)
      PROVE  FundFits'
    BY <1>0, <1>3 DEF Liquidate
<1>4. ASSUME NEW u \in Users, NEW m \in Markets, NEW record \in Markets, NEW token \in Markets,
             NEW amount \in Amounts, InsuranceFundDeposit(u, m, record, token, amount)
      PROVE  FundFits'
    BY <1>0, <1>4 DEF InsuranceFundDeposit
<1>5. CASE Tick
    BY <1>1, <1>5 DEF Tick
<1>6. CASE \E m \in Markets, price \in Prices : SetOraclePrice(m, price)
    BY <1>1, <1>6 DEF SetOraclePrice
<1>7. CASE \E m \in Markets, rate \in Rates : UpdateFunding(m, rate)
    BY <1>1, <1>7 DEF UpdateFunding
<1>8. CASE \E u \in Users, m, feed, vault \in Markets, size \in Sizes,
              collateral \in Collaterals :
                OpenPosition(u, m, feed, vault, size, collateral)
    BY <1>1, <1>8 DEF OpenPosition
<1>9. CASE \E u \in Users, to \in TokenAccounts, amount \in Amounts : Deposit(u, to, amount)
    BY <1>1, <1>9 DEF Deposit
<1>10. CASE UNCHANGED vars
    BY <1>1, <1>10 DEF vars
<1> QED
    BY <1>2, <1>3, <1>4, <1>5, <1>6, <1>7, <1>8, <1>9, <1>10 DEF Next

\* The counters of a fund fit their fields in every reachable state.
LEMMA FundAlwaysFits == Spec => []FundFits
<1>1. Init => FundFits
    BY WidthAssumption DEF Init, FundFits, InRange
<1> QED
    BY <1>1, FundFitsStep, Invariant, PTL DEF Spec

\* Only its own closing or liquidation settles a position, and both insist on
\* the accounts of its own market.
LEMMA SettlingSteps ==
    ASSUME IInv, [Next]_vars, NEW p \in OpenPositions, Settled(p)
    PROVE  /\ p \in DOMAIN positions /\ p[1] \in Users /\ p[2] \in Markets
           /\ \/ ClosePosition(p, p[2], p[2], p[2], p[2], p[2])
              \/ Liquidate(p, p[2], p[2], p[2], p[2], p[2])
<1>1. /\ p \in DOMAIN positions /\ positions[p].size # 0 /\ positions'[p].size = 0
      /\ p[1] \in Users /\ p[2] \in Markets
    BY DEF Settled, OpenPositions, IInv, PositionsOK
<1>2. positions' # positions
    BY <1>1
<1>3. ASSUME NEW q \in DOMAIN positions, NEW x, positions' = [positions EXCEPT ![q] = x]
      PROVE  q = p
    BY <1>1, <1>3
<1>4. ~ \E u \in Users, m, feed, vault \in Markets, size \in Sizes,
           collateral \in Collaterals : OpenPosition(u, m, feed, vault, size, collateral)
    <2> SUFFICES ASSUME NEW u \in Users, NEW m \in Markets, NEW feed \in Markets,
                        NEW vault \in Markets, NEW size \in Sizes, NEW collateral \in Collaterals,
                        OpenPosition(u, m, feed, vault, size, collateral)
                 PROVE  FALSE
        OBVIOUS
    <2> DEFINE opened == [size |-> size, entry_price |-> oracle[feed].price,
                          collateral |-> collateral,
                          funding_snapshot_index |-> funding[feed].cumulative_funding_index]
    <2>1. /\ <<u, m>> \notin DOMAIN positions
          /\ positions' = [q \in DOMAIN positions \union {<<u, m>>} |->
                                IF q # <<u, m>> THEN positions[q] ELSE opened]
        BY DEF OpenPosition
    <2> HIDE DEF opened
    <2>2. positions'[p] = positions[p]
        BY <1>1, <2>1
    <2> QED
        BY <1>1, <2>2
<1>5. ~ (\/ Tick
         \/ \E m \in Markets, price \in Prices : SetOraclePrice(m, price)
         \/ \E m \in Markets, rate \in Rates : UpdateFunding(m, rate)
         \/ \E u \in Users, to \in TokenAccounts, amount \in Amounts : Deposit(u, to, amount)
         \/ \E u \in Users, m, record, token \in Markets, amount \in Amounts :
                InsuranceFundDeposit(u, m, record, token, amount)
         \/ UNCHANGED vars)
    BY <1>2 DEF Tick, SetOraclePrice, UpdateFunding, Deposit, InsuranceFundDeposit, vars
<1>6. CASE \E q \in DOMAIN positions, m, feed, vault, record, token \in Markets :
                ClosePosition(q, m, feed, vault, record, token)
    <2>1. PICK q \in DOMAIN positions, m \in Markets, feed \in Markets, vault \in Markets,
               record \in Markets, token \in Markets :
                    ClosePosition(q, m, feed, vault, record, token)
        BY <1>6
    <2>2. positions' = [positions EXCEPT ![q] = Dormant(feed)]
        BY <2>1 DEF ClosePosition
    <2>3. q = p
        BY <1>3, <2>2
    <2>4. m = p[2] /\ feed = m /\ vault = m /\ record = m /\ token = m
        BY <2>1, <2>3 DEF ClosePosition, VerifyVault, VerifyFund, VerifyFeed, VerifyPosition
    <2> QED
        BY <1>1, <2>1, <2>3, <2>4
<1>7. CASE \E q \in DOMAIN positions, m, feed, vault, record, token \in Markets :
                Liquidate(q, m, feed, vault, record, token)
    <2>1. PICK q \in DOMAIN positions, m \in Markets, feed \in Markets, vault \in Markets,
               record \in Markets, token \in Markets :
                    Liquidate(q, m, feed, vault, record, token)
        BY <1>7
    <2>2. positions' = [positions EXCEPT ![q] = Dormant(feed)]
        BY <2>1 DEF Liquidate
    <2>3. q = p
        BY <1>3, <2>2
    <2>4. m = p[2] /\ feed = m /\ vault = m /\ record = m /\ token = m
        BY <2>1, <2>3 DEF Liquidate, VerifyVault, VerifyFund, VerifyFeed, VerifyPosition
    <2> QED
        BY <1>1, <2>1, <2>3, <2>4
<1> QED
    BY <1>4, <1>5, <1>6, <1>7 DEF Next

\* No pot but that of market loses, and that one no more than allowance.
PotsLoseAtMost(allowance, market) ==
    \A n \in Markets : Pot(tokens', n) >= Pot(tokens, n) - (IF n = market THEN allowance ELSE 0)

\* The fund makes good a loss, or gives all it has.
LossCovered(equity, market) ==
    \/ tokens'[Vault(market)] = tokens[Vault(market)] - equity
    \/ /\ fund'[market].balance = 0
       /\ tokens'[Vault(market)] = tokens[Vault(market)] + fund[market].balance

\* A fund that is asked for a loss pays it or is emptied.
LEMMA DrawCovers ==
    ASSUME NEW equity \in Int, equity < 0, NEW balance \in Nat, balance <= U64_MAX
    PROVE  LET drawn == InsuranceDraw(equity, balance) IN drawn = -equity \/ drawn = balance
BY WidthAssumption DEF InsuranceDraw, Smaller

\* Closing pays the equity out of the pot, and draws on the fund for a loss.
LEMMA ClosePays ==
    ASSUME IInv, FundFits, NEW p \in DOMAIN positions, NEW m \in Markets,
           ClosePosition(p, m, m, m, m, m)
    PROVE  /\ PotsLoseAtMost(Larger(EquityAt(p, m), 0), m)
           /\ EquityAt(p, m) < 0 => LossCovered(EquityAt(p, m), m)
<1> DEFINE equity == EquityAt(p, m)
           payout == ClosePayout(equity)
           drawn == InsuranceDraw(equity, fund[m].balance)
<1>1. /\ equity \in Int /\ fund[m].balance \in Nat /\ fund[m].balance <= U64_MAX
      /\ tokens \in [TokenAccounts -> Nat]
    BY EquityAtInt DEF IInv, MoneyOK, FundFits, InRange
<1>2. /\ payout \in Nat /\ payout <= Larger(equity, 0) /\ Larger(equity, 0) \in Nat
      /\ equity < 0 => payout = 0
      /\ drawn \in Nat /\ drawn <= fund[m].balance
    <2> HIDE DEF equity
    <2>1. payout \in Nat /\ drawn \in 0 .. fund[m].balance
        BY <1>1, PaymentsNat
    <2>2. Larger(equity, 0) \in Nat
        BY <1>1 DEF Larger
    <2>3. CASE equity < 0
        BY <1>1, <2>1, <2>2, <2>3 DEF ClosePayout, Larger
    <2>4. CASE ~(equity < 0)
        <3>1. equity \in Nat /\ payout = AsU64(equity) /\ Larger(equity, 0) = equity
            BY <1>1, <2>4 DEF ClosePayout, Larger
        <3> HIDE DEF payout, drawn
        <3> QED
            BY <1>1, <2>1, <2>2, <2>4, <3>1, CastBound
    <2> HIDE DEF payout, drawn
    <2> QED
        BY <1>1, <2>1, <2>2, <2>3, <2>4
<1>3. PICK user_token \in TokenAccounts :
            LET paid == Transfer(tokens, Vault(m), user_token, payout)
            IN /\ Covers(paid, FundToken(m), drawn)
               /\ tokens' = Transfer(paid, FundToken(m), Vault(m), drawn)
    BY DEF ClosePosition
<1> DEFINE paid == Transfer(tokens, Vault(m), user_token, payout)
<1>4. Covers(tokens, Vault(m), payout) /\ fund' = [fund EXCEPT ![m] = Draw(fund[m], drawn)]
    BY DEF ClosePosition
<1>5. Covers(paid, FundToken(m), drawn) /\ tokens' = Transfer(paid, FundToken(m), Vault(m), drawn)
    BY <1>3
<1> HIDE DEF equity, payout, drawn
<1>6. /\ paid \in [TokenAccounts -> Nat]
      /\ \A n \in Markets : Pot(paid, n) >= Pot(tokens, n) - (IF n = m THEN payout ELSE 0)
    BY <1>1, <1>2, <1>4, PaymentFromPot
<1>7. /\ tokens' \in [TokenAccounts -> Nat]
      /\ tokens'[Vault(m)] = paid[Vault(m)] + drawn
      /\ \A n \in Markets : Pot(tokens', n) = Pot(paid, n)
    <2> HIDE DEF paid
    <2> QED
        BY <1>2, <1>5, <1>6, DrawInPot
<1>8. PotsLoseAtMost(Larger(equity, 0), m)
    <2> SUFFICES ASSUME NEW n \in Markets
                 PROVE  Pot(tokens', n) >= Pot(tokens, n)
                                              - (IF n = m THEN Larger(equity, 0) ELSE 0)
        BY DEF PotsLoseAtMost
    <2> HIDE DEF paid
    <2>1. Pot(tokens', n) \in Nat /\ Pot(tokens, n) \in Nat
        BY <1>1, <1>7, AccountsDiffer DEF Pot
    <2> QED
        BY <1>2, <1>6, <1>7, <2>1
<1>9. ASSUME equity < 0 PROVE LossCovered(equity, m)
    <2>1. paid = tokens
        BY <1>1, <1>2, <1>9, AccountsDiffer, NothingMoves
    <2>2. drawn = -equity \/ drawn = fund[m].balance
        BY <1>1, <1>9, DrawCovers DEF drawn
    <2>3. fund'[m].balance = fund[m].balance - drawn
        BY <1>4 DEF IInv, MoneyOK, Draw
    <2>4. tokens[Vault(m)] \in Nat
        BY <1>1, AccountsDiffer
    <2> HIDE DEF paid
    <2> QED
        BY <1>1, <1>2, <1>7, <2>1, <2>2, <2>3, <2>4 DEF LossCovered
<1> QED
    BY <1>8, <1>9 DEF equity

\* A liquidation pays liquidator, fund and owner out of the pot, between them
\* no more than the equity; the owner gets what the penalty leaves.
LEMMA LiquidatePays ==
    ASSUME IInv, FundFits, NEW p \in DOMAIN positions, NEW m \in Markets, p[1] \in Users,
           Liquidate(p, m, m, m, m, m)
    PROVE  LET equity == EquityAt(p, m)
               owed == Larger(equity, 0)
                          - Penalty(equity, NotionalAt(p, m), LIQUIDATION_PENALTY_BPS)
           IN /\ PotsLoseAtMost(Larger(equity, 0), m)
              /\ equity < 0 => LossCovered(equity, m)
              /\ owed <= U64_MAX => tokens'[Wallet(p[1])] >= tokens[Wallet(p[1])] + owed
<1> DEFINE equity == EquityAt(p, m)
           owed == Larger(equity, 0)
                          - Penalty(equity, NotionalAt(p, m), LIQUIDATION_PENALTY_BPS)
           split == LiquidationSplit(equity, NotionalAt(p, m), LIQUIDATION_PENALTY_BPS,
                                     INSURANCE_FUND_PENALTY_SHARE_BPS)
           first == split.to_liquidator
           slice == split.to_insurance_fund
           rest == split.to_owner
           credited == Credit(fund[m], slice)
           drawn == InsuranceDraw(equity, credited.balance)
           me == Wallet(p[1])
<1>1. /\ equity \in Int /\ NotionalAt(p, m) \in Int
      /\ fund[m].balance \in Nat /\ fund[m].balance <= U64_MAX
      /\ tokens \in [TokenAccounts -> Nat]
    BY EquityAtInt DEF IInv, MoneyOK, FundFits, InRange
<1>2. /\ first \in Nat /\ slice \in Nat /\ rest \in Nat
      /\ first + slice + rest <= Larger(equity, 0)
      /\ owed <= U64_MAX => rest = owed
    <2> HIDE DEF equity
    <2> QED
        BY <1>1, SplitBound
<1>3. PICK owner_token \in TokenAccounts, liquidator_token \in TokenAccounts :
            LET t1 == Transfer(tokens, Vault(m), liquidator_token, first)
                t2 == Transfer(t1, Vault(m), FundToken(m), slice)
                t3 == Transfer(t2, Vault(m), owner_token, rest)
            IN /\ VerifyOwnerToken(owner_token, p[1])
               /\ Covers(tokens, Vault(m), first)
               /\ Covers(t1, Vault(m), slice)
               /\ Covers(t2, Vault(m), rest)
               /\ Covers(t3, FundToken(m), drawn)
               /\ tokens' = Transfer(t3, FundToken(m), Vault(m), drawn)
    BY DEF Liquidate
<1> DEFINE t1 == Transfer(tokens, Vault(m), liquidator_token, first)
           t2 == Transfer(t1, Vault(m), FundToken(m), slice)
           t3 == Transfer(t2, Vault(m), owner_token, rest)
<1>4. /\ owner_token = me /\ me \in TokenAccounts
      /\ Covers(tokens, Vault(m), first) /\ Covers(t1, Vault(m), slice)
      /\ Covers(t2, Vault(m), rest) /\ Covers(t3, FundToken(m), drawn)
      /\ tokens' = Transfer(t3, FundToken(m), Vault(m), drawn)
    BY <1>3, AccountsDiffer DEF VerifyOwnerToken
<1>5. fund' = [fund EXCEPT ![m] = Draw(credited, drawn)]
    BY DEF Liquidate
<1>6. credited.balance = fund[m].balance + slice /\ credited.balance \in Nat
    <2> HIDE DEF slice
    <2> QED
        BY <1>1, <1>2 DEF Credit
<1>7. drawn \in Nat /\ Larger(equity, 0) \in Nat
    <2> HIDE DEF equity, credited
    <2>1. drawn \in 0 .. credited.balance
        BY <1>1, <1>6, PaymentsNat
    <2> HIDE DEF drawn
    <2> QED
        BY <1>1, <1>6, <2>1 DEF Larger
<1> HIDE DEF equity, owed, split, drawn, credited, first, slice, rest
<1>8. /\ t1 \in [TokenAccounts -> Nat]
      /\ \A n \in Markets : Pot(t1, n) >= Pot(tokens, n) - (IF n = m THEN first ELSE 0)
    BY <1>1, <1>2, <1>4, PaymentFromPot
<1>9. /\ t2 \in [TokenAccounts -> Nat]
      /\ \A n \in Markets : Pot(t2, n) >= Pot(t1, n) - (IF n = m THEN slice ELSE 0)
    <2> HIDE DEF t1
    <2> QED
        BY <1>2, <1>4, <1>8, AccountsDiffer, PaymentFromPot
<1>10. /\ t3 \in [TokenAccounts -> Nat]
       /\ \A n \in Markets : Pot(t3, n) >= Pot(t2, n) - (IF n = m THEN rest ELSE 0)
    <2> HIDE DEF t2
    <2> QED
        BY <1>2, <1>4, <1>9, PaymentFromPot
<1>11. /\ tokens' \in [TokenAccounts -> Nat]
       /\ tokens'[Vault(m)] = t3[Vault(m)] + drawn
       /\ \A n \in Markets : Pot(tokens', n) = Pot(t3, n)
       /\ tokens'[me] = t3[me]
    <2> HIDE DEF t3
    <2> QED
        BY <1>4, <1>7, <1>10, DrawInPot
<1>12. PotsLoseAtMost(Larger(equity, 0), m)
    <2> SUFFICES ASSUME NEW n \in Markets
                 PROVE  Pot(tokens', n) >= Pot(tokens, n)
                                              - (IF n = m THEN Larger(equity, 0) ELSE 0)
        BY DEF PotsLoseAtMost
    <2> HIDE DEF t1, t2, t3
    <2>1. /\ Pot(tokens', n) \in Nat /\ Pot(tokens, n) \in Nat /\ Pot(t1, n) \in Nat
          /\ Pot(t2, n) \in Nat /\ Pot(t3, n) \in Nat
        BY <1>1, <1>8, <1>9, <1>10, <1>11, AccountsDiffer DEF Pot
    <2> QED
        BY <1>2, <1>7, <1>8, <1>9, <1>10, <1>11, <2>1
<1>13. ASSUME equity < 0 PROVE LossCovered(equity, m)
    <2>1. Larger(equity, 0) = 0
        BY <1>13 DEF Larger
    <2>2. first = 0 /\ slice = 0 /\ rest = 0
        BY <1>2, <2>1
    <2>3. t1 = tokens
        BY <1>1, <2>2, AccountsDiffer, NothingMoves
    <2>4. t2 = t1
        BY <1>1, <2>2, <2>3, AccountsDiffer, NothingMoves
    <2>5. t3 = t2
        BY <1>4, <1>9, <2>2, AccountsDiffer, NothingMoves
    <2>6. drawn = -equity \/ drawn = fund[m].balance
        BY <1>1, <1>6, <1>13, <2>2, DrawCovers DEF drawn
    <2>7. fund'[m].balance = fund[m].balance - drawn
        BY <1>1, <1>5, <1>6, <2>2 DEF IInv, MoneyOK, Draw
    <2>8. tokens[Vault(m)] \in Nat
        BY <1>1, AccountsDiffer
    <2> HIDE DEF t1, t2, t3
    <2> QED
        BY <1>1, <1>7, <1>11, <2>3, <2>4, <2>5, <2>6, <2>7, <2>8 DEF LossCovered
<1>14. ASSUME owed <= U64_MAX PROVE tokens'[me] >= tokens[me] + owed
    <2>1. \A n \in Markets : me # Vault(n) /\ Vault(n) \in TokenAccounts
        BY AccountsDiffer DEF me, Wallet, Vault
    <2>2. t1[me] >= tokens[me]
        BY <1>1, <1>2, <1>4, <2>1, TransferKeeps
    <2>3. t2[me] >= t1[me]
        <3> HIDE DEF t1
        <3> QED
            BY <1>2, <1>4, <1>8, <2>1, AccountsDiffer, TransferKeeps
    <2>4. t3[me] = t2[me] + rest
        <3> HIDE DEF t2
        <3> QED
            BY <1>2, <1>4, <1>9, <2>1, TransferKeeps
    <2> HIDE DEF t1, t2, t3
    <2>5. tokens[me] \in Nat /\ t1[me] \in Nat /\ t2[me] \in Nat /\ t3[me] \in Nat
        BY <1>1, <1>4, <1>8, <1>9, <1>10
    <2> QED
        BY <1>2, <1>11, <1>14, <2>2, <2>3, <2>4, <2>5
<1> QED
    BY <1>12, <1>13, <1>14 DEF equity, owed

\* What a wallet pays takes from no pot.
LEMMA WalletPays ==
    ASSUME NEW balances \in [TokenAccounts -> Nat], NEW user \in Users, NEW to \in TokenAccounts,
           NEW amount \in Nat, Covers(balances, Wallet(user), amount), NEW m \in Markets
    PROVE  Pot(Transfer(balances, Wallet(user), to, amount), m) >= Pot(balances, m)
<1> DEFINE after == Transfer(balances, Wallet(user), to, amount)
<1>1. Wallet(user) \in TokenAccounts /\ Vault(m) \in TokenAccounts /\ FundToken(m) \in TokenAccounts
    BY AccountsDiffer
<1>2. Vault(m) # Wallet(user) /\ FundToken(m) # Wallet(user)
    BY DEF Vault, FundToken, Wallet
<1>3. /\ after \in [TokenAccounts -> Nat]
      /\ after[Vault(m)] >= balances[Vault(m)] /\ after[FundToken(m)] >= balances[FundToken(m)]
    BY <1>1, <1>2, TransferKeeps
<1> HIDE DEF after
<1>4. /\ after[Vault(m)] \in Nat /\ after[FundToken(m)] \in Nat
      /\ balances[Vault(m)] \in Nat /\ balances[FundToken(m)] \in Nat
    BY <1>1, <1>3
<1>5. Pot(after, m) >= Pot(balances, m)
    BY <1>3, <1>4 DEF Pot
<1> QED
    BY <1>5 DEF after

\* A step that settles no open position of a market takes nothing from its pot.
LEMMA PaidOnlyToSettle ==
    ASSUME IInv, FundFits, [Next]_vars, NEW m \in Markets
    PROVE  \/ Pot(tokens', m) >= Pot(tokens, m)
           \/ \E p \in OpenPositions : Settled(p) /\ p[2] = m
<1>1. tokens \in [TokenAccounts -> Nat]
    BY DEF IInv, MoneyOK
<1>2. CASE UNCHANGED tokens
    <2>1. Pot(tokens, m) \in Nat
        BY <1>1, AccountsDiffer DEF Pot
    <2> QED
        BY <1>2, <2>1 DEF Pot
<1>3. CASE \E u \in Users, market, feed, vault \in Markets, size \in Sizes, collateral \in Collaterals :
                OpenPosition(u, market, feed, vault, size, collateral)
    <2>1. PICK u \in Users, market \in Markets, feed \in Markets, vault \in Markets, size \in Sizes,
               collateral \in Collaterals :
                    OpenPosition(u, market, feed, vault, size, collateral)
        BY <1>3
    <2>2. /\ Covers(tokens, Wallet(u), collateral)
          /\ tokens' = Transfer(tokens, Wallet(u), Vault(vault), collateral)
        BY <2>1 DEF OpenPosition
    <2>3. collateral \in Nat
        BY InputAssumption, WidthAssumption
    <2> QED
        BY <1>1, <2>2, <2>3, AccountsDiffer, WalletPays
<1>4. CASE \E u \in Users, to \in TokenAccounts, amount \in Amounts : Deposit(u, to, amount)
    <2>1. PICK u \in Users, to \in TokenAccounts, amount \in Amounts : Deposit(u, to, amount)
        BY <1>4
    <2>2. /\ Covers(tokens, Wallet(u), amount)
          /\ tokens' = Transfer(tokens, Wallet(u), to, amount)
        BY <2>1 DEF Deposit
    <2>3. amount \in Nat
        BY InputAssumption, WidthAssumption
    <2> QED
        BY <1>1, <2>2, <2>3, WalletPays
<1>5. CASE \E u \in Users, market, record, token \in Markets, amount \in Amounts :
                InsuranceFundDeposit(u, market, record, token, amount)
    <2>1. PICK u \in Users, market \in Markets, record \in Markets, token \in Markets,
               amount \in Amounts : InsuranceFundDeposit(u, market, record, token, amount)
        BY <1>5
    <2>2. /\ Covers(tokens, Wallet(u), amount)
          /\ tokens' = Transfer(tokens, Wallet(u), FundToken(token), amount)
        BY <2>1 DEF InsuranceFundDeposit
    <2>3. amount \in Nat
        BY InputAssumption, WidthAssumption
    <2> QED
        BY <1>1, <2>2, <2>3, AccountsDiffer, WalletPays
<1>6. ASSUME NEW q \in DOMAIN positions, positions[q].size # 0,
             positions' = [positions EXCEPT ![q] = Dormant(q[2])],
             PotsLoseAtMost(Larger(EquityAt(q, q[2]), 0), q[2])
      PROVE  \/ Pot(tokens', m) >= Pot(tokens, m)
             \/ \E p \in OpenPositions : Settled(p) /\ p[2] = m
    <2>1. q \in OpenPositions /\ Settled(q)
        BY <1>6 DEF OpenPositions, Settled, Dormant
    <2>2. CASE q[2] = m
        BY <2>1, <2>2
    <2>3. CASE q[2] # m
        <3>1. Pot(tokens', m) >= Pot(tokens, m) - 0
            BY <1>6, <2>3 DEF PotsLoseAtMost
        <3>2. Pot(tokens, m) \in Nat
            BY <1>1, AccountsDiffer DEF Pot
        <3> QED
            BY <3>1, <3>2
    <2> QED
        BY <2>2, <2>3
<1>7. \A q \in DOMAIN positions : q[1] \in Users /\ q[2] \in Markets
    BY DEF IInv, PositionsOK
<1>8. CASE \E q \in DOMAIN positions, market, feed, vault, record, token \in Markets :
                ClosePosition(q, market, feed, vault, record, token)
    <2>1. PICK q \in DOMAIN positions, market \in Markets, feed \in Markets, vault \in Markets,
               record \in Markets, token \in Markets :
                    ClosePosition(q, market, feed, vault, record, token)
        BY <1>8
    <2>2. market = q[2] /\ feed = market /\ vault = market /\ record = market /\ token = market
        BY <2>1 DEF ClosePosition, VerifyVault, VerifyFund, VerifyFeed, VerifyPosition
    <2>3. ClosePosition(q, q[2], q[2], q[2], q[2], q[2])
        BY <2>1, <2>2
    <2>4. PotsLoseAtMost(Larger(EquityAt(q, q[2]), 0), q[2])
        BY <1>7, <2>3, ClosePays
    <2>5. positions[q].size # 0 /\ positions' = [positions EXCEPT ![q] = Dormant(q[2])]
        BY <2>3 DEF ClosePosition
    <2> QED
        BY <1>6, <2>4, <2>5
<1>9. CASE \E q \in DOMAIN positions, market, feed, vault, record, token \in Markets :
                Liquidate(q, market, feed, vault, record, token)
    <2>1. PICK q \in DOMAIN positions, market \in Markets, feed \in Markets, vault \in Markets,
               record \in Markets, token \in Markets :
                    Liquidate(q, market, feed, vault, record, token)
        BY <1>9
    <2>2. market = q[2] /\ feed = market /\ vault = market /\ record = market /\ token = market
        BY <2>1 DEF Liquidate, VerifyVault, VerifyFund, VerifyFeed, VerifyPosition
    <2>3. Liquidate(q, q[2], q[2], q[2], q[2], q[2])
        BY <2>1, <2>2
    <2>4. PotsLoseAtMost(Larger(EquityAt(q, q[2]), 0), q[2])
        BY <1>7, <2>3, LiquidatePays
    <2>5. positions[q].size # 0 /\ positions' = [positions EXCEPT ![q] = Dormant(q[2])]
        BY <2>3 DEF Liquidate
    <2> QED
        BY <1>6, <2>4, <2>5
<1>10. \/ \E market \in Markets, price \in Prices : SetOraclePrice(market, price)
       \/ \E market \in Markets, rate \in Rates : UpdateFunding(market, rate)
       \/ Tick \/ UNCHANGED vars
       => UNCHANGED tokens
    BY DEF SetOraclePrice, UpdateFunding, Tick, vars
<1> QED
    BY <1>2, <1>3, <1>4, <1>5, <1>8, <1>9, <1>10 DEF Next

\* For every equity, payout account and state of vault and fund: a market's
\* vault and fund together pay only for the settling of an open position of the
\* market's own, and no more than its equity.
THEOREM PayoutBounded == Spec => BoundedPayout
<1>1. IInv /\ FundFits /\ [Next]_vars =>
        [\A m \in Markets :
            Pot(tokens', m) < Pot(tokens, m) =>
                \E p \in OpenPositions :
                    /\ Settled(p) /\ p[2] = m
                    /\ Pot(tokens, m) - Pot(tokens', m) <= EquityAt(p, m)]_vars
    <2> SUFFICES ASSUME IInv, FundFits, [Next]_vars, NEW m \in Markets,
                        Pot(tokens', m) < Pot(tokens, m)
                 PROVE  \E p \in OpenPositions :
                            /\ Settled(p) /\ p[2] = m
                            /\ Pot(tokens, m) - Pot(tokens', m) <= EquityAt(p, m)
        OBVIOUS
    <2>1. /\ tokens[Vault(m)] \in Nat /\ tokens[FundToken(m)] \in Nat
          /\ tokens'[Vault(m)] \in Nat /\ tokens'[FundToken(m)] \in Nat
        BY NextIInv, AccountsDiffer DEF IInv, MoneyOK
    <2>2. Pot(tokens, m) \in Nat /\ Pot(tokens', m) \in Nat
        BY <2>1 DEF Pot
    <2>3. PICK p \in OpenPositions : Settled(p) /\ p[2] = m
        BY <2>2, PaidOnlyToSettle
    <2>4. PotsLoseAtMost(Larger(EquityAt(p, m), 0), m)
        BY <2>3, SettlingSteps, ClosePays, LiquidatePays
    <2>5. Pot(tokens', m) >= Pot(tokens, m) - Larger(EquityAt(p, m), 0)
        BY <2>4 DEF PotsLoseAtMost
    <2>6. EquityAt(p, m) \in Int
        BY <2>3, SettlingSteps, EquityAtInt
    <2>7. Pot(tokens, m) - Pot(tokens', m) <= EquityAt(p, m)
        BY <2>2, <2>5, <2>6 DEF Larger
    <2> QED
        BY <2>3, <2>7
<1> QED
    BY <1>1, Invariant, FundAlwaysFits, PTL DEF Spec, BoundedPayout

\* Whatever token accounts a liquidator names and whoever the owner is (the
\* liquidator himself, too), the owner's wallet gains all that the penalty
\* leaves of the equity.
THEOREM RemainderKept == Spec => OwnerKeepsRemainder
<1>1. IInv /\ FundFits /\ [Next]_vars =>
        [\A p \in OpenPositions :
            LET m == p[2]
                owed == Larger(EquityAt(p, m), 0)
                            - Penalty(EquityAt(p, m), NotionalAt(p, m), LIQUIDATION_PENALTY_BPS)
            IN Settled(p) /\ Liquidate(p, m, m, m, m, m) /\ owed <= U64_MAX
                    => tokens'[Wallet(p[1])] >= tokens[Wallet(p[1])] + owed]_vars
    BY SettlingSteps, LiquidatePays
<1> QED
    BY <1>1, Invariant, FundAlwaysFits, PTL DEF Spec, OwnerKeepsRemainder

\* However large the loss and however little the fund holds: the fund pays the
\* vault the whole loss, or is emptied into it.
THEOREM FundAlwaysPaysFirst == Spec => FundPaysFirst
<1>1. IInv /\ FundFits /\ [Next]_vars =>
        [\A p \in OpenPositions :
            LET m == p[2]
            IN Settled(p) /\ EquityAt(p, m) < 0 =>
                    \/ tokens'[Vault(m)] = tokens[Vault(m)] - EquityAt(p, m)
                    \/ /\ fund'[m].balance = 0
                       /\ tokens'[Vault(m)] = tokens[Vault(m)] + fund[m].balance]_vars
    BY SettlingSteps, ClosePays, LiquidatePays DEF LossCovered
<1> QED
    BY <1>1, Invariant, FundAlwaysFits, PTL DEF Spec, FundPaysFirst

----------------------------------------------------------------------------
(* Rounded funding.                                                         *)

\* The funding of two positions of opposite sizes that were opened at the same
\* index cancels to the unit, whichever way the index went: funding_pnl
\* rounds toward zero, which takes as much off the one as off the other.
THEOREM FundingCancels ==
    ASSUME NEW size \in Int, NEW snapshot \in Int, NEW index_now \in Int
    PROVE  FundingPnl(size, snapshot, index_now) + FundingPnl(-size, snapshot, index_now) = 0
<1> DEFINE d == FUNDING_INDEX_SCALE
           x == (index_now - snapshot) * size
<1>1. x \in Int /\ (index_now - snapshot) * (-size) = -x
    OBVIOUS
<1>2. d \in Nat \ {0}
    BY WidthAssumption
<1> HIDE DEF d, x
<1>3. TruncDiv(x, d) + TruncDiv(-x, d) = 0
    <2>1. CASE x < 0
        <3>1. ~(-x < 0) /\ -x \in Nat
            BY <1>1, <2>1
        <3>2. (-x) \div d \in Int
            BY <1>2, <3>1
        <3> QED
            BY <1>1, <2>1, <3>1, <3>2 DEF TruncDiv
    <2>2. CASE x > 0
        <3>1. -x < 0 /\ ~(x < 0) /\ -(-x) = x /\ x \in Nat
            BY <1>1, <2>2
        <3>2. x \div d \in Int
            BY <1>2, <3>1
        <3> QED
            BY <3>1, <3>2 DEF TruncDiv
    <2>3. CASE x = 0
        <3>1. 0 \div d = 0
            BY <1>2
        <3> QED
            BY <2>3, <3>1 DEF TruncDiv
    <2> QED
        BY <1>1, <2>1, <2>2, <2>3
<1> QED
    BY <1>1, <1>3 DEF FundingPnl, d, x

----------------------------------------------------------------------------
(* A position starts out healthy.                                           *)

\* Only OpenPosition makes a position account.
LEMMA OpeningSteps ==
    ASSUME IInv, [Next]_vars, NEW p \in (DOMAIN positions)' \ DOMAIN positions
    PROVE  \E user \in Users, market \in Markets, size \in Sizes, collateral \in Collaterals :
                /\ p = <<user, market>>
                /\ OpenPosition(user, market, market, market, size, collateral)
<1>1. (DOMAIN positions)' # DOMAIN positions
    OBVIOUS
<1>2. CASE \E u \in Users, m, feed, vault \in Markets, size \in Sizes,
              collateral \in Collaterals :
                OpenPosition(u, m, feed, vault, size, collateral)
    <2>1. PICK u \in Users, m \in Markets, feed \in Markets, vault \in Markets,
               size \in Sizes, collateral \in Collaterals :
                    OpenPosition(u, m, feed, vault, size, collateral)
        BY <1>2
    <2>2. feed = m /\ vault = m
        BY <2>1 DEF OpenPosition, VerifyVault, VerifyFeed
    <2>3. (DOMAIN positions)' = DOMAIN positions \union {<<u, m>>}
        BY <2>1 DEF OpenPosition
    <2>4. p = <<u, m>>
        BY <2>3
    <2> QED
        BY <2>1, <2>2, <2>4
<1>3. ~ (\/ Tick
         \/ \E m \in Markets, price \in Prices : SetOraclePrice(m, price)
         \/ \E m \in Markets, rate \in Rates : UpdateFunding(m, rate)
         \/ \E u \in Users, to \in TokenAccounts, amount \in Amounts : Deposit(u, to, amount)
         \/ \E u \in Users, m, record, token \in Markets, amount \in Amounts :
                InsuranceFundDeposit(u, m, record, token, amount)
         \/ UNCHANGED vars)
    BY <1>1 DEF Tick, SetOraclePrice, UpdateFunding, Deposit, InsuranceFundDeposit, vars
<1>4. ~ \E q \in DOMAIN positions, m, feed, vault, record, token \in Markets :
            ClosePosition(q, m, feed, vault, record, token)
    BY <1>1 DEF ClosePosition
<1>5. ~ \E q \in DOMAIN positions, m, feed, vault, record, token \in Markets :
            Liquidate(q, m, feed, vault, record, token)
    BY <1>1 DEF Liquidate
<1> QED
    BY <1>2, <1>3, <1>4, <1>5 DEF Next

\* At its entry price and index a position is worth its collateral.
LEMMA EquityAtEntry ==
    ASSUME NEW position, NEW mark \in Int, NEW index \in Int, position.size \in Int,
           position.collateral \in Nat, position.entry_price = mark,
           position.funding_snapshot_index = index
    PROVE  Equity(position, mark, index) = position.collateral
<1>1. (index - index) * position.size = 0 /\ position.size * (mark - mark) = 0
    <2>1. index - index = 0 /\ mark - mark = 0
        OBVIOUS
    <2>2. \A x \in Int : 0 * x = 0 /\ x * 0 = 0
        OBVIOUS
    <2> QED
        BY <2>1, <2>2
<1>2. TruncDiv(0, FUNDING_INDEX_SCALE) = 0
    BY WidthAssumption DEF TruncDiv
<1> QED
    BY <1>1, <1>2 DEF Equity, FundingPnl

\* Maintenance margin is no more than initial margin, unless the product for
\* the latter wraps.
LEMMA MaintenanceWithinInitial ==
    ASSUME NEW notional \in Nat, notional * INITIAL_MARGIN_BPS <= U128_MAX
    PROVE  /\ MaintenanceMargin(notional, MAINT_MARGIN_BPS) \in Nat
           /\ InitialMargin(notional, INITIAL_MARGIN_BPS) \in Nat
           /\ MaintenanceMargin(notional, MAINT_MARGIN_BPS)
                <= InitialMargin(notional, INITIAL_MARGIN_BPS)
<1> DEFINE large == notional * INITIAL_MARGIN_BPS
           small == notional * MAINT_MARGIN_BPS
<1>1. large \in Nat /\ small \in Nat /\ small <= large
    BY PolicyAssumption, ProductMonotone
<1>2. Wrap128(large) = large /\ Wrap128(small) = small
    <2>1. small <= U128_MAX /\ large <= U128_MAX
        <3>1. large <= U128_MAX
            OBVIOUS
        <3> HIDE DEF small, large
        <3> QED
            BY <1>1, <3>1, WidthAssumption
    <2> HIDE DEF small, large
    <2> QED
        BY <1>1, <2>1, WrapBound
<1>3. small \div BPS_DENOMINATOR <= large \div BPS_DENOMINATOR
    <2>1. BPS_DENOMINATOR \in Nat \ {0}
        BY DEF BPS_DENOMINATOR
    <2> HIDE DEF small, large
    <2> QED
        BY <1>1, <2>1, QuotientMonotone
<1>4. BpsOf(notional, MAINT_MARGIN_BPS) \in Nat /\ BpsOf(notional, INITIAL_MARGIN_BPS) \in Nat
    <2>1. notional \in Int /\ MAINT_MARGIN_BPS \in Int /\ INITIAL_MARGIN_BPS \in Int
        BY PolicyAssumption
    <2> QED
        BY <2>1, BpsNat
<1> QED
    BY <1>2, <1>3, <1>4 DEF MaintenanceMargin, InitialMargin, BpsOf

\* Whatever the size, price, collateral and ratios: what OpenPosition admits
\* cannot be liquidated until price or funding moves, unless the product that
\* its margin is computed from wraps.
THEOREM OpenedHealthy == Spec => OpensHealthy
<1>1. IInv /\ [Next]_vars =>
        [\A p \in (DOMAIN positions)' \ DOMAIN positions :
            NotionalAt(p, p[2])' * INITIAL_MARGIN_BPS <= U128_MAX =>
                ~IsLiquidatable(EquityAt(p, p[2])', MaintenanceAt(p, p[2])')]_vars
    <2> SUFFICES ASSUME IInv, [Next]_vars, NEW p \in (DOMAIN positions)' \ DOMAIN positions,
                        NotionalAt(p, p[2])' * INITIAL_MARGIN_BPS <= U128_MAX
                 PROVE  ~IsLiquidatable(EquityAt(p, p[2])', MaintenanceAt(p, p[2])')
        OBVIOUS
    <2>1. PICK user \in Users, market \in Markets, size \in Sizes, collateral \in Collaterals :
                /\ p = <<user, market>>
                /\ OpenPosition(user, market, market, market, size, collateral)
        BY OpeningSteps
    <2> DEFINE mark == oracle[market].price
               index == funding[market].cumulative_funding_index
               opened == [size |-> size, entry_price |-> mark, collateral |-> collateral,
                          funding_snapshot_index |-> index]
    <2>2. positions'[p] = opened /\ oracle' = oracle /\ funding' = funding /\ p[2] = market
        BY <2>1 DEF OpenPosition
    <2>3. /\ mark \in Int /\ mark > 0 /\ index \in Int /\ size \in Int /\ collateral \in Nat
          /\ collateral >= InitialMargin(Notional(size, mark), INITIAL_MARGIN_BPS)
        BY <2>1, InputAssumption, WidthAssumption DEF IInv, FeedsOK, OpenPosition, Fresh
    <2>4. EquityAt(p, p[2])' = Equity(opened, mark, index)
        BY <2>2 DEF EquityAt
    <2>5. /\ NotionalAt(p, p[2])' = Notional(size, mark)
          /\ MaintenanceAt(p, p[2])' = MaintenanceMargin(Notional(size, mark), MAINT_MARGIN_BPS)
        BY <2>2 DEF NotionalAt, MaintenanceAt
    <2>6. Notional(size, mark) \in Nat
        <3>1. Abs(size) \in Nat /\ mark \in Nat
            BY <2>3 DEF Abs
        <3> HIDE DEF mark
        <3> QED
            BY <3>1, ProductMonotone DEF Notional
    <2>7. Equity(opened, mark, index) = collateral
        <3>1. /\ opened.size \in Int /\ opened.collateral \in Nat /\ opened.entry_price = mark
              /\ opened.funding_snapshot_index = index /\ opened.collateral = collateral
            BY <2>3
        <3> HIDE DEF opened, mark, index
        <3> QED
            BY <2>3, <3>1, EquityAtEntry
    <2> HIDE DEF opened, mark, index
    <2>8. /\ MaintenanceMargin(Notional(size, mark), MAINT_MARGIN_BPS)
                <= InitialMargin(Notional(size, mark), INITIAL_MARGIN_BPS)
          /\ MaintenanceMargin(Notional(size, mark), MAINT_MARGIN_BPS) \in Nat
          /\ InitialMargin(Notional(size, mark), INITIAL_MARGIN_BPS) \in Nat
        BY <2>5, <2>6, MaintenanceWithinInitial
    <2> QED
        BY <2>3, <2>4, <2>5, <2>7, <2>8 DEF IsLiquidatable
<1> QED
    BY <1>1, Invariant, PTL DEF Spec, OpensHealthy

----------------------------------------------------------------------------
(* Bad debt can be cleared.  The prover does not know ENABLED, so what it   *)
(* means is spelled out: there is a next state that the action leads to.    *)

\* Liquidate as a relation between this state and a next one, in which the
\* variables it changes have the values positions2, fund2 and tokens2.
LiquidateTo(p, market, feed, vault, fund_record, fund_token, positions2, fund2, tokens2) ==
    LET equity == EquityAt(p, feed)
        split == LiquidationSplit(equity, NotionalAt(p, feed), LIQUIDATION_PENALTY_BPS,
                                  INSURANCE_FUND_PENALTY_SHARE_BPS)
        credited == Credit(fund[fund_record], split.to_insurance_fund)
        drawn == InsuranceDraw(equity, credited.balance)
    IN /\ VerifyVault(vault, market) /\ VerifyFund(fund_record, fund_token, market)
       /\ VerifyFeed(feed, market) /\ Fresh(feed)
       /\ positions[p].size # 0
       /\ VerifyPosition(p[2], market)
       /\ IsLiquidatable(equity, MaintenanceAt(p, feed))
       /\ positions2 = [positions EXCEPT ![p] = Dormant(feed)]
       /\ InRange(credited) /\ InRange(Draw(credited, drawn))
       /\ fund2 = [fund EXCEPT ![fund_record] = Draw(credited, drawn)]
       /\ \E owner_token, liquidator_token \in TokenAccounts :
            LET t1 == Transfer(tokens, Vault(vault), liquidator_token, split.to_liquidator)
                t2 == Transfer(t1, Vault(vault), FundToken(fund_token), split.to_insurance_fund)
                t3 == Transfer(t2, Vault(vault), owner_token, split.to_owner)
            IN /\ VerifyOwnerToken(owner_token, p[1])
               /\ Covers(tokens, Vault(vault), split.to_liquidator)
               /\ Covers(t1, Vault(vault), split.to_insurance_fund)
               /\ Covers(t2, Vault(vault), split.to_owner)
               /\ Covers(t3, FundToken(fund_token), drawn)
               /\ tokens2 = Transfer(t3, FundToken(fund_token), Vault(vault), drawn)

\* The relation is the action.
LEMMA LiquidateRelation ==
    ASSUME NEW p, NEW market, NEW feed, NEW vault, NEW fund_record, NEW fund_token
    PROVE  Liquidate(p, market, feed, vault, fund_record, fund_token)
           <=> /\ LiquidateTo(p, market, feed, vault, fund_record, fund_token,
                              positions', fund', tokens')
               /\ UNCHANGED <<now, oracle, funding>>
BY ZenonT(30) DEF Liquidate, LiquidateTo

\* There is a next state in which p has been liquidated at its market's accounts.
CanLiquidate(p) ==
    \E positions2, fund2, tokens2 :
        LiquidateTo(p, p[2], p[2], p[2], p[2], p[2], positions2, fund2, tokens2)

\* Of a negative equity nobody is paid anything.
LEMMA NothingToSplit ==
    ASSUME NEW equity \in Int, NEW notional \in Int, equity < 0
    PROVE  LET split == LiquidationSplit(equity, notional, LIQUIDATION_PENALTY_BPS,
                                         INSURANCE_FUND_PENALTY_SHARE_BPS)
           IN split.to_liquidator = 0 /\ split.to_insurance_fund = 0 /\ split.to_owner = 0
<1> DEFINE split == LiquidationSplit(equity, notional, LIQUIDATION_PENALTY_BPS,
                                     INSURANCE_FUND_PENALTY_SHARE_BPS)
<1>1. /\ split.to_liquidator \in Nat /\ split.to_insurance_fund \in Nat /\ split.to_owner \in Nat
      /\ split.to_liquidator + split.to_insurance_fund + split.to_owner <= Larger(equity, 0)
    BY SplitBound
<1>2. Larger(equity, 0) = 0
    BY DEF Larger
<1> HIDE DEF split
<1>3. split.to_liquidator = 0 /\ split.to_insurance_fund = 0 /\ split.to_owner = 0
    BY <1>1, <1>2
<1> QED
    BY <1>3 DEF split

\* An underwater position meets every condition of Liquidate: no vault has to
\* pay anything, and the fund has the tokens that its record promises.
LEMMA UnderwaterCanLiquidate ==
    ASSUME IInv, FundFits, NEW p \in OpenPositions, Fresh(p[2]), EquityAt(p, p[2]) < 0,
           fund[p[2]].total_drawdowns - EquityAt(p, p[2]) <= U64_MAX
    PROVE  CanLiquidate(p)
<1> DEFINE m == p[2]
           equity == EquityAt(p, m)
           split == LiquidationSplit(equity, NotionalAt(p, m), LIQUIDATION_PENALTY_BPS,
                                     INSURANCE_FUND_PENALTY_SHARE_BPS)
           credited == Credit(fund[m], split.to_insurance_fund)
           drawn == InsuranceDraw(equity, credited.balance)
<1>1. p \in DOMAIN positions /\ positions[p].size # 0
    BY DEF OpenPositions
<1>2. p[1] \in Users /\ m \in Markets
    BY <1>1 DEF IInv, PositionsOK
<1>3. equity \in Int /\ NotionalAt(p, m) \in Int /\ equity < 0
    BY <1>1, <1>2, EquityAtInt
<1>4. split.to_liquidator = 0 /\ split.to_insurance_fund = 0 /\ split.to_owner = 0
    <2> HIDE DEF equity
    <2> QED
        BY <1>3, NothingToSplit
<1>5. /\ fund[m].balance \in Nat /\ fund[m].total_deposits \in Nat /\ fund[m].total_drawdowns \in Nat
      /\ InRange(fund[m]) /\ fund[m].balance <= tokens[FundToken(m)]
      /\ tokens \in [TokenAccounts -> Nat]
    BY <1>2 DEF IInv, MoneyOK, FundFits, FundSolvent
<1>6. /\ credited.balance = fund[m].balance /\ credited.total_deposits = fund[m].total_deposits
      /\ credited.total_drawdowns = fund[m].total_drawdowns
    <2> HIDE DEF split
    <2> QED
        BY <1>4, <1>5 DEF Credit
<1>7. drawn \in Nat /\ drawn <= fund[m].balance /\ drawn <= -equity
    <2> HIDE DEF equity, credited
    <2> QED
        BY <1>3, <1>5, <1>6, WidthAssumption DEF InsuranceDraw, Smaller
<1>8. InRange(credited) /\ InRange(Draw(credited, drawn))
    <2>1. fund[m].total_drawdowns - equity <= U64_MAX
        OBVIOUS
    <2> HIDE DEF equity, credited, drawn, m
    <2>2. InRange(credited)
        BY <1>5, <1>6 DEF InRange
    <2>3. /\ Draw(credited, drawn).balance = fund[m].balance - drawn
          /\ Draw(credited, drawn).total_deposits = fund[m].total_deposits
          /\ Draw(credited, drawn).total_drawdowns = fund[m].total_drawdowns + drawn
        BY <1>6 DEF Draw
    <2>4. U64_MAX \in Nat
        BY WidthAssumption
    <2>5. InRange(Draw(credited, drawn))
        BY <1>3, <1>5, <1>7, <2>1, <2>3, <2>4 DEF InRange
    <2> QED
        BY <2>2, <2>5
<1>9. IsLiquidatable(equity, MaintenanceAt(p, m))
    <2>1. MaintenanceAt(p, m) \in Nat
        <3>1. MAINT_MARGIN_BPS \in Int
            BY PolicyAssumption
        <3> HIDE DEF m
        <3> QED
            BY <1>3, <3>1, BpsNat DEF MaintenanceAt, MaintenanceMargin
    <2> HIDE DEF equity
    <2> QED
        BY <1>3, <2>1 DEF IsLiquidatable
<1> DEFINE w == Wallet(p[1])
           t1 == Transfer(tokens, Vault(m), w, split.to_liquidator)
           t2 == Transfer(t1, Vault(m), FundToken(m), split.to_insurance_fund)
           t3 == Transfer(t2, Vault(m), w, split.to_owner)
<1>10. w \in TokenAccounts /\ Vault(m) \in TokenAccounts /\ FundToken(m) \in TokenAccounts
    BY <1>2, AccountsDiffer
<1>11. t1 = tokens /\ t2 = tokens /\ t3 = tokens
    <2> HIDE DEF split, w, m
    <2> QED
        BY <1>4, <1>5, <1>10, NothingMoves
<1>12. /\ Covers(tokens, Vault(m), split.to_liquidator)
       /\ Covers(t1, Vault(m), split.to_insurance_fund)
       /\ Covers(t2, Vault(m), split.to_owner)
       /\ Covers(t3, FundToken(m), drawn)
    <2>1. tokens[Vault(m)] \in Nat /\ tokens[FundToken(m)] \in Nat
        BY <1>5, <1>10
    <2> HIDE DEF split, drawn, m, t1, t2, t3
    <2> QED
        BY <1>4, <1>5, <1>7, <1>11, <2>1 DEF Covers
<1>13. /\ VerifyVault(m, m) /\ VerifyFund(m, m, m) /\ VerifyFeed(m, m) /\ VerifyPosition(p[2], m)
       /\ VerifyOwnerToken(w, p[1]) /\ Fresh(m)
    BY DEF VerifyVault, VerifyFund, VerifyFeed, VerifyPosition, VerifyOwnerToken
<1> DEFINE positions2 == [positions EXCEPT ![p] = Dormant(m)]
           fund2 == [fund EXCEPT ![m] = Draw(credited, drawn)]
           tokens2 == Transfer(t3, FundToken(m), Vault(m), drawn)
<1>14. LiquidateTo(p, m, m, m, m, m, positions2, fund2, tokens2)
    BY <1>1, <1>8, <1>9, <1>10, <1>12, <1>13, Zenon DEF LiquidateTo
<1> QED
    BY <1>14, Zenon DEF CanLiquidate

\* BadDebtClears with ENABLED spelled out: while its oracle is fresh, nothing
\* about the tokens in vault or fund keeps an underwater position from being
\* liquidated, as long as the fund's drawdowns can be counted.
THEOREM BadDebtCanClear ==
    Spec => [](\A p \in OpenPositions :
                /\ Fresh(p[2]) /\ EquityAt(p, p[2]) < 0
                /\ fund[p[2]].total_drawdowns - EquityAt(p, p[2]) <= U64_MAX
                => CanLiquidate(p))
<1>1. IInv /\ FundFits =>
        \A p \in OpenPositions :
            /\ Fresh(p[2]) /\ EquityAt(p, p[2]) < 0
            /\ fund[p[2]].total_drawdowns - EquityAt(p, p[2]) <= U64_MAX
            => CanLiquidate(p)
    BY UnderwaterCanLiquidate
<1> QED
    BY <1>1, Invariant, FundAlwaysFits, PTL

----------------------------------------------------------------------------
(* A settled position.                                                      *)

\* A settled position is settled for good: its account is never written again,
\* neither by OpenPosition, whose create_account fails on it, nor by ClosePosition
\* or Liquidate, which refuse an empty position. What is left of the "re-open"
\* that the module documentation speaks of is another user.
THEOREM SettledForGood ==
    Spec => [][\A p \in DOMAIN positions \ OpenPositions :
                    p \in DOMAIN positions' /\ positions'[p] = positions[p]]_vars
<1> DEFINE Same ==
        \A p \in DOMAIN positions \ OpenPositions :
            p \in DOMAIN positions' /\ positions'[p] = positions[p]
<1>1. ASSUME [Next]_vars PROVE Same
    <2>1. CASE \E u \in Users, m, feed, vault \in Markets, size \in Sizes,
                  collateral \in Collaterals :
                    OpenPosition(u, m, feed, vault, size, collateral)
        <3>1. PICK u \in Users, m \in Markets, feed \in Markets, vault \in Markets,
                   size \in Sizes, collateral \in Collaterals :
                        OpenPosition(u, m, feed, vault, size, collateral)
            BY <2>1
        <3>2. /\ <<u, m>> \notin DOMAIN positions
              /\ DOMAIN positions' = DOMAIN positions \union {<<u, m>>}
              /\ \A q \in DOMAIN positions \union {<<u, m>>} :
                    q # <<u, m>> => positions'[q] = positions[q]
            BY <3>1 DEF OpenPosition
        <3> QED
            BY <3>2
    <2>2. CASE \E p \in DOMAIN positions, m, feed, vault, record, token \in Markets :
                    \/ ClosePosition(p, m, feed, vault, record, token)
                    \/ Liquidate(p, m, feed, vault, record, token)
        <3>1. PICK p \in DOMAIN positions, m \in Markets, feed \in Markets, vault \in Markets,
                   record \in Markets, token \in Markets :
                        \/ ClosePosition(p, m, feed, vault, record, token)
                        \/ Liquidate(p, m, feed, vault, record, token)
            BY <2>2
        <3>2. positions[p].size # 0 /\ positions' = [positions EXCEPT ![p] = Dormant(feed)]
            BY <3>1 DEF ClosePosition, Liquidate
        <3> QED
            BY <3>2 DEF OpenPositions
    <2>3. CASE UNCHANGED positions
        BY <2>3
    <2> QED
        BY <1>1, <2>1, <2>2, <2>3
        DEF Next, vars, Tick, SetOraclePrice, UpdateFunding, Deposit, InsuranceFundDeposit
<1>2. [Next]_vars => [Same]_vars
    BY <1>1
<1> QED
    BY <1>2, PTL DEF Spec

=============================================================================
