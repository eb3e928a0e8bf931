------------------------------- MODULE Positions -------------------------------
(***************************************************************************)
(* Chapters 9 to 11: per market an oracle, a funding state, a vault that   *)
(* holds the collateral, and an insurance fund; per user and market at     *)
(* most one position.  Anyone sets prices and rates, owners open and close *)
(* positions, anyone liquidates an unhealthy one.                          *)
(*                                                                         *)
(* A Solana instruction is atomic: one that returns an error, or whose     *)
(* token transfer fails, changes nothing, and is not an action.  The       *)
(* caller chooses every account an instruction is passed, so each account  *)
(* that the handler ties to a market is a parameter of its action (the     *)
(* market it belongs to), and the tie a conjunct.  Markets share one quote *)
(* mint; the accounts of a market have been created beforehand.            *)
(***************************************************************************)
EXTENDS MarginMath

CONSTANTS
    Users, Markets,
    MAX_ORACLE_STALENESS_SLOTS, MAX_FUNDING_RATE_PER_SEC_ABS,
    INITIAL_MARGIN_BPS, MAINT_MARGIN_BPS,
    LIQUIDATION_PENALTY_BPS, INSURANCE_FUND_PENALTY_SHARE_BPS,
    WalletStart,   \* what a user's wallet holds at first
    Prices, Rates, \* what SetOraclePrice and UpdateFunding carry
    Sizes, Collaterals, Amounts, \* what positions and deposits carry
    MaxSlot        \* bound on the clock

VARIABLES
    now,           \* Clock: slot and unix timestamp, which advance together
    oracle,        \* per market [price, publish_slot]
    funding,       \* per market [cumulative_funding_index, current_rate_per_sec, last_update_ts]
    positions,     \* by <<user, market>>, for the position accounts that exist
    fund,          \* per market [balance, total_deposits, total_drawdowns]
    tokens         \* balances of the token accounts

vars == <<now, oracle, funding, positions, fund, tokens>>

ASSUME PolicyAssumption ==
    /\ MAX_ORACLE_STALENESS_SLOTS \in Nat /\ MAX_FUNDING_RATE_PER_SEC_ABS \in Nat
    /\ INITIAL_MARGIN_BPS \in Nat /\ MAINT_MARGIN_BPS \in 0 .. INITIAL_MARGIN_BPS
    /\ LIQUIDATION_PENALTY_BPS \in Nat
    /\ INSURANCE_FUND_PENALTY_SHARE_BPS \in 0 .. BPS_DENOMINATOR
ASSUME InputAssumption ==
    /\ Prices \subseteq -I64_MAX .. I64_MAX /\ Rates \subseteq -I64_MAX .. I64_MAX
    /\ Sizes \subseteq -I64_MAX .. I64_MAX
    /\ Collaterals \subseteq 0 .. U64_MAX /\ Amounts \subseteq 0 .. U64_MAX
    /\ WalletStart \in 0 .. U64_MAX /\ MaxSlot \in Nat

Wallet(user) == <<"wallet", user>>
Vault(market) == <<"vault", market>>
FundToken(market) == <<"insurance_fund_token", market>>
TokenAccounts == {Wallet(u) : u \in Users}
                     \union UNION {{Vault(m), FundToken(m)} : m \in Markets}

----------------------------------------------------------------------------
(* The guards that tie accounts to the market passed in: each holds for one *)
(* account, or one pair of accounts that is verified together, of market a. *)

VerifyVault(a, market) == a = market         \* vault_token and vault_authority
VerifyPosition(a, market) == a = market      \* position.market
\* Oracle and funding. (mutant: those of any market will do)
AnyFeed(a, market) == a \in Markets
VerifyFeed(a, market) == a = market
\* insurance_fund and its token account. (mutant: any fund record will do)
AnyFund(record, token, market) == token = market
VerifyFund(record, token, market) == record = market /\ token = market
\* Liquidate's owner_token. (mutant: any token account will do)
AnyOwnerToken(account, owner) == account \in TokenAccounts
VerifyOwnerToken(account, owner) == account = Wallet(owner)

Fresh(market) ==
    /\ oracle[market].price > 0
    /\ now - oracle[market].publish_slot <= MAX_ORACLE_STALENESS_SLOTS

----------------------------------------------------------------------------
(* SPL Token transfers.                                                     *)

Covers(balances, from, amount) == amount <= balances[from]
Transfer(balances, from, to, amount) ==
    IF from = to THEN balances
    ELSE [balances EXCEPT ![from] = @ - amount, ![to] = @ + amount]

----------------------------------------------------------------------------
(* The fund's counters, with checked additions.                             *)

Credit(f, amount) ==
    [balance |-> f.balance + amount, total_deposits |-> f.total_deposits + amount,
     total_drawdowns |-> f.total_drawdowns]
Draw(f, amount) ==
    [balance |-> f.balance - amount, total_deposits |-> f.total_deposits,
     total_drawdowns |-> f.total_drawdowns + amount]
InRange(f) == f.balance <= U64_MAX /\ f.total_deposits <= U64_MAX /\ f.total_drawdowns <= U64_MAX

----------------------------------------------------------------------------
(* What a position is worth at the prices of market feed.                   *)

EquityAt(p, feed) ==
    Equity(positions[p], oracle[feed].price, funding[feed].cumulative_funding_index)
NotionalAt(p, feed) == Notional(positions[p].size, oracle[feed].price)
MaintenanceAt(p, feed) == MaintenanceMargin(NotionalAt(p, feed), MAINT_MARGIN_BPS)

\* A settled position: its account stays, empty.
Dormant(feed) ==
    [size |-> 0, entry_price |-> 0, collateral |-> 0,
     funding_snapshot_index |-> funding[feed].cumulative_funding_index]

----------------------------------------------------------------------------
\* Both feeds and the fund as their Create instructions leave them.
Init ==
    /\ now = 0
    /\ oracle = [m \in Markets |-> [price |-> 0, publish_slot |-> 0]]
    /\ funding = [m \in Markets |->
            [cumulative_funding_index |-> 0, current_rate_per_sec |-> 0, last_update_ts |-> now]]
    /\ positions = [p \in {} |-> 0]
    /\ fund = [m \in Markets |-> [balance |-> 0, total_deposits |-> 0, total_drawdowns |-> 0]]
    /\ tokens = [a \in TokenAccounts |-> IF a[1] = "wallet" THEN WalletStart ELSE 0]

Tick ==
    /\ now < MaxSlot
    /\ now' = now + 1
    /\ UNCHANGED <<oracle, funding, positions, fund, tokens>>

\* Any signer, any price.
SetOraclePrice(market, price) ==
    /\ oracle' = [oracle EXCEPT ![market] = [price |-> price, publish_slot |-> now]]
    /\ UNCHANGED <<now, funding, positions, fund, tokens>>

\* The rate that was in effect is accrued, then the new one installed.
\* (mutant: the new one is accrued)
NewRate(f, new_rate) == ClampRate(new_rate, MAX_FUNDING_RATE_PER_SEC_ABS)
RateInEffect(f, new_rate) == f.current_rate_per_sec

UpdateFunding(market, new_rate) ==
    LET f == funding[market]
    IN /\ now >= f.last_update_ts
       /\ funding' = [funding EXCEPT ![market] =
                [cumulative_funding_index |->
                    Accrue(f.cumulative_funding_index, RateInEffect(f, new_rate),
                           now - f.last_update_ts),
                 current_rate_per_sec |-> ClampRate(new_rate, MAX_FUNDING_RATE_PER_SEC_ABS),
                 last_update_ts |-> now]]
       /\ UNCHANGED <<now, oracle, positions, fund, tokens>>

OpenPosition(user, market, feed, vault, size, collateral) ==
    LET p == <<user, market>>
        mark == oracle[feed].price
        required == InitialMargin(Notional(size, mark), INITIAL_MARGIN_BPS)
    IN /\ size # 0 /\ collateral # 0
       /\ VerifyVault(vault, market) /\ VerifyFeed(feed, market) /\ Fresh(feed)
       /\ collateral >= required
       /\ p \notin DOMAIN positions              \* create_account
       /\ Covers(tokens, Wallet(user), collateral)
       /\ tokens' = Transfer(tokens, Wallet(user), Vault(vault), collateral)
       /\ positions' = [q \in DOMAIN positions \union {p} |->
                IF q # p THEN positions[q]
                ELSE [size |-> size, entry_price |-> mark, collateral |-> collateral,
                      funding_snapshot_index |-> funding[feed].cumulative_funding_index]]
       /\ UNCHANGED <<now, oracle, funding, fund>>

\* Of position p, whose user signs, to a token account of the user's choice.
ClosePosition(p, market, feed, vault, fund_record, fund_token) ==
    LET equity == EquityAt(p, feed)
        payout == ClosePayout(equity)
        drawn == InsuranceDraw(equity, fund[fund_record].balance)
    IN /\ VerifyVault(vault, market) /\ VerifyFund(fund_record, fund_token, market)
       /\ VerifyFeed(feed, market) /\ Fresh(feed)
       /\ VerifyPosition(p[2], market)
       /\ positions[p].size # 0
       /\ positions' = [positions EXCEPT ![p] = Dormant(feed)]
       /\ fund' = [fund EXCEPT ![fund_record] = Draw(fund[fund_record], drawn)]
       /\ InRange(Draw(fund[fund_record], drawn))
       /\ Covers(tokens, Vault(vault), payout)
       /\ \E user_token \in TokenAccounts :
            LET paid == Transfer(tokens, Vault(vault), user_token, payout)
            IN /\ Covers(paid, FundToken(fund_token), drawn)
               /\ tokens' = Transfer(paid, FundToken(fund_token), Vault(vault), drawn)
       /\ UNCHANGED <<now, oracle, funding>>

\* By anyone, who chooses the token accounts that receive the liquidator's and
\* the owner's shares. Once vault has paid liquidator, fund and owner, the
\* fund covers the shortfall.
Liquidate(p, market, feed, vault, fund_record, fund_token) ==
    LET equity == EquityAt(p, feed)
        split == LiquidationSplit(equity, NotionalAt(p, feed), LIQUIDATION_PENALTY_BPS,
                                  INSURANCE_FUND_PENALTY_SHARE_BPS)
        credited == Credit(fund[fund_record], split.to_insurance_fund)
        drawn == InsuranceDraw(equity, credited.balance)
    IN /\ VerifyVault(vault, market) /\ VerifyFund(fund_record, fund_token, market)
       /\ VerifyFeed(feed, market) /\ Fresh(feed)
       /\ positions[p].size # 0
       /\ VerifyPosition(p[2], market)
       /\ IsLiquidatable(equity, MaintenanceAt(p, feed))
       /\ positions' = [positions EXCEPT ![p] = Dormant(feed)]
       /\ InRange(credited) /\ InRange(Draw(credited, drawn))
       /\ fund' = [fund EXCEPT ![fund_record] = Draw(credited, drawn)]
       /\ \E owner_token, liquidator_token \in TokenAccounts :
            LET t1 == Transfer(tokens, Vault(vault), liquidator_token, split.to_liquidator)
                t2 == Transfer(t1, Vault(vault), FundToken(fund_token), split.to_insurance_fund)
                t3 == Transfer(t2, Vault(vault), owner_token, split.to_owner)
            IN /\ VerifyOwnerToken(owner_token, p[1])
               /\ Covers(tokens, Vault(vault), split.to_liquidator)
               /\ Covers(t1, Vault(vault), split.to_insurance_fund)
               /\ Covers(t2, Vault(vault), split.to_owner)
               /\ Covers(t3, FundToken(fund_token), drawn)
               /\ tokens' = Transfer(t3, FundToken(fund_token), Vault(vault), drawn)
       /\ UNCHANGED <<now, oracle, funding>>

\* The bare transfer of Chapter 6: any token account serves as the vault.
Deposit(user, vault_token, amount) ==
    /\ amount # 0
    /\ Covers(tokens, Wallet(user), amount)
    /\ tokens' = Transfer(tokens, Wallet(user), vault_token, amount)
    /\ UNCHANGED <<now, oracle, funding, positions, fund>>

InsuranceFundDeposit(user, market, fund_record, fund_token, amount) ==
    /\ amount # 0
    /\ VerifyFund(fund_record, fund_token, market)
    /\ fund' = [fund EXCEPT ![fund_record] = Credit(fund[fund_record], amount)]
    /\ InRange(Credit(fund[fund_record], amount))
    /\ Covers(tokens, Wallet(user), amount)
    /\ tokens' = Transfer(tokens, Wallet(user), FundToken(fund_token), amount)
    /\ UNCHANGED <<now, oracle, funding, positions>>

Next ==
    \/ Tick
    \/ \E m \in Markets, price \in Prices : SetOraclePrice(m, price)
    \/ \E m \in Markets, rate \in Rates : UpdateFunding(m, rate)
    \/ \E u \in Users, m, feed, vault \in Markets, size \in Sizes, collateral \in Collaterals :
            OpenPosition(u, m, feed, vault, size, collateral)
    \/ \E p \in DOMAIN positions, m, feed, vault, record, token \in Markets :
            ClosePosition(p, m, feed, vault, record, token)
    \/ \E p \in DOMAIN positions, m, feed, vault, record, token \in Markets :
            Liquidate(p, m, feed, vault, record, token)
    \/ \E u \in Users, to \in TokenAccounts, amount \in Amounts : Deposit(u, to, amount)
    \/ \E u \in Users, m, record, token \in Markets, amount \in Amounts :
            InsuranceFundDeposit(u, m, record, token, amount)

Spec == Init /\ [][Next]_vars

----------------------------------------------------------------------------
(* Properties.                                                              *)

OpenPositions == {p \in DOMAIN positions : positions[p].size # 0}
Settled(p) == p \in OpenPositions /\ positions'[p].size = 0

\* No balance and no counter of a fund is ever taken below zero.
TypeOK ==
    /\ now \in 0 .. MaxSlot
    /\ oracle \in [Markets -> [price : Int, publish_slot : 0 .. now]]
    /\ funding \in [Markets -> [cumulative_funding_index : Int,
                                current_rate_per_sec : Int, last_update_ts : 0 .. now]]
    /\ DOMAIN positions \subseteq Users \X Markets
    /\ \A p \in DOMAIN positions :
            positions[p] \in [size : Int, entry_price : Int, collateral : Nat,
                              funding_snapshot_index : Int]
    /\ fund \in [Markets -> [balance : Nat, total_deposits : Nat, total_drawdowns : Nat]]
    /\ tokens \in [TokenAccounts -> Nat]

\* A fund's record is consistent, and its tokens are there: Liquidate and
\* ClosePosition size a drawdown from the record alone and change the record
\* before they move tokens.
FundSolvent ==
    \A m \in Markets :
        /\ fund[m].balance = fund[m].total_deposits - fund[m].total_drawdowns
        /\ fund[m].balance <= tokens[FundToken(m)]

\* Bad debt can always be cleared: while its oracle is fresh, nothing about
\* the tokens in vault or fund can keep an underwater position from being
\* liquidated.
BadDebtClears ==
    \A p \in OpenPositions :
        LET m == p[2]
        IN Fresh(m) /\ EquityAt(p, m) < 0 /\ fund[m].total_drawdowns - EquityAt(p, m) <= U64_MAX =>
                ENABLED Liquidate(p, m, m, m, m, m)

\* What a market's vault and fund hold together.
Pot(balances, market) == balances[Vault(market)] + balances[FundToken(market)]

\* A market's vault and fund together shrink only when one of the market's own
\* open positions is settled, and by no more than its equity: not when that is
\* negative, not for a position settled before, and by no other instruction,
\* whichever accounts are passed.
BoundedPayout ==
    [][\A m \in Markets :
        Pot(tokens', m) < Pot(tokens, m) =>
            \E p \in OpenPositions :
                /\ Settled(p) /\ p[2] = m
                /\ Pot(tokens, m) - Pot(tokens', m) <= EquityAt(p, m)]_vars

\* A liquidation costs the owner no more than the penalty: whatever token
\* accounts the liquidator names, the owner's wallet gains what is left (if
\* that is an amount a token account can hold: more is cut to its low bits).
OwnerKeepsRemainder ==
    [][\A p \in OpenPositions :
        LET m == p[2]
            owed == Larger(EquityAt(p, m), 0)
                        - Penalty(EquityAt(p, m), NotionalAt(p, m), LIQUIDATION_PENALTY_BPS)
        IN Settled(p) /\ Liquidate(p, m, m, m, m, m) /\ owed <= U64_MAX
                => tokens'[Wallet(p[1])] >= tokens[Wallet(p[1])] + owed]_vars

\* No position can be liquidated at the prices it was opened at, as long as
\* its margin is computed without a wrap of the 128-bit product.
OpensHealthy ==
    [][\A p \in (DOMAIN positions)' \ DOMAIN positions :
        NotionalAt(p, p[2])' * INITIAL_MARGIN_BPS <= U128_MAX =>
            ~IsLiquidatable(EquityAt(p, p[2])', MaintenanceAt(p, p[2])')]_vars

\* When a position is settled underwater, the fund pays the vault all of the
\* loss, or all that it has.
FundPaysFirst ==
    [][\A p \in OpenPositions :
        LET m == p[2]
        IN Settled(p) /\ EquityAt(p, m) < 0 =>
                \/ tokens'[Vault(m)] = tokens[Vault(m)] - EquityAt(p, m)
                \/ /\ fund'[m].balance = 0
                   /\ tokens'[Vault(m)] = tokens[Vault(m)] + fund[m].balance]_vars

\* The index with the current rate accrued up to now.
IntegratedIndex(market) ==
    Accrue(funding[market].cumulative_funding_index, funding[market].current_rate_per_sec,
           now - funding[market].last_update_ts)

\* No keeper changes what the time behind it cost: whenever UpdateFunding is
\* called, late, twice or not at all, the index accrued up to now moves with
\* the clock alone, at the rate that is in effect.
FundingNeverRetroactive ==
    [][\A m \in Markets :
        IntegratedIndex(m)' =
            Accrue(IntegratedIndex(m), funding[m].current_rate_per_sec, now' - now)]_vars

----------------------------------------------------------------------------
(* What the documentation says of this code and the code does not do.       *)

\* The module documentation says of ClosePosition that the "account stays
\* around for re-open", Chapter 11 that a fresh OpenPosition will "write over
\* the dormant state": an owner who could open a position can reopen one.
Reopenable ==
    \A p \in DOMAIN positions \ OpenPositions :
        \A size \in Sizes \ {0}, collateral \in Collaterals \ {0} :
            /\ Fresh(p[2])
            /\ collateral >= InitialMargin(Notional(size, oracle[p[2]].price), INITIAL_MARGIN_BPS)
            /\ collateral <= tokens[Wallet(p[1])]
            => ENABLED OpenPosition(p[1], p[2], p[2], p[2], size, collateral)

=============================================================================
