\* One market over time: funding, prices that go stale, deposits to the fund and
\* straight to its token account.
SPECIFICATION Spec
CONSTANTS
    Users = {alice, bob}
    Markets = {btc}
    FUNDING_INDEX_SCALE = 10
    U64_MAX = 100000
    I64_MAX = 50000
    U128_MAX = 100000000
    MAX_ORACLE_STALENESS_SLOTS = 0
    MAX_FUNDING_RATE_PER_SEC_ABS = 5
    INITIAL_MARGIN_BPS = 1000
    MAINT_MARGIN_BPS = 500
    LIQUIDATION_PENALTY_BPS = 100
    INSURANCE_FUND_PENALTY_SHARE_BPS = 5000
    WalletStart = 150
    Prices = {80, 94}
    Rates <- RatesBothWays
    Sizes <- LongAndShort
    Collaterals = {40, 100}
    Amounts = {50}
    MaxSlot = 1
SYMMETRY Symmetry
INVARIANTS
    TypeOK
    BadDebtClears
PROPERTIES
    OpensHealthy
    FundPaysFirst
    FundingNeverRetroactive
CHECK_DEADLOCK FALSE
