\* One owner who opens and closes a position.
SPECIFICATION Spec
CONSTANTS
    Users = {alice}
    Markets = {btc}
    FUNDING_INDEX_SCALE = 10
    U64_MAX = 100000
    I64_MAX = 50000
    U128_MAX = 100000000
    MAX_ORACLE_STALENESS_SLOTS = 1
    MAX_FUNDING_RATE_PER_SEC_ABS = 5
    INITIAL_MARGIN_BPS = 1000
    MAINT_MARGIN_BPS = 500
    LIQUIDATION_PENALTY_BPS = 100
    INSURANCE_FUND_PENALTY_SHARE_BPS = 5000
    WalletStart = 100
    Prices = {94}
    Rates <- NoRates
    Sizes <- LongAndShort
    Collaterals = {100}
    Amounts = {}
    MaxSlot = 0
INVARIANT Reopenable
CHECK_DEADLOCK FALSE
