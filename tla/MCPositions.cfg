\* Two markets side by side: every account an instruction is passed may be the
\* other market's. Prices at which positions are healthy, thin and underwater.
SPECIFICATION Spec
CONSTANTS
    Users = {alice, bob}
    Markets = {btc, eth}
    FUNDING_INDEX_SCALE = 10
    U64_MAX = 100000
    I64_MAX = 50000
    U128_MAX = 100000000
    MAX_ORACLE_STALENESS_SLOTS = 0
    MAX_FUNDING_RATE_PER_SEC_ABS = 5
    INITIAL_MARGIN_BPS = 1000
    MAINT_MARGIN_BPS = 500
    LIQUIDATION_PENALTY_BPS = 100
    INSURANCE_FUND_PENALTY_SHARE_BPS = 5000
    WalletStart = 100
    Prices = {85, 94, 100}
    Rates <- NoRates
    Sizes <- LongAndShort
    Collaterals = {100}
    Amounts = {}
    MaxSlot = 0
SYMMETRY Symmetry
INVARIANTS
    FundSolvent
PROPERTIES
    BoundedPayout
    OwnerKeepsRemainder
CHECK_DEADLOCK FALSE
