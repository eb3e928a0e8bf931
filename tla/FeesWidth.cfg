\* A fee that does not fit its type.
SPECIFICATION Spec
CONSTANTS
    Traders = {alice}
    Builders = {b1}
    usdc = usdc
    junk = junk
    perp = perp
    fake = fake
    Mints = {usdc}
    Markets = {perp}
    QuoteMint <- OneMint
    ORDER_CAPACITY = 1
    U64_MAX = 15
    BPS_DENOMINATOR = 10
    PROTOCOL_FEE_BPS = 1
    PROTOCOL_BUILDER_SHARE_CAP_BPS = 5
    SANITY_BAND_BPS = 2
    WalletStart = 15
    Shares = {}
    Marks = {12}
    Prices = {12}
    Sizes = {1, 7, 14}
PROPERTY EveryOrderPaysItsFee
