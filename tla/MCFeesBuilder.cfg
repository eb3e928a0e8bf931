\* Two mints, a market in each, two builders who may earn in either: fees that
\* split unevenly, a share above the cap, volumes and fees at their limit.
SPECIFICATION Spec
CONSTANTS
    Traders = {alice}
    Builders = {b1, b2}
    usdc = usdc
    junk = junk
    perp = perp
    fake = fake
    Mints = {usdc, junk}
    Markets = {perp, fake}
    QuoteMint <- OwnMint
    ORDER_CAPACITY = 1
    U64_MAX = 4
    BPS_DENOMINATOR = 4
    PROTOCOL_FEE_BPS = 3
    PROTOCOL_BUILDER_SHARE_CAP_BPS = 2
    SANITY_BAND_BPS = 2
    WalletStart = 5
    Shares = {1, 3}
    Marks = {2}
    Prices = {1, 2, 3, 4}
    Sizes = {2}
SYMMETRY Symmetry
INVARIANTS
    TypeOK
    FeesCovered
    EveryoneCanClaim
PROPERTIES
    ProtocolKeepsItsPart
    PaidInFull
