SPECIFICATION Spec
CONSTANTS
    alice = alice
    bob = bob
    perp = perp
    spot = spot
    acc = acc
    pyth = pyth
    anyone = anyone
    SOL = SOL
    BTC = BTC
    Traders = {alice}
    People = {alice, bob}
    Markets = {perp, spot}
    Authority <- AliceFor
    FeedAccounts = {acc}
    FeedIds = {SOL, BTC}
    Programs = {pyth, anyone}
    OracleProgram = OracleProgram
    Zero = Zero
    PinChoices <- PinSets
    MAX_ORACLE_STALENESS_SLOTS = 1
    ORDER_CAPACITY = 1
    FeedPrices = {0, 4}
    Prices = {1, 5}
    Sizes = {1}
    WalletStart = 1
    MaxSlot = 2
    MaxPublications = 2
    U64_MAX = 7
    BPS_DENOMINATOR = 4
    PROTOCOL_FEE_BPS = 1
    SANITY_BAND_BPS = 2
INVARIANTS TypeOK PricedByItsSource ServedWhenFresh
SYMMETRY Symmetry
