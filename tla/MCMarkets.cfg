SPECIFICATION Spec
CONSTANTS
    k1 = k1
    k2 = k2
    alice = alice
    bob = bob
    Keypairs = {k1, k2}
    People = {alice, bob}
    Holder <- Keys
    Mints = {usdc, sol}
    usdc = usdc
    sol = sol
    Sizes = {0, 1}
    Pins = {pyth}
    pyth = pyth
    NoPins = NoPins
    MaxAccounts = 4
    U64_MAX = 1
INVARIANTS TypeOK FundsHoldQuote
PROPERTIES MarketsAreForGood SlabsAwaitHolders
CHECK_DEADLOCK FALSE
