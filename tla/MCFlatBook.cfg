\* Three slots, two prices and ids that saturate at the fourth order: a full
\* book, slots that are reused, matches of several fills, and the id limit.
SPECIFICATION Spec
CONSTANTS
    Traders = {alice, bob}
    NoTrader = NoTrader
    NoTaker = NoTaker
    ORDER_CAPACITY = 3
    U64_MAX = 4
    Prices = {0, 1, 2}
    Sizes = {0, 1, 2}
    FillCaps = {0, 1, 3}
SYMMETRY Symmetry
INVARIANTS
    TypeOK
    ActiveCountExact
    IdsDistinct
PROPERTY RefinesPriceBook
