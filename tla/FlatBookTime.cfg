\* The smallest book in which a vacated slot is reused while an order of the
\* same price rests behind it.
SPECIFICATION Spec
CONSTANTS
    Traders = {alice}
    NoTrader = NoTrader
    NoTaker = NoTaker
    ORDER_CAPACITY = 2
    U64_MAX = 6
    Prices = {1}
    Sizes = {1, 2}
    FillCaps = {1}
PROPERTY OldestFirst
