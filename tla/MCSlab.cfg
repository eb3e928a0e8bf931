\* Three order nodes, five tree nodes per side, ids for four orders: a full pool,
\* three price levels on one side, nodes that are reused, the last order id.
SPECIFICATION Spec
CONSTANTS
    SLAB_POOL_CAPACITY = 3
    SLAB_TREE_CAPACITY = 5
    SLAB_NONE_INDEX = 99
    PRICE_BITS = 3
    U64_MAX = 4
    Prices = {0, 1, 2, 5}
    Limits = {0, 2}
    Sizes = {0, 1, 2}
    FillCaps = {0, 2}
    NoTaker = NoTaker
INVARIANTS
    TypeOK
    CritbitOrdered
    TreeNodesAccounted
    PoolNodesAccounted
    FifosIntact
PROPERTY RefinesPriceTimeBook
