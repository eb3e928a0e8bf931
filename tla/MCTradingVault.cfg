\* Two vaults and two depositors: prices that differ and do not divide evenly,
\* NAV reports of nothing and of more than there is, amounts at the limit of the type.
SPECIFICATION Spec
CONSTANTS
    Vaults = {v1, v2}
    Depositors = {alice, bob}
    U64_MAX = 5
    WalletStart = 2
    Amounts = {1, 2}
    Navs = {0, 3}
    Burns = {1, 2, 3, 4, 5}
SYMMETRY Symmetry
INVARIANTS
    TypeOK
    SharesAddUp
    BasisFollowsShares
    EveryoneCanLeave
PROPERTIES
    SharePriceNeverFalls
    NavStaysBacked
    FairDeposit
CHECK_DEADLOCK FALSE
