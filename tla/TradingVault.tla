------------------------------ MODULE TradingVault ------------------------------
(***************************************************************************)
(* The pooled trading vaults of Chapter 12 and the share arithmetic of     *)
(* crates/vault.  Depositors hold shares of a vault; the manager reports   *)
(* its net asset value (NAV), at which shares are minted and burned; the   *)
(* tokens are in an account of the vault's own.                            *)
(*                                                                         *)
(* Instructions are atomic: one that fails is not an action.  The caller   *)
(* chooses the accounts, so those that a handler ties to the vault are     *)
(* parameters of its action and the ties conjuncts.  A vault is known by   *)
(* its PDA, one per market and manager; all vaults hold one mint (the SPL  *)
(* Token program refuses to transfer between two).                         *)
(***************************************************************************)
EXTENDS Units

CONSTANTS
    Vaults, Depositors,
    U64_MAX,
    WalletStart,   \* what a depositor's wallet holds at first
    Amounts,       \* the assets of a deposit
    Navs,          \* what a manager reports
    Burns          \* the shares of a withdrawal

VARIABLES
    vaults,        \* [total_shares, total_assets] of the vaults that exist
    shares,        \* [shares, cost_basis] by <<vault, owner>>, for the records that exist
    tokens         \* balances of the token accounts

vars == <<vaults, shares, tokens>>

ASSUME InputAssumption ==
    /\ U64_MAX \in Nat /\ WalletStart \in 0 .. U64_MAX
    /\ Amounts \subseteq 0 .. U64_MAX /\ Navs \subseteq 0 .. U64_MAX /\ Burns \subseteq 0 .. U64_MAX

Wallet(user) == <<"wallet", user>>
VaultToken(vault) == <<"tvault_token", vault>>
TokenAccounts == {Wallet(u) : u \in Depositors} \union {VaultToken(v) : v \in Vaults}

\* The token accounts that exist.
OpenAccounts == {Wallet(u) : u \in Depositors} \union {VaultToken(v) : v \in DOMAIN vaults}

----------------------------------------------------------------------------
(* crates/vault. Products of two u64 fit a u128.                            *)

\* (mutant: rounded up)
RoundUp(assets, total_shares, total_assets) ==
    IF total_shares = 0 \/ total_assets = 0 THEN assets
    ELSE (assets * total_shares + total_assets - 1) \div total_assets
SharesForDeposit(assets, total_shares, total_assets) ==
    IF total_shares = 0 \/ total_assets = 0 THEN assets
    ELSE (assets * total_shares) \div total_assets

AssetsForWithdraw(burned, total_shares, total_assets) ==
    (burned * total_assets) \div total_shares

\* (mutant: the share of what is left)
BasisOfRest(burned, cost_basis, shares_before) ==
    IF burned = shares_before THEN 0
    ELSE (burned * cost_basis) \div (shares_before - burned)
CostBasisReduction(burned, cost_basis, shares_before) ==
    ((burned * cost_basis) \div shares_before) % (U64_MAX + 1)

SaturatingSub(a, b) == IF b <= a THEN a - b ELSE 0

----------------------------------------------------------------------------
(* The ties between the accounts of an instruction.                         *)

\* verify_trading_vault_token. (mutant: any vault's token account)
AnyVaultToken(account, vault) == account \in OpenAccounts
VerifyVaultToken(account, vault) == account = VaultToken(vault)

\* share.vault and share.owner. (mutant: a share of any vault will do)
AnyShare(record, vault, owner) == record[2] = owner
VerifyShare(record, vault, owner) == record = <<vault, owner>>

\* share.shares against shares_to_burn, before the unchecked subtraction.
\* (mutants: the handler does not check; one must stay)
Unchecked(held, burned) == burned > 0
KeepsOne(held, burned) == held > burned
Holds(held, burned) == held >= burned

Transfer(from, to, amount) ==
    /\ amount <= tokens[from]
    /\ tokens' = IF from = to THEN tokens
                 ELSE [tokens EXCEPT ![from] = @ - amount, ![to] = @ + amount]

----------------------------------------------------------------------------
Init ==
    /\ vaults = [v \in {} |-> 0]
    /\ shares = [r \in {} |-> 0]
    /\ tokens = [a \in TokenAccounts |-> IF a[1] = "wallet" THEN WalletStart ELSE 0]

CreateTradingVault(vault) ==
    /\ vault \notin DOMAIN vaults
    /\ vaults' = [v \in DOMAIN vaults \union {vault} |->
            IF v = vault THEN [total_shares |-> 0, total_assets |-> 0] ELSE vaults[v]]
    /\ UNCHANGED <<shares, tokens>>

\* The share record's PDA is derived from vault and depositor, and the record
\* is created with the first deposit.
VaultDeposit(depositor, vault, vault_token, assets) ==
    LET v == vaults[vault]
        minted == SharesForDeposit(assets, v.total_shares, v.total_assets)
        record == <<vault, depositor>>
        held == IF record \in DOMAIN shares THEN shares[record]
                ELSE [shares |-> 0, cost_basis |-> 0]
    IN /\ vault \in DOMAIN vaults
       /\ assets # 0
       /\ VerifyVaultToken(vault_token, vault)
       /\ minted # 0
       /\ minted <= U64_MAX
       /\ v.total_shares + minted <= U64_MAX
       /\ v.total_assets + assets <= U64_MAX
       /\ held.shares + minted <= U64_MAX
       /\ held.cost_basis + assets <= U64_MAX
       /\ vaults' = [vaults EXCEPT ![vault] =
                [total_shares |-> @.total_shares + minted,
                 total_assets |-> @.total_assets + assets]]
       /\ shares' = [r \in DOMAIN shares \union {record} |->
                IF r = record THEN [shares |-> held.shares + minted,
                                    cost_basis |-> held.cost_basis + assets]
                ELSE shares[r]]
       /\ Transfer(Wallet(depositor), vault_token, assets)

\* The owner names the token account that is paid. The vault signs, which it
\* can for its own token account only. A payout of 0 is not transferred.
VaultWithdraw(owner, vault, record, vault_token, owner_token, burned) ==
    LET v == vaults[vault]
        held == shares[record]
        returned == AssetsForWithdraw(burned, v.total_shares, v.total_assets)
    IN /\ vault \in DOMAIN vaults /\ record \in DOMAIN shares
       /\ burned # 0
       /\ VerifyVaultToken(vault_token, vault)
       /\ v.total_shares # 0
       /\ returned <= U64_MAX
       /\ VerifyShare(record, vault, owner)
       /\ Holds(held.shares, burned)
       /\ shares' = [shares EXCEPT ![record] =
                [shares |-> held.shares - burned,
                 cost_basis |-> SaturatingSub(held.cost_basis,
                    CostBasisReduction(burned, held.cost_basis, held.shares))]]
       /\ vaults' = [vaults EXCEPT ![vault] =
                [total_shares |-> (@.total_shares - burned) % (U64_MAX + 1),
                 total_assets |-> SaturatingSub(@.total_assets, returned)]]
       /\ \/ /\ returned > 0
             /\ vault_token = VaultToken(vault)
             /\ Transfer(vault_token, owner_token, returned)
          \/ /\ returned = 0
             /\ UNCHANGED tokens

\* Signed by the vault's manager; any figure.
VaultUpdateNav(vault, nav) ==
    /\ vault \in DOMAIN vaults
    /\ vaults' = [vaults EXCEPT ![vault].total_assets = nav]
    /\ UNCHANGED <<shares, tokens>>

\* A plain SPL Token transfer from somebody's wallet to a vault.
SplTransfer(user, vault, amount) ==
    /\ vault \in DOMAIN vaults
    /\ Transfer(Wallet(user), VaultToken(vault), amount)
    /\ UNCHANGED <<vaults, shares>>

Next ==
    \/ \E vault \in Vaults : CreateTradingVault(vault)
    \/ \E depositor \in Depositors, vault \in DOMAIN vaults,
          vault_token \in OpenAccounts, assets \in Amounts :
            VaultDeposit(depositor, vault, vault_token, assets)
    \/ \E owner \in Depositors, vault \in DOMAIN vaults, record \in DOMAIN shares,
          vault_token, owner_token \in OpenAccounts, burned \in Burns :
            VaultWithdraw(owner, vault, record, vault_token, owner_token, burned)
    \/ \E vault \in DOMAIN vaults, nav \in Navs : VaultUpdateNav(vault, nav)
    \/ \E user \in Depositors, vault \in DOMAIN vaults, amount \in Amounts :
            SplTransfer(user, vault, amount)

Spec == Init /\ [][Next]_vars

----------------------------------------------------------------------------
(* Properties.                                                              *)

Account == [total_shares : 0 .. U64_MAX, total_assets : 0 .. U64_MAX]
Share == [shares : 0 .. U64_MAX, cost_basis : 0 .. U64_MAX]

\* Every field stays in its type.
TypeOK ==
    /\ DOMAIN vaults \subseteq Vaults /\ vaults \in [DOMAIN vaults -> Account]
    /\ DOMAIN shares \subseteq (DOMAIN vaults) \X Depositors
    /\ shares \in [DOMAIN shares -> Share]
    /\ tokens \in [TokenAccounts -> Nat]

\* What each depositor of a vault holds, by share record.
Held(vault) == [r \in {s \in DOMAIN shares : s[1] = vault} |-> shares[r].shares]

\* total_shares is the sum of what the depositors hold: it is kept apart from
\* the records, by deposits and withdrawals whose amounts depend on it, and
\* its subtraction is unchecked.
SharesAddUp == \A v \in DOMAIN vaults : vaults[v].total_shares = Total(Held(v))

\* "This keeps the per-share cost_basis flat across partial withdrawals": who
\* has burned every share, in however many parts, has no cost basis left, and
\* who holds shares bought at some cost has not lost it all to rounding.
BasisFollowsShares ==
    \A r \in DOMAIN shares : shares[r].shares = 0 <=> shares[r].cost_basis = 0

\* What a depositor could take out now.
Value(r) ==
    IF shares[r].shares = 0 THEN 0
    ELSE AssetsForWithdraw(shares[r].shares, vaults[r[1]].total_shares, vaults[r[1]].total_assets)

\* "rounded down in the vault's favour": nothing but the manager's report
\* lowers the assets behind a share, in any vault. So no depositor's exit or
\* entry costs another one anything.
SharePriceNeverFalls ==
    [][\A v \in DOMAIN vaults : vaults[v].total_shares > 0 =>
            \/ vaults'[v].total_assets * vaults[v].total_shares
                    >= vaults[v].total_assets * vaults'[v].total_shares
            \/ \E nav \in Navs : VaultUpdateNav(v, nav)]_vars

\* While the NAV is backed by tokens it stays so, through any deposits and
\* withdrawals, until the manager reports more than there is.
NavStaysBacked ==
    [][\A v \in DOMAIN vaults :
            vaults[v].total_assets <= tokens[VaultToken(v)] =>
                \/ vaults'[v].total_assets <= tokens'[VaultToken(v)]
                \/ \E nav \in Navs : VaultUpdateNav(v, nav)]_vars

\* A deposit at a positive NAV is worth what was paid less at most the price
\* of one share, and never more, to the depositor.
FairDeposit ==
    [][\A u \in Depositors, v \in DOMAIN vaults, a \in Amounts :
            LET old == vaults[v]
                gain == Value(<<v, u>>)' - (IF <<v, u>> \in DOMAIN shares THEN Value(<<v, u>>) ELSE 0)
                price == (old.total_assets \div old.total_shares) + 1
            IN VaultDeposit(u, v, VaultToken(v), a) /\ old.total_shares > 0 /\ old.total_assets > 0
                => a - price <= gain /\ gain <= a]_vars

\* Every depositor of a vault whose NAV is backed can leave with all shares,
\* whatever the others did: a run on the vault leaves nobody behind.
EveryoneCanLeave ==
    \A r \in DOMAIN shares :
        vaults[r[1]].total_assets <= tokens[VaultToken(r[1])] /\ shares[r].shares \in Burns \ {0} =>
            ENABLED VaultWithdraw(r[2], r[1], r, VaultToken(r[1]), Wallet(r[2]), shares[r].shares)

=============================================================================
