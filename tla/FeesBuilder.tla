------------------------------- MODULE FeesBuilder -------------------------------
(***************************************************************************)
(* Chapter 13: the protocol fee of oracle-gated orders, one fee vault per  *)
(* quote mint, and builders, who are credited a share of the fees of the   *)
(* orders that come through them and claim it later.                       *)
(*                                                                         *)
(* Anyone can make a market of any quote mint, and callers choose the      *)
(* accounts, so those a handler ties together are parameters of its action *)
(* and the ties conjuncts.  Instructions are atomic: one that fails is not *)
(* an action.  Two neighbours appear by what this component sees of them.  *)
(* mark is what read_fresh_oracle returns for a market's oracle, NoMark    *)
(* when it refuses; active is the number of orders in a market's book,     *)
(* which FlatBook shows to be the number of slots in use.                  *)
(***************************************************************************)
EXTENDS Units, OrderGate

CONSTANTS
    Traders, Builders, Mints, Markets,
    QuoteMint,       \* market.quote_mint, by market
    ORDER_CAPACITY, PROTOCOL_BUILDER_SHARE_CAP_BPS,
    WalletStart,     \* what a trader's wallet of each mint holds at first
    Shares,          \* the share in bps a builder asks for
    Marks,           \* oracle prices
    Prices, Sizes    \* what an order carries

VARIABLES
    fee_vaults,      \* the mints whose fee vault exists
    profiles,        \* BuilderProfiles by builder, for those registered
    mark, active,    \* by market
    tokens           \* balances of the token accounts

vars == <<fee_vaults, profiles, mark, active, tokens>>

ASSUME PolicyAssumption ==
    /\ ORDER_CAPACITY \in Nat
    /\ PROTOCOL_BUILDER_SHARE_CAP_BPS \in 0 .. BPS_DENOMINATOR
ASSUME InputAssumption ==
    /\ QuoteMint \in [Markets -> Mints]
    /\ WalletStart \in Nat /\ Shares \subseteq Nat
    /\ Marks \subseteq 1 .. U64_MAX /\ Prices \subseteq 0 .. U64_MAX /\ Sizes \subseteq 0 .. U64_MAX

NoMark == 0

Wallet(user, mint) == <<"wallet", user, mint>>
FeeVault(mint) == <<"fee_vault", mint, mint>>
\* The accounts of a mint: SPL Token transfers only between two of one mint.
AccountsOf(mint) == {Wallet(u, mint) : u \in Traders \union Builders} \union {FeeVault(mint)}
TokenAccounts == UNION {AccountsOf(m) : m \in Mints}

----------------------------------------------------------------------------
(* The builder's part, in crates/fees.                                      *)

BuilderShareBps(registered) ==
    IF registered > PROTOCOL_BUILDER_SHARE_CAP_BPS THEN PROTOCOL_BUILDER_SHARE_CAP_BPS
    ELSE registered
\* (mutant: rounded up)
ShareRoundedUp(fee, share_bps) == (fee * share_bps + BPS_DENOMINATOR - 1) \div BPS_DENOMINATOR
BuilderShare(fee, share_bps) == (fee * share_bps) \div BPS_DENOMINATOR

----------------------------------------------------------------------------
(* The ties between the accounts of an instruction.                         *)

\* book and oracle are PDAs of the market, mint is its quote mint.
VerifyMarket(market, book, oracle, mint) ==
    book = market /\ oracle = market /\ QuoteMint[market] = mint
VerifyFeeVault(fee_vault, mint) == fee_vault = mint /\ fee_vault \in fee_vaults
\* profile.fee_mint, in orders and in claims. (mutants: any mint will do)
CreditsAny(profile, mint) == mint \in Mints
CreditsMint(profile, mint) == profiles[profile].fee_mint = mint
EarnedAny(profile, mint) == mint \in Mints
EarnedIn(profile, mint) == profiles[profile].fee_mint = mint
\* profile.builder against the signer.
VerifyBuilder(profile, signer) == profile = signer

\* checked_add. (mutant: unchecked)
Unbounded(n) == n >= 0
InRange(n) == n <= U64_MAX

\* The profile after a claim. (mutant: not reset)
StillOwed(profile) == profile
Settled(profile) == [profile EXCEPT !.accumulated_fees = 0]

\* The helpers return at once for an amount of 0.
Transfer(from, to, amount) ==
    /\ amount <= tokens[from]
    /\ tokens' = IF from = to THEN tokens
                 ELSE [tokens EXCEPT ![from] = @ - amount, ![to] = @ + amount]

----------------------------------------------------------------------------
Init ==
    /\ fee_vaults = {}
    /\ profiles = [b \in {} |-> 0]
    /\ mark = [m \in Markets |-> NoMark]
    /\ active = [m \in Markets |-> 0]
    /\ tokens = [a \in TokenAccounts |->
            IF a[1] = "wallet" /\ a[2] \in Traders THEN WalletStart ELSE 0]

CreateFeeVault(mint) ==
    /\ mint \notin fee_vaults
    /\ fee_vaults' = fee_vaults \union {mint}
    /\ UNCHANGED <<profiles, mark, active, tokens>>

\* The profile's PDA is derived from the builder alone: one each, for good.
RegisterBuilder(builder, mint, requested) ==
    /\ builder \notin DOMAIN profiles
    /\ profiles' = [b \in DOMAIN profiles \union {builder} |->
            IF b = builder
            THEN [max_fee_share_bps |-> BuilderShareBps(requested), fee_mint |-> mint,
                  accumulated_fees |-> 0, total_volume |-> 0]
            ELSE profiles[b]]
    /\ UNCHANGED <<fee_vaults, mark, active, tokens>>

\* The checks, the book and the escrow that the two gated placements share.
\* The trader pays from the wallet that can: theirs, of the vault's mint.
GatedOrder(user, market, book, oracle, mint, fee_vault, price, size) ==
    /\ price # 0 /\ size # 0
    /\ VerifyMarket(market, book, oracle, mint)
    /\ VerifyFeeVault(fee_vault, mint)
    /\ mark[oracle] # NoMark
    /\ InBand(price, mark[oracle])
    /\ active[book] < ORDER_CAPACITY
    /\ active' = [active EXCEPT ![book] = @ + 1]
    /\ Transfer(Wallet(user, fee_vault), FeeVault(fee_vault), ProtocolFee(Notional(price, size)))
    /\ UNCHANGED <<fee_vaults, mark>>

PlaceOrderChecked(user, market, book, oracle, mint, fee_vault, price, size) ==
    /\ GatedOrder(user, market, book, oracle, mint, fee_vault, price, size)
    /\ UNCHANGED profiles

\* The trader names the builder's profile; the builder does not sign.
PlaceOrderWithBuilder(user, market, book, oracle, mint, fee_vault, profile, price, size) ==
    LET share == BuilderShare(ProtocolFee(Notional(price, size)),
                              BuilderShareBps(profiles[profile].max_fee_share_bps))
        accumulated == profiles[profile].accumulated_fees + share
        volume == profiles[profile].total_volume + size
    IN /\ profile \in DOMAIN profiles
       /\ CreditsMint(profile, mint)
       /\ InRange(accumulated)
       /\ InRange(volume)
       /\ profiles' = [profiles EXCEPT ![profile].accumulated_fees = accumulated,
                                       ![profile].total_volume = volume]
       /\ GatedOrder(user, market, book, oracle, mint, fee_vault, price, size)

\* The fee vault's authority signs; builder_token is any account of the mint.
ClaimBuilderFees(builder, profile, mint, fee_vault, builder_token) ==
    /\ profile \in DOMAIN profiles
    /\ VerifyFeeVault(fee_vault, mint)
    /\ VerifyBuilder(profile, builder)
    /\ EarnedIn(profile, mint)
    /\ profiles' = [profiles EXCEPT ![profile] = Settled(@)]
    /\ Transfer(FeeVault(fee_vault), builder_token, profiles[profile].accumulated_fees)
    /\ UNCHANGED <<fee_vaults, mark, active>>

----------------------------------------------------------------------------
(* The neighbours.                                                          *)

SetOraclePrice(market, price) ==
    /\ mark' = [mark EXCEPT ![market] = price]
    /\ UNCHANGED <<fee_vaults, profiles, active, tokens>>

\* More than MAX_ORACLE_STALENESS_SLOTS slots have passed.
OracleGoesStale(market) ==
    /\ mark' = [mark EXCEPT ![market] = NoMark]
    /\ UNCHANGED <<fee_vaults, profiles, active, tokens>>

\* PlaceOrder writes the same book, with neither oracle nor fee.
PlaceOrder(market) ==
    /\ active[market] < ORDER_CAPACITY
    /\ active' = [active EXCEPT ![market] = @ + 1]
    /\ UNCHANGED <<fee_vaults, profiles, mark, tokens>>

\* CancelOrder, or a Match that consumes the order.
OrderLeaves(market) ==
    /\ active[market] > 0
    /\ active' = [active EXCEPT ![market] = @ - 1]
    /\ UNCHANGED <<fee_vaults, profiles, mark, tokens>>

Next ==
    \/ \E mint \in Mints : CreateFeeVault(mint)
    \/ \E builder \in Builders, mint \in Mints, requested \in Shares :
            RegisterBuilder(builder, mint, requested)
    \/ \E user \in Traders, market, book, oracle \in Markets, mint, fee_vault \in Mints,
          price \in Prices, size \in Sizes :
            \/ PlaceOrderChecked(user, market, book, oracle, mint, fee_vault, price, size)
            \/ \E profile \in DOMAIN profiles :
                    PlaceOrderWithBuilder(user, market, book, oracle, mint, fee_vault,
                                          profile, price, size)
    \/ \E builder \in Builders, profile \in DOMAIN profiles, mint, fee_vault \in Mints :
            \E builder_token \in AccountsOf(fee_vault) :
                ClaimBuilderFees(builder, profile, mint, fee_vault, builder_token)
    \/ \E market \in Markets, price \in Marks : SetOraclePrice(market, price)
    \/ \E market \in Markets : OracleGoesStale(market)
    \/ \E market \in Markets : PlaceOrder(market)
    \/ \E market \in Markets : OrderLeaves(market)

Spec == Init /\ [][Next]_vars

----------------------------------------------------------------------------
(* Properties.                                                              *)

Profile == [max_fee_share_bps : 0 .. PROTOCOL_BUILDER_SHARE_CAP_BPS, fee_mint : Mints,
            accumulated_fees : 0 .. U64_MAX, total_volume : 0 .. U64_MAX]

\* Every field stays in its type, and no balance goes below zero.
TypeOK ==
    /\ fee_vaults \subseteq Mints
    /\ DOMAIN profiles \subseteq Builders /\ profiles \in [DOMAIN profiles -> Profile]
    /\ mark \in [Markets -> Marks \union {NoMark}]
    /\ active \in [Markets -> 0 .. ORDER_CAPACITY]
    /\ tokens \in [TokenAccounts -> Nat]

\* What is owed in a mint: to each builder who earns in it, and in all.
Accrued(mint) ==
    [b \in {p \in DOMAIN profiles : profiles[p].fee_mint = mint} |-> profiles[b].accumulated_fees]
Owed(mint) == Total(Accrued(mint))

\* What builders are owed is in the fee vault of the mint they earn it in:
\* accumulated_fees is a bare number, credited by one instruction and paid by
\* another out of an account that all markets and builders of the mint share.
FeesCovered == \A mint \in Mints : Owed(mint) <= tokens[FeeVault(mint)]

\* "the protocol guarantees that at least 50% of every protocol fee stays with
\* the protocol": of what enters a fee vault at most the cap is promised to
\* builders, and nothing ever eats into the rest.
ProtocolKeepsItsPart ==
    [][\A mint \in Mints :
        LET paid == tokens'[FeeVault(mint)] - tokens[FeeVault(mint)]
            kept == paid - (Owed(mint)' - Owed(mint))
        IN IF paid > 0
           THEN kept * BPS_DENOMINATOR
                    >= paid * (BPS_DENOMINATOR - PROTOCOL_BUILDER_SHARE_CAP_BPS)
           ELSE kept >= 0]_vars

\* Whatever others claimed before, a builder can claim what is owed: all of
\* it, to any account of the mint.
EveryoneCanClaim ==
    \A b \in DOMAIN profiles : profiles[b].accumulated_fees > 0 =>
        LET mint == profiles[b].fee_mint
        IN \A account \in AccountsOf(mint) : ENABLED ClaimBuilderFees(b, b, mint, mint, account)

\* Credited fees leave a profile in one way: all of them are paid out of the
\* fee vault of the mint they were earned in, to an account of that mint.
PaidInFull ==
    [][\A b \in DOMAIN profiles :
        profiles'[b].accumulated_fees < profiles[b].accumulated_fees =>
            /\ profiles'[b].accumulated_fees = 0
            /\ \E account \in AccountsOf(profiles[b].fee_mint) :
                    Transfer(FeeVault(profiles[b].fee_mint), account, profiles[b].accumulated_fees)]_vars

\* crates/fees says that "Every order pays `fee_bps` of its notional": that is
\* what an order placed through a gated instruction brings the fee vault.
EveryOrderPaysItsFee ==
    [][\A user \in Traders, market \in Markets, price \in Prices, size \in Sizes :
        LET mint == QuoteMint[market]
        IN PlaceOrderChecked(user, market, market, market, mint, mint, price, size) =>
            tokens'[FeeVault(mint)] - tokens[FeeVault(mint)]
                >= (price * size * PROTOCOL_FEE_BPS) \div BPS_DENOMINATOR]_vars

=============================================================================
