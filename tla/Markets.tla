-------------------------------- MODULE Markets --------------------------------
(***************************************************************************)
(* Chapters 2 to 6 and what later chapters hang on a market: how accounts  *)
(* of the program come to be, and from what.  A market is a keypair        *)
(* account written by Initialize or a PDA created by CreateMarket; books,  *)
(* oracles, funding states, vaults, insurance funds and slabs name it.     *)
(*                                                                         *)
(* An address is a sequence: <<k>> a keypair, <<base, quote>> the PDA of a *)
(* pair, StatsPda.  A PDA's address says which seeds it was derived from,  *)
(* and create_account fails on an address in use.  What the accounts hold  *)
(* later is the business of the other modules.                             *)
(***************************************************************************)
EXTENDS Naturals, FiniteSets

CONSTANTS
    Keypairs, People,
    Holder,          \* who can sign for a keypair
    Mints,           \* accounts owned by SPL Token
    Sizes,           \* tick and lot sizes a caller may ask for
    Pins,            \* Pyth pins other than none
    NoPins,
    MaxAccounts,     \* bounds what is created
    U64_MAX

VARIABLES
    allocated,       \* keypair accounts the program owns, all zeros: their length
    markets,         \* by address
    stats,           \* by address: market_count
    books, oracles, funding_states,   \* addresses of accounts they were derived from
    slabs,           \* by keypair: the slab's market
    funds,           \* InsuranceFund by market: its mint
    token_accounts   \* of the program's making: <<seed, parent, mint>>

vars == <<allocated, markets, stats, books, oracles, funding_states, slabs, funds, token_accounts>>

ASSUME MarketsAssumption == Holder \in [Keypairs -> People] /\ Sizes \subseteq Nat /\ U64_MAX \in Nat

Lengths == {"Market::LEN", "Slab::LEN"}
StatsPda == <<>>

MarketPda(base_mint, quote_mint) == <<base_mint, quote_mint>>

\* Owned by the program, which is all that most handlers ask of a market.
\* (Books and the like are owned by it too; what is derived from them is
\* left out, as from any account that is no market.)
ProgramOwned ==
    {<<k>> : k \in DOMAIN allocated \union DOMAIN slabs} \union DOMAIN markets \union DOMAIN stats

With(f, x, value) == [y \in DOMAIN f \union {x} |-> IF y = x THEN value ELSE f[y]]

Created ==
    Cardinality(ProgramOwned) + Cardinality(books) + Cardinality(oracles)
        + Cardinality(funding_states) + Cardinality(DOMAIN token_accounts)

Init ==
    /\ allocated = [k \in {} |-> 0] /\ markets = [a \in {} |-> 0] /\ stats = [a \in {} |-> 0]
    /\ books = {} /\ oracles = {} /\ funding_states = {}
    /\ slabs = [k \in {} |-> 0] /\ funds = [a \in {} |-> 0] /\ token_accounts = [a \in {} |-> 0]

----------------------------------------------------------------------------
(* Markets.                                                                 *)

\* System::CreateAccount (or Assign), signed by the keypair; anyone else's
\* instructions may come before the next one of the same transaction's sender.
Allocate(k, length) ==
    /\ Created < MaxAccounts
    /\ <<k>> \notin ProgramOwned
    /\ allocated' = With(allocated, k, length)
    /\ UNCHANGED <<markets, stats, books, oracles, funding_states, slabs, funds, token_accounts>>

\* (mutant: one of the two)
OneValidSize(tick_size, lot_size) == tick_size # 0 \/ lot_size # 0
ValidSizes(tick_size, lot_size) == tick_size # 0 /\ lot_size # 0

NewMarket(authority, base_mint, quote_mint, tick_size, lot_size) ==
    [authority |-> authority, base_mint |-> base_mint, quote_mint |-> quote_mint,
     tick_size |-> tick_size, lot_size |-> lot_size, pins |-> NoPins]

\* Market::LEN bytes, owned by the program, and no discriminator yet.
\* (mutants: a discriminator is no matter; at least Market::LEN bytes)
RoomForMarket(k) == k \in DOMAIN allocated
SizedForMarket(k) ==
    <<k>> \in DOMAIN markets \/ (k \in DOMAIN allocated /\ allocated[k] = "Market::LEN")
Uninitialized(k) == k \in DOMAIN allocated /\ allocated[k] = "Market::LEN"

\* Nobody needs to sign.
Initialize(k, authority, base_mint, quote_mint, tick_size, lot_size) ==
    /\ Uninitialized(k)
    /\ ValidSizes(tick_size, lot_size)
    /\ markets' = With(markets, <<k>>,
                       NewMarket(authority, base_mint, quote_mint, tick_size, lot_size))
    /\ allocated' = [x \in DOMAIN allocated \ {k} |-> allocated[x]]
    /\ UNCHANGED <<stats, books, oracles, funding_states, slabs, funds, token_accounts>>

CreateMarket(market, authority, base_mint, quote_mint, tick_size, lot_size) ==
    /\ Created < MaxAccounts
    /\ ValidSizes(tick_size, lot_size)
    /\ market = MarketPda(base_mint, quote_mint)
    /\ market \notin DOMAIN markets
    /\ markets' = With(markets, market,
                       NewMarket(authority, base_mint, quote_mint, tick_size, lot_size))
    /\ UNCHANGED <<allocated, stats, books, oracles, funding_states, slabs, funds, token_accounts>>

SetPythFeeds(signer, market, pins) ==
    /\ market \in DOMAIN markets
    /\ markets[market].authority = signer
    /\ markets' = [markets EXCEPT ![market].pins = pins]
    /\ UNCHANGED <<allocated, stats, books, oracles, funding_states, slabs, funds, token_accounts>>

----------------------------------------------------------------------------
(* Stats, a single PDA that anyone bumps.                                   *)

CreateStats ==
    /\ Created < MaxAccounts
    /\ StatsPda \notin DOMAIN stats
    /\ stats' = With(stats, StatsPda, 0)
    /\ UNCHANGED <<allocated, markets, books, oracles, funding_states, slabs, funds, token_accounts>>

BumpStats ==
    /\ StatsPda \in DOMAIN stats
    /\ stats' = [stats EXCEPT ![StatsPda] = IF @ = U64_MAX THEN @ ELSE @ + 1]
    /\ UNCHANGED <<allocated, markets, books, oracles, funding_states, slabs, funds, token_accounts>>

----------------------------------------------------------------------------
(* What is derived from a market: from any account of the program's.        *)

CreateOrderBook(market) ==
    /\ Created < MaxAccounts
    /\ market \in ProgramOwned \ books
    /\ books' = books \union {market}
    /\ UNCHANGED <<allocated, markets, stats, oracles, funding_states, slabs, funds, token_accounts>>

CreateOracle(market) ==
    /\ Created < MaxAccounts
    /\ market \in ProgramOwned \ oracles
    /\ oracles' = oracles \union {market}
    /\ UNCHANGED <<allocated, markets, stats, books, funding_states, slabs, funds, token_accounts>>

CreateFundingState(market, window_seconds) ==
    /\ Created < MaxAccounts
    /\ window_seconds # 0
    /\ market \in ProgramOwned \ funding_states
    /\ funding_states' = funding_states \union {market}
    /\ UNCHANGED <<allocated, markets, stats, books, oracles, slabs, funds, token_accounts>>

\* A token account of any mint; its authority is the market's one PDA, which
\* signs for the payouts of positions.
TokenAccount(market, mint) == [mint |-> mint, authority |-> <<"vault_auth", market>>]

CreateVault(market, mint) ==
    LET vault == <<"vault", market, mint>>
    IN /\ Created < MaxAccounts
       /\ market \in ProgramOwned
       /\ vault \notin DOMAIN token_accounts
       /\ token_accounts' = With(token_accounts, vault, TokenAccount(market, mint))
       /\ UNCHANGED <<allocated, markets, stats, books, oracles, funding_states, slabs, funds>>

\* mint against market.quote_mint. (mutant: any mint)
AnyMint(market, mint) == mint \in Mints
IsQuote(market, mint) == markets[market].quote_mint = mint

\* Record and token account in one instruction: both exist, or none.
CreateInsuranceFund(market, mint) ==
    LET fund_token == <<"insurance_token", market, mint>>
    IN /\ Created < MaxAccounts
       /\ market \in DOMAIN markets
       /\ IsQuote(market, mint)
       /\ market \notin DOMAIN funds
       /\ fund_token \notin DOMAIN token_accounts
       /\ funds' = With(funds, market, mint)
       /\ token_accounts' = With(token_accounts, fund_token, TokenAccount(market, mint))
       /\ UNCHANGED <<allocated, markets, stats, books, oracles, funding_states, slabs>>

----------------------------------------------------------------------------
(* Slabs, too large for the program to allocate.                            *)

Signed(k, signer) == Holder[k] = signer

CreateSlab(signer, k, market) ==
    /\ Signed(k, signer)
    /\ k \in DOMAIN allocated /\ allocated[k] = "Slab::LEN"
    /\ market \in DOMAIN markets
    /\ slabs' = With(slabs, k, market)
    /\ allocated' = [x \in DOMAIN allocated \ {k} |-> allocated[x]]
    /\ UNCHANGED <<markets, stats, books, oracles, funding_states, funds, token_accounts>>

----------------------------------------------------------------------------
Next ==
    \/ \E k \in Keypairs, length \in Lengths : Allocate(k, length)
    \/ \E authority \in People, base_mint, quote_mint \in Mints, tick_size, lot_size \in Sizes :
            \/ \E k \in Keypairs :
                    Initialize(k, authority, base_mint, quote_mint, tick_size, lot_size)
            \/ \E market \in Mints \X Mints :
                    CreateMarket(market, authority, base_mint, quote_mint, tick_size, lot_size)
    \/ \E signer \in People, market \in DOMAIN markets, pins \in Pins \union {NoPins} :
            SetPythFeeds(signer, market, pins)
    \/ CreateStats
    \/ BumpStats
    \/ \E market \in ProgramOwned :
            \/ CreateOrderBook(market)
            \/ CreateOracle(market)
            \/ \E window_seconds \in Sizes : CreateFundingState(market, window_seconds)
            \/ \E mint \in Mints : CreateVault(market, mint) \/ CreateInsuranceFund(market, mint)
    \/ \E signer \in People, k \in Keypairs, market \in DOMAIN markets :
            CreateSlab(signer, k, market)

Spec == Init /\ [][Next]_vars

----------------------------------------------------------------------------
(* Properties.                                                              *)

Addresses == {<<k>> : k \in Keypairs} \union (Mints \X Mints)
Market == [authority : People, base_mint : Mints, quote_mint : Mints,
           tick_size : Sizes \ {0}, lot_size : Sizes \ {0}, pins : Pins \union {NoPins}]

\* Every account holds what its kind does, and no keypair is two accounts.
TypeOK ==
    /\ DOMAIN allocated \subseteq Keypairs /\ allocated \in [DOMAIN allocated -> Lengths]
    /\ DOMAIN markets \subseteq Addresses /\ markets \in [DOMAIN markets -> Market]
    /\ DOMAIN stats \subseteq {StatsPda} /\ stats \in [DOMAIN stats -> 0 .. U64_MAX]
    /\ DOMAIN slabs \subseteq Keypairs /\ slabs \in [DOMAIN slabs -> Addresses]
    /\ DOMAIN funds \subseteq Addresses /\ funds \in [DOMAIN funds -> Mints]
    /\ \A k \in DOMAIN allocated : k \notin DOMAIN slabs /\ <<k>> \notin DOMAIN markets
    /\ \A k \in DOMAIN slabs : <<k>> \notin DOMAIN markets

\* What a market was created with is what it has for good, whoever calls what
\* in whichever order: its authority, its pair and its sizes.  All that other
\* accounts take from a market when they are created rests on it.
Terms(market) ==
    <<markets[market].authority, markets[market].base_mint, markets[market].quote_mint,
      markets[market].tick_size, markets[market].lot_size>>
MarketsAreForGood ==
    [][\A m \in DOMAIN markets : m \in DOMAIN markets' /\ Terms(m)' = Terms(m)]_vars

\* An insurance fund belongs to a market, is kept in the mint the market
\* settles in, and its one token account, which only the market's own
\* authority can empty, exists since the fund does.
FundsHoldQuote ==
    /\ \A m \in DOMAIN funds :
            /\ m \in DOMAIN markets
            /\ funds[m] = markets[m].quote_mint
            /\ <<"insurance_token", m, funds[m]>> \in DOMAIN token_accounts
    /\ \A a \in DOMAIN token_accounts :
            /\ token_accounts[a] = TokenAccount(a[2], a[3])
            /\ a[1] = "insurance_token" => a[2] \in DOMAIN funds /\ funds[a[2]] = a[3]

\* "A created-but-uninitialized account cannot be claimed by someone else
\* between two transactions": an account allocated for a slab waits for its
\* holder, whatever anyone sends in between (Initialize, which needs no
\* signature, above all), and the slab keeps the market its holder gave it.
SlabsAwaitHolders ==
    [][/\ \A k \in DOMAIN allocated : allocated[k] = "Slab::LEN" =>
            \/ k \in DOMAIN allocated' /\ allocated'[k] = allocated[k]
            \/ \E market \in DOMAIN markets : CreateSlab(Holder[k], k, market)
       /\ \A k \in DOMAIN slabs : k \in DOMAIN slabs' /\ slabs'[k] = slabs[k]]_vars

=============================================================================
