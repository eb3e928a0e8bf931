---------------------------- MODULE Markets_proofs ----------------------------
(***************************************************************************)
(* Theorems about Markets, for any keypairs, people, mints and sizes.      *)
(* TypeOK keeps the kinds of account apart, so that no Initialize can meet *)
(* a market; from that, terms last for good, what insurance funds took     *)
(* from a market stays true of it, and slab accounts await their holders.  *)
(***************************************************************************)
EXTENDS Markets, TLAPS

\* A keypair's address is not that of a pair.
LEMMA KeyOrPair ==
    ASSUME NEW k, NEW p \in Mints \X Mints
    PROVE  <<k>> # p
  BY SMT

\* What With changes, and what it keeps.
LEMMA WithAdds ==
    ASSUME NEW f, NEW x, NEW value
    PROVE  /\ DOMAIN With(f, x, value) = DOMAIN f \union {x}
           /\ With(f, x, value)[x] = value
           /\ \A y \in DOMAIN f : y # x => With(f, x, value)[y] = f[y]
           /\ \A S : f \in [DOMAIN f -> S] /\ value \in S =>
                With(f, x, value) \in [DOMAIN With(f, x, value) -> S]
  BY DEF With

\* A market made from checked inputs is one.
LEMMA NewMarketOK ==
    ASSUME NEW authority \in People, NEW base_mint \in Mints, NEW quote_mint \in Mints,
           NEW tick_size \in Sizes, NEW lot_size \in Sizes, ValidSizes(tick_size, lot_size)
    PROVE  NewMarket(authority, base_mint, quote_mint, tick_size, lot_size) \in Market
  BY DEF NewMarket, Market, ValidSizes

----------------------------------------------------------------------------
(* Types.                                                                   *)

\* No account exists initially.
LEMMA TypeInit == Init => TypeOK
  BY DEF Init, TypeOK

\* Every step keeps the types.
LEMMA TypeNext == TypeOK /\ [Next]_vars => TypeOK'
  <1> SUFFICES ASSUME TypeOK, [Next]_vars PROVE TypeOK'
    OBVIOUS
  <1> USE DEF TypeOK
  <1>1. ASSUME NEW k \in Keypairs, NEW length \in Lengths, Allocate(k, length)
        PROVE  TypeOK'
    <2>1. /\ DOMAIN allocated' = DOMAIN allocated \union {k}
          /\ allocated' \in [DOMAIN allocated' -> Lengths]
      BY <1>1, WithAdds DEF Allocate
    <2>2. k \notin DOMAIN slabs /\ <<k>> \notin DOMAIN markets
      BY <1>1 DEF Allocate, ProgramOwned
    <2> QED
      BY <1>1, <2>1, <2>2 DEF Allocate
  <1>2. ASSUME NEW k \in Keypairs, NEW authority \in People,
               NEW base_mint \in Mints, NEW quote_mint \in Mints,
               NEW tick_size \in Sizes, NEW lot_size \in Sizes,
               Initialize(k, authority, base_mint, quote_mint, tick_size, lot_size)
        PROVE  TypeOK'
    <2> DEFINE market == NewMarket(authority, base_mint, quote_mint, tick_size, lot_size)
    <2>1. market \in Market
      BY <1>2, NewMarketOK DEF Initialize
    <2>2. /\ DOMAIN markets' = DOMAIN markets \union {<<k>>}
          /\ markets' \in [DOMAIN markets' -> Market]
      <3> HIDE DEF market
      <3> QED
        BY <1>2, <2>1, WithAdds DEF Initialize, market
    <2>3. k \in DOMAIN allocated /\ DOMAIN allocated' = DOMAIN allocated \ {k}
      BY <1>2 DEF Initialize, Uninitialized
    <2> QED
      BY <1>2, <2>2, <2>3 DEF Initialize, Addresses
  <1>3. ASSUME NEW market \in Mints \X Mints, NEW authority \in People,
               NEW base_mint \in Mints, NEW quote_mint \in Mints,
               NEW tick_size \in Sizes, NEW lot_size \in Sizes,
               CreateMarket(market, authority, base_mint, quote_mint, tick_size, lot_size)
        PROVE  TypeOK'
    <2> DEFINE new == NewMarket(authority, base_mint, quote_mint, tick_size, lot_size)
    <2>1. new \in Market
      BY <1>3, NewMarketOK DEF CreateMarket
    <2>2. /\ DOMAIN markets' = DOMAIN markets \union {market}
          /\ markets' \in [DOMAIN markets' -> Market]
      <3> HIDE DEF new
      <3> QED
        BY <1>3, <2>1, WithAdds DEF CreateMarket, new
    <2>3. \A k : <<k>> # market
      BY KeyOrPair
    <2> QED
      BY <1>3, <2>2, <2>3 DEF CreateMarket, Addresses
  <1>4. ASSUME NEW signer \in People, NEW market \in DOMAIN markets,
               NEW pins \in Pins \union {NoPins}, SetPythFeeds(signer, market, pins)
        PROVE  TypeOK'
    <2>1. markets' \in [DOMAIN markets -> Market]
      BY <1>4 DEF SetPythFeeds, Market
    <2> QED
      BY <1>4, <2>1 DEF SetPythFeeds
  <1>5. CASE CreateStats
    <2>1. /\ DOMAIN stats' = DOMAIN stats \union {StatsPda}
          /\ stats' \in [DOMAIN stats' -> 0 .. U64_MAX]
      <3>1. 0 \in 0 .. U64_MAX
        BY MarketsAssumption
      <3>2. stats' = With(stats, StatsPda, 0)
        BY <1>5 DEF CreateStats
      <3> QED
        BY <3>1, <3>2, WithAdds
    <2> QED
      BY <1>5, <2>1 DEF CreateStats
  <1>6. CASE BumpStats
    BY <1>6, MarketsAssumption DEF BumpStats
  <1>7. ASSUME NEW market \in ProgramOwned,
               \/ CreateOrderBook(market)
               \/ CreateOracle(market)
               \/ \E window_seconds \in Sizes : CreateFundingState(market, window_seconds)
               \/ \E mint \in Mints : CreateVault(market, mint)
        PROVE  TypeOK'
    BY <1>7 DEF CreateOrderBook, CreateOracle, CreateFundingState, CreateVault
  <1>8. ASSUME NEW market \in ProgramOwned, NEW mint \in Mints, CreateInsuranceFund(market, mint)
        PROVE  TypeOK'
    <2>1. market \in Addresses
      BY <1>8 DEF CreateInsuranceFund
    <2>2. /\ DOMAIN funds' = DOMAIN funds \union {market}
          /\ funds' \in [DOMAIN funds' -> Mints]
      BY <1>8, WithAdds DEF CreateInsuranceFund
    <2> QED
      BY <1>8, <2>1, <2>2 DEF CreateInsuranceFund
  <1>9. ASSUME NEW signer \in People, NEW k \in Keypairs, NEW market \in DOMAIN markets,
               CreateSlab(signer, k, market)
        PROVE  TypeOK'
    <2>1. /\ DOMAIN slabs' = DOMAIN slabs \union {k}
          /\ slabs' \in [DOMAIN slabs' -> Addresses]
      BY <1>9, WithAdds DEF CreateSlab
    <2> QED
      BY <1>9, <2>1 DEF CreateSlab
  <1>10. CASE UNCHANGED vars
    BY <1>10 DEF vars
  <1> QED
    BY <1>1, <1>2, <1>3, <1>4, <1>5, <1>6, <1>7, <1>8, <1>9, <1>10 DEF Next

\* Every account holds what its kind does, and no keypair is two accounts.
THEOREM TypeCorrect == Spec => []TypeOK
  BY TypeInit, TypeNext, PTL DEF Spec

----------------------------------------------------------------------------
(* What lasts.                                                              *)

\* A step keeps every market and its terms.
LEMMA TermsKept ==
    ASSUME TypeOK, [Next]_vars
    PROVE  \A m \in DOMAIN markets : m \in DOMAIN markets' /\ Terms(m)' = Terms(m)
  <1> SUFFICES ASSUME NEW m \in DOMAIN markets
               PROVE  m \in DOMAIN markets' /\ Terms(m)' = Terms(m)
    OBVIOUS
  <1>1. ASSUME NEW k \in Keypairs, NEW authority, NEW base_mint, NEW quote_mint,
               NEW tick_size, NEW lot_size,
               Initialize(k, authority, base_mint, quote_mint, tick_size, lot_size)
        PROVE  m \in DOMAIN markets' /\ markets'[m] = markets[m]
    <2>1. m # <<k>>
      BY <1>1 DEF Initialize, Uninitialized, TypeOK
    <2>2. PICK new : markets' = With(markets, <<k>>, new)
      BY <1>1 DEF Initialize
    <2> QED
      BY <2>1, <2>2 DEF With
  <1>2. ASSUME NEW market, NEW authority, NEW base_mint, NEW quote_mint,
               NEW tick_size, NEW lot_size,
               CreateMarket(market, authority, base_mint, quote_mint, tick_size, lot_size)
        PROVE  m \in DOMAIN markets' /\ markets'[m] = markets[m]
    <2>1. m # market
      BY <1>2 DEF CreateMarket
    <2>2. PICK new : markets' = With(markets, market, new)
      BY <1>2 DEF CreateMarket
    <2> QED
      BY <2>1, <2>2 DEF With
  <1>3. ASSUME NEW signer, NEW market, NEW pins, SetPythFeeds(signer, market, pins)
        PROVE  m \in DOMAIN markets' /\ Terms(m)' = Terms(m)
    <2>1. markets[m] \in Market
      BY DEF TypeOK
    <2> QED
      <3>1. CASE m = market
        <4>1. markets'[m] = [markets[m] EXCEPT !.pins = pins]
          BY <1>3, <3>1 DEF SetPythFeeds
        <4> QED
          BY <1>3, <2>1, <4>1 DEF SetPythFeeds, Terms, Market
      <3>2. CASE m # market
        BY <1>3, <3>2 DEF SetPythFeeds, Terms
      <3> QED
        BY <3>1, <3>2
  <1>4. CASE UNCHANGED markets
    BY <1>4 DEF Terms
  <1>5. \/ UNCHANGED markets
        \/ \E authority \in People, base_mint, quote_mint \in Mints, tick_size, lot_size \in Sizes :
                \/ \E k \in Keypairs :
                        Initialize(k, authority, base_mint, quote_mint, tick_size, lot_size)
                \/ \E market \in Mints \X Mints :
                        CreateMarket(market, authority, base_mint, quote_mint, tick_size, lot_size)
        \/ \E signer \in People, market \in DOMAIN markets, pins \in Pins \union {NoPins} :
                SetPythFeeds(signer, market, pins)
    BY DEF Next, vars, Allocate, CreateStats, BumpStats,
       CreateOrderBook, CreateOracle, CreateFundingState, CreateVault, CreateInsuranceFund, CreateSlab
  <1>6. markets'[m] = markets[m] => Terms(m)' = Terms(m)
    BY DEF Terms
  <1> QED
    BY <1>1, <1>2, <1>3, <1>4, <1>5, <1>6

\* Whatever is called in whichever order, a market keeps its authority, its
\* pair and its sizes for good.
THEOREM ForGood == Spec => MarketsAreForGood
  <1>1. TypeOK /\ [Next]_vars => [\A m \in DOMAIN markets :
            m \in DOMAIN markets' /\ Terms(m)' = Terms(m)]_vars
    BY TermsKept
  <1> QED
    BY <1>1, TypeInit, TypeNext, PTL DEF Spec, MarketsAreForGood

\* What a fund took from its market stays true of it.
LEMMA FundsNext ==
    ASSUME TypeOK, [Next]_vars, FundsHoldQuote
    PROVE  FundsHoldQuote'
  <1>1. \A m \in DOMAIN markets :
            m \in DOMAIN markets' /\ markets'[m].quote_mint = markets[m].quote_mint
    BY TermsKept DEF Terms
  <1>2. ASSUME UNCHANGED <<funds, token_accounts>>
        PROVE  FundsHoldQuote'
    BY <1>1, <1>2 DEF FundsHoldQuote, TokenAccount
  <1>3. ASSUME NEW market, NEW mint, CreateVault(market, mint)
        PROVE  FundsHoldQuote'
    <2> DEFINE vault == <<"vault", market, mint>>
    <2>1. /\ DOMAIN token_accounts' = DOMAIN token_accounts \union {vault}
          /\ token_accounts'[vault] = TokenAccount(market, mint)
          /\ \A a \in DOMAIN token_accounts : token_accounts'[a] = token_accounts[a]
      BY <1>3 DEF With, CreateVault
    <2>2. vault[1] # "insurance_token" /\ vault[2] = market /\ vault[3] = mint
      OBVIOUS
    <2>3. funds' = funds
      BY <1>3 DEF CreateVault
    <2> HIDE DEF vault
    <2> QED
      BY <1>1, <2>1, <2>2, <2>3 DEF FundsHoldQuote, TokenAccount
  <1>4. ASSUME NEW market, NEW mint, CreateInsuranceFund(market, mint)
        PROVE  FundsHoldQuote'
    <2> DEFINE fund_token == <<"insurance_token", market, mint>>
    <2>1. /\ DOMAIN token_accounts' = DOMAIN token_accounts \union {fund_token}
          /\ token_accounts'[fund_token] = TokenAccount(market, mint)
          /\ \A a \in DOMAIN token_accounts : token_accounts'[a] = token_accounts[a]
      BY <1>4 DEF With, CreateInsuranceFund
    <2>2. /\ market \notin DOMAIN funds
          /\ DOMAIN funds' = DOMAIN funds \union {market}
          /\ funds'[market] = mint
          /\ \A m \in DOMAIN funds : funds'[m] = funds[m]
      BY <1>4 DEF With, CreateInsuranceFund
    <2>3. market \in DOMAIN markets /\ markets[market].quote_mint = mint
      BY <1>4 DEF CreateInsuranceFund, IsQuote
    <2>4. fund_token[2] = market /\ fund_token[3] = mint
      OBVIOUS
    <2>5. ASSUME NEW m \in DOMAIN funds'
          PROVE  /\ m \in DOMAIN markets'
                 /\ funds'[m] = markets'[m].quote_mint
                 /\ <<"insurance_token", m, funds'[m]>> \in DOMAIN token_accounts'
      BY <1>1, <2>1, <2>2, <2>3, <2>5 DEF FundsHoldQuote
    <2>6. ASSUME NEW a \in DOMAIN token_accounts'
          PROVE  /\ token_accounts'[a] = TokenAccount(a[2], a[3])
                 /\ a[1] = "insurance_token" => a[2] \in DOMAIN funds' /\ funds'[a[2]] = a[3]
      <3> HIDE DEF fund_token
      <3> QED
        BY <2>1, <2>2, <2>4, <2>6 DEF FundsHoldQuote
    <2> QED
      BY <2>5, <2>6 DEF FundsHoldQuote, TokenAccount
  <1> QED
    BY <1>2, <1>3, <1>4 DEF Next, vars, Allocate, Initialize, CreateMarket, SetPythFeeds,
       CreateStats, BumpStats, CreateOrderBook, CreateOracle, CreateFundingState, CreateSlab

\* Every insurance fund is kept in the quote mint of its market, in an account
\* of that mint under the market's own authority.
THEOREM FundsInQuote == Spec => []FundsHoldQuote
  <1>1. Init => FundsHoldQuote
    BY DEF Init, FundsHoldQuote
  <1> QED
    BY <1>1, FundsNext, TypeInit, TypeNext, PTL DEF Spec

\* A step leaves what is allocated for a slab to the holder, and slabs as they are.
LEMMA SlabsKept ==
    ASSUME TypeOK, [Next]_vars
    PROVE  /\ \A k \in DOMAIN allocated : allocated[k] = "Slab::LEN" =>
                \/ k \in DOMAIN allocated' /\ allocated'[k] = allocated[k]
                \/ \E market \in DOMAIN markets : CreateSlab(Holder[k], k, market)
           /\ \A k \in DOMAIN slabs : k \in DOMAIN slabs' /\ slabs'[k] = slabs[k]
  <1> DEFINE Awaits ==
                \A k \in DOMAIN allocated : allocated[k] = "Slab::LEN" =>
                    \/ k \in DOMAIN allocated' /\ allocated'[k] = allocated[k]
                    \/ \E market \in DOMAIN markets : CreateSlab(Holder[k], k, market)
             Lasts == \A k \in DOMAIN slabs : k \in DOMAIN slabs' /\ slabs'[k] = slabs[k]
  <1>1. CASE UNCHANGED <<allocated, slabs>>
    BY <1>1
  <1>2. ASSUME NEW k \in Keypairs, NEW length \in Lengths, Allocate(k, length)
        PROVE  Awaits /\ Lasts
    <2>1. k \notin DOMAIN allocated
      BY <1>2 DEF Allocate, ProgramOwned
    <2> QED
      BY <1>2, <2>1 DEF Allocate, With
  <1>3. ASSUME NEW k \in Keypairs, NEW authority, NEW base_mint, NEW quote_mint,
               NEW tick_size, NEW lot_size,
               Initialize(k, authority, base_mint, quote_mint, tick_size, lot_size)
        PROVE  Awaits /\ Lasts
    <2>1. allocated[k] # "Slab::LEN"
      BY <1>3 DEF Initialize, Uninitialized
    <2> QED
      BY <1>3, <2>1 DEF Initialize
  <1>4. ASSUME NEW signer \in People, NEW k \in Keypairs, NEW market \in DOMAIN markets,
               CreateSlab(signer, k, market)
        PROVE  Awaits /\ Lasts
    <2>1. CreateSlab(Holder[k], k, market)
      BY <1>4 DEF CreateSlab, Signed
    <2>2. \A x \in DOMAIN allocated : x # k => x \in DOMAIN allocated' /\ allocated'[x] = allocated[x]
      BY <1>4 DEF CreateSlab
    <2>3. k \notin DOMAIN slabs
      BY <1>4 DEF CreateSlab, TypeOK
    <2>4. Lasts
      BY <1>4, <2>3 DEF CreateSlab, With
    <2> QED
      BY <2>1, <2>2, <2>4
  <1>5. \/ UNCHANGED <<allocated, slabs>>
        \/ \E k \in Keypairs, length \in Lengths : Allocate(k, length)
        \/ \E authority \in People, base_mint, quote_mint \in Mints, tick_size, lot_size \in Sizes,
              k \in Keypairs :
                Initialize(k, authority, base_mint, quote_mint, tick_size, lot_size)
        \/ \E signer \in People, k \in Keypairs, market \in DOMAIN markets :
                CreateSlab(signer, k, market)
    BY DEF Next, vars, CreateMarket, SetPythFeeds, CreateStats, BumpStats,
       CreateOrderBook, CreateOracle, CreateFundingState, CreateVault, CreateInsuranceFund
  <1> QED
    BY <1>1, <1>2, <1>3, <1>4, <1>5

\* Nothing that anyone sends takes an account allocated for a slab from the
\* holder of its key, and no slab changes its market.
THEOREM HoldersFirst == Spec => SlabsAwaitHolders
  <1>1. TypeOK /\ [Next]_vars =>
            [/\ \A k \in DOMAIN allocated : allocated[k] = "Slab::LEN" =>
                    \/ k \in DOMAIN allocated' /\ allocated'[k] = allocated[k]
                    \/ \E market \in DOMAIN markets : CreateSlab(Holder[k], k, market)
             /\ \A k \in DOMAIN slabs : k \in DOMAIN slabs' /\ slabs'[k] = slabs[k]]_vars
    BY SlabsKept
  <1> QED
    BY <1>1, TypeInit, TypeNext, PTL DEF Spec, SlabsAwaitHolders

=============================================================================
