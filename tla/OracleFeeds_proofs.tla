--------------------------- MODULE OracleFeeds_proofs ---------------------------
(***************************************************************************)
(* Theorems about OracleFeeds, for any markets, feeds, programs, prices,   *)
(* widths and staleness limit.  The inductive invariant says that what an  *)
(* account says is what its present owner published, whatever it held      *)
(* before; an order priced from it is then priced by its owner, and a      *)
(* fresh price is one that an order can be placed at.                      *)
(***************************************************************************)
EXTENDS OracleFeeds, TLAPS

----------------------------------------------------------------------------
(* Products, quotients and remainders of naturals.                          *)

\* The product of naturals is one.
LEMMA ProductNat ==
    ASSUME NEW x \in Nat, NEW y \in Nat
    PROVE  x * y \in Nat
OBVIOUS

\* A product grows with its factor.
LEMMA ProductMonotone ==
    ASSUME NEW x \in Int, NEW y \in Int, NEW n \in Nat, x <= y
    PROVE  /\ n * x \in Int /\ n * y \in Int /\ n * x <= n * y
           /\ x * n \in Int /\ y * n \in Int /\ x * n <= y * n
OBVIOUS

\* What division promises.
LEMMA Division ==
    ASSUME NEW x \in Nat, NEW n \in Nat \ {0}
    PROVE  x \div n \in Nat /\ n * (x \div n) <= x /\ x % n \in 0 .. n - 1
OBVIOUS

\* A quotient of a wrapped product, cut to one word, is a natural.
LEMMA WrappedQuotientNat ==
    ASSUME NEW x \in Nat, NEW w \in Nat \ {0}, NEW d \in Nat \ {0}
    PROVE  ((x % (w * w)) \div d) % w \in Nat
<1>1. w * w \in Nat \ {0}
    OBVIOUS
<1>2. x % (w * w) \in Nat
    BY <1>1, Division
<1>3. (x % (w * w)) \div d \in Nat
    BY <1>2, Division
<1> QED
    BY <1>3, Division

Publication(by, feed, price, slot) == [by |-> by, feed |-> feed, price |-> price, slot |-> slot]

\* A price in the v1 or the v2 layout that the gates would take as published.
SaysV1(data) == Len(data) = 4 /\ data[1] = "V1" /\ data[2] = "Trading"
SaysV2(data) == IsUpdate(data) /\ data[2] = FULL

Genuine(a) ==
    LET data == accounts[a].data
        by == accounts[a].owner
    IN /\ SaysV1(data) => Publication(by, a, data[3], data[4]) \in published
       /\ SaysV2(data) =>
            Publication(by, FeedIdOf(data), PriceOf(data), PostedSlotOf(data)) \in published

Pairs(f) == [a \in FeedAccounts |-> [owner |-> f[a].owner, data |-> f[a].data]]

AccountsGenuine ==
    /\ accounts = Pairs(accounts)
    /\ \A a \in FeedAccounts : Genuine(a)

OraclesGenuine ==
    \A m \in Markets : oracle[m].price > 0 =>
        Publication(OracleProgram, m, oracle[m].price, oracle[m].publish_slot) \in published

PublishedBefore == \A p \in published : p.slot \in 0 .. now /\ p.price \in FeedPrices

IInv == TypeOK /\ AccountsGenuine /\ OraclesGenuine /\ PublishedBefore /\ PricedByItsSource

----------------------------------------------------------------------------
(* What the arithmetic of OrderGate does for any widths and rates.          *)

\* A fee is a natural, whatever wraps.
LEMMA FeeNat ==
    ASSUME NEW notional \in Nat
    PROVE  ProtocolFee(notional) \in Nat
<1>1. /\ notional * PROTOCOL_FEE_BPS \in Nat /\ U64_MAX + 1 \in Nat \ {0}
      /\ BPS_DENOMINATOR \in Nat \ {0}
    BY GateAssumption, ProductNat
<1> QED
    BY <1>1, WrappedQuotientNat DEF ProtocolFee

\* What saturates does not grow.
LEMMA SaturatedNat ==
    ASSUME NEW n \in Nat
    PROVE  Saturated(n) \in Nat /\ Saturated(n) <= n
BY GateAssumption DEF Saturated

\* A price that sanity_band lets through is within SANITY_BAND_BPS of the
\* mark, in exact arithmetic.
LEMMA BandExact ==
    ASSUME NEW price \in Nat, NEW mark \in Nat, InBand(price, mark)
    PROVE  /\ (price - mark) * BPS_DENOMINATOR <= mark * SANITY_BAND_BPS
           /\ (mark - price) * BPS_DENOMINATOR <= mark * SANITY_BAND_BPS
<1> DEFINE product == mark * SANITY_BAND_BPS
           band == Saturated(product) \div BPS_DENOMINATOR
<1>1. product \in Nat
    BY ProductNat, GateAssumption
<1>2. Saturated(product) \in Nat /\ Saturated(product) <= product
    BY <1>1, SaturatedNat
<1>3. mark - band <= price /\ price <= Saturated(mark + band)
    BY DEF InBand
<1> HIDE DEF product
<1>4. band \in Nat /\ BPS_DENOMINATOR * band <= Saturated(product)
    BY <1>2, Division, GateAssumption
<1> HIDE DEF band
<1>5. Saturated(mark + band) <= mark + band
    BY <1>4, SaturatedNat
<1>6. price - mark <= band /\ mark - price <= band
    <2>1. Saturated(mark + band) \in Nat
        BY <1>4, SaturatedNat
    <2> QED
        BY <1>3, <1>4, <1>5, <2>1
<1>7. band * BPS_DENOMINATOR <= product
    <2>1. band * BPS_DENOMINATOR = BPS_DENOMINATOR * band
        BY <1>4, GateAssumption
    <2>2. band * BPS_DENOMINATOR \in Nat
        BY <1>4, ProductNat, GateAssumption
    <2> QED
        BY <1>1, <1>2, <1>4, <2>1, <2>2
<1>8. /\ (price - mark) * BPS_DENOMINATOR <= band * BPS_DENOMINATOR
      /\ (mark - price) * BPS_DENOMINATOR <= band * BPS_DENOMINATOR
    <2>1. price - mark \in Int /\ mark - price \in Int /\ band \in Int /\ BPS_DENOMINATOR \in Nat
        BY <1>4, GateAssumption
    <2> QED
        BY <1>6, <2>1, ProductMonotone
<1> QED
    <2>1. \A x, y, z \in Int : x <= y /\ y <= z => x <= z
        OBVIOUS
    <2>2. /\ (price - mark) * BPS_DENOMINATOR \in Int /\ (mark - price) * BPS_DENOMINATOR \in Int
          /\ band * BPS_DENOMINATOR \in Int /\ product \in Int
        BY <1>1, <1>4, GateAssumption
    <2> QED
        BY <1>7, <1>8, <2>1, <2>2 DEF product

----------------------------------------------------------------------------
(* Orders.                                                                  *)

\* What a fresh and positive price is taken for.
LEMMA MarkTaken ==
    ASSUME NEW price, NEW slot, NEW mark, mark = FreshPositive(price, slot), mark # Refused
    PROVE  mark[1] = price /\ price > 0 /\ CheckFresh(slot, now, MAX_ORACLE_STALENESS_SLOTS)
  BY DEF FreshPositive, Refused

\* An order that passes a gate on a published price is priced by its source.
LEMMA GatedIsPriced ==
    ASSUME IInv,
           NEW user \in Traders, NEW market \in Markets, NEW book \in Markets,
           NEW via, NEW source, NEW feed, NEW price \in Prices, NEW size \in Sizes,
           NEW p \in published, p.by = source, p.feed = feed,
           p.price > 0, CheckFresh(p.slot, now, MAX_ORACLE_STALENESS_SLOTS),
           NEW mark, mark[1] = p.price,
           GatedOrder(user, market, book, via, source, feed, mark, price, size)
    PROVE  IInv'
  <1>1. price \in Nat /\ size \in Nat
    BY FeedsAssumption
  <1> DEFINE fee == ProtocolFee(Notional(price, size))
  <1>2. fee \in Nat
    <2>1. Notional(price, size) \in Nat
      BY <1>1, ProductNat DEF Notional
    <2> QED
      BY <2>1, FeeNat
  <1>3. /\ fee <= wallets[user]
        /\ active[book] < ORDER_CAPACITY
        /\ active' = [active EXCEPT ![book] = @ + 1]
        /\ wallets' = [wallets EXCEPT ![user] = @ - fee]
        /\ fee_vault' = fee_vault + fee
        /\ last' = [via |-> via, source |-> source, feed |-> feed, price |-> price, slot |-> now]
        /\ UNCHANGED <<now, pins, oracle, accounts, published>>
        /\ InBand(price, p.price)
    BY DEF GatedOrder, Covers, HasRoom
  <1> HIDE DEF fee
  <1>4. TypeOK'
    <2>1. active' \in [Markets -> 0 .. ORDER_CAPACITY]
      BY <1>3, FeedsAssumption DEF IInv, TypeOK
    <2>2. wallets' \in [Traders -> Nat]
      <3>1. wallets[user] - fee \in Nat
        BY <1>2, <1>3 DEF IInv, TypeOK
      <3> QED
        BY <1>3, <3>1 DEF IInv, TypeOK
    <2>3. fee_vault' \in Nat
      BY <1>2, <1>3 DEF IInv, TypeOK
    <2> QED
      BY <1>3, <2>1, <2>2, <2>3 DEF IInv, TypeOK
  <1>5. AccountsGenuine' /\ OraclesGenuine' /\ PublishedBefore'
    BY <1>3 DEF IInv, AccountsGenuine, OraclesGenuine, PublishedBefore, Genuine
  <1>6. PricedByItsSource'
    <2>1. p.slot \in 0 .. now /\ p.price \in Nat /\ now \in Nat
      <3>1. p.slot \in 0 .. now /\ p.price \in FeedPrices /\ now \in Nat
        BY FeedsAssumption DEF IInv, PublishedBefore, TypeOK
      <3>2. \A n \in -U64_MAX .. U64_MAX : n > 0 => n \in Nat
        BY GateAssumption
      <3> QED
        BY <3>1, <3>2, FeedsAssumption
    <2>2. WithinBand(price, p.price)
      BY <1>1, <1>3, <2>1, BandExact DEF WithinBand
    <2>3. p.slot <= now /\ now - p.slot <= MAX_ORACLE_STALENESS_SLOTS
      BY <2>1 DEF CheckFresh
    <2>4. p \in published'
      BY <1>3
    <2>5. last'.source = source /\ last'.feed = feed /\ last'.price = price /\ last'.slot = now
      BY <1>3
    <2> QED
      BY <2>2, <2>3, <2>4, <2>5 DEF PricedByItsSource, WithinBand
  <1> QED
    BY <1>4, <1>5, <1>6 DEF IInv

\* An order priced by the mock oracle was priced by what somebody published.
LEMMA CheckedStep ==
    ASSUME IInv, NEW user \in Traders, NEW market \in Markets, NEW book \in Markets,
           NEW oracle_of \in Markets, NEW price \in Prices, NEW size \in Sizes,
           PlaceOrderChecked(user, market, book, oracle_of, price, size)
    PROVE  IInv'
  <1> DEFINE mark == ReadFreshOracle(market)
             p == Publication(OracleProgram, market, oracle[market].price, oracle[market].publish_slot)
  <1>1. /\ mark # Refused
        /\ GatedOrder(user, market, book, "oracle", OracleProgram, market, mark, price, size)
    BY DEF PlaceOrderChecked, GatedOrder
  <1>2. /\ mark[1] = oracle[market].price /\ oracle[market].price > 0
        /\ CheckFresh(oracle[market].publish_slot, now, MAX_ORACLE_STALENESS_SLOTS)
    BY <1>1, MarkTaken DEF ReadFreshOracle
  <1>3. p \in published
    BY <1>2 DEF IInv, OraclesGenuine
  <1>4. /\ p.by = OracleProgram /\ p.feed = market /\ p.price = oracle[market].price
        /\ p.slot = oracle[market].publish_slot
    BY DEF Publication
  <1> HIDE DEF mark, p
  <1> QED
    BY <1>1, <1>2, <1>3, <1>4, GatedIsPriced

\* So was an order priced by a Pyth v1 account,
LEMMA PythV1Step ==
    ASSUME IInv, NEW user \in Traders, NEW market \in Markets, NEW book \in Markets,
           NEW account \in FeedAccounts, NEW price \in Prices, NEW size \in Sizes,
           PlaceOrderCheckedPyth(user, market, book, account, price, size)
    PROVE  IInv'
  <1> DEFINE data == accounts[account].data
             mark == ReadFreshPythV1(data)
             by == pins[market].v1_program
             p == Publication(by, account, data[3], data[4])
  <1>1. /\ mark # Refused
        /\ GatedOrder(user, market, book, "pyth_v1", by, account, mark, price, size)
        /\ accounts[account].owner = by
    BY DEF PlaceOrderCheckedPyth, GatedOrder, VerifyPythV1
  <1>2. SaysV1(data) /\ mark = FreshPositive(data[3], data[4])
    BY <1>1 DEF ReadFreshPythV1, SaysV1
  <1>3. /\ mark[1] = data[3] /\ data[3] > 0
        /\ CheckFresh(data[4], now, MAX_ORACLE_STALENESS_SLOTS)
    <2> HIDE DEF data, mark
    <2> QED
      BY <1>1, <1>2, MarkTaken
  <1>4. p \in published
    BY <1>1, <1>2 DEF IInv, AccountsGenuine, Genuine
  <1>5. p.by = by /\ p.feed = account /\ p.price = data[3] /\ p.slot = data[4]
    BY DEF Publication
  <1> HIDE DEF data, mark, by, p
  <1> QED
    BY <1>1, <1>3, <1>4, <1>5, GatedIsPriced

\* and one priced by a v2 price update.
LEMMA PythV2Step ==
    ASSUME IInv, NEW user \in Traders, NEW market \in Markets, NEW book \in Markets,
           NEW account \in FeedAccounts, NEW price \in Prices, NEW size \in Sizes,
           PlaceOrderCheckedPythV2(user, market, book, account, price, size)
    PROVE  IInv'
  <1> DEFINE data == accounts[account].data
             mark == ReadFreshPythV2(data)
             by == pins[market].v2_receiver
             feed == pins[market].v2_feed_id
             p == Publication(by, FeedIdOf(data), PriceOf(data), PostedSlotOf(data))
  <1>1. /\ mark # Refused
        /\ GatedOrder(user, market, book, "pyth_v2", by, feed, mark, price, size)
        /\ accounts[account].owner = by
        /\ IsUpdate(data) => FeedIdOf(data) = feed /\ data[2] = FULL
    BY DEF PlaceOrderCheckedPythV2, GatedOrder, VerifyPythV2
  <1>2. IsUpdate(data) /\ mark = FreshPositive(PriceOf(data), PostedSlotOf(data))
    BY <1>1 DEF ReadFreshPythV2
  <1>3. /\ mark[1] = PriceOf(data) /\ PriceOf(data) > 0
        /\ CheckFresh(PostedSlotOf(data), now, MAX_ORACLE_STALENESS_SLOTS)
    <2> HIDE DEF data, mark
    <2> QED
      BY <1>1, <1>2, MarkTaken
  <1>4. p \in published /\ FeedIdOf(data) = feed
    BY <1>1, <1>2 DEF IInv, AccountsGenuine, Genuine, SaysV2
  <1>5. p.by = by /\ p.feed = feed /\ p.price = PriceOf(data) /\ p.slot = PostedSlotOf(data)
    BY <1>4 DEF Publication
  <1> HIDE DEF data, mark, by, feed, p
  <1> QED
    BY <1>1, <1>3, <1>4, <1>5, GatedIsPriced

----------------------------------------------------------------------------
(* Everything else.                                                         *)

\* A larger history keeps what rests on it.
LEMMA HistoryGrows ==
    ASSUME IInv, published \subseteq published', UNCHANGED last
    PROVE  PricedByItsSource'
  BY DEF IInv, PricedByItsSource, WithinBand

\* A publication made now belongs in the history.
LEMMA PublishStep ==
    ASSUME IInv, NEW source, NEW feed, NEW price \in FeedPrices, Publish(source, feed, price),
           UNCHANGED <<now, last>>
    PROVE  /\ published \subseteq published' /\ PublishedBefore' /\ PricedByItsSource'
           /\ Publication(source, feed, price, now) \in published'
  <1>1. published' = published \union {Publication(source, feed, price, now)}
    BY DEF Publish, Publication
  <1>2. price \in Int /\ now \in 0 .. now
    BY FeedsAssumption DEF IInv, TypeOK
  <1>3. PublishedBefore'
    BY <1>1, <1>2 DEF IInv, PublishedBefore, Publication
  <1> QED
    BY <1>1, <1>3, HistoryGrows

\* Overwritten by its owner with what the history holds, an account is genuine.
LEMMA WriteStep ==
    ASSUME IInv, NEW account \in FeedAccounts, NEW data, Write(account, data),
           published \subseteq published',
           SaysV1(data) =>
               Publication(accounts[account].owner, account, data[3], data[4]) \in published',
           SaysV2(data) =>
               Publication(accounts[account].owner, FeedIdOf(data), PriceOf(data), PostedSlotOf(data))
                   \in published'
    PROVE  AccountsGenuine' /\ \A a \in FeedAccounts : accounts'[a].owner \in Programs
  <1>1. /\ accounts'[account].data = data /\ accounts'[account].owner = accounts[account].owner
        /\ \A a \in FeedAccounts \ {account} : accounts'[a] = accounts[a]
        /\ accounts' = Pairs(accounts)'
    <2>1. accounts = Pairs(accounts)
      BY DEF IInv, AccountsGenuine
    <2>2. accounts' = [a \in FeedAccounts |->
                          IF a = account THEN [owner |-> accounts[a].owner, data |-> data]
                          ELSE [owner |-> accounts[a].owner, data |-> accounts[a].data]]
      BY <2>1 DEF Write, Pairs
    <2>3. \A a \in FeedAccounts : accounts[a] = [owner |-> accounts[a].owner, data |-> accounts[a].data]
      BY <2>1 DEF Pairs
    <2> QED
      BY <2>2, <2>3 DEF Pairs
  <1>2. ASSUME NEW a \in FeedAccounts
        PROVE  Genuine(a)' /\ accounts'[a].owner \in Programs
    <2>1. CASE a = account
      BY <1>1, <2>1 DEF Genuine, IInv, TypeOK
    <2>2. CASE a # account
      BY <1>1, <2>2 DEF Genuine, IInv, TypeOK, AccountsGenuine
    <2> QED
      BY <2>1, <2>2
  <1> QED
    BY <1>1, <1>2 DEF AccountsGenuine

\* More publications leave the feed accounts genuine,
LEMMA AccountsUntouched ==
    ASSUME IInv, UNCHANGED accounts, published \subseteq published'
    PROVE  AccountsGenuine'
  BY DEF IInv, AccountsGenuine, Genuine, Pairs

\* and the mock oracles.
LEMMA OraclesUntouched ==
    ASSUME IInv, UNCHANGED oracle, published \subseteq published'
    PROVE  OraclesGenuine'
  BY DEF IInv, OraclesGenuine

\* What the owner of a feed account writes there, it publishes.
LEMMA OwnerSteps ==
    ASSUME IInv, NEW account \in FeedAccounts, NEW price \in FeedPrices,
           \/ PublishV1(account, price)
           \/ HaltV1(account, price)
           \/ \E feed_id \in FeedIds :
                PostFull(account, feed_id, price) \/ PostPartial(account, feed_id, price)
    PROVE  IInv'
  <1>1. UNCHANGED <<now, pins, oracle, active, wallets, fee_vault, last>>
    BY DEF PublishV1, HaltV1, PostFull, PostPartial
  <1>2. ASSUME published \subseteq published', AccountsGenuine', PublishedBefore', PricedByItsSource',
               \A a \in FeedAccounts : accounts'[a].owner \in Programs
        PROVE  IInv'
    BY <1>1, <1>2, OraclesUntouched DEF IInv, TypeOK
  <1>3. CASE PublishV1(account, price)
    <2> DEFINE data == <<"V1", "Trading", price, now>>
    <2>1. Write(account, data) /\ Publish(accounts[account].owner, account, price)
      BY <1>3 DEF PublishV1
    <2>2. data[3] = price /\ data[4] = now /\ ~SaysV2(data)
      BY DEF SaysV2, IsUpdate
    <2> HIDE DEF data
    <2> QED
      BY <1>1, <1>2, <2>1, <2>2, PublishStep, WriteStep
  <1>4. CASE HaltV1(account, price)
    <2> DEFINE data == <<"V1", "Halted", price, now>>
    <2>1. Write(account, data) /\ published' = published
      BY <1>4 DEF HaltV1
    <2>2. ~SaysV1(data) /\ ~SaysV2(data)
      BY DEF SaysV1, SaysV2, IsUpdate
    <2>3. PublishedBefore' /\ PricedByItsSource'
      BY <1>1, <2>1, HistoryGrows DEF IInv, PublishedBefore
    <2> HIDE DEF data
    <2> QED
      BY <1>2, <2>1, <2>2, <2>3, WriteStep
  <1>5. ASSUME NEW feed_id \in FeedIds, PostFull(account, feed_id, price)
        PROVE  IInv'
    <2> DEFINE old == accounts[account].data
               data == <<"V2", FULL, feed_id, price, now, IF Len(old) = 6 THEN old[6] ELSE 0>>
    <2>1. Write(account, data) /\ Publish(accounts[account].owner, feed_id, price)
      BY <1>5 DEF PostFull
    <2>2. /\ ~SaysV1(data)
          /\ FeedIdOf(data) = feed_id /\ PriceOf(data) = price /\ PostedSlotOf(data) = now
      BY DEF SaysV1, FeedIdOf, PriceOf, PostedSlotOf, Shift, FULL
    <2> HIDE DEF data
    <2> QED
      BY <1>1, <1>2, <2>1, <2>2, PublishStep, WriteStep
  <1>6. ASSUME NEW feed_id \in FeedIds, PostPartial(account, feed_id, price)
        PROVE  IInv'
    <2> DEFINE data == <<"V2", PARTIAL, 1, feed_id, price, now>>
    <2>1. Write(account, data) /\ published' = published
      BY <1>6 DEF PostPartial
    <2>2. ~SaysV1(data) /\ ~SaysV2(data)
      BY DEF SaysV1, SaysV2, IsUpdate, PARTIAL, FULL
    <2>3. PublishedBefore' /\ PricedByItsSource'
      BY <1>1, <2>1, HistoryGrows DEF IInv, PublishedBefore
    <2> HIDE DEF data
    <2> QED
      BY <1>2, <2>1, <2>2, <2>3, WriteStep
  <1> QED
    BY <1>3, <1>4, <1>5, <1>6

\* Made again by whichever program, an account says nothing.
LEMMA RecreateStep ==
    ASSUME IInv, NEW account \in FeedAccounts, NEW owner \in Programs, Recreate(account, owner)
    PROVE  IInv'
  <1>1. /\ accounts'[account] = [owner |-> owner, data |-> <<>>]
        /\ \A a \in FeedAccounts \ {account} : accounts'[a] = accounts[a]
        /\ accounts' = Pairs(accounts)'
    <2>1. accounts = Pairs(accounts)
      BY DEF IInv, AccountsGenuine
    <2>2. accounts' = [a \in FeedAccounts |->
                          IF a = account THEN [owner |-> owner, data |-> <<>>]
                          ELSE [owner |-> accounts[a].owner, data |-> accounts[a].data]]
      BY <2>1 DEF Recreate, Pairs
    <2>3. \A a \in FeedAccounts : accounts[a] = [owner |-> accounts[a].owner, data |-> accounts[a].data]
      BY <2>1 DEF Pairs
    <2> QED
      BY <2>2, <2>3 DEF Pairs
  <1>2. UNCHANGED <<now, pins, oracle, active, wallets, fee_vault, published, last>>
    BY DEF Recreate
  <1>3. Len(<<>>) = 0
    OBVIOUS
  <1>4. ASSUME NEW a \in FeedAccounts
        PROVE  Genuine(a)' /\ accounts'[a].owner \in Programs
    <2>1. CASE a = account
      BY <1>1, <1>3, <2>1 DEF Genuine, SaysV1, SaysV2, IsUpdate
    <2>2. CASE a # account
      BY <1>1, <1>2, <2>2 DEF Genuine, IInv, TypeOK, AccountsGenuine
    <2> QED
      BY <2>1, <2>2
  <1>5. AccountsGenuine'
    BY <1>1, <1>4 DEF AccountsGenuine
  <1>6. OraclesGenuine' /\ PricedByItsSource' /\ PublishedBefore'
    BY <1>2, OraclesUntouched, HistoryGrows DEF IInv, PublishedBefore
  <1> QED
    BY <1>2, <1>4, <1>5, <1>6 DEF IInv, TypeOK

\* What SetOraclePrice writes is published, too.
LEMMA SetOraclePriceStep ==
    ASSUME IInv, NEW market \in Markets, NEW price \in FeedPrices, SetOraclePrice(market, price)
    PROVE  IInv'
  <1>1. /\ oracle' = [oracle EXCEPT ![market] = [price |-> price, publish_slot |-> now]]
        /\ Publish(OracleProgram, market, price)
        /\ UNCHANGED <<now, pins, accounts, active, wallets, fee_vault, last>>
    BY DEF SetOraclePrice
  <1>2. /\ published \subseteq published' /\ PublishedBefore' /\ PricedByItsSource'
        /\ Publication(OracleProgram, market, price, now) \in published'
    BY <1>1, PublishStep
  <1>3. oracle' \in [Markets -> [price : FeedPrices \union {0}, publish_slot : 0 .. MaxSlot]]
    BY <1>1 DEF IInv, TypeOK
  <1>4. OraclesGenuine'
    <2>1. ASSUME NEW m \in Markets, oracle'[m].price > 0
          PROVE  Publication(OracleProgram, m, oracle'[m].price, oracle'[m].publish_slot) \in published'
      <3>1. CASE m = market
        BY <1>1, <1>2, <3>1 DEF IInv, TypeOK
      <3>2. CASE m # market
        BY <1>1, <1>2, <2>1, <3>2 DEF IInv, TypeOK, OraclesGenuine
      <3> QED
        BY <3>1, <3>2
    <2> QED
      BY <2>1 DEF OraclesGenuine
  <1> QED
    BY <1>1, <1>2, <1>3, <1>4, AccountsUntouched DEF IInv, TypeOK

\* Steps that touch neither prices nor gated orders.
LEMMA OtherSteps ==
    ASSUME IInv,
           \/ \E signer \in People, market \in Markets, new \in PinChoices \union {NoPins} :
                SetPythFeeds(signer, market, new)
           \/ \E market \in Markets : PlaceOrder(market) \/ OrderLeaves(market)
           \/ Tick
           \/ UNCHANGED vars
    PROVE  IInv'
  <1>1. UNCHANGED <<oracle, accounts, wallets, fee_vault, published, last>>
    BY DEF SetPythFeeds, PlaceOrder, OrderLeaves, Tick, vars
  <1>2. AccountsGenuine' /\ OraclesGenuine' /\ PricedByItsSource'
    BY <1>1, AccountsUntouched, OraclesUntouched, HistoryGrows
  <1>3. now' \in 0 .. MaxSlot /\ now <= now'
    BY FeedsAssumption DEF IInv, TypeOK, SetPythFeeds, PlaceOrder, HasRoom, OrderLeaves, Tick, vars
  <1>4. PublishedBefore'
    BY <1>1, <1>3 DEF IInv, TypeOK, PublishedBefore
  <1>5. pins' \in [Markets -> PinChoices \union {NoPins}]
    BY DEF IInv, TypeOK, SetPythFeeds, PlaceOrder, OrderLeaves, Tick, vars
  <1>6. active' \in [Markets -> 0 .. ORDER_CAPACITY]
    BY FeedsAssumption DEF IInv, TypeOK, SetPythFeeds, PlaceOrder, HasRoom, OrderLeaves, Tick, vars
  <1> QED
    BY <1>1, <1>2, <1>3, <1>4, <1>5, <1>6 DEF IInv, TypeOK

----------------------------------------------------------------------------
(* Theorems.                                                                *)

\* Initially no account says anything.
LEMMA InitEstablishes == Init => IInv
  <1> SUFFICES ASSUME Init PROVE IInv
    OBVIOUS
  <1>1. TypeOK
    BY FeedsAssumption DEF Init, TypeOK
  <1>2. \A a \in FeedAccounts : accounts[a].data = <<>> /\ Len(<<>>) = 0
    BY DEF Init
  <1>3. AccountsGenuine
    <2>1. accounts = Pairs(accounts)
      BY DEF Init, Pairs
    <2> QED
      BY <1>2, <2>1 DEF AccountsGenuine, Genuine, SaysV1, SaysV2, IsUpdate
  <1>4. OraclesGenuine /\ PublishedBefore /\ PricedByItsSource
    BY DEF Init, OraclesGenuine, PublishedBefore, PricedByItsSource
  <1> QED
    BY <1>1, <1>3, <1>4 DEF IInv

\* Every step keeps the inductive invariant.
LEMMA StepPreserves == IInv /\ [Next]_vars => IInv'
  BY CheckedStep, PythV1Step, PythV2Step, OwnerSteps, RecreateStep, SetOraclePriceStep, OtherSteps
     DEF Next

\* It holds in every reachable state.
LEMMA Invariant == Spec => []IInv
  BY InitEstablishes, StepPreserves, PTL DEF Spec

\* Every field stays in its type: fees never take a wallet below zero.
THEOREM TypeCorrect == Spec => []TypeOK
  BY Invariant, PTL DEF IInv

\* Every gated order is in the band of a price that its market's pinned source
\* published for the pinned feed no more than the staleness limit before.
THEOREM OrdersPricedBySource == Spec => []PricedByItsSource
  BY Invariant, PTL DEF IInv

----------------------------------------------------------------------------
(* The gates serve.  The prover does not know ENABLED, so what it means is  *)
(* spelled out: there is a next state that the action leads to.             *)

\* GatedOrder as a relation between this state and a next one, in which the
\* variables it changes have the values active2, wallets2, fee_vault2, last2.
GatedTo(user, market, book, via, source, feed, mark, price, size, active2, wallets2, fee_vault2, last2) ==
    LET fee == ProtocolFee(Notional(price, size))
    IN /\ price # 0 /\ size # 0
       /\ book = market
       /\ mark # Refused
       /\ InBand(price, mark[1])
       /\ HasRoom(book)
       /\ Covers(user, fee)
       /\ active2 = [active EXCEPT ![book] = @ + 1]
       /\ wallets2 = [wallets EXCEPT ![user] = @ - fee]
       /\ fee_vault2 = fee_vault + fee
       /\ last2 = [via |-> via, source |-> source, feed |-> feed, price |-> price, slot |-> now]

\* The relation is the action.
LEMMA GatedRelation ==
    ASSUME NEW user, NEW market, NEW book, NEW via, NEW source, NEW feed, NEW mark, NEW price, NEW size
    PROVE  GatedOrder(user, market, book, via, source, feed, mark, price, size)
           <=> /\ GatedTo(user, market, book, via, source, feed, mark, price, size,
                          active', wallets', fee_vault', last')
               /\ UNCHANGED <<now, pins, oracle, accounts, published>>
  BY ZenonT(30) DEF GatedOrder, GatedTo

\* There is a next state in which user's order has gone through the gate that
\* reads a Pyth v1 account,
CanPlacePyth(user, market, account, price, size) ==
    /\ VerifyPythV1(pins[market], account)
    /\ \E active2, wallets2, fee_vault2, last2 :
            GatedTo(user, market, market, "pyth_v1", pins[market].v1_program, account,
                    ReadFreshPythV1(accounts[account].data), price, size,
                    active2, wallets2, fee_vault2, last2)

\* or through the one that reads a v2 price update.
CanPlacePythV2(user, market, account, price, size) ==
    /\ VerifyPythV2(pins[market], account)
    /\ \E active2, wallets2, fee_vault2, last2 :
            GatedTo(user, market, market, "pyth_v2", pins[market].v2_receiver, pins[market].v2_feed_id,
                    ReadFreshPythV2(accounts[account].data), price, size,
                    active2, wallets2, fee_vault2, last2)

\* A price is in the band around itself, even where the band saturates.
LEMMA OwnPriceInBand ==
    ASSUME NEW price \in 0 .. U64_MAX
    PROVE  InBand(price, price)
  <1> DEFINE product == price * SANITY_BAND_BPS
             band == Saturated(product) \div BPS_DENOMINATOR
  <1>1. price \in Nat /\ price <= U64_MAX /\ U64_MAX \in Nat
    BY GateAssumption
  <1>2. product \in Nat
    BY <1>1, ProductNat, GateAssumption
  <1> HIDE DEF product
  <1>3. Saturated(product) \in Nat
    BY <1>2, SaturatedNat
  <1>4. band \in Nat
    BY <1>3, Division, GateAssumption
  <1> HIDE DEF band
  <1>5. price - band <= price
    BY <1>1, <1>4
  <1>6. price <= Saturated(price + band)
    BY <1>1, <1>4 DEF Saturated
  <1> QED
    BY <1>5, <1>6 DEF InBand, band, product

\* What a trader needs to be served at price: room, tokens, and a fresh mark.
LEMMA GateOpens ==
    ASSUME NEW user, NEW market, NEW via, NEW source, NEW feed,
           NEW price \in 1 .. U64_MAX, NEW size \in Nat \ {0}, NEW slot, NEW mark,
           mark = FreshPositive(price, slot), CheckFresh(slot, now, MAX_ORACLE_STALENESS_SLOTS),
           active[market] < ORDER_CAPACITY, Covers(user, ProtocolFee(Notional(price, size)))
    PROVE  \E active2, wallets2, fee_vault2, last2 :
                GatedTo(user, market, market, via, source, feed, mark, price, size,
                        active2, wallets2, fee_vault2, last2)
  <1> DEFINE fee == ProtocolFee(Notional(price, size))
             active2 == [active EXCEPT ![market] = @ + 1]
             wallets2 == [wallets EXCEPT ![user] = @ - fee]
             fee_vault2 == fee_vault + fee
             last2 == [via |-> via, source |-> source, feed |-> feed, price |-> price, slot |-> now]
  <1>1. price > 0 /\ price # 0 /\ size # 0 /\ price \in 0 .. U64_MAX
    BY GateAssumption
  <1>2. mark = <<price>>
    BY <1>1 DEF FreshPositive
  <1>3. mark # Refused /\ mark[1] = price
    BY <1>2 DEF Refused
  <1>4. InBand(price, mark[1])
    BY <1>1, <1>3, OwnPriceInBand
  <1>5. GatedTo(user, market, market, via, source, feed, mark, price, size,
                active2, wallets2, fee_vault2, last2)
    BY <1>1, <1>3, <1>4, Zenon DEF GatedTo, HasRoom
  <1> QED
    BY <1>5, Zenon

\* A publication that is fresh enough to be read is a positive u64.
LEMMA PublishedPrice ==
    ASSUME IInv, NEW p \in published, p.price > 0,
           now - p.slot <= MAX_ORACLE_STALENESS_SLOTS
    PROVE  p.price \in 1 .. U64_MAX /\ CheckFresh(p.slot, now, MAX_ORACLE_STALENESS_SLOTS)
  <1>1. U64_MAX \in Nat /\ p.price \in -U64_MAX .. U64_MAX
    BY FeedsAssumption, GateAssumption DEF IInv, PublishedBefore
  <1> DEFINE price == p.price
  <1>2. price \in 1 .. U64_MAX
    <2>1. price > 0 /\ price \in -U64_MAX .. U64_MAX
      BY <1>1
    <2> HIDE DEF price
    <2> QED
      BY <1>1, <2>1
  <1> QED
    BY <1>2 DEF CheckFresh

\* The premises of ServedWhenFresh.
Servable(market, user, p, size) ==
    /\ p.price > 0 /\ now - p.slot <= MAX_ORACLE_STALENESS_SLOTS
    /\ active[market] < ORDER_CAPACITY
    /\ size > 0 /\ Covers(user, ProtocolFee(Notional(p.price, size)))

\* What the pinned v1 program published last opens the v1 gate.
LEMMA PythV1Serves ==
    ASSUME IInv, NEW market \in Markets, NEW a \in FeedAccounts, NEW user \in Traders,
           NEW p \in published, NEW size \in Sizes, Servable(market, user, p, size),
           pins[market].v1_price_account = a, accounts[a].owner = pins[market].v1_program,
           accounts[a].data = <<"V1", "Trading", p.price, p.slot>>
    PROVE  CanPlacePyth(user, market, a, p.price, size)
  <1>1. VerifyPythV1(pins[market], a)
    BY ZeroAssumption DEF VerifyPythV1
  <1>2. ReadFreshPythV1(accounts[a].data) = FreshPositive(p.price, p.slot)
    <2> DEFINE data == <<"V1", "Trading", p.price, p.slot>>
    <2>1. Len(data) = 4 /\ data[1] = "V1" /\ data[2] = "Trading" /\ data[3] = p.price /\ data[4] = p.slot
      OBVIOUS
    <2> HIDE DEF data
    <2>2. ReadFreshPythV1(data) = FreshPositive(p.price, p.slot)
      BY <2>1 DEF ReadFreshPythV1
    <2> QED
      BY <2>2 DEF data
  <1>3. /\ p.price \in 1 .. U64_MAX /\ CheckFresh(p.slot, now, MAX_ORACLE_STALENESS_SLOTS)
        /\ size \in Nat \ {0}
    BY PublishedPrice, FeedsAssumption DEF Servable
  <1> QED
    BY <1>1, <1>2, <1>3, GateOpens DEF Servable, CanPlacePyth

\* What the pinned receiver posted last of the pinned feed opens the v2 gate.
LEMMA PythV2Serves ==
    ASSUME IInv, NEW market \in Markets, NEW a \in FeedAccounts, NEW user \in Traders,
           NEW p \in published, NEW size \in Sizes, Servable(market, user, p, size),
           accounts[a].owner = pins[market].v2_receiver, p.feed = pins[market].v2_feed_id,
           NEW rest, accounts[a].data = <<"V2", FULL, p.feed, p.price, p.slot, rest>>
    PROVE  CanPlacePythV2(user, market, a, p.price, size)
  <1> DEFINE data == <<"V2", FULL, p.feed, p.price, p.slot, rest>>
  <1>1. /\ IsUpdate(data) /\ data[2] = FULL
        /\ FeedIdOf(data) = p.feed /\ PriceOf(data) = p.price /\ PostedSlotOf(data) = p.slot
    BY DEF IsUpdate, FeedIdOf, PriceOf, PostedSlotOf, Shift
  <1>2. accounts[a].data = data
    OBVIOUS
  <1>3. pins[market].v2_receiver # Zero
    BY ZeroAssumption DEF IInv, TypeOK
  <1> HIDE DEF data
  <1>4. VerifyPythV2(pins[market], a)
    BY <1>1, <1>2, <1>3 DEF VerifyPythV2
  <1>5. ReadFreshPythV2(accounts[a].data) = FreshPositive(p.price, p.slot)
    BY <1>1, <1>2 DEF ReadFreshPythV2
  <1>6. /\ p.price \in 1 .. U64_MAX /\ CheckFresh(p.slot, now, MAX_ORACLE_STALENESS_SLOTS)
        /\ size \in Nat \ {0}
    BY PublishedPrice, FeedsAssumption DEF Servable
  <1> QED
    BY <1>4, <1>5, <1>6, GateOpens DEF Servable, CanPlacePythV2

\* ServedWhenFresh with ENABLED spelled out: while an account holds what the
\* pinned source published last, fresh and positive, an order at that price can
\* be placed by a trader who can pay its fee, however near to U64_MAX the price.
THEOREM FreshIsServed ==
    Spec => [](\A market \in Markets, a \in FeedAccounts, user \in Traders, p \in published, size \in Sizes :
                Servable(market, user, p, size) =>
                    /\ /\ pins[market].v1_price_account = a /\ accounts[a].owner = pins[market].v1_program
                       /\ accounts[a].data = <<"V1", "Trading", p.price, p.slot>>
                       => CanPlacePyth(user, market, a, p.price, size)
                    /\ /\ accounts[a].owner = pins[market].v2_receiver
                       /\ p.feed = pins[market].v2_feed_id
                       /\ \E rest : accounts[a].data = <<"V2", FULL, p.feed, p.price, p.slot, rest>>
                       => CanPlacePythV2(user, market, a, p.price, size))
  <1>1. IInv =>
         \A market \in Markets, a \in FeedAccounts, user \in Traders, p \in published, size \in Sizes :
            Servable(market, user, p, size) =>
                /\ /\ pins[market].v1_price_account = a /\ accounts[a].owner = pins[market].v1_program
                   /\ accounts[a].data = <<"V1", "Trading", p.price, p.slot>>
                   => CanPlacePyth(user, market, a, p.price, size)
                /\ /\ accounts[a].owner = pins[market].v2_receiver
                   /\ p.feed = pins[market].v2_feed_id
                   /\ \E rest : accounts[a].data = <<"V2", FULL, p.feed, p.price, p.slot, rest>>
                   => CanPlacePythV2(user, market, a, p.price, size)
    BY PythV1Serves, PythV2Serves
  <1> QED
    BY <1>1, Invariant, PTL

=============================================================================
