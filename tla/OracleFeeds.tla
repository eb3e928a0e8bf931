------------------------------ MODULE OracleFeeds ------------------------------
(***************************************************************************)
(* Chapter 9: the three oracle gates a new order may go through.           *)
(* PlaceOrderChecked reads the market's own (mock) oracle, which anyone    *)
(* may set; PlaceOrderCheckedPyth a Pyth v1 price account; and             *)
(* PlaceOrderCheckedPythV2 any PriceUpdateV2 account.  The caller names    *)
(* the account; the market's authority pins what it must be.               *)
(*                                                                         *)
(* A feed account is owned by one program, which alone writes it; it can   *)
(* be closed and made again by another.  Its bytes are cells: a v1 account *)
(* is <<V1, status, price, pub_slot>>, an update is Borsh, <<V2, tag,      *)
(* num_signatures, feed_id, price, posted_slot>> when Partial, and one     *)
(* cell shorter when Full, with whatever was last in the old bytes left    *)
(* behind the end.  expo and conf, which are only logged, are left out.    *)
(*                                                                         *)
(* All markets quote in one mint here; FeesBuilder ties mints and vaults.  *)
(***************************************************************************)
EXTENDS OrderGate, FiniteSets, Sequences

CONSTANTS
    Traders, People, Markets,
    Authority,       \* market.authority, by market
    FeedAccounts, FeedIds,
    Programs,        \* that may own a feed account
    OracleProgram,   \* the exchange itself, as a source of prices
    Zero,            \* 32 zero bytes: nothing pinned
    PinChoices,      \* what an authority may pin
    MAX_ORACLE_STALENESS_SLOTS, ORDER_CAPACITY,
    FeedPrices, Prices, Sizes, WalletStart,
    MaxSlot, MaxPublications    \* bound the clock and the publications

VARIABLES
    now,             \* Clock.slot
    pins,            \* by market
    oracle,          \* by market
    accounts,        \* by feed account: owner and data
    active,          \* orders in a market's book
    wallets, fee_vault,
    published,       \* history: who published which price of what, and when
    last             \* history: the last order that went through a gate

vars == <<now, pins, oracle, accounts, active, wallets, fee_vault, published, last>>

ASSUME FeedsAssumption ==
    /\ MAX_ORACLE_STALENESS_SLOTS \in Nat /\ ORDER_CAPACITY \in Nat /\ MaxSlot \in Nat
    /\ FeedPrices \subseteq -U64_MAX .. U64_MAX     \* an i64
    /\ Prices \subseteq Nat /\ Sizes \subseteq Nat /\ WalletStart \in Nat
    /\ Authority \in [Markets -> People]
    /\ OracleProgram \notin Programs
\* That address is the System program's, which publishes no prices.
ASSUME ZeroAssumption == Zero \notin FeedAccounts \union Programs

NoPins == [v1_price_account |-> Zero, v1_program |-> Zero, v2_receiver |-> Zero, v2_feed_id |-> Zero]
NoOrder == [via |-> "none"]

Init ==
    /\ now = 0
    /\ pins = [m \in Markets |-> NoPins]
    /\ oracle = [m \in Markets |-> [price |-> 0, publish_slot |-> 0]]
    /\ accounts \in [FeedAccounts -> [owner : Programs, data : {<<>>}]]
    /\ active = [m \in Markets |-> 0]
    /\ wallets = [u \in Traders |-> WalletStart]
    /\ fee_vault = 0
    /\ published = {}
    /\ last = NoOrder

----------------------------------------------------------------------------
(* Readers: a sequence with the mark, or an empty one for a refusal.        *)

Refused == <<>>

FreshPositive(price, slot) ==
    IF CheckFresh(slot, now, MAX_ORACLE_STALENESS_SLOTS) /\ price > 0 THEN <<price>> ELSE Refused

ReadFreshOracle(m) == FreshPositive(oracle[m].price, oracle[m].publish_slot)

\* pyth_v1::parse, then freshness and sign.
ReadFreshPythV1(data) ==
    IF Len(data) = 4 /\ data[1] = "V1" /\ data[2] = "Trading"
    THEN FreshPositive(data[3], data[4])
    ELSE Refused

\* pyth_v2::parse: every cell after the level sits shift earlier when Full.
PARTIAL == 0
FULL == 1
\* (mutant: always the offsets of a Partial update)
NoShift(data) == 0
Shift(data) == IF data[2] = FULL THEN 1 ELSE 0
IsUpdate(data) == Len(data) = 6 /\ data[1] = "V2" /\ data[2] \in {PARTIAL, FULL}
FeedIdOf(data) == data[4 - Shift(data)]
PriceOf(data) == data[5 - Shift(data)]
PostedSlotOf(data) == data[6 - Shift(data)]

ReadFreshPythV2(data) ==
    IF IsUpdate(data) THEN FreshPositive(PriceOf(data), PostedSlotOf(data)) ELSE Refused

----------------------------------------------------------------------------
(* The market's checks of the account it is offered.                        *)

\* (mutant: the pinned address alone)
AtPin(pin, account) == pin.v1_price_account # Zero /\ pin.v1_price_account = account
VerifyPythV1(pin, account) ==
    /\ pin.v1_price_account # Zero
    /\ account = pin.v1_price_account
    /\ accounts[account].owner = pin.v1_program

VerifyPythV2(pin, account) ==
    LET data == accounts[account].data
    IN /\ pin.v2_receiver # Zero
       /\ accounts[account].owner = pin.v2_receiver
       /\ IsUpdate(data) => FeedIdOf(data) = pin.v2_feed_id /\ data[2] = FULL

\* A slot is free. (mutant: the first one is taken when none is)
SlotOrFirst(book) == active[book] >= 0
HasRoom(book) == active[book] < ORDER_CAPACITY

\* SPL Token refuses a transfer of more than there is.
Covers(user, fee) == fee <= wallets[user]

\* Band, book and fee, the same in the three placements.
GatedOrder(user, market, book, via, source, feed, mark, price, size) ==
    LET fee == ProtocolFee(Notional(price, size))
    IN /\ price # 0 /\ size # 0
       /\ book = market
       /\ mark # Refused
       /\ InBand(price, mark[1])
       /\ HasRoom(book)
       /\ Covers(user, fee)
       /\ active' = [active EXCEPT ![book] = @ + 1]
       /\ wallets' = [wallets EXCEPT ![user] = @ - fee]
       /\ fee_vault' = fee_vault + fee
       /\ last' = [via |-> via, source |-> source, feed |-> feed, price |-> price, slot |-> now]
       /\ UNCHANGED <<now, pins, oracle, accounts, published>>

PlaceOrderChecked(user, market, book, oracle_of, price, size) ==
    /\ oracle_of = market
    /\ GatedOrder(user, market, book, "oracle", OracleProgram, market,
                  ReadFreshOracle(oracle_of), price, size)

PlaceOrderCheckedPyth(user, market, book, account, price, size) ==
    /\ VerifyPythV1(pins[market], account)
    /\ GatedOrder(user, market, book, "pyth_v1", pins[market].v1_program, account,
                  ReadFreshPythV1(accounts[account].data), price, size)

PlaceOrderCheckedPythV2(user, market, book, account, price, size) ==
    /\ VerifyPythV2(pins[market], account)
    /\ GatedOrder(user, market, book, "pyth_v2", pins[market].v2_receiver, pins[market].v2_feed_id,
                  ReadFreshPythV2(accounts[account].data), price, size)

----------------------------------------------------------------------------
(* What else the program does to this state.                                *)

SetPythFeeds(signer, market, new) ==
    /\ signer = Authority[market]
    /\ pins' = [pins EXCEPT ![market] = new]
    /\ UNCHANGED <<now, oracle, accounts, active, wallets, fee_vault, published, last>>

Publish(source, feed, price) ==
    /\ published' = published \union {[by |-> source, feed |-> feed, price |-> price, slot |-> now]}
    /\ Cardinality(published') <= MaxPublications

\* Anyone may, and with any price.
SetOraclePrice(market, price) ==
    /\ oracle' = [oracle EXCEPT ![market] = [price |-> price, publish_slot |-> now]]
    /\ Publish(OracleProgram, market, price)
    /\ UNCHANGED <<now, pins, accounts, active, wallets, fee_vault, last>>

\* PlaceOrder, ungated.
PlaceOrder(market) ==
    /\ HasRoom(market)
    /\ active' = [active EXCEPT ![market] = @ + 1]
    /\ UNCHANGED <<now, pins, oracle, accounts, wallets, fee_vault, published, last>>

\* CancelOrder, or a Match that consumes an order.
OrderLeaves(market) ==
    /\ active[market] > 0
    /\ active' = [active EXCEPT ![market] = @ - 1]
    /\ UNCHANGED <<now, pins, oracle, accounts, wallets, fee_vault, published, last>>

----------------------------------------------------------------------------
(* The programs that own feed accounts, and the clock.                      *)

Write(account, data) == accounts' = [accounts EXCEPT ![account].data = data]

\* A price, as the owner of a v1 account publishes it; a halt overwrites it.
PublishV1(account, price) ==
    /\ Write(account, <<"V1", "Trading", price, now>>)
    /\ Publish(accounts[account].owner, account, price)
    /\ UNCHANGED <<now, pins, oracle, active, wallets, fee_vault, last>>

HaltV1(account, price) ==
    /\ Write(account, <<"V1", "Halted", price, now>>)
    /\ UNCHANGED <<now, pins, oracle, active, wallets, fee_vault, published, last>>

\* Serialized over the account's bytes, which keep their length.
PostFull(account, feed_id, price) ==
    LET old == accounts[account].data
    IN /\ Write(account, <<"V2", FULL, feed_id, price, now,
                           IF Len(old) = 6 THEN old[6] ELSE 0>>)
       /\ Publish(accounts[account].owner, feed_id, price)
       /\ UNCHANGED <<now, pins, oracle, active, wallets, fee_vault, last>>

\* Too few guardians have signed it: what it says may be anything.
PostPartial(account, feed_id, price) ==
    /\ Write(account, <<"V2", PARTIAL, 1, feed_id, price, now>>)
    /\ UNCHANGED <<now, pins, oracle, active, wallets, fee_vault, published, last>>

\* Closed, and made again by another program.
Recreate(account, owner) ==
    /\ accounts' = [accounts EXCEPT ![account] = [owner |-> owner, data |-> <<>>]]
    /\ UNCHANGED <<now, pins, oracle, active, wallets, fee_vault, published, last>>

Tick ==
    /\ now < MaxSlot
    /\ now' = now + 1
    /\ UNCHANGED <<pins, oracle, accounts, active, wallets, fee_vault, published, last>>

Next ==
    \/ \E user \in Traders, market, book \in Markets, price \in Prices, size \in Sizes :
            \/ \E oracle_of \in Markets :
                    PlaceOrderChecked(user, market, book, oracle_of, price, size)
            \/ \E account \in FeedAccounts :
                    \/ PlaceOrderCheckedPyth(user, market, book, account, price, size)
                    \/ PlaceOrderCheckedPythV2(user, market, book, account, price, size)
    \/ \E signer \in People, market \in Markets, new \in PinChoices \union {NoPins} :
            SetPythFeeds(signer, market, new)
    \/ \E market \in Markets, price \in FeedPrices : SetOraclePrice(market, price)
    \/ \E market \in Markets : PlaceOrder(market)
    \/ \E market \in Markets : OrderLeaves(market)
    \/ \E account \in FeedAccounts, price \in FeedPrices :
            \/ PublishV1(account, price)
            \/ HaltV1(account, price)
            \/ \E feed_id \in FeedIds :
                    PostFull(account, feed_id, price) \/ PostPartial(account, feed_id, price)
    \/ \E account \in FeedAccounts, owner \in Programs : Recreate(account, owner)
    \/ Tick

Spec == Init /\ [][Next]_vars

----------------------------------------------------------------------------
(* Properties.                                                              *)

\* Every field stays in its type; no wallet goes below zero.
TypeOK ==
    /\ now \in 0 .. MaxSlot
    /\ pins \in [Markets -> PinChoices \union {NoPins}]
    /\ oracle \in [Markets -> [price : FeedPrices \union {0}, publish_slot : 0 .. MaxSlot]]
    /\ \A a \in FeedAccounts : accounts[a].owner \in Programs
    /\ active \in [Markets -> 0 .. ORDER_CAPACITY]
    /\ wallets \in [Traders -> Nat]
    /\ fee_vault \in Nat

\* The band in exact arithmetic: price is within SANITY_BAND_BPS of mark.
WithinBand(price, mark) ==
    /\ (price - mark) * BPS_DENOMINATOR <= mark * SANITY_BAND_BPS
    /\ (mark - price) * BPS_DENOMINATOR <= mark * SANITY_BAND_BPS

\* Behind every gated order there is a price that the source the market had
\* pinned at that moment published for the pinned feed, no more than
\* MAX_ORACLE_STALENESS_SLOTS before: whoever wrote the account the caller
\* named, whichever program owned it before, and however often the market was
\* pinned anew.  The order's price is in the band of it.
PricedByItsSource ==
    last # NoOrder =>
        \E p \in published :
            /\ p.by = last.source /\ p.feed = last.feed
            /\ p.slot <= last.slot
            /\ last.slot - p.slot <= MAX_ORACLE_STALENESS_SLOTS
            /\ p.price > 0
            /\ WithinBand(last.price, p.price)

\* The gates let through what they are for: while an account holds what the
\* pinned source published last, fresh and positive, an order at that price
\* can be placed by a trader who can pay its fee.
ServedWhenFresh ==
    \A market \in Markets, a \in FeedAccounts, user \in Traders, p \in published, size \in Sizes :
        LET pin == pins[market]
            genuine == /\ p.price > 0 /\ now - p.slot <= MAX_ORACLE_STALENESS_SLOTS
                       /\ active[market] < ORDER_CAPACITY
                       /\ size > 0 /\ Covers(user, ProtocolFee(Notional(p.price, size)))
        IN /\ /\ genuine
              /\ pin.v1_price_account = a /\ accounts[a].owner = pin.v1_program
              /\ p.by = pin.v1_program /\ p.feed = a
              /\ accounts[a].data = <<"V1", "Trading", p.price, p.slot>>
              => ENABLED PlaceOrderCheckedPyth(user, market, market, a, p.price, size)
           /\ /\ genuine
              /\ accounts[a].owner = pin.v2_receiver /\ p.by = pin.v2_receiver
              /\ p.feed = pin.v2_feed_id
              /\ \E rest \in 0 .. MaxSlot :
                    accounts[a].data = <<"V2", FULL, p.feed, p.price, p.slot, rest>>
              => ENABLED PlaceOrderCheckedPythV2(user, market, market, a, p.price, size)

=============================================================================
