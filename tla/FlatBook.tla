------------------------------- MODULE FlatBook -------------------------------
(***************************************************************************)
(* The flat order book of Chapters 7 and 8: an array of ORDER_CAPACITY     *)
(* slots that bids and asks share, scanned from slot 0.  A slot of size 0  *)
(* is empty.  PlaceOrder takes the first empty slot, CancelOrder zeroes a  *)
(* slot, Match scans the array once per fill.                              *)
(*                                                                         *)
(* An instruction that fails changes nothing, so a failing call is not an  *)
(* action.  Match is one action per turn of its loop: taker holds the      *)
(* loop's state, and the other instructions wait for it, as they do for    *)
(* the write lock on the book account.                                     *)
(***************************************************************************)
EXTENDS Integers, FiniteSetsExt

CONSTANTS
    Traders,         \* the signers
    NoTrader,        \* the all-zero owner of an empty slot
    ORDER_CAPACITY,  \* slots of the book (32 in the program)
    U64_MAX,         \* where next_order_id saturates
    Prices,          \* prices an instruction carries
    Sizes,           \* sizes an instruction carries
    FillCaps,        \* the max_fills an instruction carries
    NoTaker          \* no match under way

VARIABLES
    slots,           \* the array
    next_order_id,
    active_count,
    taker            \* the Match under way, or NoTaker

vars == <<slots, next_order_id, active_count, taker>>

Sides == {"BID", "ASK"}
Slots == 0 .. ORDER_CAPACITY - 1

SlotValues == [order_id : Nat, owner : Traders \union {NoTrader},
               side : Sides, price : Nat, size : Nat]
Takers == [side : Sides, limit : Nat, remaining : Nat, fills_left : Nat]

ASSUME CapacityAssumption == ORDER_CAPACITY \in Nat \ {0}
ASSUME IdAssumption == U64_MAX \in Nat \ {0}
ASSUME InputAssumption == Prices \subseteq Nat /\ Sizes \subseteq Nat /\ FillCaps \subseteq Nat
ASSUME TakerAssumption == NoTaker \notin Takers

----------------------------------------------------------------------------
\* Order::zeroed(): what an empty slot holds.
Zeroed == [order_id |-> 0, owner |-> NoTrader, side |-> "BID", price |-> 0, size |-> 0]

Occupied == {i \in Slots : slots[i].size # 0}
Empty == {i \in Slots : slots[i].size = 0}

\* The saturating arithmetic of the two counters. (mutants: ids taken from
\* the number of resting orders; a count that is never taken down)
CountInc(n) == active_count + 1
SatInc(n) == IF n < U64_MAX THEN n + 1 ELSE n
NoDec(n) == n
SatDec(n) == IF n > 0 THEN n - 1 ELSE 0

----------------------------------------------------------------------------
(* The scan of Match.                                                       *)

Acceptable(t, price) == IF t.side = "BID" THEN price <= t.limit ELSE price >= t.limit

\* The slots the scan does not skip.
Candidates(t) == {i \in Occupied : slots[i].side # t.side /\ Acceptable(t, slots[i].price)}

\* p is strictly better than q for the taker: only then does the scan let go
\* of the slot it holds.
IsBetter(t, p, q) == IF t.side = "BID" THEN p < q ELSE p > q

\* What a fill trades. (mutant: the maker's whole size)
WholeMaker(t, i) == slots[i].size
FillSize(t, i) == Min({t.remaining, slots[i].size})

\* The slot the scan ends with: the first of those no slot is better than.
\* (mutant: the first acceptable slot)
FirstAcceptable(t) == Min(Candidates(t))
BestSlot(t) ==
    Min({i \in Candidates(t) :
            \A j \in Candidates(t) : ~IsBetter(t, slots[j].price, slots[i].price)})

----------------------------------------------------------------------------
\* The book as CreateOrderBook leaves it.
Init ==
    /\ slots = [i \in Slots |-> Zeroed]
    /\ next_order_id = 1
    /\ active_count = 0
    /\ taker = NoTaker

\* A failed scan for a slot rejects the order (the addition to active_count
\* saturates in the code, at u32, which ORDER_CAPACITY is far below).
PlaceOrder(user, side, price, size) ==
    /\ taker = NoTaker
    /\ price # 0 /\ size # 0
    /\ Empty # {}
    /\ slots' = [slots EXCEPT ![Min(Empty)] =
            [order_id |-> next_order_id, owner |-> user,
             side |-> side, price |-> price, size |-> size]]
    /\ next_order_id' = SatInc(next_order_id)
    /\ active_count' = active_count + 1
    /\ UNCHANGED taker

\* The first slot that holds the id decides, and its owner must have signed.
CancelOrder(user, order_id) ==
    LET found == {i \in Occupied : slots[i].order_id = order_id}
    IN /\ taker = NoTaker
       /\ found # {}
       /\ slots[Min(found)].owner = user
       /\ slots' = [slots EXCEPT ![Min(found)] = Zeroed]
       /\ active_count' = SatDec(active_count)
       /\ UNCHANGED <<next_order_id, taker>>

Match(side, limit, size, max_fills) ==
    /\ taker = NoTaker
    /\ limit # 0 /\ size # 0 /\ max_fills # 0
    /\ taker' = [side |-> side, limit |-> limit, remaining |-> size, fills_left |-> max_fills]
    /\ UNCHANGED <<slots, next_order_id, active_count>>

\* One turn of the loop. A maker left with size 0 has its slot zeroed.
MatchFill ==
    /\ taker # NoTaker
    /\ taker.remaining > 0 /\ taker.fills_left > 0
    /\ Candidates(taker) # {}
    /\ LET i == BestSlot(taker)
           fill_size == FillSize(taker, i)
           consumed == slots[i].size - fill_size = 0
       IN /\ slots' = [slots EXCEPT ![i] =
                            IF consumed THEN Zeroed ELSE [slots[i] EXCEPT !.size = @ - fill_size]]
          /\ active_count' = IF consumed THEN SatDec(active_count) ELSE active_count
          /\ taker' = [taker EXCEPT !.remaining = @ - fill_size, !.fills_left = @ - 1]
    /\ UNCHANGED next_order_id

\* The loop's exits: taker filled, cap reached, or no acceptable maker.
MatchEnd ==
    /\ taker # NoTaker
    /\ taker.remaining = 0 \/ taker.fills_left = 0 \/ Candidates(taker) = {}
    /\ taker' = NoTaker
    /\ UNCHANGED <<slots, next_order_id, active_count>>

Next ==
    \/ \E user \in Traders, side \in Sides, price \in Prices, size \in Sizes :
            PlaceOrder(user, side, price, size)
    \/ \E user \in Traders, order_id \in 0 .. next_order_id : CancelOrder(user, order_id)
    \/ \E side \in Sides, limit \in Prices, size \in Sizes, max_fills \in FillCaps :
            Match(side, limit, size, max_fills)
    \/ MatchFill
    \/ MatchEnd

Spec == Init /\ [][Next]_vars

----------------------------------------------------------------------------
(* Properties.                                                              *)

\* The variables hold what their Rust types and the constants allow; no
\* subtraction goes below zero.
TypeOK ==
    /\ slots \in [Slots -> SlotValues]
    /\ next_order_id \in 1 .. U64_MAX
    /\ active_count \in 0 .. ORDER_CAPACITY
    /\ taker \in Takers \union {NoTaker}

\* active_count is the number of slots with size # 0, as state/src/lib.rs
\* says of it, although three handlers keep it up independently of the slots
\* and with arithmetic that hides a miscount.
ActiveCountExact == active_count = Cardinality(Occupied)

\* CancelOrder names an order by its id alone and takes the first slot that
\* matches: resting orders have distinct ids, all below next_order_id, until
\* the id counter saturates.
IdsDistinct ==
    \A i \in Occupied :
        /\ slots[i].order_id <= next_order_id
        /\ slots[i].order_id = next_order_id => next_order_id = U64_MAX
        /\ \A j \in Occupied \ {i} :
                slots[i].order_id = slots[j].order_id => slots[i].order_id = U64_MAX

RestingOrders ==
    [i \in Occupied |-> [id |-> slots[i].order_id, side |-> slots[i].side,
                         price |-> slots[i].price, size |-> slots[i].size]]

PriceBook == INSTANCE PriceTimeBook WITH
    Handles <- Slots, MaxOrderId <- U64_MAX, TimePriority <- FALSE, Cancellable <- TRUE,
    resting <- RestingOrders, next_id <- next_order_id

\* The array scan matches as a price-priority book does: each fill is at the
\* best price on offer, orders change by nothing but fills and cancels, and a
\* match that stops with fills and size to spare leaves nothing that crosses.
RefinesPriceBook == PriceBook!Spec

\* Chapter 8 section 8.5 says of this matcher that "price-time priority is
\* what we did": a maker is never filled while an older order rests at its
\* price on its side.
OldestFirst ==
    [][\A i \in Occupied :
        taker # NoTaker /\ slots'[i] # slots[i] =>
            \A j \in Occupied :
                slots[j].side = slots[i].side /\ slots[j].price = slots[i].price
                    => slots[i].order_id <= slots[j].order_id]_vars

=============================================================================
