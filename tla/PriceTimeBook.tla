---------------------------- MODULE PriceTimeBook ----------------------------
(***************************************************************************)
(* What an order book promises, whatever it is built from.                 *)
(*                                                                         *)
(* Orders rest under handles.  A taker crosses the other side one fill at  *)
(* a time, always against an order of the best price that its limit        *)
(* accepts, and, if TimePriority holds, against the oldest of those.  It   *)
(* stops when it is filled, when it has used up its fills, or when nothing *)
(* crosses, and for no other reason.  Nothing else touches the book while  *)
(* a match is under way: a Solana instruction holds the book's write lock. *)
(*                                                                         *)
(* Slab (Chapter 15) is shown to implement it with TimePriority, FlatBook  *)
(* (Chapters 7 and 8) without.                                             *)
(***************************************************************************)
EXTENDS Integers, FiniteSetsExt

CONSTANTS
    Handles,       \* the places an order can rest in
    MaxOrderId,    \* order ids are issued in order, up to this one
    TimePriority,  \* TRUE: the oldest order of a price is filled first
    Cancellable,   \* TRUE: a resting order may be withdrawn
    NoTaker        \* the value of taker between two matches, none of Takers

VARIABLES
    resting,       \* the resting orders, a function on the handles in use
    next_id,       \* the id of the next order
    taker          \* the match under way, or NoTaker

bookVars == <<resting, next_id, taker>>

Sides == {"BID", "ASK"}

Orders == [id : Nat, side : Sides, price : Nat \ {0}, size : Nat \ {0}]
Takers == [side : Sides, limit : Nat, remaining : Nat, fills_left : Nat]

----------------------------------------------------------------------------
(* The orders a taker may be filled against.                                *)

\* A bid buys at its limit or below, an ask sells at its limit or above.
Accepts(t, price) == IF t.side = "BID" THEN price <= t.limit ELSE price >= t.limit

Crossing(book, t) ==
    {h \in DOMAIN book : book[h].side # t.side /\ Accepts(t, book[h].price)}

\* The price of g is at least as good as that of h for the taker t.
NoWorse(t, g, h) == IF t.side = "BID" THEN g.price <= h.price ELSE g.price >= h.price

Best(book, t) ==
    LET crossing == Crossing(book, t)
    IN {h \in crossing :
            \A g \in crossing :
                /\ NoWorse(t, book[h], book[g])
                /\ TimePriority /\ book[g].price = book[h].price
                    => book[h].id <= book[g].id}

----------------------------------------------------------------------------
Init ==
    /\ resting = [h \in {} |-> 0]
    /\ next_id \in {0, 1}
    /\ taker = NoTaker

\* The new order rests under a handle that was free, with the next id.
Place ==
    /\ taker = NoTaker
    /\ next_id' = Min({next_id + 1, MaxOrderId})
    /\ LET before == resting
           after == resting'
       IN \E h \in Handles \ DOMAIN before :
            /\ DOMAIN after = DOMAIN before \union {h}
            /\ after[h] \in Orders /\ after[h].id = next_id
            /\ \A g \in DOMAIN before : after[g] = before[g]
    /\ UNCHANGED taker

Cancel ==
    /\ Cancellable
    /\ taker = NoTaker
    /\ LET book == resting
       IN \E h \in DOMAIN book : resting' = [g \in DOMAIN book \ {h} |-> book[g]]
    /\ UNCHANGED <<next_id, taker>>

Take ==
    /\ taker = NoTaker
    /\ taker' \in Takers
    /\ UNCHANGED <<resting, next_id>>

\* Taker and maker both give up the smaller of their sizes. A maker with
\* nothing left leaves the book.
Fill ==
    /\ taker # NoTaker
    /\ taker.remaining > 0 /\ taker.fills_left > 0
    /\ LET book == resting
       IN \E h \in Best(book, taker) :
            LET traded == Min({taker.remaining, book[h].size})
            IN /\ taker' = [taker EXCEPT !.remaining = @ - traded, !.fills_left = @ - 1]
               /\ resting' = IF traded = book[h].size
                             THEN [g \in DOMAIN book \ {h} |-> book[g]]
                             ELSE [book EXCEPT ![h].size = @ - traded]
    /\ UNCHANGED next_id

Done ==
    /\ taker # NoTaker
    /\ taker.remaining = 0 \/ taker.fills_left = 0 \/ Crossing(resting, taker) = {}
    /\ taker' = NoTaker
    /\ UNCHANGED <<resting, next_id>>

Next == Place \/ Cancel \/ Take \/ Fill \/ Done

Spec == Init /\ [][Next]_bookVars

=============================================================================
