--------------------------- MODULE FlatBook_proofs ---------------------------
(***************************************************************************)
(* Proofs about FlatBook for every number of slots, every set of traders   *)
(* and every set of inputs: counters and ids are exact, the book is a      *)
(* price book, for the fee gate it is its count, and what order equal      *)
(* prices fill in.                                                         *)
(***************************************************************************)
EXTENDS FlatBook, TLAPS, FiniteSetTheorems, WellFoundedInduction

----------------------------------------------------------------------------
(* The two minima that the scans compute.                                   *)

\* Every nonempty set of naturals has a least element, and Min is it: what
\* "the first slot such that" relies on.
LEMMA MinOfNaturals ==
    ASSUME NEW S \in SUBSET Nat, S # {}
    PROVE  Min(S) \in S /\ \A x \in S : Min(S) <= x
<1> DEFINE R == {p \in Nat \X Nat : p[1] < p[2]}
<1>1. IsWellFoundedOn(R, Nat)
    BY NatLessThanWellFounded DEF OpToRel
<1>2. PICK m \in S : \A x \in S : ~ <<x, m>> \in R
    BY <1>1, WFMin
<1>3. ASSUME NEW x \in S PROVE m <= x
    <2>1. ~ <<x, m>> \in R
        BY <1>2
    <2> QED
        BY <2>1
<1> QED
    BY <1>2, <1>3 DEF Min

\* The minimum of two naturals, as FillSize uses it.
LEMMA MinOfTwo ==
    ASSUME NEW a \in Nat, NEW b \in Nat
    PROVE  /\ Min({a, b}) \in Nat
           /\ Min({a, b}) = a \/ Min({a, b}) = b
           /\ Min({a, b}) <= a /\ Min({a, b}) <= b
<1>1. {a, b} \in SUBSET Nat /\ {a, b} # {}
    OBVIOUS
<1>2. Min({a, b}) \in {a, b} /\ \A x \in {a, b} : Min({a, b}) <= x
    BY <1>1, MinOfNaturals
<1> QED
    BY <1>2

\* The book has finitely many slots, ORDER_CAPACITY of them.
LEMMA SlotsFinite == IsFiniteSet(Slots) /\ Cardinality(Slots) = ORDER_CAPACITY
BY FS_Interval, CapacityAssumption DEF Slots

\* Any set of slots is finite and has at most ORDER_CAPACITY members. The
\* occupied slots are one, before and after a step.
LEMMA SlotSetFinite ==
    ASSUME NEW S \in SUBSET Slots
    PROVE  IsFiniteSet(S) /\ Cardinality(S) \in 0 .. ORDER_CAPACITY
<1>1. IsFiniteSet(S) /\ Cardinality(S) <= ORDER_CAPACITY
    BY SlotsFinite, FS_Subset
<1> QED
    BY <1>1, FS_CardinalityType, CapacityAssumption

\* Occupied is a set of slots, before and after a step.
LEMMA OccupiedAreSlots == Occupied \in SUBSET Slots /\ Occupied' \in SUBSET Slots
BY DEF Occupied

\* If some slot crosses, BestSlot is one that does and none has a better
\* price. The prices on offer have a best one because the slots are finitely
\* many: a slot with the fewest better slots has none.
LEMMA BestSlotIsBest ==
    ASSUME TypeOK, NEW t \in Takers, Candidates(t) # {}
    PROVE  /\ BestSlot(t) \in Candidates(t)
           /\ \A j \in Candidates(t) :
                ~ IsBetter(t, slots[j].price, slots[BestSlot(t)].price)
<1> DEFINE C == Candidates(t)
           Better(i) == {j \in C : IsBetter(t, slots[j].price, slots[i].price)}
           F == {Better(i) : i \in C}
<1>1. /\ C \in SUBSET Slots /\ IsFiniteSet(C)
      /\ \A i \in C : slots[i].price \in Nat
    <2>1. C \in SUBSET Slots
        BY DEF Candidates, Occupied
    <2>2. IsFiniteSet(C)
        BY <2>1, SlotsFinite, FS_Subset
    <2> QED
        BY <2>1, <2>2 DEF TypeOK, SlotValues
<1>2. PICK i \in C : \A A \in F : ~ <<A, Better(i)>> \in StrictSubsetOrdering(C)
    <2>1. F \subseteq FiniteSubsetsOf(C)
        BY <1>1, FS_FiniteSubsetsOfFinite
    <2>2. F # {}
        OBVIOUS
    <2>3. IsWellFoundedOn(StrictSubsetOrdering(C), FiniteSubsetsOf(C))
        BY FS_StrictSubsetOrderingWellFounded
    <2>4. \E B \in F : \A A \in F : ~ <<A, B>> \in StrictSubsetOrdering(C)
        <3> HIDE DEF F
        <3> QED BY <2>1, <2>2, <2>3, WFMin
    <2> QED
        BY <2>4
<1>3. \A j \in C : ~ IsBetter(t, slots[j].price, slots[i].price)
    <2> SUFFICES ASSUME NEW j \in C, IsBetter(t, slots[j].price, slots[i].price)
                 PROVE  FALSE
        OBVIOUS
    <2>1. Better(j) \subseteq Better(i)
        BY <1>1 DEF IsBetter
    <2>2. j \in Better(i) /\ j \notin Better(j)
        BY <1>1 DEF IsBetter
    <2>3. <<Better(j), Better(i)>> \in StrictSubsetOrdering(C)
        BY <2>1, <2>2 DEF StrictSubsetOrdering
    <2> QED
        BY <2>3, <1>2
<1> DEFINE Top == {k \in C : \A j \in C : ~ IsBetter(t, slots[j].price, slots[k].price)}
<1>4. Top \in SUBSET Nat /\ Top # {}
    BY <1>1, <1>3, CapacityAssumption DEF Slots
<1>5. Min(Top) \in Top
    BY <1>4, MinOfNaturals
<1>6. BestSlot(t) = Min(Top)
    BY DEF BestSlot
<1> QED
    BY <1>5, <1>6

----------------------------------------------------------------------------
(* What writing one slot does to the set of occupied ones.                  *)

\* The first empty slot is an empty slot.
LEMMA FirstEmpty ==
    ASSUME Empty # {}
    PROVE  Min(Empty) \in Slots /\ slots[Min(Empty)].size = 0
<1>1. Empty \in SUBSET Nat
    BY CapacityAssumption DEF Empty, Slots
<1>2. Min(Empty) \in Empty
    BY <1>1, MinOfNaturals
<1> QED
    BY <1>2 DEF Empty

\* The slot CancelOrder settles on is occupied and holds the id.
LEMMA FirstFound ==
    ASSUME NEW order_id, NEW found,
           found = {i \in Occupied : slots[i].order_id = order_id}, found # {}
    PROVE  Min(found) \in Occupied /\ slots[Min(found)].order_id = order_id
<1>1. found \in SUBSET Nat
    BY CapacityAssumption DEF Occupied, Slots
<1> QED
    BY <1>1, MinOfNaturals

\* A slot that is given a size joins the occupied ones, one left with none
\* leaves them.
LEMMA WriteSlot ==
    ASSUME TypeOK, NEW i \in Slots, NEW o \in SlotValues,
           slots' = [slots EXCEPT ![i] = o]
    PROVE  /\ slots' \in [Slots -> SlotValues]
           /\ o.size # 0 => Occupied' = Occupied \union {i}
           /\ o.size = 0 => Occupied' = Occupied \ {i}
BY DEF TypeOK, Occupied

----------------------------------------------------------------------------
(* Type correctness and the exact count. The count is what keeps            *)
(* active_count within the capacity, so the two are proved together.        *)

\* A new book is empty and counts no order.
LEMMA InitIInv == Init => TypeOK /\ ActiveCountExact
<1> SUFFICES ASSUME Init PROVE TypeOK /\ ActiveCountExact
    OBVIOUS
<1>1. Occupied = {}
    BY DEF Init, Occupied, Zeroed
<1>2. ActiveCountExact
    BY <1>1, FS_EmptySet DEF Init, ActiveCountExact
<1>3. TypeOK
    BY CapacityAssumption, IdAssumption
    DEF Init, TypeOK, SlotValues, Zeroed, Sides
<1> QED
    BY <1>2, <1>3

\* PlaceOrder fills an empty slot and counts one up.
LEMMA PlaceOrderIInv ==
    ASSUME TypeOK, ActiveCountExact,
           NEW user \in Traders, NEW side \in Sides, NEW price \in Prices, NEW size \in Sizes,
           PlaceOrder(user, side, price, size)
    PROVE  TypeOK' /\ ActiveCountExact'
<1> DEFINE i == Min(Empty)
           order == [order_id |-> next_order_id, owner |-> user,
                     side |-> side, price |-> price, size |-> size]
<1>1. i \in Slots /\ slots[i].size = 0
    BY FirstEmpty DEF PlaceOrder
<1>2. order \in SlotValues /\ order.size # 0
    BY IdAssumption, InputAssumption DEF PlaceOrder, TypeOK, SlotValues
<1>3. slots' = [slots EXCEPT ![i] = order]
    BY DEF PlaceOrder
<1>4. slots' \in [Slots -> SlotValues] /\ Occupied' = Occupied \union {i} /\ i \notin Occupied
    <2> HIDE DEF i, order
    <2> QED
        BY <1>1, <1>2, <1>3, WriteSlot DEF Occupied
<1>5. Cardinality(Occupied') = Cardinality(Occupied) + 1
    BY <1>4, OccupiedAreSlots, SlotSetFinite, FS_AddElement
<1>6. ActiveCountExact'
    BY <1>5 DEF PlaceOrder, ActiveCountExact
<1>7. Cardinality(Occupied') \in 0 .. ORDER_CAPACITY
    BY OccupiedAreSlots, SlotSetFinite
<1>8. next_order_id' \in 1 .. U64_MAX
    BY IdAssumption DEF PlaceOrder, SatInc, TypeOK
<1> QED
    BY <1>4, <1>6, <1>7, <1>8 DEF TypeOK, ActiveCountExact, PlaceOrder

\* CancelOrder empties an occupied slot and counts one down.
LEMMA CancelOrderIInv ==
    ASSUME TypeOK, ActiveCountExact,
           NEW user \in Traders, NEW order_id, CancelOrder(user, order_id)
    PROVE  TypeOK' /\ ActiveCountExact'
<1> DEFINE found == {k \in Occupied : slots[k].order_id = order_id}
           i == Min(found)
<1>1. i \in Occupied /\ i \in Slots
    BY FirstFound DEF CancelOrder, Occupied
<1>2. slots' = [slots EXCEPT ![i] = Zeroed]
    BY DEF CancelOrder
<1>3. slots' \in [Slots -> SlotValues] /\ Occupied' = Occupied \ {i}
    <2> HIDE DEF i
    <2>1. Zeroed \in SlotValues /\ Zeroed.size = 0
        BY DEF Zeroed, SlotValues, Sides
    <2> QED
        BY <1>1, <1>2, <2>1, WriteSlot
<1>4. Cardinality(Occupied') = Cardinality(Occupied) - 1
    BY <1>1, <1>3, OccupiedAreSlots, SlotSetFinite, FS_RemoveElement
<1>5. Cardinality(Occupied') \in 0 .. ORDER_CAPACITY
    BY OccupiedAreSlots, SlotSetFinite
<1>6. active_count' = Cardinality(Occupied')
    BY <1>4, <1>5, OccupiedAreSlots, SlotSetFinite DEF CancelOrder, ActiveCountExact, SatDec
<1> QED
    BY <1>3, <1>5, <1>6 DEF TypeOK, ActiveCountExact, CancelOrder

\* What a fill trades: no more than either party has, and something.
LEMMA FillSizeBounds ==
    ASSUME TypeOK, taker \in Takers, NEW i \in Slots
    PROVE  /\ FillSize(taker, i) \in Nat
           /\ FillSize(taker, i) <= taker.remaining
           /\ FillSize(taker, i) <= slots[i].size
           /\ FillSize(taker, i) \in {taker.remaining, slots[i].size}
<1>1. taker.remaining \in Nat /\ slots[i].size \in Nat
    BY DEF TypeOK, SlotValues, Takers
<1> QED
    BY <1>1, MinOfTwo DEF FillSize

\* MatchFill takes what a fill trades from a maker and from the taker. It
\* empties the slot, and counts one down, exactly when it takes all of it.
LEMMA MatchFillIInv ==
    ASSUME TypeOK, ActiveCountExact, MatchFill
    PROVE  TypeOK' /\ ActiveCountExact'
<1> DEFINE i == BestSlot(taker)
           f == FillSize(taker, i)
           rest == IF slots[i].size - f = 0 THEN Zeroed ELSE [slots[i] EXCEPT !.size = @ - f]
<1>1. taker \in Takers
    BY DEF TypeOK, MatchFill
<1>2. i \in Occupied /\ i \in Slots
    BY <1>1, BestSlotIsBest DEF MatchFill, Candidates, Occupied
<1>3. /\ f \in Nat /\ f <= taker.remaining /\ f <= slots[i].size
      /\ slots[i] \in SlotValues
    BY <1>1, <1>2, FillSizeBounds DEF TypeOK
<1>4. /\ rest \in SlotValues
      /\ rest.size = 0 <=> slots[i].size - f = 0
    BY <1>3 DEF Zeroed, SlotValues, Sides
<1>5. slots' = [slots EXCEPT ![i] = rest]
    BY DEF MatchFill
<1>6. /\ slots' \in [Slots -> SlotValues]
      /\ slots[i].size - f = 0 => Occupied' = Occupied \ {i}
      /\ slots[i].size - f # 0 => Occupied' = Occupied
    <2> HIDE DEF i, rest
    <2> QED
        BY <1>2, <1>4, <1>5, WriteSlot DEF Occupied
<1>7. active_count' = IF slots[i].size - f = 0 THEN SatDec(active_count) ELSE active_count
    BY DEF MatchFill
<1>8. ActiveCountExact' /\ active_count' \in 0 .. ORDER_CAPACITY
    <2> HIDE DEF i, f
    <2>1. CASE slots[i].size - f = 0
        <3>1. Cardinality(Occupied') = Cardinality(Occupied) - 1
            BY <1>2, <1>6, <2>1, OccupiedAreSlots, SlotSetFinite, FS_RemoveElement
        <3>2. Cardinality(Occupied') \in 0 .. ORDER_CAPACITY
            BY OccupiedAreSlots, SlotSetFinite
        <3> QED
            BY <1>7, <2>1, <3>1, <3>2, OccupiedAreSlots, SlotSetFinite
            DEF ActiveCountExact, SatDec
    <2>2. CASE slots[i].size - f # 0
        BY <1>6, <1>7, <2>2 DEF ActiveCountExact, TypeOK
    <2> QED
        BY <2>1, <2>2
<1>9. taker' \in Takers
    <2>1. /\ taker' = [taker EXCEPT !.remaining = @ - f, !.fills_left = @ - 1]
          /\ taker.fills_left > 0
        BY DEF MatchFill
    <2>2. /\ taker.remaining \in Nat /\ taker.fills_left \in Nat
          /\ taker.remaining - f \in Nat /\ taker.fills_left - 1 \in Nat
        <3>1. taker.remaining \in Nat /\ taker.fills_left \in Nat
            BY <1>1 DEF Takers
        <3> HIDE DEF f
        <3> QED
            BY <1>3, <2>1, <3>1
    <2> HIDE DEF f
    <2> QED
        BY <1>1, <2>1, <2>2 DEF Takers
<1> QED
    BY <1>6, <1>8, <1>9 DEF TypeOK, MatchFill

\* Every step keeps the types and the exact count: a case for each action.
LEMMA NextIInv == TypeOK /\ ActiveCountExact /\ [Next]_vars => TypeOK' /\ ActiveCountExact'
<1> SUFFICES ASSUME TypeOK, ActiveCountExact, [Next]_vars
             PROVE  TypeOK' /\ ActiveCountExact'
    OBVIOUS
<1>1. CASE \E user \in Traders, side \in Sides, price \in Prices, size \in Sizes :
                PlaceOrder(user, side, price, size)
    BY <1>1, PlaceOrderIInv
<1>2. CASE \E user \in Traders, order_id \in 0 .. next_order_id : CancelOrder(user, order_id)
    BY <1>2, CancelOrderIInv
<1>3. CASE \E side \in Sides, limit \in Prices, size \in Sizes, max_fills \in FillCaps :
                Match(side, limit, size, max_fills)
    <2>1. Occupied' = Occupied
        BY <1>3 DEF Match, Occupied
    <2> QED
        BY <1>3, <2>1, InputAssumption DEF Match, TypeOK, ActiveCountExact, Takers
<1>4. CASE MatchFill
    BY <1>4, MatchFillIInv
<1>5. CASE MatchEnd
    BY <1>5 DEF MatchEnd, TypeOK, ActiveCountExact, Occupied
<1>6. CASE UNCHANGED vars
    BY <1>6 DEF vars, TypeOK, ActiveCountExact, Occupied
<1> QED
    BY <1>1, <1>2, <1>3, <1>4, <1>5, <1>6 DEF Next

\* In every reachable state the variables hold what their Rust types allow:
\* no size, count or fill budget is ever taken below zero.
THEOREM TypeCorrect == Spec => []TypeOK
BY InitIInv, NextIInv, PTL DEF Spec

\* active_count is always the number of occupied slots, although PlaceOrder,
\* CancelOrder and Match keep it up on their own.
THEOREM ActiveCount == Spec => []ActiveCountExact
BY InitIInv, NextIInv, PTL DEF Spec

----------------------------------------------------------------------------
(* Distinct ids.                                                            *)

\* A step that adds no occupied slot and changes no id keeps ids distinct.
LEMMA IdsKept ==
    ASSUME TypeOK, IdsDistinct, Occupied' \subseteq Occupied,
           \A k \in Occupied' : slots'[k].order_id = slots[k].order_id,
           next_order_id' = next_order_id
    PROVE  IdsDistinct'
BY DEF IdsDistinct

\* A new order's id is new, unless the counter is stuck at its last value.
LEMMA PlaceOrderIds ==
    ASSUME TypeOK, IdsDistinct,
           NEW user \in Traders, NEW side \in Sides, NEW price \in Prices, NEW size \in Sizes,
           PlaceOrder(user, side, price, size)
    PROVE  IdsDistinct'
<1> DEFINE i == Min(Empty)
           order == [order_id |-> next_order_id, owner |-> user,
                     side |-> side, price |-> price, size |-> size]
<1>1. i \in Slots /\ slots[i].size = 0
    BY FirstEmpty DEF PlaceOrder
<1>2. order \in SlotValues /\ order.size # 0
    BY IdAssumption, InputAssumption DEF PlaceOrder, TypeOK, SlotValues
<1>3. slots' = [slots EXCEPT ![i] = order]
    BY DEF PlaceOrder
<1>4. Occupied' = Occupied \union {i} /\ i \notin Occupied
    <2> HIDE DEF i, order
    <2> QED
        BY <1>1, <1>2, <1>3, WriteSlot DEF Occupied
<1>5. /\ slots'[i].order_id = next_order_id
      /\ \A k \in Occupied : slots'[k].order_id = slots[k].order_id
    <2> HIDE DEF i
    <2> QED
        BY <1>1, <1>3, <1>4 DEF TypeOK, Occupied
<1>6. \A k \in Occupied : slots[k].order_id \in Nat
    BY DEF TypeOK, SlotValues, Occupied
<1>7. /\ next_order_id \in Nat /\ U64_MAX \in Nat /\ next_order_id <= U64_MAX
      /\ next_order_id' = IF next_order_id < U64_MAX THEN next_order_id + 1 ELSE next_order_id
    BY IdAssumption DEF PlaceOrder, SatInc, TypeOK
<1> HIDE DEF i, order
<1>8. ASSUME NEW k \in Occupied'
      PROVE  /\ slots'[k].order_id <= next_order_id'
             /\ slots'[k].order_id = next_order_id' => next_order_id' = U64_MAX
    <2>1. CASE k = i
        BY <2>1, <1>5, <1>7
    <2>2. CASE k \in Occupied
        BY <2>2, <1>5, <1>6, <1>7 DEF IdsDistinct
    <2> QED
        BY <1>4, <2>1, <2>2
<1>9. ASSUME NEW k \in Occupied', NEW j \in Occupied' \ {k},
             slots'[k].order_id = slots'[j].order_id
      PROVE  slots'[k].order_id = U64_MAX
    <2>1. CASE k = i
        BY <2>1, <1>4, <1>5, <1>6, <1>7, <1>9 DEF IdsDistinct
    <2>2. CASE j = i
        BY <2>2, <1>4, <1>5, <1>6, <1>7, <1>9 DEF IdsDistinct
    <2>3. CASE k \in Occupied /\ j \in Occupied
        BY <2>3, <1>5, <1>9 DEF IdsDistinct
    <2> QED
        BY <1>4, <2>1, <2>2, <2>3
<1> QED
    BY <1>8, <1>9 DEF IdsDistinct

\* CancelOrder adds no order and changes no id.
LEMMA CancelOrderIds ==
    ASSUME TypeOK, IdsDistinct,
           NEW user \in Traders, NEW order_id, CancelOrder(user, order_id)
    PROVE  IdsDistinct'
<1> DEFINE i == Min({k \in Occupied : slots[k].order_id = order_id})
<1>1. i \in Slots
    BY FirstFound DEF CancelOrder, Occupied
<1>2. slots' = [slots EXCEPT ![i] = Zeroed]
    BY DEF CancelOrder
<1>3. /\ Occupied' \subseteq Occupied
      /\ \A k \in Occupied' : slots'[k].order_id = slots[k].order_id
    <2> HIDE DEF i
    <2> QED
        BY <1>1, <1>2 DEF TypeOK, Occupied, Zeroed
<1> QED
    BY <1>3, IdsKept DEF CancelOrder

\* MatchFill changes sizes and empties slots, never an id.
LEMMA MatchFillIds ==
    ASSUME TypeOK, IdsDistinct, MatchFill
    PROVE  IdsDistinct'
<1> DEFINE i == BestSlot(taker)
           f == FillSize(taker, i)
           rest == IF slots[i].size - f = 0 THEN Zeroed ELSE [slots[i] EXCEPT !.size = @ - f]
<1>1. taker \in Takers
    BY DEF TypeOK, MatchFill
<1>2. i \in Occupied /\ i \in Slots
    BY <1>1, BestSlotIsBest DEF MatchFill, Candidates, Occupied
<1>3. slots' = [slots EXCEPT ![i] = rest]
    BY DEF MatchFill
<1>4. rest.size # 0 => rest.order_id = slots[i].order_id
    BY <1>2 DEF TypeOK, SlotValues, Zeroed
<1>5. /\ Occupied' \subseteq Occupied
      /\ \A k \in Occupied' : slots'[k].order_id = slots[k].order_id
    <2> HIDE DEF i, rest
    <2> QED
        BY <1>2, <1>3, <1>4 DEF TypeOK, Occupied
<1> QED
    BY <1>5, IdsKept DEF MatchFill

\* Every step keeps resting ids distinct: a case for each action.
LEMMA NextIds == TypeOK /\ IdsDistinct /\ [Next]_vars => IdsDistinct'
<1> SUFFICES ASSUME TypeOK, IdsDistinct, [Next]_vars
             PROVE  IdsDistinct'
    OBVIOUS
<1>1. CASE \E user \in Traders, side \in Sides, price \in Prices, size \in Sizes :
                PlaceOrder(user, side, price, size)
    BY <1>1, PlaceOrderIds
<1>2. CASE \E user \in Traders, order_id \in 0 .. next_order_id : CancelOrder(user, order_id)
    BY <1>2, CancelOrderIds
<1>3. CASE MatchFill
    BY <1>3, MatchFillIds
<1>4. CASE \/ \E side \in Sides, limit \in Prices, size \in Sizes, max_fills \in FillCaps :
                    Match(side, limit, size, max_fills)
           \/ MatchEnd
           \/ UNCHANGED vars
    <2>1. UNCHANGED <<slots, next_order_id>>
        BY <1>4 DEF Match, MatchEnd, vars
    <2> QED
        BY <2>1 DEF IdsDistinct, Occupied
<1> QED
    BY <1>1, <1>2, <1>3, <1>4 DEF Next

\* No two resting orders share an id, and none has the id of the next order,
\* until the counter saturates: CancelOrder, which knows an order by its id
\* alone, then withdraws the order that was meant.
THEOREM IdsUnique == Spec => []IdsDistinct
<1>1. Init => IdsDistinct
    BY DEF Init, IdsDistinct, Occupied, Zeroed
<1> QED
    BY <1>1, NextIds, TypeCorrect, PTL DEF Spec

----------------------------------------------------------------------------
(* FlatBook implements PriceTimeBook without time priority.                 *)

\* A new flat book is an empty abstract book.
LEMMA InitRefines == Init => PriceBook!Init
<1> SUFFICES ASSUME Init PROVE PriceBook!Init
    OBVIOUS
<1>1. Occupied = {}
    BY DEF Init, Occupied, Zeroed
<1> QED
    BY <1>1 DEF Init, PriceBook!Init, RestingOrders

\* PlaceOrder is Place: the order rests under a handle that was free.
LEMMA PlaceOrderRefines ==
    ASSUME TypeOK, 
           NEW user \in Traders, NEW side \in Sides, NEW price \in Prices, NEW size \in Sizes,
           PlaceOrder(user, side, price, size)
    PROVE  PriceBook!Place
<1> DEFINE i == Min(Empty)
           order == [order_id |-> next_order_id, owner |-> user,
                     side |-> side, price |-> price, size |-> size]
<1>1. i \in Slots /\ slots[i].size = 0
    BY FirstEmpty DEF PlaceOrder
<1>2. order \in SlotValues /\ order.size # 0 /\ price \in Nat \ {0} /\ size \in Nat \ {0}
    BY IdAssumption, InputAssumption DEF PlaceOrder, TypeOK, SlotValues
<1>3. slots' = [slots EXCEPT ![i] = order]
    BY DEF PlaceOrder
<1>4. Occupied' = Occupied \union {i} /\ i \notin Occupied
    <2> HIDE DEF i, order
    <2> QED
        BY <1>1, <1>2, <1>3, WriteSlot DEF Occupied
<1>5. /\ slots'[i] = order
      /\ \A k \in Occupied : slots'[k] = slots[k]
    <2> HIDE DEF i, order
    <2> QED
        BY <1>1, <1>3, <1>4 DEF TypeOK, Occupied
<1>6. RestingOrders'[i] = [id |-> next_order_id, side |-> side, price |-> price, size |-> size]
    <2> HIDE DEF i
    <2> QED
        BY <1>4, <1>5 DEF RestingOrders
<1>7. RestingOrders'[i] \in PriceBook!Orders /\ RestingOrders'[i].id = next_order_id
    BY <1>2, <1>6, IdAssumption DEF PriceBook!Orders, PriceBook!Sides, Sides, TypeOK
<1>8. \A k \in Occupied : RestingOrders'[k] = RestingOrders[k]
    BY <1>4, <1>5 DEF RestingOrders
<1>9. DOMAIN RestingOrders' = DOMAIN RestingOrders \union {i} /\ i \notin DOMAIN RestingOrders
    BY <1>4 DEF RestingOrders
<1>10. next_order_id' = PriceBook!Min({next_order_id + 1, U64_MAX})
    <2>1. next_order_id \in Nat /\ U64_MAX \in Nat /\ next_order_id <= U64_MAX
        BY IdAssumption DEF TypeOK
    <2>2. PriceBook!Min({next_order_id + 1, U64_MAX}) = Min({next_order_id + 1, U64_MAX})
        BY DEF Min, PriceBook!Min
    <2>3. Min({next_order_id + 1, U64_MAX}) = SatInc(next_order_id)
        BY <2>1, MinOfTwo, next_order_id + 1 \in Nat DEF SatInc
    <2> QED
        BY <2>2, <2>3 DEF PlaceOrder
<1> QED
    <2> HIDE DEF i, order
    <2>1. taker = NoTaker /\ UNCHANGED taker
        BY DEF PlaceOrder
    <2>2. DOMAIN RestingOrders = Occupied
        BY DEF RestingOrders
    <2> QED
        BY <1>1, <1>7, <1>8, <1>9, <1>10, <2>1, <2>2 DEF PriceBook!Place

\* CancelOrder is Cancel: its slot leaves the book, the rest stays.
LEMMA CancelOrderRefines ==
    ASSUME TypeOK, NEW user \in Traders, NEW order_id, CancelOrder(user, order_id)
    PROVE  PriceBook!Cancel
<1> DEFINE i == Min({k \in Occupied : slots[k].order_id = order_id})
<1>1. i \in Slots /\ i \in Occupied
    BY FirstFound DEF CancelOrder, Occupied
<1>2. slots' = [slots EXCEPT ![i] = Zeroed]
    BY DEF CancelOrder
<1>3. /\ Occupied' = Occupied \ {i}
      /\ \A k \in Occupied' : slots'[k] = slots[k]
    <2> HIDE DEF i
    <2> QED
        BY <1>1, <1>2 DEF TypeOK, Occupied, Zeroed
<1>4. RestingOrders' = [g \in DOMAIN RestingOrders \ {i} |-> RestingOrders[g]]
    <2> HIDE DEF i
    <2> QED
        BY <1>3 DEF RestingOrders
<1>5. i \in DOMAIN RestingOrders
    BY <1>1 DEF RestingOrders
<1>6. taker = NoTaker /\ UNCHANGED <<next_order_id, taker>>
    BY DEF CancelOrder
<1> HIDE DEF i
<1> QED
    BY <1>4, <1>5, <1>6 DEF PriceBook!Cancel

\* Match is Take: a taker appears and the book stays.
LEMMA MatchRefines ==
    ASSUME TypeOK,
           NEW side \in Sides, NEW limit \in Prices, NEW size \in Sizes, NEW max_fills \in FillCaps,
           Match(side, limit, size, max_fills)
    PROVE  PriceBook!Take
<1>1. taker' \in PriceBook!Takers
    BY InputAssumption DEF Match, PriceBook!Takers, PriceBook!Sides, Sides
<1>2. RestingOrders' = RestingOrders
    BY DEF Match, RestingOrders, Occupied
<1> QED
    BY <1>1, <1>2 DEF Match, PriceBook!Take

\* The two books see the same crossing orders.
LEMMA SameCrossing ==
    ASSUME TypeOK, taker \in Takers
    PROVE  PriceBook!Crossing(RestingOrders, taker) = Candidates(taker)
BY DEF PriceBook!Crossing, PriceBook!Accepts, Candidates, Acceptable, RestingOrders

\* The slot that the scan settles on is a best order of the abstract book.
LEMMA BestSlotRefines ==
    ASSUME TypeOK, taker \in Takers, Candidates(taker) # {}
    PROVE  BestSlot(taker) \in PriceBook!Best(RestingOrders, taker)
<1> DEFINE i == BestSlot(taker)
<1>1. /\ i \in Candidates(taker)
      /\ \A j \in Candidates(taker) : ~ IsBetter(taker, slots[j].price, slots[i].price)
    BY BestSlotIsBest
<1>2. \A j \in Candidates(taker) : RestingOrders[j].price = slots[j].price /\ slots[j].price \in Nat
    BY DEF Candidates, RestingOrders, Occupied, TypeOK, SlotValues
<1> HIDE DEF i
<1>3. \A j \in Candidates(taker) : PriceBook!NoWorse(taker, RestingOrders[i], RestingOrders[j])
    BY <1>1, <1>2 DEF IsBetter, PriceBook!NoWorse
<1> QED
    BY <1>1, <1>3, SameCrossing DEF PriceBook!Best, i

\* MatchFill is Fill: taker and best maker give up the same amount.
LEMMA MatchFillRefines ==
    ASSUME TypeOK, MatchFill
    PROVE  PriceBook!Fill
<1> DEFINE i == BestSlot(taker)
           f == FillSize(taker, i)
           rest == IF slots[i].size - f = 0 THEN Zeroed ELSE [slots[i] EXCEPT !.size = @ - f]
<1>1. taker \in Takers
    BY DEF TypeOK, MatchFill
<1>2. /\ i \in PriceBook!Best(RestingOrders, taker)
      /\ i \in Occupied /\ i \in Slots
    BY <1>1, BestSlotRefines, BestSlotIsBest DEF MatchFill, Candidates, Occupied
<1>3. /\ f \in Nat /\ f <= slots[i].size
      /\ slots[i] \in SlotValues
    BY <1>1, <1>2, FillSizeBounds DEF TypeOK
<1>4. /\ rest \in SlotValues
      /\ rest.size = 0 <=> f = slots[i].size
    BY <1>3 DEF Zeroed, SlotValues, Sides
<1>5. slots' = [slots EXCEPT ![i] = rest]
    BY DEF MatchFill
<1>6. /\ f = slots[i].size => Occupied' = Occupied \ {i}
      /\ f # slots[i].size => Occupied' = Occupied
      /\ \A k \in Occupied \ {i} : slots'[k] = slots[k]
      /\ slots'[i] = rest
    <2> HIDE DEF i, rest
    <2> QED
        BY <1>2, <1>4, <1>5, WriteSlot DEF Occupied, TypeOK
<1>7. /\ RestingOrders[i] = [id |-> slots[i].order_id, side |-> slots[i].side,
                             price |-> slots[i].price, size |-> slots[i].size]
      /\ DOMAIN RestingOrders = Occupied
    <2> HIDE DEF i
    <2> QED
        BY <1>2 DEF RestingOrders
<1>8. f = PriceBook!Min({taker.remaining, RestingOrders[i].size})
    <2>1. RestingOrders[i].size = slots[i].size
        BY <1>7
    <2> QED
        BY <2>1 DEF FillSize, Min, PriceBook!Min
<1>9. RestingOrders' = IF f = RestingOrders[i].size
                       THEN [g \in DOMAIN RestingOrders \ {i} |-> RestingOrders[g]]
                       ELSE [RestingOrders EXCEPT ![i].size = @ - f]
    <2>1. CASE f = slots[i].size
        <3> HIDE DEF i, f, rest
        <3> QED
            BY <1>6, <1>7, <2>1 DEF RestingOrders
    <2>2. CASE f # slots[i].size
        <3>1. rest = [slots[i] EXCEPT !.size = @ - f]
            BY <1>3, <2>2 DEF SlotValues
        <3> HIDE DEF i, f, rest
        <3>2. RestingOrders'[i] = [RestingOrders[i] EXCEPT !.size = @ - f]
            BY <1>2, <1>3, <1>6, <1>7, <2>2, <3>1 DEF RestingOrders, SlotValues
        <3>3. \A k \in Occupied \ {i} : RestingOrders'[k] = RestingOrders[k]
            BY <1>6, <2>2 DEF RestingOrders
        <3>4. /\ RestingOrders' = [k \in Occupied |-> RestingOrders'[k]]
              /\ RestingOrders = [k \in Occupied |-> RestingOrders[k]]
            <4>1. Occupied' = Occupied
                BY <1>6, <2>2
            <4> QED
                BY <4>1 DEF RestingOrders
        <3>5. RestingOrders' = [RestingOrders EXCEPT ![i].size = @ - f]
            BY <1>2, <3>2, <3>3, <3>4
        <3> QED
            BY <1>7, <2>2, <3>5
    <2> QED
        BY <2>1, <2>2
<1>10. /\ taker # NoTaker /\ taker.remaining > 0 /\ taker.fills_left > 0
       /\ taker' = [taker EXCEPT !.remaining = @ - f, !.fills_left = @ - 1]
       /\ UNCHANGED next_order_id
    BY DEF MatchFill
<1> HIDE DEF i, f, rest
<1> QED
    BY <1>2, <1>8, <1>9, <1>10 DEF PriceBook!Fill

\* MatchEnd is Done: it stops a match for the same reasons.
LEMMA MatchEndRefines ==
    ASSUME TypeOK, MatchEnd
    PROVE  PriceBook!Done
<1>1. taker \in Takers
    BY DEF TypeOK, MatchEnd
<1>2. RestingOrders' = RestingOrders
    BY DEF MatchEnd, RestingOrders, Occupied
<1> QED
    BY <1>1, <1>2, SameCrossing DEF MatchEnd, PriceBook!Done

\* Every step of the flat book is a step of the abstract one or a stutter.
LEMMA NextRefines == TypeOK /\ [Next]_vars => [PriceBook!Next]_PriceBook!bookVars
<1> SUFFICES ASSUME TypeOK, [Next]_vars
             PROVE  PriceBook!Next \/ UNCHANGED PriceBook!bookVars
    BY DEF PriceBook!bookVars
<1>1. CASE \E user \in Traders, side \in Sides, price \in Prices, size \in Sizes :
                PlaceOrder(user, side, price, size)
    BY <1>1, PlaceOrderRefines DEF PriceBook!Next
<1>2. CASE \E user \in Traders, order_id \in 0 .. next_order_id : CancelOrder(user, order_id)
    BY <1>2, CancelOrderRefines DEF PriceBook!Next
<1>3. CASE \E side \in Sides, limit \in Prices, size \in Sizes, max_fills \in FillCaps :
                Match(side, limit, size, max_fills)
    BY <1>3, MatchRefines DEF PriceBook!Next
<1>4. CASE MatchFill
    BY <1>4, MatchFillRefines DEF PriceBook!Next
<1>5. CASE MatchEnd
    BY <1>5, MatchEndRefines DEF PriceBook!Next
<1>6. CASE UNCHANGED vars
    BY <1>6 DEF vars, PriceBook!bookVars, RestingOrders, Occupied
<1> QED
    BY <1>1, <1>2, <1>3, <1>4, <1>5, <1>6 DEF Next

\* Every behaviour of the array book is one of the price-priority book: each
\* fill is at the best crossing price, orders change by nothing but fills and
\* cancels, and a match that stops with fills and size to spare leaves nothing
\* that crosses.
THEOREM FlatBookRefines == Spec => RefinesPriceBook
<1>1. Spec => PriceBook!Spec
    BY InitRefines, NextRefines, TypeCorrect, PTL DEF Spec, PriceBook!Spec
<1> QED
    BY <1>1 DEF RefinesPriceBook

----------------------------------------------------------------------------
(* What a placement sees of the book: the count.                            *)

\* The book has room exactly when active_count is below the capacity.
LEMMA CountAndRoom ==
    ASSUME TypeOK, ActiveCountExact
    PROVE  Empty # {} <=> active_count < ORDER_CAPACITY
<1>1. /\ Empty \union Occupied = Slots /\ Empty \intersect Occupied = {}
      /\ IsFiniteSet(Occupied) /\ IsFiniteSet(Empty)
    <2>1. Empty \in SUBSET Slots /\ Occupied \in SUBSET Slots
        BY DEF Empty, Occupied
    <2>2. IsFiniteSet(Occupied) /\ IsFiniteSet(Empty)
        BY <2>1, SlotSetFinite
    <2> QED
        BY <2>2 DEF Empty, Occupied
<1>2. /\ Cardinality(Slots) = ORDER_CAPACITY
      /\ Cardinality(Occupied) \in Nat /\ Cardinality(Empty) \in Nat
      /\ Cardinality(Empty) + Cardinality(Occupied) = ORDER_CAPACITY
    <2>1. Cardinality(Empty \union Occupied) =
                Cardinality(Empty) + Cardinality(Occupied) - Cardinality(Empty \intersect Occupied)
        BY <1>1, FS_Union
    <2>2. Cardinality(Empty \intersect Occupied) = 0
        BY <1>1, FS_EmptySet
    <2>3. Cardinality(Empty \union Occupied) = ORDER_CAPACITY
        BY <1>1, SlotsFinite
    <2>4. Cardinality(Occupied) \in Nat /\ Cardinality(Empty) \in Nat
        BY <1>1, FS_CardinalityType
    <2> QED
        BY <2>1, <2>2, <2>3, <2>4, SlotsFinite
<1>3. Cardinality(Empty) = 0 <=> Empty = {}
    BY <1>1, FS_EmptySet
<1> QED
    BY <1>2, <1>3, CapacityAssumption DEF ActiveCountExact

\* PlaceOrder's scan for a slot fails, and the order is rejected, exactly when
\* active_count says the book is full: a placement depends on the book by its
\* count alone.
THEOREM RoomByCount == Spec => [](Empty # {} <=> active_count < ORDER_CAPACITY)
BY CountAndRoom, TypeCorrect, ActiveCount, PTL

\* The book as FeesBuilder has it, a number: a placement takes it up by one if
\* there is room, an order that leaves takes it down by one, and nothing else
\* moves it.
CountStep ==
    \/ /\ active_count < ORDER_CAPACITY
       /\ active_count' = active_count + 1
    \/ /\ active_count > 0
       /\ active_count' = active_count - 1
    \/ UNCHANGED active_count

\* Every step of the book is one of its count.
LEMMA StepsCount ==
    ASSUME TypeOK, ActiveCountExact, [Next]_vars
    PROVE  CountStep
<1>1. active_count \in 0 .. ORDER_CAPACITY
    BY DEF TypeOK
<1>2. \/ SatDec(active_count) = active_count
      \/ active_count > 0 /\ SatDec(active_count) = active_count - 1
    BY <1>1, CapacityAssumption DEF SatDec
<1>3. CASE \E user \in Traders, side \in Sides, price \in Prices, size \in Sizes :
                PlaceOrder(user, side, price, size)
    <2>1. Empty # {} /\ active_count' = active_count + 1
        BY <1>3 DEF PlaceOrder
    <2> QED
        BY <2>1, CountAndRoom DEF CountStep
<1>4. CASE \E user \in Traders, order_id \in 0 .. next_order_id : CancelOrder(user, order_id)
    BY <1>2, <1>4 DEF CancelOrder, CountStep
<1>5. CASE MatchFill
    <2>1. active_count' = SatDec(active_count) \/ active_count' = active_count
        BY <1>5 DEF MatchFill
    <2> QED
        BY <1>2, <2>1 DEF CountStep
<1>6. CASE \/ \E side \in Sides, limit \in Prices, size \in Sizes, max_fills \in FillCaps :
                    Match(side, limit, size, max_fills)
           \/ MatchEnd
           \/ UNCHANGED vars
    BY <1>6 DEF Match, MatchEnd, vars, CountStep
<1> QED
    BY <1>3, <1>4, <1>5, <1>6 DEF Next

\* The book that gated placements write, seen through active_count, is the
\* number that FeesBuilder keeps per market: its PlaceOrder and OrderLeaves are
\* all that the book's own handlers do to it.
THEOREM BookIsItsCount == Spec => active_count = 0 /\ [][CountStep]_active_count
<1>1. Init => active_count = 0
    BY DEF Init
<1>2. TypeOK /\ ActiveCountExact /\ [Next]_vars => [CountStep]_active_count
    BY StepsCount
<1> QED
    BY <1>1, <1>2, TypeCorrect, ActiveCount, PTL DEF Spec

----------------------------------------------------------------------------
(* Which of several orders at one price is filled.                          *)

\* Two orders of one side and one price.
SameLevel(i, j) == slots[i].side = slots[j].side /\ slots[i].price = slots[j].price

\* Only MatchFill changes an order while a match is under way, and it takes the
\* lowest slot of the level.
LEMMA LowestSlotFilled ==
    ASSUME TypeOK, [Next]_vars, taker # NoTaker,
           NEW i \in Occupied, slots'[i] # slots[i],
           NEW j \in Occupied, SameLevel(i, j)
    PROVE  i <= j
<1> DEFINE C == Candidates(taker)
           Top == {k \in C : \A l \in C : ~ IsBetter(taker, slots[l].price, slots[k].price)}
<1>1. taker \in Takers
    BY DEF TypeOK
<1>2. MatchFill
    <2>1. UNCHANGED vars \/ MatchEnd => slots' = slots
        BY DEF vars, MatchEnd
    <2>2. ~ \E user \in Traders, side \in Sides, price \in Prices, size \in Sizes :
                PlaceOrder(user, side, price, size)
        BY DEF PlaceOrder
    <2>3. ~ \E user \in Traders, order_id \in 0 .. next_order_id : CancelOrder(user, order_id)
        BY DEF CancelOrder
    <2>4. ~ \E side \in Sides, limit \in Prices, size \in Sizes, max_fills \in FillCaps :
                Match(side, limit, size, max_fills)
        BY DEF Match
    <2> QED
        BY <2>1, <2>2, <2>3, <2>4 DEF Next
<1>3. i = BestSlot(taker)
    <2> DEFINE best == BestSlot(taker)
    <2>1. \E o : slots' = [slots EXCEPT ![best] = o]
        BY <1>2 DEF MatchFill
    <2> HIDE DEF best
    <2> QED
        BY <2>1 DEF TypeOK, Occupied, best
<1>4. BestSlot(taker) = Min(Top)
    BY DEF BestSlot
<1>5. Top \in SUBSET Nat
    BY CapacityAssumption DEF Candidates, Occupied, Slots
<1>6. i \in Top
    <2>1. C # {}
        BY <1>2 DEF MatchFill
    <2> QED
        BY <1>1, <1>3, <2>1, BestSlotIsBest
<1>7. j \in Top
    BY <1>6 DEF SameLevel, Candidates
<1> QED
    <2> HIDE DEF Top
    <2> QED BY <1>3, <1>4, <1>5, <1>7, MinOfNaturals

\* What is left of time priority: while the orders of a level sit in the slots
\* in the order of their ids, the one that is filled is the oldest. It is a
\* vacated slot, taken by a newer order, that breaks it.
THEOREM OldestFirstInSlotOrder ==
    Spec =>
        [][\A i \in Occupied :
            /\ taker # NoTaker /\ slots'[i] # slots[i]
            /\ \A j \in Occupied :
                    SameLevel(i, j) /\ i < j => slots[i].order_id <= slots[j].order_id
            => \A j \in Occupied : SameLevel(i, j) => slots[i].order_id <= slots[j].order_id]_vars
<1> DEFINE Oldest ==
        \A i \in Occupied :
            /\ taker # NoTaker /\ slots'[i] # slots[i]
            /\ \A j \in Occupied :
                    SameLevel(i, j) /\ i < j => slots[i].order_id <= slots[j].order_id
            => \A j \in Occupied : SameLevel(i, j) => slots[i].order_id <= slots[j].order_id
<1>1. ASSUME TypeOK, [Next]_vars PROVE Oldest
    <2>1. \A i \in Occupied : i \in Nat /\ slots[i].order_id \in Nat
        BY <1>1, CapacityAssumption DEF Occupied, Slots, TypeOK, SlotValues
    <2>2. SUFFICES ASSUME NEW i \in Occupied, taker # NoTaker, slots'[i] # slots[i],
                          \A j \in Occupied :
                            SameLevel(i, j) /\ i < j => slots[i].order_id <= slots[j].order_id,
                          NEW j \in Occupied, SameLevel(i, j)
                   PROVE  slots[i].order_id <= slots[j].order_id
        OBVIOUS
    <2>3. i <= j
        BY <1>1, <2>2, LowestSlotFilled
    <2> QED
        BY <2>1, <2>2, <2>3
<1>2. TypeOK /\ [Next]_vars => [Oldest]_vars
    BY <1>1
<1> QED
    BY <1>2, TypeCorrect, PTL DEF Spec

=============================================================================
