--------------------------------- MODULE Slab ---------------------------------
(***************************************************************************)
(* The slab order book of Chapter 15 (crates/slab, called by CreateSlab,   *)
(* SlabPlaceOrder and SlabMatch): per side, a critbit tree whose leaves    *)
(* are the price levels; per level, a doubly linked FIFO of orders drawn   *)
(* from one pool.  Tree nodes and pool nodes that are not in use form free *)
(* lists.                                                                  *)
(*                                                                         *)
(* An instruction that returns an error is reverted, so it is not an       *)
(* action.  SlabMatch is one action per turn of match_order's loop (each   *)
(* turn ends in the on_fill callback); taker holds the loop's state, and   *)
(* no other instruction can write the slab meanwhile.                      *)
(***************************************************************************)
EXTENDS Integers, FiniteSetsExt, SequencesExt

CONSTANTS
    SLAB_POOL_CAPACITY,  \* order nodes (1024 in the program)
    SLAB_TREE_CAPACITY,  \* tree nodes per side (256 in the program)
    SLAB_NONE_INDEX,     \* no index (u16::MAX in the program)
    PRICE_BITS,          \* the width of a price (64 in the program)
    U64_MAX,             \* where the checked next_order_id overflows
    Prices,              \* prices a SlabPlaceOrder carries
    Limits,              \* prices a SlabMatch carries
    Sizes,               \* sizes an instruction carries
    FillCaps,            \* the max_fills an instruction carries
    NoTaker              \* no match under way

VARIABLES
    trees,               \* bid_tree and ask_tree, by side
    nodes,               \* the order-node pool
    pool_free_head,
    next_order_id,
    active_count,
    taker                \* the SlabMatch under way, or NoTaker

vars == <<trees, nodes, pool_free_head, next_order_id, active_count, taker>>

Sides == {"BID", "ASK"}
PoolIndices == 0 .. SLAB_POOL_CAPACITY - 1
TreeIndices == 0 .. SLAB_TREE_CAPACITY - 1
Takers == [side : Sides, limit : Nat, remaining : Nat, fills_left : Nat]

\* What is left of a price after k shifts to the right, for k up to its width.
Shifted(price) ==
    LET halves[k \in 0 .. PRICE_BITS] == IF k = 0 THEN price ELSE halves[k - 1] \div 2
    IN halves
PriceRange == {price \in Nat : Shifted(price)[PRICE_BITS] = 0}

ASSUME CapacityAssumption ==
    /\ SLAB_POOL_CAPACITY \in Nat \ {0} /\ SLAB_TREE_CAPACITY \in Nat \ {0}
    /\ SLAB_NONE_INDEX \in Nat \ (PoolIndices \union TreeIndices)
ASSUME InputAssumption ==
    /\ PRICE_BITS \in Nat \ {0} /\ U64_MAX \in Nat \ {0}
    /\ Prices \subseteq PriceRange /\ Limits \subseteq Nat
    /\ Sizes \subseteq Nat /\ FillCaps \subseteq Nat
ASSUME TakerAssumption == NoTaker \notin Takers

----------------------------------------------------------------------------
(* Tree nodes are a tagged union; a node's unused fields are left out.      *)

Free(next) == [tag |-> "FREE", next_free |-> next]
Inner(bit, left, right) ==
    [tag |-> "INNER", split_bit |-> bit, left_child |-> left, right_child |-> right]
Leaf(price) ==
    [tag |-> "LEAF", price |-> price, head_node |-> SLAB_NONE_INDEX,
     tail_node |-> SLAB_NONE_INDEX, order_count |-> 0]

\* The head of the free list becomes node. The caller has seen that the list
\* is not empty.
TreeAlloc(t, node) ==
    [t EXCEPT !.free_head = t.nodes[@].next_free, !.nodes[t.free_head] = node]

TreeFree(t, idx) == [t EXCEPT !.nodes[idx] = Free(t.free_head), !.free_head = idx]

----------------------------------------------------------------------------
(* Critbit walks.                                                           *)

Bit(price, b) == Shifted(price)[b] % 2

\* 63 - leading_zeros(p ^ q): the highest bit in which two prices differ.
SharedBit(p, q) == Max({b \in 0 .. PRICE_BITS - 1 : Bit(p, b) # Bit(q, b)})

ChildToward(node, price) ==
    IF Bit(price, node.split_bit) = 1 THEN node.right_child ELSE node.left_child

\* The inner nodes that test this bit or a higher one.
InnerNodes(t, bit) ==
    {c \in TreeIndices : t.nodes[c].tag = "INNER" /\ t.nodes[c].split_bit >= bit}

\* The nodes met from the root on, as long as next leads further.
Descend(t, next) ==
    LET path[c \in TreeIndices] ==
            IF c \in DOMAIN next THEN <<c>> \o path[next[c]] ELSE <<c>>
    IN path[t.root]

IsLeaf(node) == node.tag = "LEAF"

PathToLeaf(t, price) ==
    Descend(t, [c \in InnerNodes(t, 0) |-> ChildToward(t.nodes[c], price)])

\* The splice point of a new price: the first leaf, or inner node that tests
\* a lower bit than the one that tells the price from its nearest leaf.
\* (mutant: stop also at the inner node that tests that very bit's neighbour)
ShallowPath(t, price, shared_bit) ==
    Descend(t, [c \in InnerNodes(t, shared_bit + 2) |-> ChildToward(t.nodes[c], price)])
SplicePath(t, price, shared_bit) ==
    Descend(t, [c \in InnerNodes(t, shared_bit) |-> ChildToward(t.nodes[c], price)])

\* The leaf of the best price: rightmost of the bids, leftmost of the asks.
BestLeaf(t, want_max) ==
    Last(Descend(t, [c \in InnerNodes(t, 0) |->
        IF want_max THEN t.nodes[c].right_child ELSE t.nodes[c].left_child]))

\* The tree with the link that leads to the end of the path above set to idx.
Relink(t, above, price, idx) ==
    IF above = <<>> THEN [t EXCEPT !.root = idx]
    ELSE IF Bit(price, t.nodes[Last(above)].split_bit) = 1
         THEN [t EXCEPT !.nodes[Last(above)].right_child = idx]
         ELSE [t EXCEPT !.nodes[Last(above)].left_child = idx]

----------------------------------------------------------------------------
(* critbit_find_or_create_leaf: whether it succeeds, the leaf, the tree.    *)

NewRoot(t, price) ==
    IF t.free_head = SLAB_NONE_INDEX THEN [ok |-> FALSE]
    ELSE [ok |-> TRUE, leaf |-> t.free_head,
          tree |-> [TreeAlloc(t, Leaf(price)) EXCEPT !.root = t.free_head]]

\* A new leaf, and a new inner node that has it and the old subtree as its
\* children. One node alone is not enough.
Splice(t, price, shared_bit) ==
    LET path == SplicePath(t, price, shared_bit)
        leaf == t.free_head
        t1 == TreeAlloc(t, Leaf(price))
        inner == t1.free_head
        t2 == TreeAlloc(t1, IF Bit(price, shared_bit) = 1
                            THEN Inner(shared_bit, Last(path), leaf)
                            ELSE Inner(shared_bit, leaf, Last(path)))
    IN IF leaf = SLAB_NONE_INDEX \/ inner = SLAB_NONE_INDEX THEN [ok |-> FALSE]
       ELSE [ok |-> TRUE, leaf |-> leaf, tree |-> Relink(t2, Front(path), price, inner)]

FindOrCreateLeaf(t, price) ==
    IF t.root = SLAB_NONE_INDEX THEN NewRoot(t, price)
    ELSE LET found == Last(PathToLeaf(t, price))
         IN IF t.nodes[found].price = price
            THEN [ok |-> TRUE, leaf |-> found, tree |-> t]
            ELSE Splice(t, price, SharedBit(price, t.nodes[found].price))

\* critbit_remove_leaf: the leaf's sibling takes the place of their parent,
\* and parent and leaf are freed. (mutant: the parent is not freed)
RemoveLeafOnly(t, leaf) ==
    LET path == PathToLeaf(t, t.nodes[leaf].price)
        parent == path[Len(path) - 1]
        sibling == CHOOSE c \in {t.nodes[parent].left_child, t.nodes[parent].right_child} :
                        c # leaf
    IN IF t.root = leaf THEN [TreeFree(t, leaf) EXCEPT !.root = SLAB_NONE_INDEX]
       ELSE TreeFree(Relink(t, Front(Front(path)), t.nodes[leaf].price, sibling), leaf)
RemoveLeaf(t, leaf) ==
    LET path == PathToLeaf(t, t.nodes[leaf].price)
        parent == path[Len(path) - 1]
        sibling == CHOOSE c \in {t.nodes[parent].left_child, t.nodes[parent].right_child} :
                        c # leaf
    IN IF t.root = leaf THEN [TreeFree(t, leaf) EXCEPT !.root = SLAB_NONE_INDEX]
       ELSE TreeFree(TreeFree(Relink(t, Front(Front(path)), t.nodes[leaf].price, sibling),
                              parent), leaf)

----------------------------------------------------------------------------
(* The pool and the level FIFOs.                                            *)

\* A node as pool_free_node leaves it.
FreeNode(next) ==
    [order_id |-> 0, size |-> 0, next |-> next, prev |-> SLAB_NONE_INDEX]

\* The level after order n has joined its tail. (mutant: its head)
PushLevel(leaf, n) ==
    [leaf EXCEPT !.head_node = n,
                 !.tail_node = IF @ = SLAB_NONE_INDEX THEN n ELSE @, !.order_count = @ + 1]
JoinLevel(leaf, n) ==
    [leaf EXCEPT !.head_node = IF @ = SLAB_NONE_INDEX THEN n ELSE @,
                 !.tail_node = n, !.order_count = @ + 1]

\* The level after its head has left it.
LeaveLevel(leaf, new_head) ==
    [leaf EXCEPT !.head_node = new_head,
                 !.tail_node = IF new_head = SLAB_NONE_INDEX THEN SLAB_NONE_INDEX ELSE @,
                 !.order_count = @ - 1]

\* The pool after the head of a level has been unlinked from new_head, the
\* next of its queue, and freed.
\* (mutant: the node that follows keeps its link to the freed one)
FreeHeadOnly(head) == [nodes EXCEPT ![head] = FreeNode(pool_free_head)]
FreeHead(head) ==
    LET new_head == nodes[head].next
    IN [n \in PoolIndices |->
            IF n = head THEN FreeNode(pool_free_head)
            ELSE IF n = new_head THEN [nodes[n] EXCEPT !.prev = SLAB_NONE_INDEX]
            ELSE nodes[n]]

----------------------------------------------------------------------------
\* The slab as CreateSlab leaves it.
Init ==
    /\ trees = [s \in Sides |->
            [root |-> SLAB_NONE_INDEX, free_head |-> 0,
             nodes |-> [c \in TreeIndices |->
                Free(IF c + 1 < SLAB_TREE_CAPACITY THEN c + 1 ELSE SLAB_NONE_INDEX)]]]
    /\ nodes = [n \in PoolIndices |->
            FreeNode(IF n + 1 < SLAB_POOL_CAPACITY THEN n + 1 ELSE SLAB_NONE_INDEX)]
    /\ pool_free_head = 0
    /\ next_order_id = 0
    /\ active_count = 0
    /\ taker = NoTaker

\* insert_order: a pool node for the order, at the tail of its level's queue.
InsertOrder(side, price, size) ==
    LET n == pool_free_head
        found == FindOrCreateLeaf(trees[side], price)
        tail == found.tree.nodes[found.leaf].tail_node
    IN /\ n # SLAB_NONE_INDEX
       /\ next_order_id < U64_MAX
       /\ found.ok
       /\ trees' = [trees EXCEPT ![side] =
                        [found.tree EXCEPT !.nodes[found.leaf] = JoinLevel(@, n)]]
       /\ nodes' = [m \in PoolIndices |->
                IF m = n THEN [order_id |-> next_order_id, size |-> size,
                               next |-> SLAB_NONE_INDEX, prev |-> tail]
                ELSE IF m = tail THEN [nodes[m] EXCEPT !.next = n]
                ELSE nodes[m]]
       /\ pool_free_head' = nodes[n].next
       /\ next_order_id' = next_order_id + 1
       /\ active_count' = active_count + 1

SlabPlaceOrder(side, price, size) ==
    /\ taker = NoTaker
    /\ price # 0 /\ size # 0
    /\ InsertOrder(side, price, size)
    /\ UNCHANGED taker

SlabMatch(side, limit, size, max_fills) ==
    /\ taker = NoTaker
    /\ size # 0 /\ max_fills # 0
    /\ taker' = [side |-> side, limit |-> limit, remaining |-> size, fills_left |-> max_fills]
    /\ UNCHANGED <<trees, nodes, pool_free_head, next_order_id, active_count>>

MakerSide == IF taker.side = "BID" THEN "ASK" ELSE "BID"

\* The level gate. (mutant: an ask taker's limit read as a bid's)
CrossesUpTo(price) == price <= taker.limit
Crosses(price) == IF taker.side = "BID" THEN price <= taker.limit ELSE price >= taker.limit

\* best() finds a level and the taker's limit accepts it.
LevelCrosses ==
    LET t == trees[MakerSide]
    IN /\ t.root # SLAB_NONE_INDEX
       /\ LET best == t.nodes[BestLeaf(t, MakerSide = "BID")]
          IN best.head_node # SLAB_NONE_INDEX /\ Crosses(best.price)

\* pop_head of the level at leaf. (The code's subtractions saturate: the
\* properties say that they never have to.)
PopHead(leaf) ==
    LET t == trees[MakerSide]
        head == t.nodes[leaf].head_node
        new_head == nodes[head].next
        left == [t EXCEPT !.nodes[leaf] = LeaveLevel(@, new_head)]
    IN /\ trees' = [trees EXCEPT ![MakerSide] =
                        IF new_head = SLAB_NONE_INDEX THEN RemoveLeaf(left, leaf) ELSE left]
       /\ nodes' = FreeHead(head)
       /\ pool_free_head' = head
       /\ active_count' = active_count - 1

\* What a fill trades with the maker at head. (mutant: its whole size)
WholeMaker(head) == nodes[head].size
FillSize(head) == Min({taker.remaining, nodes[head].size})

\* One turn of the loop.
SlabFill ==
    /\ taker # NoTaker
    /\ taker.remaining > 0 /\ taker.fills_left > 0
    /\ LevelCrosses
    /\ LET leaf == BestLeaf(trees[MakerSide], MakerSide = "BID")
           head == trees[MakerSide].nodes[leaf].head_node
           fill == FillSize(head)
       IN /\ \/ /\ fill = nodes[head].size
                /\ PopHead(leaf)
             \/ /\ fill # nodes[head].size
                /\ nodes' = [nodes EXCEPT ![head].size = @ - fill]
                /\ UNCHANGED <<trees, pool_free_head, active_count>>
          /\ taker' = [taker EXCEPT !.remaining = @ - fill, !.fills_left = @ - 1]
    /\ UNCHANGED next_order_id

SlabMatchEnd ==
    /\ taker # NoTaker
    /\ taker.remaining = 0 \/ taker.fills_left = 0 \/ ~LevelCrosses
    /\ taker' = NoTaker
    /\ UNCHANGED <<trees, nodes, pool_free_head, next_order_id, active_count>>

Next ==
    \/ \E side \in Sides, price \in Prices, size \in Sizes : SlabPlaceOrder(side, price, size)
    \/ \E side \in Sides, limit \in Limits, size \in Sizes, max_fills \in FillCaps :
            SlabMatch(side, limit, size, max_fills)
    \/ SlabFill
    \/ SlabMatchEnd

Spec == Init /\ [][Next]_vars

----------------------------------------------------------------------------
(* What is stored: lists and trees read off the links. Each walk is cut off *)
(* at the number of nodes there are, so that a cycle shows as a repetition. *)

Follow(start, next, fuel) ==
    LET at[k \in 0 .. fuel] == IF k = 0 THEN start ELSE next[at[k - 1]]
        length == Cardinality({k \in 0 .. fuel - 1 : at[k] # SLAB_NONE_INDEX})
    IN [k \in 1 .. length |-> at[k - 1]]

\* The links of a free list and of the pool. Nothing leads on from the end.
NextFree(t) == [c \in TreeIndices \union {SLAB_NONE_INDEX} |->
    IF c # SLAB_NONE_INDEX /\ t.nodes[c].tag = "FREE" THEN t.nodes[c].next_free
    ELSE SLAB_NONE_INDEX]
NextNode == [n \in PoolIndices \union {SLAB_NONE_INDEX} |->
    IF n # SLAB_NONE_INDEX THEN nodes[n].next ELSE SLAB_NONE_INDEX]

TreeFreeList(t) == Follow(t.free_head, NextFree(t), SLAB_TREE_CAPACITY + 1)
PoolFreeList == Follow(pool_free_head, NextNode, SLAB_POOL_CAPACITY + 1)
Queue(leaf) == Follow(leaf.head_node, NextNode, SLAB_POOL_CAPACITY + 1)

Children(t, c) ==
    IF t.nodes[c].tag = "INNER" THEN {t.nodes[c].left_child, t.nodes[c].right_child} ELSE {}

\* The nodes of the subtree at c. No leaf of a tree of prices is more than
\* PRICE_BITS links below its root.
Subtree(t, c) ==
    LET reached[k \in 0 .. PRICE_BITS] ==
            IF k = 0 THEN {c} \ {SLAB_NONE_INDEX}
            ELSE reached[k - 1] \union UNION {Children(t, i) : i \in reached[k - 1]}
    IN reached[PRICE_BITS]

Leaves(t, c) == {i \in Subtree(t, c) : IsLeaf(t.nodes[i])}
Levels(s) == {trees[s].nodes[i] : i \in Leaves(trees[s], trees[s].root)}

----------------------------------------------------------------------------
(* Properties.                                                              *)

\* Every link is an index of its array or none, counts and sizes stay in the
\* range of their Rust types, and no subtraction goes below zero.
TypeOK ==
    /\ \A s \in Sides :
            /\ trees[s].root \in TreeIndices \union {SLAB_NONE_INDEX}
            /\ trees[s].free_head \in TreeIndices \union {SLAB_NONE_INDEX}
            /\ \A c \in TreeIndices : trees[s].nodes[c].tag \in {"FREE", "INNER", "LEAF"}
    /\ nodes \in [PoolIndices -> [order_id : Nat, size : Nat,
                                  next : PoolIndices \union {SLAB_NONE_INDEX},
                                  prev : PoolIndices \union {SLAB_NONE_INDEX}]]
    /\ pool_free_head \in PoolIndices \union {SLAB_NONE_INDEX}
    /\ next_order_id \in 0 .. U64_MAX
    /\ active_count \in 0 .. SLAB_POOL_CAPACITY
    /\ taker \in Takers \union {NoTaker}

\* Under an inner node all prices agree above its split bit, those on the
\* left have a 0 there and those on the right a 1. Every walk by price relies
\* on it, best() too: the rightmost leaf is the highest price.
CritbitOrdered ==
    \A s \in Sides :
        LET t == trees[s]
        IN \A c \in Subtree(t, t.root) : ~IsLeaf(t.nodes[c]) =>
            LET Side(i) == IF i \in Leaves(t, t.nodes[c].right_child) THEN 1 ELSE 0
            IN \A i, j \in Leaves(t, c) :
                /\ Bit(t.nodes[i].price, t.nodes[c].split_bit) = Side(i)
                /\ \A b \in t.nodes[c].split_bit + 1 .. PRICE_BITS - 1 :
                        Bit(t.nodes[i].price, b) = Bit(t.nodes[j].price, b)

\* Chapter 8: "every node either lives in the tree+queue or on the free-list".
\* For the tree nodes: the free list holds, once each, exactly the nodes that
\* the tree does not.
TreeNodesAccounted ==
    \A s \in Sides :
        LET free == TreeFreeList(trees[s])
            live == Subtree(trees[s], trees[s].root)
        IN /\ IsInjective(free)
           /\ ToSet(free) = TreeIndices \ live
           /\ \A c \in TreeIndices : trees[s].nodes[c].tag = "FREE" <=> c \notin live

\* The same for the pool: the free list and the queues of all levels share it
\* out, and active_count counts the queued nodes.
PoolNodesAccounted ==
    LET queues == {Queue(leaf) : leaf \in Levels("BID") \union Levels("ASK")}
        queued == UNION {ToSet(q) : q \in queues}
    IN /\ IsInjective(PoolFreeList)
       /\ \A q \in queues : IsInjective(q)
       /\ \A q, r \in queues : q # r => ToSet(q) \cap ToSet(r) = {}
       /\ ToSet(PoolFreeList) = PoolIndices \ queued
       /\ active_count = Cardinality(queued)

\* Every level in a tree has orders ("or is gone from the tree"), from
\* head_node by next to tail_node and back by prev, as many as order_count
\* says, each with size left, in the order they arrived.
FifosIntact ==
    \A leaf \in Levels("BID") \union Levels("ASK") :
        LET q == Queue(leaf)
        IN /\ q # <<>>
           /\ Last(q) = leaf.tail_node
           /\ Len(q) = leaf.order_count
           /\ nodes[Head(q)].prev = SLAB_NONE_INDEX
           /\ \A k \in 1 .. Len(q) - 1 :
                /\ nodes[q[k + 1]].prev = q[k]
                /\ nodes[q[k]].order_id < nodes[q[k + 1]].order_id
           /\ \A k \in 1 .. Len(q) : nodes[q[k]].size > 0

\* The book the trees and queues stand for: a node's side and price are those
\* of the level whose queue it is in.
RestingOrders ==
    LET Homes(s) == UNION {{<<n, s, leaf.price>> : n \in ToSet(Queue(leaf))} : leaf \in Levels(s)}
        homes == Homes("BID") \union Homes("ASK")
    IN [n \in {h[1] : h \in homes} |->
            LET home == CHOOSE h \in homes : h[1] = n
            IN [id |-> nodes[n].order_id, side |-> home[2],
                price |-> home[3], size |-> nodes[n].size]]

PriceTime == INSTANCE PriceTimeBook WITH
    Handles <- PoolIndices, MaxOrderId <- U64_MAX, TimePriority <- TRUE, Cancellable <- FALSE,
    resting <- RestingOrders, next_id <- next_order_id

\* The slab crosses a taker "best price first and oldest first within a
\* level", loses and invents no order, and ends a match with fills and size to
\* spare only when nothing on the other side crosses.
RefinesPriceTimeBook == PriceTime!Spec

=============================================================================
