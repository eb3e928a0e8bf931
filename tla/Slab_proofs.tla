----------------------------- MODULE Slab_proofs -----------------------------
(***************************************************************************)
(* Proofs about Slab for every capacity of the pool and of the trees,      *)
(* every width of a price and every set of inputs: both trees stay trees   *)
(* ordered by price, no node of a tree or of the pool is lost or used      *)
(* twice, the queue of a level holds its orders and no others, the whole   *)
(* is a price-time book, and an order is turned away only when the pool    *)
(* has no node, the book no id, or the tree no room for its price.         *)
(***************************************************************************)
EXTENDS Slab, Sequences, TLAPS, FiniteSetTheorems, SequenceTheorems,
        WellFoundedInduction

----------------------------------------------------------------------------
(* Walks along links.  The recursive functions of Slab count the links, so  *)
(* each exists, and has the value one expects, for want of a first number   *)
(* of links at which it does not.                                           *)

\* Every nonempty set of naturals has a least element.
LEMMA Least ==
    ASSUME NEW S \in SUBSET Nat, S # {}
    PROVE  \E m \in S : \A x \in S : m <= x
<1> DEFINE R == {p \in Nat \X Nat : p[1] < p[2]}
<1>1. IsWellFoundedOn(R, Nat)
    BY NatLessThanWellFounded DEF OpToRel
<1>2. PICK m \in S : \A x \in S : ~ <<x, m>> \in R
    BY <1>1, WFMin
<1>3. ASSUME NEW x \in S PROVE m <= x
    <2>1. ~ <<x, m>> \in R
        BY <1>2
    <2> QED
        BY <2>1
<1> QED
    BY <1>2, <1>3

\* The walk that starts at start and takes one link of next per step.
Walk(at, start, next, fuel) ==
    at = [k \in 0 .. fuel |-> IF k = 0 THEN start ELSE next[at[k - 1]]]

\* There is one of every length.
LEMMA WalkExists ==
    ASSUME NEW start, NEW next, NEW fuel \in Nat
    PROVE  \E at : Walk(at, start, next, fuel)
<1> DEFINE Bad == {n \in Nat : ~ \E at : Walk(at, start, next, n)}
<1>1. SUFFICES ASSUME Bad # {} PROVE FALSE
    OBVIOUS
<1>2. PICK m \in Bad : \A x \in Bad : m <= x
    BY <1>1, Least
<1>3. CASE m = 0
    <2> DEFINE at == [k \in 0 .. 0 |-> start]
    <2>1. Walk(at, start, next, 0)
        BY DEF Walk
    <2> QED
        BY <2>1, <1>3
<1>4. CASE m # 0
    <2>1. m - 1 \in Nat /\ m - 1 \notin Bad
        BY <1>2, <1>4
    <2>2. PICK before : Walk(before, start, next, m - 1)
        BY <2>1
    <2> DEFINE at == [k \in 0 .. m |-> IF k = m THEN next[before[m - 1]] ELSE before[k]]
    <2>3. ASSUME NEW k \in 0 .. m
          PROVE  at[k] = IF k = 0 THEN start ELSE next[at[k - 1]]
        BY <2>1, <2>2, <1>4 DEF Walk
    <2>4. Walk(at, start, next, m)
        BY <2>3, <2>1 DEF Walk
    <2> QED
        BY <2>4
<1> QED
    BY <1>3, <1>4

\* The nodes that a walk meets before it is at no node.
Met(at, fuel) ==
    [k \in 1 .. Cardinality({k \in 0 .. fuel - 1 : at[k] # SLAB_NONE_INDEX}) |-> at[k - 1]]

\* They are what Follow returns.
LEMMA FollowIsWalk ==
    ASSUME NEW start, NEW next, NEW fuel \in Nat
    PROVE  \E at : Walk(at, start, next, fuel) /\ Follow(start, next, fuel) = Met(at, fuel)
<1> DEFINE at == CHOOSE f : Walk(f, start, next, fuel)
<1>1. Walk(at, start, next, fuel)
    BY WalkExists
<1>2. Follow(start, next, fuel) = Met(at, fuel)
    BY DEF Follow, Walk, Met
<1> QED
    BY <1>1, <1>2

\* The link that leads to the k-th of a list of nodes: none before the first
\* and after the last.
LinkTo(s, k) == IF k \in 1 .. Len(s) THEN s[k] ELSE SLAB_NONE_INDEX

\* Following the links of a list yields the list.
LEMMA FollowsList ==
    ASSUME NEW S, SLAB_NONE_INDEX \notin S, NEW s \in Seq(S), NEW next,
           next[SLAB_NONE_INDEX] = SLAB_NONE_INDEX,
           \A k \in 1 .. Len(s) : next[s[k]] = LinkTo(s, k + 1),
           NEW fuel \in Nat, Len(s) <= fuel
    PROVE  Follow(LinkTo(s, 1), next, fuel) = s
<1>1. PICK at :
        /\ Walk(at, LinkTo(s, 1), next, fuel)
        /\ Follow(LinkTo(s, 1), next, fuel) = Met(at, fuel)
    BY FollowIsWalk
<1> DEFINE Bad == {k \in 0 .. fuel : at[k] # LinkTo(s, k + 1)}
<1>2. Bad = {}
    <2>1. SUFFICES ASSUME Bad # {} PROVE FALSE
        OBVIOUS
    <2>0. Bad \in SUBSET Nat
        OBVIOUS
    <2>2. PICK m \in Bad : \A x \in Bad : m <= x
        BY <2>0, <2>1, Least
    <2>3. m # 0
        BY <1>1 DEF Walk
    <2>4. m - 1 \in 0 .. fuel /\ m - 1 \notin Bad
        BY <2>2, <2>3
    <2>5. at[m] = next[LinkTo(s, m)]
        BY <1>1, <2>3, <2>4 DEF Walk
    <2>6. next[LinkTo(s, m)] = LinkTo(s, m + 1)
        BY <2>3 DEF LinkTo
    <2> QED
        BY <2>2, <2>5, <2>6
<1>3. \A k \in 1 .. Len(s) : s[k] # SLAB_NONE_INDEX
    OBVIOUS
<1>4. {k \in 0 .. fuel - 1 : at[k] # SLAB_NONE_INDEX} = 0 .. Len(s) - 1
    BY <1>2, <1>3 DEF LinkTo
<1>5. Cardinality(0 .. Len(s) - 1) = Len(s)
    <2> DEFINE n == Len(s)
    <2>1. n \in Nat
        OBVIOUS
    <2> HIDE DEF n
    <2>2. Cardinality(0 .. n - 1) = n
        BY <2>1, FS_Interval
    <2> QED
        BY <2>2 DEF n
<1>6. Follow(LinkTo(s, 1), next, fuel) = [k \in 1 .. Len(s) |-> at[k - 1]]
    BY <1>1, <1>4, <1>5 DEF Met
<1>7. \A k \in 1 .. Len(s) : at[k - 1] = s[k]
    BY <1>2 DEF LinkTo
<1> QED
    BY <1>6, <1>7

----------------------------------------------------------------------------
(* The bits of a price.                                                     *)

\* Halving a price 0, 1, ... n times.
Halvings(f, price, n) == f = [k \in 0 .. n |-> IF k = 0 THEN price ELSE f[k - 1] \div 2]

\* The halvings of any price exist, however many there are.
LEMMA HalvingsExist ==
    ASSUME NEW price, NEW fuel \in Nat
    PROVE  \E f : Halvings(f, price, fuel)
<1> DEFINE Bad == {n \in Nat : ~ \E f : Halvings(f, price, n)}
<1>1. SUFFICES ASSUME Bad # {} PROVE FALSE
    OBVIOUS
<1>2. PICK m \in Bad : \A x \in Bad : m <= x
    BY <1>1, Least
<1>3. CASE m = 0
    <2>1. Halvings([k \in 0 .. 0 |-> price], price, 0)
        BY DEF Halvings
    <2> QED
        BY <2>1, <1>3
<1>4. CASE m # 0
    <2>1. m - 1 \in Nat /\ m - 1 \notin Bad
        BY <1>2, <1>4
    <2>2. PICK before : Halvings(before, price, m - 1)
        BY <2>1
    <2> DEFINE f == [k \in 0 .. m |-> IF k = m THEN before[m - 1] \div 2 ELSE before[k]]
    <2>3. ASSUME NEW k \in 0 .. m
          PROVE  f[k] = IF k = 0 THEN price ELSE f[k - 1] \div 2
        BY <2>1, <2>2, <1>4 DEF Halvings
    <2>4. Halvings(f, price, m)
        BY <2>3, <2>1 DEF Halvings
    <2> QED
        BY <2>4
<1> QED
    BY <1>3, <1>4

\* Each shift to the right halves the price.
LEMMA ShiftHalves ==
    ASSUME NEW price \in Nat
    PROVE  /\ Shifted(price) \in [0 .. PRICE_BITS -> Nat]
           /\ Shifted(price)[0] = price
           /\ \A k \in 0 .. PRICE_BITS - 1 : Shifted(price)[k + 1] = Shifted(price)[k] \div 2
<1> DEFINE f == CHOOSE f : Halvings(f, price, PRICE_BITS)
<1>1. PRICE_BITS \in Nat
    BY InputAssumption
<1>2. Halvings(f, price, PRICE_BITS)
    BY <1>1, HalvingsExist
<1>3. Shifted(price) = f
    BY DEF Shifted, Halvings
<1> HIDE DEF f
<1>4. \A k \in 0 .. PRICE_BITS : f[k] = IF k = 0 THEN price ELSE f[k - 1] \div 2
    BY <1>2 DEF Halvings
<1>5. f = [k \in 0 .. PRICE_BITS |-> f[k]]
    BY <1>2 DEF Halvings
<1> DEFINE Bad == {k \in 0 .. PRICE_BITS : f[k] \notin Nat}
<1>6. Bad = {}
    <2>1. SUFFICES ASSUME Bad # {} PROVE FALSE
        OBVIOUS
    <2>2. Bad \in SUBSET Nat
        OBVIOUS
    <2>3. PICK m \in Bad : \A x \in Bad : m <= x
        BY <2>1, <2>2, Least
    <2>4. m # 0
        BY <1>4, <1>1
    <2>5. m - 1 \in 0 .. PRICE_BITS /\ f[m - 1] \in Nat
        BY <1>1, <2>3, <2>4
    <2>6. f[m] = f[m - 1] \div 2
        BY <1>4, <2>3, <2>4
    <2>7. f[m] \in Nat
        BY <2>5, <2>6
    <2> QED
        BY <2>3, <2>7
<1> QED
    <2>1. f \in [0 .. PRICE_BITS -> Nat]
        BY <1>5, <1>6
    <2>2. f[0] = price
        BY <1>1, <1>4
    <2>3. ASSUME NEW k \in 0 .. PRICE_BITS - 1 PROVE f[k + 1] = f[k] \div 2
        <3>1. k + 1 \in 0 .. PRICE_BITS /\ k + 1 # 0 /\ (k + 1) - 1 = k
            BY <1>1
        <3> QED
            BY <1>4, <3>1
    <2> QED
        BY <1>3, <2>1, <2>2, <2>3

\* A bit is 0 or 1.
LEMMA BitIsBit ==
    ASSUME NEW price \in Nat, NEW b \in 0 .. PRICE_BITS - 1
    PROVE  Bit(price, b) \in {0, 1}
<1>1. Shifted(price)[b] \in Nat
    BY ShiftHalves, InputAssumption
<1> QED
    BY <1>1 DEF Bit

\* Two prices with the same bits are the same price.
LEMMA BitsTellPrices ==
    ASSUME NEW p \in PriceRange, NEW q \in PriceRange,
           \A b \in 0 .. PRICE_BITS - 1 : Bit(p, b) = Bit(q, b)
    PROVE  p = q
<1>1. PRICE_BITS \in Nat \ {0} /\ p \in Nat /\ q \in Nat
    BY InputAssumption DEF PriceRange
<1> DEFINE f == Shifted(p)
           g == Shifted(q)
<1>2. /\ f \in [0 .. PRICE_BITS -> Nat] /\ f[0] = p /\ f[PRICE_BITS] = 0
      /\ \A k \in 0 .. PRICE_BITS - 1 : f[k + 1] = f[k] \div 2
    BY <1>1, ShiftHalves DEF PriceRange
<1>3. /\ g \in [0 .. PRICE_BITS -> Nat] /\ g[0] = q /\ g[PRICE_BITS] = 0
      /\ \A k \in 0 .. PRICE_BITS - 1 : g[k + 1] = g[k] \div 2
    BY <1>1, ShiftHalves DEF PriceRange
<1>4. \A b \in 0 .. PRICE_BITS - 1 : f[b] % 2 = g[b] % 2
    BY DEF Bit
<1> HIDE DEF f, g
<1> DEFINE Bad == {n \in 0 .. PRICE_BITS : f[PRICE_BITS - n] # g[PRICE_BITS - n]}
<1>5. Bad = {}
    <2>1. SUFFICES ASSUME Bad # {} PROVE FALSE
        OBVIOUS
    <2>2. Bad \in SUBSET Nat
        OBVIOUS
    <2>3. PICK n \in Bad : \A x \in Bad : n <= x
        BY <2>1, <2>2, Least
    <2>4. n # 0
        BY <1>1, <1>2, <1>3
    <2> DEFINE k == PRICE_BITS - n
    <2>5. k \in 0 .. PRICE_BITS - 1 /\ n - 1 \in 0 .. PRICE_BITS /\ n - 1 \notin Bad
        BY <1>1, <2>3, <2>4
    <2>6. f[k + 1] = g[k + 1]
        BY <1>1, <2>5
    <2> HIDE DEF k
    <2>9. k \in 0 .. PRICE_BITS /\ f[k + 1] = f[k] \div 2 /\ g[k + 1] = g[k] \div 2
        BY <1>1, <1>2, <1>3, <2>5
    <2>7. f[k] \div 2 = g[k] \div 2 /\ f[k] % 2 = g[k] % 2 /\ f[k] \in Nat /\ g[k] \in Nat
        BY <1>2, <1>3, <1>4, <2>5, <2>6, <2>9
    <2>8. f[k] = g[k]
        BY <2>7
    <2> QED
        BY <2>3, <2>8 DEF k
<1>6. PRICE_BITS \notin Bad
    BY <1>5
<1> QED
    BY <1>1, <1>2, <1>3, <1>6

\* The greatest member of a set of small naturals.
LEMMA GreatestIsMax ==
    ASSUME NEW n \in Nat, NEW S \in SUBSET (0 .. n), S # {}
    PROVE  Max(S) \in S /\ \A x \in S : Max(S) >= x
<1> DEFINE T == {n - x : x \in S}
<1>0. \A x \in S : x \in Nat /\ n - x \in Nat
    OBVIOUS
<1>1. T \in SUBSET Nat /\ T # {}
    BY <1>0
<1>2. PICK m \in T : \A x \in T : m <= x
    BY <1>1, Least
<1>3. PICK g \in S : m = n - g
    OBVIOUS
<1>4. ASSUME NEW x \in S PROVE g >= x
    <2>1. m <= n - x
        BY <1>2
    <2> QED
        BY <1>0, <1>3, <2>1
<1> QED
    BY <1>4 DEF Max

\* The highest bit in which two prices differ.
LEMMA SharedBitDiffers ==
    ASSUME NEW p \in PriceRange, NEW q \in PriceRange, p # q
    PROVE  /\ SharedBit(p, q) \in 0 .. PRICE_BITS - 1
           /\ Bit(p, SharedBit(p, q)) # Bit(q, SharedBit(p, q))
           /\ \A b \in 0 .. PRICE_BITS - 1 : b > SharedBit(p, q) => Bit(p, b) = Bit(q, b)
<1> DEFINE S == {b \in 0 .. PRICE_BITS - 1 : Bit(p, b) # Bit(q, b)}
<1>1. PRICE_BITS - 1 \in Nat
    BY InputAssumption
<1>2. S \in SUBSET (0 .. PRICE_BITS - 1) /\ S # {}
    BY BitsTellPrices
<1>3. SharedBit(p, q) = Max(S)
    BY DEF SharedBit
<1>4. Max(S) \in S /\ \A x \in S : Max(S) >= x
    BY <1>1, <1>2, GreatestIsMax
<1> QED
    BY <1>1, <1>3, <1>4

----------------------------------------------------------------------------
(* Descents of a tree.                                                      *)

\* q leads from c along next as far as next goes.
IsPath(q, c, next) ==
    /\ q \in Seq(TreeIndices) /\ q # <<>>
    /\ q[1] = c
    /\ \A i \in 1 .. Len(q) - 1 : q[i] \in DOMAIN next /\ q[i + 1] = next[q[i]]
    /\ q[Len(q)] \notin DOMAIN next

\* f gives the path from every node of S on.
Paths(f, S, next) == f = [c \in S |-> IF c \in DOMAIN next THEN <<c>> \o f[next[c]] ELSE <<c>>]

\* Descend goes along next until next goes no further, whenever something
\* falls with each link.
LEMMA DescendIsPath ==
    ASSUME NEW t, t.root \in TreeIndices, NEW next, NEW N \in Nat,
           NEW rank \in [TreeIndices -> 0 .. N],
           \A c \in DOMAIN next :
                c \in TreeIndices /\ next[c] \in TreeIndices /\ rank[next[c]] < rank[c]
    PROVE  IsPath(Descend(t, next), t.root, next)
<1> DEFINE Below(n) == {c \in TreeIndices : rank[c] < n}
           NoPaths == {n \in Nat : ~ \E f : Paths(f, Below(n), next)}
<1>1. NoPaths = {}
    <2>1. SUFFICES ASSUME NoPaths # {} PROVE FALSE
        OBVIOUS
    <2>2. NoPaths \in SUBSET Nat
        OBVIOUS
    <2>3. PICK m \in NoPaths : \A x \in NoPaths : m <= x
        BY <2>1, <2>2, Least
    <2>4. CASE m = 0
        <3>1. Below(0) = {}
            OBVIOUS
        <3>2. Paths([c \in {} |-> <<c>>], Below(0), next)
            BY <3>1 DEF Paths
        <3> QED
            BY <2>3, <2>4, <3>2
    <2>5. CASE m # 0
        <3>1. m \in Nat /\ m - 1 \in Nat /\ m - 1 \notin NoPaths
            BY <2>3, <2>5
        <3>2. PICK before : Paths(before, Below(m - 1), next)
            BY <3>1
        <3> DEFINE f == [c \in Below(m) |->
                            IF c \in Below(m - 1) THEN before[c]
                            ELSE IF c \in DOMAIN next THEN <<c>> \o before[next[c]] ELSE <<c>>]
        <3>3. \A c \in Below(m) : c \in DOMAIN next => next[c] \in Below(m - 1)
            BY <3>1
        <3>4. Below(m - 1) \subseteq Below(m)
            BY <3>1
        <3>5. \A c \in Below(m - 1) :
                before[c] = IF c \in DOMAIN next THEN <<c>> \o before[next[c]] ELSE <<c>>
            BY <3>2 DEF Paths
        <3> HIDE DEF Below
        <3>6. ASSUME NEW c \in Below(m)
              PROVE  f[c] = IF c \in DOMAIN next THEN <<c>> \o f[next[c]] ELSE <<c>>
            BY <3>3, <3>4, <3>5
        <3>7. Paths(f, Below(m), next)
            BY <3>6 DEF Paths
        <3> QED
            BY <2>3, <3>7
    <2> QED
        BY <2>4, <2>5
<1>2. \E f : Paths(f, TreeIndices, next)
    <2>1. N + 1 \notin NoPaths
        BY <1>1
    <2>2. Below(N + 1) = TreeIndices
        OBVIOUS
    <2> QED
        BY <2>1, <2>2
<1> DEFINE f == CHOOSE f : Paths(f, TreeIndices, next)
<1>3. Paths(f, TreeIndices, next)
    BY <1>2
<1>4. Descend(t, next) = f[t.root]
    BY DEF Descend, Paths
<1> HIDE DEF f
<1>5. \A c \in TreeIndices : f[c] = IF c \in DOMAIN next THEN <<c>> \o f[next[c]] ELSE <<c>>
    BY <1>3 DEF Paths
<1> DEFINE Bad == {rank[c] : c \in {c \in TreeIndices : ~IsPath(f[c], c, next)}}
<1>6. Bad = {}
    <2>1. SUFFICES ASSUME Bad # {} PROVE FALSE
        OBVIOUS
    <2>2. Bad \in SUBSET Nat
        OBVIOUS
    <2>3. PICK m \in Bad : \A x \in Bad : m <= x
        BY <2>1, <2>2, Least
    <2>4. PICK c \in TreeIndices : ~IsPath(f[c], c, next) /\ m = rank[c]
        BY <2>3
    <2>5. CASE c \notin DOMAIN next
        <3>1. f[c] = <<c>>
            BY <1>5, <2>5
        <3> QED
            BY <2>4, <2>5, <3>1 DEF IsPath
    <2>6. CASE c \in DOMAIN next
        <3>1. next[c] \in TreeIndices /\ ~ (m <= rank[next[c]])
            BY <2>4, <2>6
        <3>2. IsPath(f[next[c]], next[c], next)
            BY <2>3, <3>1
        <3> DEFINE r == f[next[c]]
                   q == <<c>> \o r
        <3>3. f[c] = q
            BY <1>5, <2>6
        <3> HIDE DEF f
        <3>4. r \in Seq(TreeIndices) /\ Len(r) \in Nat \ {0}
            BY <3>2 DEF IsPath
        <3> HIDE DEF r
        <3>5. /\ q \in Seq(TreeIndices) /\ Len(q) = Len(r) + 1
              /\ q[1] = c /\ \A i \in 1 .. Len(r) : q[i + 1] = r[i]
            BY <3>4
        <3> HIDE DEF q
        <3>6. ASSUME NEW i \in 1 .. Len(q) - 1
              PROVE  q[i] \in DOMAIN next /\ q[i + 1] = next[q[i]]
            <4>1. CASE i = 1
                <5>1. r[1] = next[c] /\ 1 \in 1 .. Len(r)
                    BY <3>2, <3>4 DEF IsPath, r
                <5>2. q[1] = c /\ q[2] = next[c]
                    BY <3>5, <5>1
                <5> QED
                    BY <2>6, <4>1, <5>2
            <4>2. CASE i # 1
                <5>1. i - 1 \in 1 .. Len(r) - 1 /\ i \in 1 .. Len(r)
                    <6>1. Len(r) \in Nat /\ i \in 1 .. Len(r)
                        BY <3>4, <3>5
                    <6> QED
                        BY ONLY <4>2, <6>1
                <5>2. q[i] = r[i - 1] /\ q[i + 1] = r[i]
                    <6>1. (i - 1) + 1 = i /\ i - 1 \in 1 .. Len(r)
                        BY <5>1, <3>4
                    <6> QED
                        BY <3>5, <5>1, <6>1
                <5>3. r[i - 1] \in DOMAIN next /\ r[(i - 1) + 1] = next[r[i - 1]]
                    BY <3>2, <5>1 DEF IsPath, r
                <5> QED
                    BY <5>1, <5>2, <5>3
            <4> QED
                BY <4>1, <4>2
        <3>7. q[Len(q)] \notin DOMAIN next
            <4>1. Len(r) \in 1 .. Len(r)
                BY <3>4
            <4>2. q[Len(q)] = r[Len(r)]
                BY <3>5, <4>1
            <4> QED
                BY <3>2, <4>2 DEF IsPath, r
        <3>8. IsPath(q, c, next)
            BY <3>4, <3>5, <3>6, <3>7 DEF IsPath
        <3> QED
            BY <2>4, <3>3, <3>8
    <2> QED
        BY <2>5, <2>6
<1> QED
    BY <1>4, <1>6

\* What holds at the start of a path and is passed on along it holds of all
\* its nodes.
LEMMA PassedAlong ==
    ASSUME NEW q, NEW c, NEW next, IsPath(q, c, next), NEW F, c \in F,
           \A d \in F \cap DOMAIN next : next[d] \in F
    PROVE  /\ \A i \in 1 .. Len(q) : q[i] \in F
           /\ q[Len(q)] \in F \ DOMAIN next
<1> DEFINE Bad == {i \in 1 .. Len(q) : q[i] \notin F}
<1>1. Bad = {}
    <2>1. SUFFICES ASSUME Bad # {} PROVE FALSE
        OBVIOUS
    <2>2. Bad \in SUBSET Nat
        OBVIOUS
    <2>3. PICK m \in Bad : \A x \in Bad : m <= x
        BY <2>1, <2>2, Least
    <2>4. m # 1
        BY <2>3 DEF IsPath
    <2>5. m - 1 \in 1 .. Len(q) - 1 /\ m - 1 \notin Bad
        BY <2>3, <2>4 DEF IsPath
    <2>6. q[m - 1] \in F \cap DOMAIN next /\ q[(m - 1) + 1] = next[q[m - 1]]
        BY <2>5 DEF IsPath
    <2> QED
        BY <2>3, <2>5, <2>6
<1>2. Len(q) \in 1 .. Len(q)
    BY DEF IsPath
<1> QED
    BY <1>1, <1>2 DEF IsPath

----------------------------------------------------------------------------
(* The shape of a tree.  What its links say step by step is stated at once  *)
(* for all depths with the help of sub, which gives the nodes of each        *)
(* subtree.                                                                  *)

TreeLinks == TreeIndices \union {SLAB_NONE_INDEX}
NodeLinks == PoolIndices \union {SLAB_NONE_INDEX}
FreeTreeNodes == [tag : {"FREE"}, next_free : TreeLinks]
InnerTreeNodes == [tag : {"INNER"}, split_bit : 0 .. PRICE_BITS - 1,
                   left_child : TreeIndices, right_child : TreeIndices]
LeafTreeNodes == [tag : {"LEAF"}, price : PriceRange,
                  head_node : NodeLinks, tail_node : NodeLinks, order_count : Nat]
TreeNodes == FreeTreeNodes \union InnerTreeNodes \union LeafTreeNodes
Trees == [root : TreeLinks, free_head : TreeLinks, nodes : [TreeIndices -> TreeNodes]]

Live(t) == {c \in TreeIndices : t.nodes[c].tag # "FREE"}
Inners(t) == {c \in TreeIndices : t.nodes[c].tag = "INNER"}
LeafNodes(t) == {c \in TreeIndices : t.nodes[c].tag = "LEAF"}

\* The root's subtree is the whole tree.
Rooted(t, sub) ==
    \/ t.root = SLAB_NONE_INDEX /\ Live(t) = {}
    \/ t.root \in Live(t) /\ sub[t.root] = Live(t)

\* The subtree of an inner node is that node and the disjoint subtrees of its
\* two children.
Branches(t, sub) ==
    /\ sub \in [Live(t) -> SUBSET Live(t)]
    /\ \A c \in Live(t) : c \in sub[c]
    /\ \A c \in LeafNodes(t) : sub[c] = {c}
    /\ \A c \in Inners(t) :
            LET l == t.nodes[c].left_child
                r == t.nodes[c].right_child
            IN /\ l \in Live(t) /\ r \in Live(t)
               /\ sub[c] = {c} \union sub[l] \union sub[r]
               /\ c \notin sub[l] /\ c \notin sub[r] /\ sub[l] \cap sub[r] = {}

\* Subtrees are nested, and a node below another has its parent there too.
Nested(t, sub) ==
    /\ \A c \in Live(t) : \A d \in sub[c] : sub[d] \subseteq sub[c]
    /\ \A g \in Inners(t), a \in Live(t) :
            \A x \in {t.nodes[g].left_child, t.nodes[g].right_child} :
                x \in sub[a] /\ x # a => g \in sub[a]

\* Split bits fall on the way down.
BitsFall(t, sub) ==
    \A c \in Inners(t) : \A d \in sub[c] \cap Inners(t) :
        d # c => t.nodes[d].split_bit < t.nodes[c].split_bit

\* Under an inner node prices agree above its split bit, which tells those on
\* the left from those on the right.
PricesSplit(t, sub) ==
    \A c \in Inners(t) :
        /\ \A i \in sub[t.nodes[c].left_child] \cap LeafNodes(t) :
                Bit(t.nodes[i].price, t.nodes[c].split_bit) = 0
        /\ \A i \in sub[t.nodes[c].right_child] \cap LeafNodes(t) :
                Bit(t.nodes[i].price, t.nodes[c].split_bit) = 1
        /\ \A i, j \in sub[c] \cap LeafNodes(t) : \A b \in 0 .. PRICE_BITS - 1 :
                b > t.nodes[c].split_bit => Bit(t.nodes[i].price, b) = Bit(t.nodes[j].price, b)

IsTree(t, sub) ==
    /\ t \in Trees
    /\ Rooted(t, sub) /\ Branches(t, sub) /\ Nested(t, sub)
    /\ BitsFall(t, sub) /\ PricesSplit(t, sub)

\* What a node is.
LEMMA KindOfNode ==
    ASSUME NEW t \in Trees, NEW c \in TreeIndices
    PROVE  /\ t.nodes[c].tag \in {"FREE", "INNER", "LEAF"}
           /\ t.nodes[c].tag = "FREE" => t.nodes[c] \in FreeTreeNodes
           /\ t.nodes[c].tag = "INNER" => t.nodes[c] \in InnerTreeNodes
           /\ t.nodes[c].tag = "LEAF" => t.nodes[c] \in LeafTreeNodes
<1>1. t.nodes[c] \in TreeNodes
    BY DEF Trees
<1> QED
    BY <1>1 DEF TreeNodes, FreeTreeNodes, InnerTreeNodes, LeafTreeNodes

\* The live nodes are the inner nodes and the leaves.
LEMMA LiveNodes ==
    ASSUME NEW t \in Trees
    PROVE  /\ Live(t) = Inners(t) \union LeafNodes(t)
           /\ Inners(t) \cap LeafNodes(t) = {}
           /\ SLAB_NONE_INDEX \notin TreeIndices
<1>1. SLAB_NONE_INDEX \notin TreeIndices
    BY CapacityAssumption
<1> QED
    BY <1>1, KindOfNode DEF Live, Inners, LeafNodes

\* The children of an inner node are below it, and their split bits are lower.
LEMMA ChildrenBelow ==
    ASSUME NEW t, NEW sub, IsTree(t, sub), NEW c \in Inners(t), NEW d \in Children(t, c)
    PROVE  /\ d \in Live(t) /\ d \in sub[c] /\ d # c /\ sub[d] \subseteq sub[c]
           /\ t.nodes[c].split_bit \in 0 .. PRICE_BITS - 1
           /\ d \in Inners(t) => /\ t.nodes[d].split_bit \in 0 .. PRICE_BITS - 1
                                 /\ t.nodes[d].split_bit < t.nodes[c].split_bit
<1>1. d = t.nodes[c].left_child \/ d = t.nodes[c].right_child
    BY DEF Children, Inners
<1>2. d \in Live(t) /\ d \in sub[c] /\ d # c /\ c \in Live(t)
    BY <1>1, LiveNodes DEF IsTree, Branches
<1>3. sub[d] \subseteq sub[c]
    BY <1>2 DEF IsTree, Nested
<1>4. \A e \in Inners(t) : t.nodes[e].split_bit \in 0 .. PRICE_BITS - 1
    BY KindOfNode DEF IsTree, Inners, InnerTreeNodes
<1> QED
    BY <1>2, <1>3, <1>4 DEF IsTree, BitsFall

\* No two inner nodes share a child, and the root is no child.
LEMMA OneParent ==
    ASSUME NEW t, NEW sub, IsTree(t, sub), NEW c \in Inners(t), NEW x \in Children(t, c)
    PROVE  /\ \A d \in Inners(t) : x \in Children(t, d) => d = c
           /\ x # t.root
           /\ t.nodes[c].left_child # t.nodes[c].right_child
<1>1. \A d \in Inners(t) : d \in Live(t) /\ Children(t, d) = {t.nodes[d].left_child, t.nodes[d].right_child}
    BY LiveNodes DEF IsTree, Children, Inners
<1>2. ASSUME NEW d \in Inners(t), x \in Children(t, d), d # c PROVE FALSE
    <2>1. x \in sub[c] /\ x # c /\ x \in sub[d] /\ x # d
        BY <1>2, ChildrenBelow
    <2>2. c \in sub[d] /\ d \in sub[c]
        BY <1>1, <1>2, <2>1 DEF IsTree, Nested
    <2>3. t.nodes[c].split_bit < t.nodes[d].split_bit /\ t.nodes[d].split_bit < t.nodes[c].split_bit
        BY <1>2, <2>2 DEF IsTree, BitsFall
    <2>4. t.nodes[c].split_bit \in 0 .. PRICE_BITS - 1 /\ t.nodes[d].split_bit \in 0 .. PRICE_BITS - 1
        BY KindOfNode DEF IsTree, Inners, InnerTreeNodes
    <2> QED
        BY <2>3, <2>4, InputAssumption
<1>3. x # t.root
    <2>1. SUFFICES ASSUME x = t.root PROVE FALSE
        OBVIOUS
    <2>2. x \in Live(t) /\ SLAB_NONE_INDEX \notin TreeIndices
        BY ChildrenBelow, LiveNodes DEF IsTree
    <2>3. c \in sub[x]
        BY <1>1, <2>1, <2>2 DEF IsTree, Rooted, Live
    <2> QED
        BY <1>1, <2>3 DEF IsTree, Branches
<1>4. t.nodes[c].left_child # t.nodes[c].right_child
    BY <1>1 DEF IsTree, Branches
<1> QED
    BY <1>2, <1>3, <1>4

\* A descent of a tree that chooses a child at each inner node.
LEMMA TreeDescent ==
    ASSUME NEW t, NEW sub, IsTree(t, sub), t.root # SLAB_NONE_INDEX,
           NEW next, DOMAIN next \subseteq Inners(t),
           \A c \in DOMAIN next : next[c] \in Children(t, c)
    PROVE  IsPath(Descend(t, next), t.root, next)
<1>1. t.root \in TreeIndices /\ Live(t) \subseteq TreeIndices /\ Inners(t) \subseteq TreeIndices
    BY DEF IsTree, Rooted, Live, Inners
<1>2. PRICE_BITS \in Nat
    BY InputAssumption
<1> DEFINE rank == [c \in TreeIndices |->
                        IF c \in Inners(t) THEN t.nodes[c].split_bit + 1 ELSE 0]
<1>3. \A c \in Inners(t) : t.nodes[c].split_bit \in 0 .. PRICE_BITS - 1
    BY KindOfNode DEF IsTree, Inners, InnerTreeNodes
<1>4. rank \in [TreeIndices -> 0 .. PRICE_BITS]
    BY <1>2, <1>3
<1>5. ASSUME NEW c \in DOMAIN next
      PROVE  c \in TreeIndices /\ next[c] \in TreeIndices /\ rank[next[c]] < rank[c]
    <2>1. c \in Inners(t) /\ next[c] \in Children(t, c)
        OBVIOUS
    <2>2. next[c] \in Live(t)
          /\ (next[c] \in Inners(t) => t.nodes[next[c]].split_bit < t.nodes[c].split_bit)
        BY <2>1, ChildrenBelow
    <2> QED
        BY <1>1, <1>2, <1>3, <2>1, <2>2
<1> HIDE DEF rank
<1> QED
    BY <1>1, <1>2, <1>4, <1>5, DescendIsPath

\* The links of a descent by price, through the inner nodes that test bit or
\* a higher one.
Toward(t, price, bit) == [c \in InnerNodes(t, bit) |-> ChildToward(t.nodes[c], price)]

\* Each such link leads to the child that the bit of the price names.
LEMMA TowardChild ==
    ASSUME NEW t, NEW price, NEW bit
    PROVE  /\ DOMAIN Toward(t, price, bit) = InnerNodes(t, bit)
           /\ InnerNodes(t, bit) \subseteq Inners(t)
           /\ \A c \in DOMAIN Toward(t, price, bit) :
                Toward(t, price, bit)[c] \in Children(t, c)
BY DEF Toward, InnerNodes, Inners, ChildToward, Children

\* The whole of a path is in the tree, and its end below each of its nodes.
LEMMA PathInTree ==
    ASSUME NEW t, NEW sub, IsTree(t, sub), t.root # SLAB_NONE_INDEX,
           NEW next, DOMAIN next \subseteq Inners(t),
           \A c \in DOMAIN next : next[c] \in Children(t, c),
           NEW q, IsPath(q, t.root, next)
    PROVE  \A i \in 1 .. Len(q) : q[i] \in Live(t) /\ q[Len(q)] \in sub[q[i]]
<1>1. ASSUME NEW i \in 1 .. Len(q) PROVE q[i] \in Live(t)
    <2>1. t.root \in Live(t)
        BY DEF IsTree, Rooted
    <2>2. \A d \in Live(t) \cap DOMAIN next : next[d] \in Live(t)
        BY ChildrenBelow
    <2> QED
        BY <2>1, <2>2, PassedAlong
<1>2. Len(q) \in Nat \ {0}
    BY DEF IsPath
<1> DEFINE n == Len(q)
           Bad == {k \in 0 .. n - 1 : q[n] \notin sub[q[n - k]]}
<1>3. Bad = {}
    <2>1. SUFFICES ASSUME Bad # {} PROVE FALSE
        OBVIOUS
    <2>2. Bad \in SUBSET Nat
        BY <1>2
    <2>3. PICK m \in Bad : \A x \in Bad : m <= x
        BY <2>1, <2>2, Least
    <2>4. m # 0
        <3>1. q[n] \in sub[q[n]]
            BY <1>1, <1>2 DEF IsTree, Branches
        <3> QED
            BY <1>2, <2>3, <3>1
    <2>5. m - 1 \in 0 .. n - 1 /\ m - 1 \notin Bad /\ n - m \in 1 .. n - 1
          /\ (n - m) + 1 = n - (m - 1)
        <3>1. m \in 0 .. n - 1 /\ n \in Nat
            BY <1>2, <2>3
        <3>2. m - 1 \notin Bad
            BY <2>3, <3>1
        <3> QED
            BY ONLY <2>4, <3>1, <3>2
    <2>6. q[n - m] \in DOMAIN next /\ q[(n - m) + 1] = next[q[n - m]]
        BY <2>5 DEF IsPath
    <2>7. sub[next[q[n - m]]] \subseteq sub[q[n - m]]
        BY <2>6, ChildrenBelow
    <2>8. q[n] \in sub[q[n - (m - 1)]]
        BY <2>5
    <2> QED
        BY <2>3, <2>5, <2>6, <2>7, <2>8
<1>4. ASSUME NEW i \in 1 .. n PROVE q[n] \in sub[q[i]]
    <2>1. n - i \in 0 .. n - 1 /\ n - (n - i) = i
        BY <1>2
    <2> QED
        BY <1>3, <2>1
<1> QED
    BY <1>1, <1>4

\* A descent by price ends at a leaf.
LEMMA PathToLeafEnds ==
    ASSUME NEW t, NEW sub, IsTree(t, sub), t.root # SLAB_NONE_INDEX, NEW price
    PROVE  /\ IsPath(PathToLeaf(t, price), t.root, Toward(t, price, 0))
           /\ Last(PathToLeaf(t, price)) \in LeafNodes(t)
           /\ DOMAIN Toward(t, price, 0) = Inners(t)
<1>1. DOMAIN Toward(t, price, 0) = Inners(t)
    <2>1. \A c \in Inners(t) : t.nodes[c].split_bit >= 0
        BY KindOfNode DEF IsTree, Inners, InnerTreeNodes
    <2> QED
        BY <2>1 DEF Toward, InnerNodes, Inners
<1> DEFINE q == PathToLeaf(t, price)
           next == Toward(t, price, 0)
<1>2. IsPath(q, t.root, next)
    BY <1>1, TowardChild, TreeDescent DEF PathToLeaf, Toward
<1>3. Last(q) \in Live(t) \ Inners(t)
    <2>1. Len(q) \in 1 .. Len(q) /\ Last(q) = q[Len(q)]
        BY <1>2 DEF IsPath, Last
    <2>2. q[Len(q)] \in Live(t)
        BY <1>1, <1>2, <2>1, TowardChild, PathInTree
    <2>3. q[Len(q)] \notin DOMAIN next
        BY <1>2 DEF IsPath
    <2> QED
        BY <1>1, <2>1, <2>2, <2>3
<1>4. Live(t) = Inners(t) \union LeafNodes(t)
    BY LiveNodes DEF IsTree
<1> QED
    BY <1>1, <1>2, <1>3, <1>4

\* The last node of a path, and the one before it.
LEMMA PathEnd ==
    ASSUME NEW q, NEW c, NEW next, IsPath(q, c, next)
    PROVE  /\ Len(q) \in Nat \ {0} /\ Last(q) = q[Len(q)] /\ Last(q) \notin DOMAIN next
           /\ Front(q) \in Seq(TreeIndices) /\ Len(Front(q)) = Len(q) - 1
           /\ \A i \in 1 .. Len(q) - 1 : Front(q)[i] = q[i]
           /\ Front(q) = <<>> => Last(q) = c
           /\ Front(q) # <<>> => /\ Len(q) > 1 /\ Last(Front(q)) = q[Len(q) - 1]
                                 /\ Last(Front(q)) \in DOMAIN next
                                 /\ Last(q) = next[Last(Front(q))]
<1> DEFINE n == Len(q)
<1>1. q \in Seq(TreeIndices) /\ n \in Nat \ {0} /\ Last(q) = q[n]
    BY DEF IsPath, Last
<1>2. /\ Front(q) \in Seq(TreeIndices) /\ Len(Front(q)) = n - 1
      /\ \A i \in 1 .. n - 1 : Front(q)[i] = q[i]
    <2>1. 1 \in Int /\ n - 1 \in Int /\ \A i \in 1 .. n - 1 : q[i] \in TreeIndices
        BY <1>1
    <2>2. Front(q) = SubSeq(q, 1, n - 1)
        BY DEF Front
    <2>3. /\ SubSeq(q, 1, n - 1) \in Seq(TreeIndices)
          /\ Len(SubSeq(q, 1, n - 1)) = IF 1 <= n - 1 THEN (n - 1) - 1 + 1 ELSE 0
          /\ \A i \in 1 .. (n - 1) - 1 + 1 : SubSeq(q, 1, n - 1)[i] = q[1 + i - 1]
        BY ONLY <2>1, SubSeqProperties
    <2> HIDE DEF n
    <2>4. Len(SubSeq(q, 1, n - 1)) = n - 1
        BY <1>1, <2>3
    <2>5. ASSUME NEW i \in 1 .. n - 1 PROVE SubSeq(q, 1, n - 1)[i] = q[i]
        <3>1. i \in 1 .. (n - 1) - 1 + 1 /\ 1 + i - 1 = i
            BY <1>1
        <3> QED
            BY <2>3, <3>1
    <2> QED
        BY <2>2, <2>3, <2>4, <2>5 DEF n
<1>3. ASSUME Front(q) = <<>> PROVE Last(q) = c
    <2>1. n = 1
        BY <1>1, <1>2, <1>3
    <2> QED
        BY <1>1, <2>1 DEF IsPath
<1>4. ASSUME Front(q) # <<>>
      PROVE  /\ n > 1 /\ Last(Front(q)) = q[n - 1] /\ Last(Front(q)) \in DOMAIN next
             /\ Last(q) = next[Last(Front(q))]
    <2>1. n > 1 /\ n - 1 \in 1 .. n - 1 /\ (n - 1) + 1 = n
        BY <1>1, <1>2, <1>4
    <2>2. Last(Front(q)) = q[n - 1]
        BY <1>2, <2>1 DEF Last
    <2> QED
        BY <1>1, <2>1, <2>2 DEF IsPath
<1> QED
    BY <1>1, <1>2, <1>3, <1>4 DEF IsPath

\* The end of the path above leads to x for price.
LeadsTo(t, above, price, x) ==
    \/ above = <<>> /\ x = t.root
    \/ /\ above # <<>> /\ Last(above) \in Inners(t)
       /\ x = ChildToward(t.nodes[Last(above)], price)

\* x is where a new price p, which differs from the prices below x first in
\* bit s, belongs.
Spot(t, sub, p, s, x) ==
    /\ x \in Live(t) /\ s \in 0 .. PRICE_BITS - 1
    /\ x \in Inners(t) => t.nodes[x].split_bit < s
    /\ \A i \in sub[x] \cap LeafNodes(t) :
            /\ Bit(t.nodes[i].price, s) # Bit(p, s)
            /\ \A b \in 0 .. PRICE_BITS - 1 : b > s => Bit(t.nodes[i].price, b) = Bit(p, b)
    /\ \A a \in Live(t) : x \in sub[a] /\ a # x =>
            /\ a \in Inners(t) /\ t.nodes[a].split_bit > s
            /\ x \in sub[ChildToward(t.nodes[a], p)]
            /\ \A i \in sub[a] \cap LeafNodes(t) : \A b \in 0 .. PRICE_BITS - 1 :
                    b > t.nodes[a].split_bit => Bit(t.nodes[i].price, b) = Bit(p, b)

\* The second walk of critbit_find_or_create_leaf ends there.
LEMMA SplicePathEnds ==
    ASSUME NEW t, NEW sub, IsTree(t, sub), t.root # SLAB_NONE_INDEX, NEW p \in PriceRange,
           NEW found, found = Last(PathToLeaf(t, p)), t.nodes[found].price # p,
           NEW s, s = SharedBit(p, t.nodes[found].price)
    PROVE  /\ Spot(t, sub, p, s, Last(SplicePath(t, p, s)))
           /\ LeadsTo(t, Front(SplicePath(t, p, s)), p, Last(SplicePath(t, p, s)))
<1> DEFINE Price(i) == t.nodes[i].price
           SB(c) == t.nodes[c].split_bit
           r == PathToLeaf(t, p)
           walk == Toward(t, p, 0)
           q == SplicePath(t, p, s)
           next == Toward(t, p, s)
           x == Last(q)
<1>1. /\ IsPath(r, t.root, walk) /\ found \in LeafNodes(t) /\ DOMAIN walk = Inners(t)
      /\ found = r[Len(r)] /\ Len(r) \in Nat \ {0}
    BY PathToLeafEnds, PathEnd
<1>2. IsPath(q, t.root, next)
    BY TowardChild, TreeDescent DEF SplicePath, Toward
<1>3. /\ \A c \in Inners(t) : SB(c) \in 0 .. PRICE_BITS - 1
      /\ PRICE_BITS \in Nat \ {0} /\ Inners(t) \subseteq Live(t)
      /\ Live(t) = Inners(t) \union LeafNodes(t) /\ Inners(t) \cap LeafNodes(t) = {}
      /\ \A i \in LeafNodes(t) : Price(i) \in PriceRange
    BY InputAssumption, KindOfNode, LiveNodes
       DEF IsTree, Inners, InnerTreeNodes, LeafNodes, LeafTreeNodes
<1>4. /\ s \in 0 .. PRICE_BITS - 1 /\ Bit(p, s) # Bit(Price(found), s)
      /\ \A b \in 0 .. PRICE_BITS - 1 : b > s => Bit(p, b) = Bit(Price(found), b)
    BY <1>1, <1>3, SharedBitDiffers
<1>5. /\ DOMAIN next = {c \in Inners(t) : SB(c) >= s}
      /\ \A c \in DOMAIN next : next[c] = ChildToward(t.nodes[c], p) /\ next[c] = walk[c]
    BY <1>1 DEF Toward, InnerNodes, Inners
\* A child by price is the one whose side its price bit names.
<1>6. ASSUME NEW c \in Inners(t), found \in sub[ChildToward(t.nodes[c], p)]
      PROVE  Bit(Price(found), SB(c)) = Bit(p, SB(c))
    <2>1. Bit(p, SB(c)) \in {0, 1}
        BY <1>3, BitIsBit DEF PriceRange
    <2> QED
        BY <1>1, <1>6, <2>1 DEF ChildToward, IsTree, PricesSplit
\* Both walks agree as long as the second goes on, and so found is below.
<1> DEFINE On == {c \in Live(t) : \E k \in 1 .. Len(r) : c = r[k]}
<1>7. \A k \in 1 .. Len(r) : r[k] \in Live(t) /\ found \in sub[r[k]]
    BY <1>1, TowardChild, PathInTree
<1>8. ASSUME NEW c \in On \cap Inners(t)
      PROVE  walk[c] \in On /\ found \in sub[walk[c]] /\ walk[c] = ChildToward(t.nodes[c], p)
    <2>1. PICK k \in 1 .. Len(r) : c = r[k]
        OBVIOUS
    <2>2. k # Len(r)
        BY <1>1, <1>3, <2>1
    <2>3. k + 1 \in 1 .. Len(r) /\ k \in 1 .. Len(r) - 1
        BY <1>1, <2>2
    <2>4. walk[c] = r[k + 1]
        BY <1>1, <2>1, <2>3 DEF IsPath
    <2>5. walk[c] = ChildToward(t.nodes[c], p)
        BY <1>1 DEF Toward
    <2> QED
        BY <1>7, <2>3, <2>4, <2>5
<1>9. x \in On /\ x \notin DOMAIN next /\ \A i \in 1 .. Len(q) : q[i] \in On
    <2>1. t.root \in On
        <3>1. 1 \in 1 .. Len(r) /\ r[1] = t.root
            BY <1>1 DEF IsPath
        <3> QED
            BY <1>7, <3>1
    <2>2. \A c \in On \cap DOMAIN next : next[c] \in On
        BY <1>5, <1>8
    <2> HIDE DEF On
    <2>3. q[Len(q)] \in On \ DOMAIN next /\ \A i \in 1 .. Len(q) : q[i] \in On
        BY ONLY <1>2, <2>1, <2>2, PassedAlong
    <2> QED
        BY <1>2, <2>3, PathEnd
<1>10. x \in Live(t) /\ found \in sub[x]
    BY <1>7, <1>9
<1>11. x \in Inners(t) => SB(x) < s
    BY <1>3, <1>4, <1>5, <1>9
<1>12. ASSUME NEW i \in sub[x] \cap LeafNodes(t)
       PROVE  /\ Bit(Price(i), s) # Bit(p, s)
              /\ \A b \in 0 .. PRICE_BITS - 1 : b > s => Bit(Price(i), b) = Bit(p, b)
    <2>1. CASE x \in LeafNodes(t)
        <3>1. i = found
            BY <1>10, <2>1 DEF IsTree, Branches
        <3> QED
            BY <1>4, <3>1
    <2>2. CASE x \in Inners(t)
        <3>1. \A b \in 0 .. PRICE_BITS - 1 : b > SB(x) => Bit(Price(i), b) = Bit(Price(found), b)
            BY <1>1, <1>10, <2>2 DEF IsTree, PricesSplit
        <3> QED
            BY <1>3, <1>4, <1>11, <2>2, <3>1
    <2> QED
        BY <1>3, <1>10, <2>1, <2>2
\* The node that leads to it, if there is one, tests a higher bit than s.
<1>13. ASSUME Front(q) # <<>>
       PROVE  /\ Last(Front(q)) \in Inners(t) /\ SB(Last(Front(q))) > s
              /\ x = ChildToward(t.nodes[Last(Front(q))], p)
    <2> DEFINE g == Last(Front(q))
    <2>1. g \in DOMAIN next /\ x = next[g] /\ g = q[Len(q) - 1] /\ Len(q) > 1 /\ Len(q) \in Nat
        BY <1>2, <1>13, PathEnd
    <2>2. g \in On \cap Inners(t) /\ SB(g) >= s
        <3>1. Len(q) - 1 \in 1 .. Len(q)
            BY <2>1
        <3>2. g \in On
            BY <1>9, <2>1, <3>1
        <3> QED
            BY <1>5, <2>1, <3>2
    <2>3. x = ChildToward(t.nodes[g], p) /\ found \in sub[x]
        BY <1>5, <1>8, <2>1, <2>2
    <2>4. Bit(Price(found), SB(g)) = Bit(p, SB(g))
        BY <1>6, <2>2, <2>3
    <2> QED
        BY <1>3, <1>4, <2>2, <2>3, <2>4
<1>14. ASSUME NEW a \in Live(t), x \in sub[a], a # x
       PROVE  a \in Inners(t) /\ SB(a) > s
    <2>1. a \in Inners(t)
        BY <1>3, <1>14 DEF IsTree, Branches
    <2>2. CASE Front(q) = <<>>
        <3>1. x = t.root
            BY <1>2, <2>2, PathEnd
        <3>2. a \in sub[x]
            BY <1>10, <3>1, LiveNodes DEF IsTree, Rooted, Live
        <3>3. x \in Inners(t)
            BY <1>3, <1>10, <1>14, <3>2 DEF IsTree, Branches
        <3>4. SB(x) < SB(a) /\ SB(a) < SB(x)
            BY <1>14, <2>1, <3>2, <3>3 DEF IsTree, BitsFall
        <3> QED
            BY <1>3, <2>1, <3>3, <3>4
    <2>3. CASE Front(q) # <<>>
        <3> DEFINE g == Last(Front(q))
        <3>1. g \in Inners(t) /\ SB(g) > s /\ x = ChildToward(t.nodes[g], p)
            BY <1>13, <2>3
        <3>2. g \in sub[a]
            BY <1>14, <3>1 DEF ChildToward, IsTree, Nested
        <3>3. g = a \/ SB(g) < SB(a)
            BY <2>1, <3>1, <3>2 DEF IsTree, BitsFall
        <3> QED
            BY <1>3, <1>4, <2>1, <3>1, <3>3
    <2> QED
        BY <2>2, <2>3
<1>15. ASSUME NEW a \in Live(t), x \in sub[a], a # x
       PROVE  /\ x \in sub[ChildToward(t.nodes[a], p)]
              /\ \A i \in sub[a] \cap LeafNodes(t) : \A b \in 0 .. PRICE_BITS - 1 :
                    b > SB(a) => Bit(Price(i), b) = Bit(p, b)
    <2>1. a \in Inners(t) /\ SB(a) > s
        BY <1>14, <1>15
    <2>2. found \in sub[a] /\ Bit(Price(found), SB(a)) = Bit(p, SB(a))
        BY <1>3, <1>4, <1>10, <1>15, <2>1 DEF IsTree, Nested
    <2>3. \A b \in 0 .. PRICE_BITS - 1 : b > SB(a) => Bit(Price(found), b) = Bit(p, b)
        BY <1>3, <1>4, <2>1
    <2>4. \A i \in sub[a] \cap LeafNodes(t) : \A b \in 0 .. PRICE_BITS - 1 :
            b > SB(a) => Bit(Price(i), b) = Bit(Price(found), b)
        BY <1>1, <2>1, <2>2 DEF IsTree, PricesSplit
    <2> DEFINE lc == t.nodes[a].left_child
               rc == t.nodes[a].right_child
    <2>5. lc \in Live(t) /\ rc \in Live(t) /\ (x \in sub[lc] \/ x \in sub[rc])
        BY <1>15, <2>1 DEF IsTree, Branches
    <2>6. x \in sub[lc] => found \in sub[lc] /\ Bit(Price(found), SB(a)) = 0
        BY <1>1, <1>10, <2>1, <2>5 DEF IsTree, Nested, PricesSplit
    <2>7. x \in sub[rc] => found \in sub[rc] /\ Bit(Price(found), SB(a)) = 1
        BY <1>1, <1>10, <2>1, <2>5 DEF IsTree, Nested, PricesSplit
    <2>8. x \in sub[ChildToward(t.nodes[a], p)]
        BY <2>2, <2>5, <2>6, <2>7 DEF ChildToward
    <2> QED
        BY <2>3, <2>4, <2>8
<1>16. LeadsTo(t, Front(q), p, x)
    <2>1. Front(q) = <<>> => x = t.root
        BY <1>2, PathEnd
    <2> QED
        BY <1>13, <2>1 DEF LeadsTo
<1>17. Spot(t, sub, p, s, x)
    BY <1>4, <1>10, <1>11, <1>12, <1>14, <1>15 DEF Spot
<1> QED
    BY <1>16, <1>17

\* Two nodes that are below each other are the same.
LEMMA NotBothBelow ==
    ASSUME NEW t, NEW sub, IsTree(t, sub), NEW c \in Live(t), NEW d \in Live(t),
           c \in sub[d], d \in sub[c]
    PROVE  c = d
<1>1. SUFFICES ASSUME c # d PROVE FALSE
    OBVIOUS
<1>2. c \in Inners(t) /\ d \in Inners(t)
    BY <1>1, LiveNodes DEF IsTree, Branches
<1>3. t.nodes[c].split_bit < t.nodes[d].split_bit /\ t.nodes[d].split_bit < t.nodes[c].split_bit
    BY <1>1, <1>2 DEF IsTree, BitsFall
<1>4. t.nodes[c].split_bit \in 0 .. PRICE_BITS - 1 /\ t.nodes[d].split_bit \in 0 .. PRICE_BITS - 1
    BY <1>2, KindOfNode DEF IsTree, Inners, InnerTreeNodes
<1> QED
    BY <1>3, <1>4, InputAssumption

\* A node after every link to x has been made to lead to n.
To(link, x, n) == IF link = x THEN n ELSE link
Moved(node, x, n) ==
    IF node.tag = "INNER"
    THEN Inner(node.split_bit, To(node.left_child, x, n), To(node.right_child, x, n))
    ELSE node

\* Relink does that to a tree in which the path above leads to x: x has one
\* parent, or is the root.
LEMMA RelinkMoves ==
    ASSUME NEW t, NEW sub, IsTree(t, sub), t.root # SLAB_NONE_INDEX,
           NEW above, NEW price \in Nat, NEW x, LeadsTo(t, above, price, x),
           NEW n \in TreeIndices, NEW u \in Trees, u.root = t.root,
           \A c \in Live(t) : u.nodes[c] = t.nodes[c]
    PROVE  /\ Relink(u, above, price, n) \in Trees
           /\ Relink(u, above, price, n).free_head = u.free_head
           /\ Relink(u, above, price, n).root = To(t.root, x, n)
           /\ \A c \in Live(t) : Relink(u, above, price, n).nodes[c] = Moved(t.nodes[c], x, n)
           /\ \A c \in TreeIndices \ Live(t) : Relink(u, above, price, n).nodes[c] = u.nodes[c]
<1> DEFINE w == Relink(u, above, price, n)
<1>1. /\ \A c \in Inners(t) : t.nodes[c] \in InnerTreeNodes /\ c \in Live(t) /\ c \in TreeIndices
      /\ \A c \in Inners(t) : Children(t, c) = {t.nodes[c].left_child, t.nodes[c].right_child}
      /\ \A c \in Live(t) : c \in TreeIndices /\ (c \notin Inners(t) => t.nodes[c].tag # "INNER")
    BY KindOfNode, LiveNodes DEF IsTree, Inners, Live, Children
<1>2. ASSUME NEW c \in Live(t), c \in Inners(t) => x \notin Children(t, c)
      PROVE  Moved(t.nodes[c], x, n) = t.nodes[c]
    BY <1>1, <1>2 DEF Moved, To, Inner, InnerTreeNodes
<1>3. u \in [root : TreeLinks, free_head : TreeLinks, nodes : [TreeIndices -> TreeNodes]]
    BY DEF Trees
<1>4. CASE above = <<>>
    <2>1. x = t.root
        BY <1>4 DEF LeadsTo
    <2>2. w = [u EXCEPT !.root = n]
        BY <1>4 DEF Relink
    <2>3. /\ w \in Trees /\ w.root = n /\ w.free_head = u.free_head /\ w.nodes = u.nodes
        BY <1>3, <2>2 DEF Trees, TreeLinks
    <2>4. \A c \in Inners(t) : x \notin Children(t, c)
        BY <2>1, OneParent
    <2> QED
        BY <1>2, <2>1, <2>3, <2>4 DEF To
<1>5. CASE above # <<>>
    <2> DEFINE g == Last(above)
    <2>1. g \in Inners(t) /\ x = ChildToward(t.nodes[g], price)
        BY <1>5 DEF LeadsTo
    <2>2. x \in Children(t, g) /\ t.nodes[g].left_child # t.nodes[g].right_child /\ x # t.root
        BY <1>1, <2>1, OneParent DEF ChildToward
    <2>3. \A c \in Inners(t) : c # g => x \notin Children(t, c)
        BY <2>1, <2>2, OneParent
    <2>4. u.nodes[g] = t.nodes[g] /\ g \in TreeIndices /\ t.nodes[g] \in InnerTreeNodes
        BY <1>1, <2>1
    <2> HIDE DEF g
    <2>5. CASE Bit(price, t.nodes[g].split_bit) = 1
        <3>1. w = [u EXCEPT !.nodes[g].right_child = n]
            BY <1>5, <2>4, <2>5 DEF Relink, g
        <3>2. /\ w.root = u.root /\ w.free_head = u.free_head
              /\ w.nodes = [u.nodes EXCEPT ![g].right_child = n]
            BY <1>3, <3>1
        <3>3. w.nodes[g] = [t.nodes[g] EXCEPT !.right_child = n]
            BY <1>3, <2>4, <3>2
        <3>4. w.nodes[g] = Moved(t.nodes[g], x, n) /\ w.nodes[g] \in TreeNodes
            BY <2>1, <2>2, <2>4, <2>5, <3>3
               DEF Moved, To, Inner, InnerTreeNodes, ChildToward, TreeNodes
        <3>5. \A c \in TreeIndices : c # g => w.nodes[c] = u.nodes[c]
            BY <1>3, <3>2
        <3>6. w \in Trees
            BY <1>3, <3>1, <3>4, <3>5 DEF Trees
        <3> QED
            BY <1>1, <1>2, <2>1, <2>2, <2>3, <3>2, <3>4, <3>5, <3>6 DEF To
    <2>6. CASE Bit(price, t.nodes[g].split_bit) # 1
        <3>1. w = [u EXCEPT !.nodes[g].left_child = n]
            BY <1>5, <2>4, <2>6 DEF Relink, g
        <3>2. /\ w.root = u.root /\ w.free_head = u.free_head
              /\ w.nodes = [u.nodes EXCEPT ![g].left_child = n]
            BY <1>3, <3>1
        <3>3. w.nodes[g] = [t.nodes[g] EXCEPT !.left_child = n]
            BY <1>3, <2>4, <3>2
        <3>4. w.nodes[g] = Moved(t.nodes[g], x, n) /\ w.nodes[g] \in TreeNodes
            BY <2>1, <2>2, <2>4, <2>6, <3>3
               DEF Moved, To, Inner, InnerTreeNodes, ChildToward, TreeNodes
        <3>5. \A c \in TreeIndices : c # g => w.nodes[c] = u.nodes[c]
            BY <1>3, <3>2
        <3>6. w \in Trees
            BY <1>3, <3>1, <3>4, <3>5 DEF Trees
        <3> QED
            BY <1>1, <1>2, <2>1, <2>2, <2>3, <3>2, <3>4, <3>5, <3>6 DEF To
    <2> QED
        BY <2>5, <2>6
<1> QED
    BY <1>4, <1>5

\* The subtrees once inner node n, with the new leaf f, is above x.
SpliceSub(t, sub, x, f, n) ==
    [c \in Live(t) \union {f, n} |->
        IF c = f THEN {f}
        ELSE IF c = n THEN {n, f} \union sub[x]
        ELSE IF x \in sub[c] /\ c # x THEN sub[c] \union {n, f}
        ELSE sub[c]]

\* A splice at the right spot makes a tree of a tree.
LEMMA SpliceIsTree ==
    ASSUME NEW t, NEW sub, IsTree(t, sub), NEW p \in PriceRange, NEW s, NEW x,
           Spot(t, sub, p, s, x),
           NEW f \in TreeIndices \ Live(t), NEW n \in TreeIndices \ Live(t), f # n,
           NEW w \in Trees, w.root = To(t.root, x, n),
           \A c \in Live(t) : w.nodes[c] = Moved(t.nodes[c], x, n),
           w.nodes[f] = Leaf(p),
           w.nodes[n] = IF Bit(p, s) = 1 THEN Inner(s, x, f) ELSE Inner(s, f, x),
           \A c \in TreeIndices \ (Live(t) \union {f, n}) : w.nodes[c].tag = "FREE"
    PROVE  /\ IsTree(w, SpliceSub(t, sub, x, f, n))
           /\ Live(w) = Live(t) \union {f, n} /\ LeafNodes(w) = LeafNodes(t) \union {f}
<1> DEFINE sub2 == SpliceSub(t, sub, x, f, n)
           SB(c) == t.nodes[c].split_bit
           LC(c) == t.nodes[c].left_child
           RC(c) == t.nodes[c].right_child
           Price(i) == t.nodes[i].price
<1>1. /\ Live(t) = Inners(t) \union LeafNodes(t) /\ Inners(t) \cap LeafNodes(t) = {}
      /\ Live(t) \subseteq TreeIndices /\ x \in Live(t)
      /\ \A c \in Inners(t) : SB(c) \in 0 .. PRICE_BITS - 1
      /\ s \in 0 .. PRICE_BITS - 1 /\ PRICE_BITS \in Nat \ {0}
      /\ SLAB_NONE_INDEX \notin TreeIndices /\ p \in Nat
      /\ \A i \in LeafNodes(t) : Price(i) \in Nat
    BY LiveNodes, KindOfNode, InputAssumption
       DEF IsTree, Spot, Live, Inners, InnerTreeNodes, LeafNodes, LeafTreeNodes, PriceRange
<1>20. /\ \A c \in Inners(t) : c \in Live(t) /\ c \notin LeafNodes(t)
       /\ \A c \in LeafNodes(t) : c \in Live(t) /\ c \notin Inners(t)
       /\ \A c \in Live(t) : c \in Inners(t) \/ c \in LeafNodes(t)
       /\ \A c \in Live(t) : c # f /\ c # n /\ c \in TreeIndices
    BY <1>1
\* The nodes of w.
<1>2. ASSUME NEW c \in Inners(t)
      PROVE  /\ w.nodes[c].tag = "INNER" /\ w.nodes[c].split_bit = SB(c)
             /\ w.nodes[c].left_child = To(LC(c), x, n)
             /\ w.nodes[c].right_child = To(RC(c), x, n)
    <2>1. w.nodes[c] = Moved(t.nodes[c], x, n) /\ t.nodes[c].tag = "INNER"
        BY <1>20 DEF Inners
    <2>2. w.nodes[c] = Inner(SB(c), To(LC(c), x, n), To(RC(c), x, n))
        BY <2>1 DEF Moved
    <2> QED
        BY <2>2 DEF Inner
<1>3. \A c \in LeafNodes(t) : w.nodes[c].tag = "LEAF" /\ w.nodes[c].price = Price(c)
    BY <1>20 DEF Moved, LeafNodes
<1>4. /\ w.nodes[f].tag = "LEAF" /\ w.nodes[f].price = p
      /\ w.nodes[n].tag = "INNER" /\ w.nodes[n].split_bit = s
      /\ Bit(p, s) = 1 => w.nodes[n].left_child = x /\ w.nodes[n].right_child = f
      /\ Bit(p, s) # 1 => w.nodes[n].left_child = f /\ w.nodes[n].right_child = x
    BY DEF Leaf, Inner
<1>5. /\ Inners(w) = Inners(t) \union {n} /\ LeafNodes(w) = LeafNodes(t) \union {f}
      /\ Live(w) = Live(t) \union {f, n}
    <2>1. \A c \in TreeIndices : c \in Live(t) \union {f, n} \/ w.nodes[c].tag = "FREE"
        OBVIOUS
    <2> QED
        BY <1>1, <1>2, <1>3, <1>4, <2>1 DEF Inners, LeafNodes, Live
\* The subtrees of w.
<1>6. /\ sub \in [Live(t) -> SUBSET Live(t)]
      /\ \A c \in Live(t) : c \in sub[c]
      /\ \A c \in Live(t) : sub[c] \subseteq Live(t) /\ f \notin sub[c] /\ n \notin sub[c]
    BY <1>20 DEF IsTree, Branches
<1>7. /\ sub2[f] = {f} /\ sub2[n] = {n, f} \union sub[x]
      /\ \A c \in Live(t) : sub2[c] = IF x \in sub[c] /\ c # x THEN sub[c] \union {n, f} ELSE sub[c]
      /\ sub2 \in [Live(w) -> SUBSET Live(w)]
    <2>1. \A c \in Live(t) : c # f /\ c # n
        OBVIOUS
    <2>2. /\ sub2[f] = {f} /\ sub2[n] = {n, f} \union sub[x]
          /\ \A c \in Live(t) : sub2[c] = IF x \in sub[c] /\ c # x THEN sub[c] \union {n, f} ELSE sub[c]
        BY <2>1 DEF SpliceSub
    <2>3. ASSUME NEW c \in Live(w) PROVE sub2[c] \in SUBSET Live(w)
        <3> HIDE DEF sub2
        <3>1. f \in Live(w) /\ n \in Live(w) /\ \A d \in Live(t) : sub[d] \subseteq Live(w)
            BY <1>5, <1>6
        <3>2. c = f \/ c = n \/ c \in Live(t)
            BY <1>5
        <3>3. x \in Live(t)
            BY DEF Spot
        <3> QED
            BY <2>2, <3>1, <3>2, <3>3
    <2> QED
        BY <1>5, <2>2, <2>3 DEF SpliceSub
<1> HIDE DEF sub2
<1>21. \A c \in Inners(t) : LC(c) \in Live(t) /\ RC(c) \in Live(t)
    BY DEF IsTree, Branches
\* The subtree that a moved link leads to.
<1>8. \A d \in Live(t) : sub2[To(d, x, n)] = IF x \in sub[d] THEN sub[d] \union {n, f} ELSE sub[d]
    BY <1>1, <1>6, <1>7 DEF To
<1>9. ASSUME NEW c \in Inners(t)
      PROVE  /\ LC(c) \in Live(t) /\ RC(c) \in Live(t)
             /\ sub[c] = {c} \union sub[LC(c)] \union sub[RC(c)]
             /\ c \notin sub[LC(c)] /\ c \notin sub[RC(c)] /\ sub[LC(c)] \cap sub[RC(c)] = {}
             /\ sub2[c] = IF x \in sub[LC(c)] \/ x \in sub[RC(c)]
                          THEN sub[c] \union {n, f} ELSE sub[c]
    <2>1. /\ LC(c) \in Live(t) /\ RC(c) \in Live(t)
          /\ sub[c] = {c} \union sub[LC(c)] \union sub[RC(c)]
          /\ c \notin sub[LC(c)] /\ c \notin sub[RC(c)] /\ sub[LC(c)] \cap sub[RC(c)] = {}
        BY DEF IsTree, Branches
    <2>2. c \in Live(t) /\ (x \in sub[c] /\ c # x <=> x \in sub[LC(c)] \/ x \in sub[RC(c)])
        BY <1>1, <2>1
    <2>3. sub2[c] = IF x \in sub[c] /\ c # x THEN sub[c] \union {n, f} ELSE sub[c]
        BY <1>7, <2>2
    <2> QED
        BY <2>1, <2>2, <2>3
<1>10. Rooted(w, sub2)
    <2>1. t.root \in Live(t) /\ sub[t.root] = Live(t)
        BY <1>1 DEF IsTree, Rooted
    <2> QED
        BY <1>1, <1>5, <1>8, <2>1 DEF Rooted, To
<1>11. Branches(w, sub2)
    <2>1. \A c \in Live(w) : c \in sub2[c]
        BY <1>5, <1>6, <1>7
    <2>2. ASSUME NEW c \in LeafNodes(w) PROVE sub2[c] = {c}
        <3>1. c \in LeafNodes(t) => sub[c] = {c}
            BY DEF IsTree, Branches
        <3> QED
            BY <1>1, <1>5, <1>7, <3>1
    <2>3. ASSUME NEW c \in Inners(w)
          PROVE  LET l == w.nodes[c].left_child
                     r == w.nodes[c].right_child
                 IN /\ l \in Live(w) /\ r \in Live(w)
                    /\ sub2[c] = {c} \union sub2[l] \union sub2[r]
                    /\ c \notin sub2[l] /\ c \notin sub2[r] /\ sub2[l] \cap sub2[r] = {}
        <3>1. CASE c = n
            <4>1. sub2[x] = sub[x] /\ f \notin sub[x] /\ n \notin sub[x]
                BY <1>1, <1>6, <1>7
            <4> QED
                BY <1>1, <1>4, <1>5, <1>7, <3>1, <4>1
        <3>2. CASE c \in Inners(t)
            <4>1. To(LC(c), x, n) \in Live(w) /\ To(RC(c), x, n) \in Live(w)
                BY <1>5, <1>9, <3>2 DEF To
            <4>2. f \notin sub[LC(c)] /\ n \notin sub[LC(c)] /\ f \notin sub[RC(c)] /\ n \notin sub[RC(c)]
                BY <1>6, <1>21, <3>2
            <4> DEFINE l == LC(c)
                       r == RC(c)
                       l2 == To(l, x, n)
                       r2 == To(r, x, n)
            <4>3. /\ sub[c] = {c} \union sub[l] \union sub[r]
                  /\ c \notin sub[l] /\ c \notin sub[r] /\ sub[l] \cap sub[r] = {}
                  /\ sub2[c] = IF x \in sub[l] \/ x \in sub[r] THEN sub[c] \union {n, f} ELSE sub[c]
                BY <1>9, <3>2
            <4>4. /\ sub2[l2] = IF x \in sub[l] THEN sub[l] \union {n, f} ELSE sub[l]
                  /\ sub2[r2] = IF x \in sub[r] THEN sub[r] \union {n, f} ELSE sub[r]
                BY <1>8, <1>21, <3>2
            <4>5. w.nodes[c].left_child = l2 /\ w.nodes[c].right_child = r2 /\ c # n /\ c # f
                BY <1>2, <1>20, <3>2
            <4> HIDE DEF l, r, l2, r2
            <4>6. ~ (x \in sub[l] /\ x \in sub[r])
                BY <4>3
            <4>7. sub2[c] = {c} \union sub2[l2] \union sub2[r2]
                BY <4>3, <4>4
            <4>8. c \notin sub2[l2] /\ c \notin sub2[r2] /\ sub2[l2] \cap sub2[r2] = {}
                BY <4>2, <4>3, <4>4, <4>5, <4>6 DEF l, r
            <4>9. l2 \in Live(w) /\ r2 \in Live(w)
                BY <4>1 DEF l, r, l2, r2
            <4> QED
                BY <4>5, <4>7, <4>8, <4>9
        <3> QED
            BY <1>5, <3>1, <3>2
    <2> QED
        BY <1>7, <2>1, <2>2, <2>3 DEF Branches
<1>12. Nested(w, sub2)
    <2>1. ASSUME NEW c \in Live(w), NEW d \in sub2[c] PROVE sub2[d] \subseteq sub2[c]
        <3>1. CASE c = f
            BY <1>7, <2>1, <3>1
        <3>2. CASE c = n
            <4>1. CASE d \in sub[x]
                <5>1. d \in Live(t) /\ sub[d] \subseteq sub[x]
                    BY <1>1, <1>6, <4>1 DEF IsTree, Nested
                <5>2. ~ (x \in sub[d] /\ d # x)
                    BY <1>1, <4>1, <5>1, NotBothBelow
                <5> QED
                    BY <1>7, <3>2, <5>1, <5>2
            <4>2. CASE d \in {n, f}
                BY <1>7, <3>2, <4>2
            <4> QED
                BY <1>7, <3>2, <4>1, <4>2
        <3>3. CASE c \in Live(t)
            <4>1. CASE d \in sub[c]
                <5>1. d \in Live(t) /\ sub[d] \subseteq sub[c]
                    BY <1>6, <3>3, <4>1 DEF IsTree, Nested
                <5>2. ASSUME x \in sub[d], d # x PROVE x \in sub[c] /\ c # x
                    BY <1>1, <4>1, <5>1, <5>2, NotBothBelow
                <5> QED
                    BY <1>7, <3>3, <5>1, <5>2
            <4>2. CASE d \notin sub[c]
                <5>1. d \in {n, f} /\ x \in sub[c] /\ c # x
                    BY <1>7, <2>1, <3>3, <4>2
                <5>2. sub[x] \subseteq sub[c]
                    BY <1>6, <3>3, <5>1 DEF IsTree, Nested
                <5> QED
                    BY <1>7, <3>3, <5>1, <5>2
            <4> QED
                BY <4>1, <4>2
        <3> QED
            BY <1>5, <3>1, <3>2, <3>3
    <2>2. ASSUME NEW g \in Inners(w), NEW a \in Live(w),
                 NEW y \in {w.nodes[g].left_child, w.nodes[g].right_child}, y \in sub2[a], y # a
          PROVE  g \in sub2[a]
        <3>1. CASE g = n
            <4>1. y \in {x, f}
                BY <1>4, <3>1
            <4> QED
                BY <1>5, <1>6, <1>7, <1>20, <2>2, <3>1, <4>1
        <3>2. CASE g \in Inners(t)
            <4>1. PICK d \in {LC(g), RC(g)} : y = To(d, x, n)
                BY <1>2, <3>2
            <4>2. d \in Live(t)
                BY <1>21, <3>2, <4>1
            <4>3. \A b \in Live(t) : d \in sub[b] /\ d # b => g \in sub[b]
                BY <3>2 DEF IsTree, Nested
            <4>4. CASE d = x
                <5>1. y = n
                    BY <4>1, <4>4 DEF To
                <5>2. a \in Live(t) /\ x \in sub[a] /\ a # x
                    BY <1>1, <1>5, <1>6, <1>7, <2>2, <5>1
                <5> QED
                    BY <1>7, <4>3, <4>4, <5>2
            <4>5. CASE d # x
                <5>1. y = d /\ d # n /\ d # f
                    BY <4>1, <4>2, <4>5 DEF To
                <5>2. CASE a = n
                    BY <1>1, <1>7, <2>2, <4>3, <4>5, <5>1, <5>2
                <5>3. CASE a \in Live(t)
                    BY <1>7, <2>2, <4>3, <5>1, <5>3
                <5> QED
                    BY <1>5, <1>7, <2>2, <5>1, <5>2, <5>3
            <4> QED
                BY <4>4, <4>5
        <3> QED
            BY <1>5, <3>1, <3>2
    <2> QED
        BY <2>1, <2>2 DEF Nested
<1>13. BitsFall(w, sub2)
    <2>1. SUFFICES ASSUME NEW c \in Inners(w), NEW d \in sub2[c] \cap Inners(w), d # c
                   PROVE  w.nodes[d].split_bit < w.nodes[c].split_bit
        BY DEF BitsFall
    <2>2. CASE c = n
        <3>1. d \in Inners(t) /\ d \in sub[x]
            BY <1>1, <1>5, <1>7, <2>1, <2>2
        <3>2. x \in Inners(t)
            BY <1>1, <3>1 DEF IsTree, Branches
        <3>3. SB(x) < s /\ (d = x \/ SB(d) < SB(x))
            BY <3>1, <3>2 DEF IsTree, BitsFall, Spot
        <3> QED
            BY <1>1, <1>2, <1>4, <2>2, <3>1, <3>2, <3>3
    <2>3. CASE c \in Inners(t) /\ d = n
        <3>1. n \notin sub[c]
            BY <1>1, <1>6, <2>3
        <3>2. x \in sub[c] /\ c # x
            BY <1>1, <1>7, <2>1, <2>3, <3>1
        <3> QED
            BY <1>1, <1>2, <1>4, <2>3, <3>2 DEF Spot
    <2>4. CASE c \in Inners(t) /\ d \in Inners(t)
        <3>1. d \in sub[c]
            BY <1>7, <1>20, <2>1, <2>4
        <3> QED
            BY <1>2, <2>1, <2>4, <3>1 DEF IsTree, BitsFall
    <2> QED
        BY <1>5, <2>2, <2>3, <2>4
<1>14. PricesSplit(w, sub2)
    <2>1. \A b \in 0 .. PRICE_BITS - 1 : Bit(p, b) \in {0, 1}
        BY <1>1, BitIsBit
    <2>2. /\ \A i \in sub[x] \cap LeafNodes(t) :
                /\ Bit(Price(i), s) # Bit(p, s) /\ Bit(Price(i), s) \in {0, 1}
                /\ \A b \in 0 .. PRICE_BITS - 1 : b > s => Bit(Price(i), b) = Bit(p, b)
        BY <1>1, BitIsBit DEF Spot
    <2>3. ASSUME NEW a \in Inners(t), x \in sub[a], a # x
          PROVE  /\ x \in sub[ChildToward(t.nodes[a], p)]
                 /\ \A i \in sub[a] \cap LeafNodes(t) : \A b \in 0 .. PRICE_BITS - 1 :
                        b > SB(a) => Bit(Price(i), b) = Bit(p, b)
        BY <1>1, <2>3 DEF Spot
    <2> DEFINE WPrice(i) == w.nodes[i].price
    <2>4. /\ \A i \in LeafNodes(t) : WPrice(i) = Price(i) /\ i # f
          /\ WPrice(f) = p
        BY <1>1, <1>3, <1>4
    <2>5. ASSUME NEW c \in Inners(w)
          PROVE  /\ \A i \in sub2[w.nodes[c].left_child] \cap LeafNodes(w) :
                        Bit(WPrice(i), w.nodes[c].split_bit) = 0
                 /\ \A i \in sub2[w.nodes[c].right_child] \cap LeafNodes(w) :
                        Bit(WPrice(i), w.nodes[c].split_bit) = 1
                 /\ \A i, j \in sub2[c] \cap LeafNodes(w) : \A b \in 0 .. PRICE_BITS - 1 :
                        b > w.nodes[c].split_bit => Bit(WPrice(i), b) = Bit(WPrice(j), b)
        <3>1. CASE c = n
            <4>1. sub2[x] = sub[x] /\ w.nodes[c].split_bit = s
                BY <1>1, <1>4, <1>7, <3>1
            <4>2. \A i \in sub2[x] \cap LeafNodes(w) :
                        i \in sub[x] \cap LeafNodes(t) /\ WPrice(i) = Price(i)
                BY <1>1, <1>5, <1>6, <2>4, <4>1
            <4>3. \A i \in sub2[f] : i = f
                BY <1>7
            <4>4. \A i \in sub2[n] \cap LeafNodes(w) : i = f \/ i \in sub[x] \cap LeafNodes(t)
                BY <1>1, <1>5, <1>7
            <4>5. ASSUME NEW i \in sub2[n] \cap LeafNodes(w), NEW b \in 0 .. PRICE_BITS - 1, b > s
                  PROVE  Bit(WPrice(i), b) = Bit(p, b)
                BY <2>2, <2>4, <4>4, <4>5
            <4> HIDE DEF WPrice
            <4>6. CASE Bit(p, s) = 1
                <5>1. w.nodes[c].left_child = x /\ w.nodes[c].right_child = f
                    BY <1>4, <3>1, <4>6
                <5>2. \A i \in sub2[x] \cap LeafNodes(w) : Bit(WPrice(i), s) = 0
                    BY <2>2, <4>2, <4>6
                <5> QED
                    BY <2>4, <3>1, <4>1, <4>3, <4>5, <4>6, <5>1, <5>2
            <4>7. CASE Bit(p, s) # 1
                <5>1. w.nodes[c].left_child = f /\ w.nodes[c].right_child = x /\ Bit(p, s) = 0
                    BY <1>1, <1>4, <2>1, <3>1, <4>7
                <5>2. \A i \in sub2[x] \cap LeafNodes(w) : Bit(WPrice(i), s) = 1
                    BY <2>2, <4>2, <5>1
                <5> QED
                    BY <2>4, <3>1, <4>1, <4>3, <4>5, <5>1, <5>2
            <4> QED
                BY <4>6, <4>7
        <3>2. CASE c \in Inners(t)
            <4>1. /\ w.nodes[c].split_bit = SB(c)
                  /\ w.nodes[c].left_child = To(LC(c), x, n)
                  /\ w.nodes[c].right_child = To(RC(c), x, n)
                BY <1>2, <3>2
            <4>2. /\ \A i \in sub[LC(c)] \cap LeafNodes(t) : Bit(Price(i), SB(c)) = 0
                  /\ \A i \in sub[RC(c)] \cap LeafNodes(t) : Bit(Price(i), SB(c)) = 1
                  /\ \A i, j \in sub[c] \cap LeafNodes(t) : \A b \in 0 .. PRICE_BITS - 1 :
                        b > SB(c) => Bit(Price(i), b) = Bit(Price(j), b)
                BY <3>2 DEF IsTree, PricesSplit
            <4>3. SB(c) \in 0 .. PRICE_BITS - 1 /\ Bit(p, SB(c)) \in {0, 1}
                BY <1>1, <2>1, <3>2
            <4>4. x \in sub[LC(c)] \/ x \in sub[RC(c)] => x \in sub[c] /\ c # x
                <5>1. x \in sub[x] /\ c \notin sub[LC(c)] /\ c \notin sub[RC(c)]
                    BY <1>1, <1>6, <1>9, <3>2
                <5>2. sub[LC(c)] \subseteq sub[c] /\ sub[RC(c)] \subseteq sub[c]
                    <6>1. sub[c] = {c} \union sub[LC(c)] \union sub[RC(c)]
                        BY <1>9, <3>2
                    <6> HIDE DEF LC, RC
                    <6> QED
                        BY <6>1
                <5> QED
                    BY <5>1, <5>2
            <4>5. x \in sub[LC(c)] => Bit(p, SB(c)) = 0
                BY <1>9, <2>3, <3>2, <4>3, <4>4 DEF ChildToward
            <4>6. x \in sub[RC(c)] => Bit(p, SB(c)) = 1
                BY <1>9, <2>3, <3>2, <4>3, <4>4 DEF ChildToward
            <4>7. ASSUME NEW i \in sub2[To(LC(c), x, n)] \cap LeafNodes(w)
                  PROVE  Bit(WPrice(i), SB(c)) = 0
                <5>1. sub2[To(LC(c), x, n)] =
                        IF x \in sub[LC(c)] THEN sub[LC(c)] \union {n, f} ELSE sub[LC(c)]
                    BY <1>8, <1>21, <3>2
                <5>2. i \in LeafNodes(t) \union {f} /\ i # n
                    BY <1>5, <1>20
                <5>3. f \notin sub[LC(c)] /\ f \notin LeafNodes(t)
                    BY <1>6, <1>20, <1>21, <3>2
                <5>4. \/ i \in sub[LC(c)] \cap LeafNodes(t) /\ WPrice(i) = Price(i)
                      \/ WPrice(i) = p /\ x \in sub[LC(c)]
                    BY <2>4, <5>1, <5>2, <5>3
                <5> QED
                    BY <4>2, <4>5, <5>4
            <4>8. ASSUME NEW i \in sub2[To(RC(c), x, n)] \cap LeafNodes(w)
                  PROVE  Bit(WPrice(i), SB(c)) = 1
                <5>1. sub2[To(RC(c), x, n)] =
                        IF x \in sub[RC(c)] THEN sub[RC(c)] \union {n, f} ELSE sub[RC(c)]
                    BY <1>8, <1>21, <3>2
                <5>2. i \in LeafNodes(t) \union {f} /\ i # n
                    BY <1>5, <1>20
                <5>3. f \notin sub[RC(c)] /\ f \notin LeafNodes(t)
                    BY <1>6, <1>20, <1>21, <3>2
                <5>4. \/ i \in sub[RC(c)] \cap LeafNodes(t) /\ WPrice(i) = Price(i)
                      \/ WPrice(i) = p /\ x \in sub[RC(c)]
                    BY <2>4, <5>1, <5>2, <5>3
                <5> QED
                    BY <4>2, <4>6, <5>4
            <4>9. ASSUME NEW i \in sub2[c] \cap LeafNodes(w)
                  PROVE  \/ i \in sub[c] \cap LeafNodes(t) /\ WPrice(i) = Price(i)
                         \/ i = f /\ WPrice(i) = p /\ x \in sub[c] /\ c # x
                <5>1. sub2[c] = IF x \in sub[c] /\ c # x THEN sub[c] \union {n, f} ELSE sub[c]
                    BY <1>7, <1>20, <3>2
                <5>2. i \in LeafNodes(t) \union {f} /\ i # n
                    BY <1>5, <1>20
                <5>3. f \notin sub[c] /\ f \notin LeafNodes(t)
                    BY <1>6, <1>20, <3>2
                <5> QED
                    BY <2>4, <5>1, <5>2, <5>3
            <4>10. ASSUME NEW i \in sub2[c] \cap LeafNodes(w), NEW j \in sub2[c] \cap LeafNodes(w),
                          NEW b \in 0 .. PRICE_BITS - 1, b > SB(c)
                   PROVE  Bit(WPrice(i), b) = Bit(WPrice(j), b)
                <5>1. \/ i \in sub[c] \cap LeafNodes(t) /\ WPrice(i) = Price(i)
                      \/ i = f /\ WPrice(i) = p /\ x \in sub[c] /\ c # x
                    BY <4>9
                <5>2. \/ j \in sub[c] \cap LeafNodes(t) /\ WPrice(j) = Price(j)
                      \/ j = f /\ WPrice(j) = p /\ x \in sub[c] /\ c # x
                    BY <4>9
                <5> HIDE DEF WPrice
                <5> QED
                    BY <2>3, <3>2, <4>2, <4>10, <5>1, <5>2
            <4> QED
                BY <4>1, <4>7, <4>8, <4>10
        <3> QED
            BY <1>5, <3>1, <3>2
    <2> QED
        BY <2>5 DEF PricesSplit
<1> QED
    BY <1>5, <1>10, <1>11, <1>12, <1>13, <1>14 DEF IsTree, sub2

\* The subtrees once nodes m and f are gone.
CutSub(t, sub, m, f) == [c \in Live(t) \ {m, f} |-> sub[c] \ {m, f}]

\* A tree stays one when a leaf f and its parent m go and m's other child y
\* takes its place.
LEMMA CutIsTree ==
    ASSUME NEW t, NEW sub, IsTree(t, sub), NEW f \in LeafNodes(t), NEW m \in Inners(t),
           f \in Children(t, m), NEW y \in Children(t, m), y # f,
           NEW w \in Trees, w.root = To(t.root, m, y),
           \A c \in Live(t) \ {m, f} : w.nodes[c] = Moved(t.nodes[c], m, y),
           \A c \in TreeIndices \ (Live(t) \ {m, f}) : w.nodes[c].tag = "FREE"
    PROVE  /\ IsTree(w, CutSub(t, sub, m, f))
           /\ Live(w) = Live(t) \ {m, f} /\ LeafNodes(w) = LeafNodes(t) \ {f}
<1> DEFINE sub2 == CutSub(t, sub, m, f)
           SB(c) == t.nodes[c].split_bit
           LC(c) == t.nodes[c].left_child
           RC(c) == t.nodes[c].right_child
<1>1. /\ \A c \in Inners(t) : c \in Live(t) /\ c \notin LeafNodes(t)
      /\ \A c \in LeafNodes(t) : c \in Live(t) /\ c \notin Inners(t)
      /\ \A c \in Live(t) : (c \in Inners(t) \/ c \in LeafNodes(t)) /\ c \in TreeIndices
      /\ \A c \in Inners(t) : SB(c) \in 0 .. PRICE_BITS - 1
      /\ \A c \in Inners(t) : Children(t, c) = {LC(c), RC(c)}
    BY LiveNodes, KindOfNode
       DEF IsTree, Live, Inners, InnerTreeNodes, LeafNodes, Children
<1>2. /\ m \in Live(t) /\ f \in Live(t) /\ m # f /\ y \in Live(t) \ {m, f}
      /\ f # t.root
    BY <1>1, ChildrenBelow, OneParent
<1>3. ASSUME NEW c \in Inners(t) \ {m}
      PROVE  /\ w.nodes[c].tag = "INNER" /\ w.nodes[c].split_bit = SB(c)
             /\ w.nodes[c].left_child = To(LC(c), m, y)
             /\ w.nodes[c].right_child = To(RC(c), m, y)
    <2>1. w.nodes[c] = Moved(t.nodes[c], m, y) /\ t.nodes[c].tag = "INNER"
        BY <1>1 DEF Inners
    <2>2. w.nodes[c] = Inner(SB(c), To(LC(c), m, y), To(RC(c), m, y))
        BY <2>1 DEF Moved
    <2> QED
        BY <2>2 DEF Inner
<1>4. ASSUME NEW c \in LeafNodes(t) \ {f}
      PROVE  w.nodes[c] = t.nodes[c]
    BY <1>1, <1>2 DEF Moved, LeafNodes
<1>5. /\ Inners(w) = Inners(t) \ {m} /\ LeafNodes(w) = LeafNodes(t) \ {f}
      /\ Live(w) = Live(t) \ {m, f}
    <2>1. ASSUME NEW c \in TreeIndices
          PROVE  \/ w.nodes[c].tag = "FREE" /\ c \notin Live(t) \ {m, f}
                 \/ c \in Inners(t) \ {m} /\ w.nodes[c].tag = "INNER"
                 \/ c \in LeafNodes(t) \ {f} /\ w.nodes[c].tag = "LEAF"
        BY <1>1, <1>3, <1>4 DEF LeafNodes
    <2>2. Inners(t) \subseteq TreeIndices /\ LeafNodes(t) \subseteq TreeIndices
        BY DEF Inners, LeafNodes
    <2> QED
        BY <1>1, <1>2, <2>1, <2>2 DEF Inners, LeafNodes, Live
\* The subtrees.
<1>6. /\ sub \in [Live(t) -> SUBSET Live(t)]
      /\ \A c \in Live(t) : c \in sub[c]
      /\ \A c \in LeafNodes(t) : sub[c] = {c}
    BY DEF IsTree, Branches
<1>7. ASSUME NEW c \in Inners(t)
      PROVE  /\ LC(c) \in Live(t) /\ RC(c) \in Live(t)
             /\ sub[c] = {c} \union sub[LC(c)] \union sub[RC(c)]
             /\ c \notin sub[LC(c)] /\ c \notin sub[RC(c)] /\ sub[LC(c)] \cap sub[RC(c)] = {}
    BY DEF IsTree, Branches
<1>8. sub[m] \ {m, f} = sub[y] /\ m \notin sub[y] /\ f \notin sub[y]
    <2>1. (f = LC(m) /\ y = RC(m)) \/ (f = RC(m) /\ y = LC(m))
        <3>1. Children(t, m) = {LC(m), RC(m)}
            BY <1>1
        <3>2. f \in {LC(m), RC(m)} /\ y \in {LC(m), RC(m)}
            BY <3>1
        <3> HIDE DEF LC, RC
        <3> QED
            BY <3>2
    <2>2. sub[f] = {f}
        BY <1>6
    <2>3. sub[m] = {m} \union sub[f] \union sub[y] /\ m \notin sub[y] /\ sub[f] \cap sub[y] = {}
        <3>1. CASE f = LC(m) /\ y = RC(m)
            BY <1>7, <3>1
        <3>2. CASE f = RC(m) /\ y = LC(m)
            <4>1. sub[m] = {m} \union sub[LC(m)] \union sub[RC(m)] /\ m \notin sub[LC(m)]
                  /\ sub[LC(m)] \cap sub[RC(m)] = {}
                BY <1>7
            <4> HIDE DEF LC, RC
            <4> QED
                BY <3>2, <4>1
        <3> QED
            BY <2>1, <3>1, <3>2
    <2> QED
        BY <2>2, <2>3
<1>9. \A c \in Live(t) \ {m, f} : sub2[c] = sub[c] \ {m, f}
    BY DEF CutSub
<1>10. sub2 \in [Live(w) -> SUBSET Live(w)]
    <2>1. \A c \in Live(t) : sub[c] \subseteq Live(t)
        BY <1>6
    <2> QED
        BY <1>5, <2>1 DEF CutSub
<1> HIDE DEF sub2
\* No other node has f for a child, and y stands in for m.
<1>11. ASSUME NEW c \in Inners(t) \ {m}, NEW d \in {LC(c), RC(c)}
       PROVE  /\ d \in Live(t) /\ d # f
              /\ To(d, m, y) \in Live(t) \ {m, f}
              /\ sub2[To(d, m, y)] = sub[d] \ {m, f}
    <2>1. d \in Live(t)
        BY <1>7
    <2>2. d # f
        <3>1. d \in Children(t, c)
            BY <1>1
        <3> QED
            BY <3>1, OneParent
    <2> QED
        BY <1>2, <1>8, <1>9, <2>1, <2>2 DEF To
<1>12. Rooted(w, sub2)
    <2>1. t.root \in Live(t) /\ sub[t.root] = Live(t)
        BY <1>2 DEF IsTree, Rooted
    <2> QED
        BY <1>2, <1>5, <1>8, <1>9, <2>1 DEF Rooted, To
<1>13. Branches(w, sub2)
    <2>1. \A c \in Live(w) : c \in sub2[c]
        BY <1>5, <1>6, <1>9
    <2>2. \A c \in LeafNodes(w) : sub2[c] = {c}
        BY <1>1, <1>5, <1>6, <1>9
    <2>3. ASSUME NEW c \in Inners(w)
          PROVE  LET l == w.nodes[c].left_child
                     r == w.nodes[c].right_child
                 IN /\ l \in Live(w) /\ r \in Live(w)
                    /\ sub2[c] = {c} \union sub2[l] \union sub2[r]
                    /\ c \notin sub2[l] /\ c \notin sub2[r] /\ sub2[l] \cap sub2[r] = {}
        <3> DEFINE l == LC(c)
                   r == RC(c)
                   l2 == To(l, m, y)
                   r2 == To(r, m, y)
        <3>1. /\ sub[c] = {c} \union sub[l] \union sub[r]
              /\ c \notin sub[l] /\ c \notin sub[r] /\ sub[l] \cap sub[r] = {}
            BY <1>5, <1>7
        <3>2. /\ l2 \in Live(t) \ {m, f} /\ sub2[l2] = sub[l] \ {m, f}
              /\ r2 \in Live(t) \ {m, f} /\ sub2[r2] = sub[r] \ {m, f}
            BY <1>5, <1>11
        <3>3. w.nodes[c].left_child = l2 /\ w.nodes[c].right_child = r2
            BY <1>3, <1>5
        <3>4. sub2[c] = sub[c] \ {m, f} /\ c # m /\ c # f
            BY <1>1, <1>5, <1>9
        <3> HIDE DEF l, r, l2, r2
        <3>5. sub2[c] = {c} \union sub2[l2] \union sub2[r2]
            BY <3>1, <3>2, <3>4
        <3>6. c \notin sub2[l2] /\ c \notin sub2[r2] /\ sub2[l2] \cap sub2[r2] = {}
            BY <3>1, <3>2
        <3> QED
            BY <1>5, <3>2, <3>3, <3>5, <3>6
    <2> QED
        BY <1>10, <2>1, <2>2, <2>3 DEF Branches
<1>14. Nested(w, sub2)
    <2>1. ASSUME NEW c \in Live(w), NEW d \in sub2[c] PROVE sub2[d] \subseteq sub2[c]
        <3>1. c \in Live(t) /\ d \in sub[c] /\ d \in Live(t) \ {m, f} /\ sub2[c] = sub[c] \ {m, f}
            BY <1>5, <1>6, <1>9
        <3>2. sub[d] \subseteq sub[c]
            BY <3>1 DEF IsTree, Nested
        <3> QED
            BY <1>9, <3>1, <3>2
    <2>2. ASSUME NEW g \in Inners(w), NEW a \in Live(w),
                 NEW z \in {w.nodes[g].left_child, w.nodes[g].right_child}, z \in sub2[a], z # a
          PROVE  g \in sub2[a]
        <3>1. PICK d \in {LC(g), RC(g)} : z = To(d, m, y)
            BY <1>3, <1>5
        <3>2. \A h \in Inners(t), b \in Live(t) : \A e \in {LC(h), RC(h)} :
                e \in sub[b] /\ e # b => h \in sub[b]
            BY DEF IsTree, Nested
        <3>3. z \in sub[a] /\ a \in Live(t) /\ a # m /\ a # f /\ g \in Inners(t) /\ g # m /\ g # f
            BY <1>1, <1>5, <1>9, <2>2
        <3>4. g \in sub[a]
            <4>1. CASE d = m
                <5>1. z = y
                    BY <3>1, <4>1 DEF To
                <5>2. m \in sub[a]
                    BY <1>1, <2>2, <3>2, <3>3, <5>1
                <5> QED
                    BY <3>2, <3>3, <4>1, <5>2
            <4>2. CASE d # m
                <5>1. z = d
                    BY <3>1, <4>2 DEF To
                <5> QED
                    BY <2>2, <3>2, <3>3, <5>1
            <4> QED
                BY <4>1, <4>2
        <3> QED
            BY <1>9, <3>3, <3>4
    <2> QED
        BY <2>1, <2>2 DEF Nested
<1>15. BitsFall(w, sub2)
    <2>1. SUFFICES ASSUME NEW c \in Inners(w), NEW d \in sub2[c] \cap Inners(w), d # c
                   PROVE  w.nodes[d].split_bit < w.nodes[c].split_bit
        BY DEF BitsFall
    <2>2. c \in Inners(t) \ {m} /\ d \in Inners(t) \ {m} /\ d \in sub[c]
        BY <1>1, <1>5, <1>9
    <2>3. SB(d) < SB(c)
        BY <2>1, <2>2 DEF IsTree, BitsFall
    <2> QED
        BY <1>3, <2>2, <2>3
<1>16. PricesSplit(w, sub2)
    <2>1. ASSUME NEW c \in Inners(w)
          PROVE  /\ \A i \in sub2[w.nodes[c].left_child] \cap LeafNodes(w) :
                        Bit(w.nodes[i].price, w.nodes[c].split_bit) = 0
                 /\ \A i \in sub2[w.nodes[c].right_child] \cap LeafNodes(w) :
                        Bit(w.nodes[i].price, w.nodes[c].split_bit) = 1
                 /\ \A i, j \in sub2[c] \cap LeafNodes(w) : \A b \in 0 .. PRICE_BITS - 1 :
                        b > w.nodes[c].split_bit
                        => Bit(w.nodes[i].price, b) = Bit(w.nodes[j].price, b)
        <3>1. /\ c \in Inners(t) /\ w.nodes[c].split_bit = SB(c)
              /\ sub2[w.nodes[c].left_child] \subseteq sub[LC(c)]
              /\ sub2[w.nodes[c].right_child] \subseteq sub[RC(c)]
              /\ sub2[c] \subseteq sub[c]
            BY <1>1, <1>3, <1>5, <1>9, <1>11
        <3>2. \A i \in LeafNodes(w) : i \in LeafNodes(t) /\ w.nodes[i] = t.nodes[i]
            BY <1>4, <1>5
        <3>3. /\ \A i \in sub[LC(c)] \cap LeafNodes(t) : Bit(t.nodes[i].price, SB(c)) = 0
              /\ \A i \in sub[RC(c)] \cap LeafNodes(t) : Bit(t.nodes[i].price, SB(c)) = 1
              /\ \A i, j \in sub[c] \cap LeafNodes(t) : \A b \in 0 .. PRICE_BITS - 1 :
                    b > SB(c) => Bit(t.nodes[i].price, b) = Bit(t.nodes[j].price, b)
            BY <3>1 DEF IsTree, PricesSplit
        <3> QED
            BY <3>1, <3>2, <3>3
    <2> QED
        BY <2>1 DEF PricesSplit
<1> QED
    BY <1>5, <1>12, <1>13, <1>14, <1>15, <1>16 DEF IsTree, sub2

\* A single leaf is a tree, and so is nothing.
LEMMA RootIsTree ==
    ASSUME NEW w \in Trees, NEW f \in TreeIndices, w.root = f, w.nodes[f].tag = "LEAF",
           \A c \in TreeIndices \ {f} : w.nodes[c].tag = "FREE"
    PROVE  /\ IsTree(w, [c \in {f} |-> {f}])
           /\ Live(w) = {f} /\ LeafNodes(w) = {f}
<1>1. Live(w) = {f} /\ LeafNodes(w) = {f} /\ Inners(w) = {}
    <2>1. \A c \in TreeIndices : c = f \/ w.nodes[c].tag = "FREE"
        OBVIOUS
    <2> QED
        BY <2>1 DEF Live, LeafNodes, Inners
<1>2. Rooted(w, [c \in {f} |-> {f}])
    BY <1>1 DEF Rooted
<1>3. Branches(w, [c \in {f} |-> {f}]) /\ Nested(w, [c \in {f} |-> {f}])
    BY <1>1 DEF Branches, Nested
<1>4. BitsFall(w, [c \in {f} |-> {f}]) /\ PricesSplit(w, [c \in {f} |-> {f}])
    BY <1>1 DEF BitsFall, PricesSplit
<1> QED
    BY <1>1, <1>2, <1>3, <1>4 DEF IsTree

\* A tree without nodes is one, of no subtrees.
LEMMA NothingIsTree ==
    ASSUME NEW w \in Trees, w.root = SLAB_NONE_INDEX,
           \A c \in TreeIndices : w.nodes[c].tag = "FREE"
    PROVE  /\ IsTree(w, [c \in {} |-> {}])
           /\ Live(w) = {} /\ LeafNodes(w) = {}
<1>1. Live(w) = {} /\ LeafNodes(w) = {} /\ Inners(w) = {}
    BY DEF Live, LeafNodes, Inners
<1> QED
    BY <1>1 DEF IsTree, Rooted, Branches, Nested, BitsFall, PricesSplit

\* The queues that hang on the leaves are no part of the shape.
LEMMA SameShape ==
    ASSUME NEW t, NEW sub, IsTree(t, sub), NEW u \in Trees, u.root = t.root,
           \A c \in TreeIndices \ LeafNodes(t) : u.nodes[c] = t.nodes[c],
           \A c \in LeafNodes(t) : u.nodes[c].tag = "LEAF" /\ u.nodes[c].price = t.nodes[c].price
    PROVE  /\ IsTree(u, sub)
           /\ Live(u) = Live(t) /\ Inners(u) = Inners(t) /\ LeafNodes(u) = LeafNodes(t)
<1>1. \A c \in TreeIndices : u.nodes[c].tag = t.nodes[c].tag
    BY DEF LeafNodes
<1>2. Live(u) = Live(t) /\ Inners(u) = Inners(t) /\ LeafNodes(u) = LeafNodes(t)
    BY <1>1 DEF Live, Inners, LeafNodes
<1>3. \A c \in Inners(t) : u.nodes[c] = t.nodes[c]
    BY DEF Inners, LeafNodes
<1>4. Rooted(u, sub)
    BY <1>2 DEF IsTree, Rooted
<1>5. Branches(u, sub)
    BY <1>2, <1>3 DEF IsTree, Branches
<1>6. Nested(u, sub)
    BY <1>2, <1>3 DEF IsTree, Nested
<1>7. BitsFall(u, sub)
    BY <1>2, <1>3 DEF IsTree, BitsFall
<1>8. PricesSplit(u, sub)
    BY <1>2, <1>3 DEF IsTree, PricesSplit
<1> QED
    BY <1>2, <1>4, <1>5, <1>6, <1>7, <1>8 DEF IsTree

----------------------------------------------------------------------------
(* The free list of a tree.                                                 *)

\* fl is the free list: the free nodes, once each, from free_head on.
FreeList(t, fl) ==
    /\ fl \in Seq(TreeIndices)
    /\ \A i, j \in 1 .. Len(fl) : fl[i] = fl[j] => i = j
    /\ \A c \in TreeIndices : t.nodes[c].tag = "FREE" <=> \E k \in 1 .. Len(fl) : fl[k] = c
    /\ t.free_head = LinkTo(fl, 1)
    /\ \A k \in 1 .. Len(fl) : t.nodes[fl[k]].next_free = LinkTo(fl, k + 1)

\* TreeAlloc takes its head.
LEMMA AllocTakesHead ==
    ASSUME NEW t \in Trees, NEW fl, FreeList(t, fl), t.free_head # SLAB_NONE_INDEX,
           NEW node \in TreeNodes, node.tag # "FREE"
    PROVE  /\ t.free_head \in TreeIndices /\ t.nodes[t.free_head].tag = "FREE"
           /\ TreeAlloc(t, node) \in Trees
           /\ TreeAlloc(t, node).root = t.root
           /\ TreeAlloc(t, node).nodes = [t.nodes EXCEPT ![t.free_head] = node]
           /\ FreeList(TreeAlloc(t, node), Tail(fl))
<1> DEFINE h == t.free_head
           w == TreeAlloc(t, node)
           n == Len(fl)
           rest == Tail(fl)
<1>1. fl \in Seq(TreeIndices) /\ n \in Nat
    BY DEF FreeList
<1>2. n > 0 /\ h = fl[1] /\ 1 \in 1 .. n
    BY <1>1 DEF FreeList, LinkTo
<1>3. h \in TreeIndices /\ t.nodes[h].tag = "FREE" /\ t.nodes[h].next_free = LinkTo(fl, 2)
    BY <1>1, <1>2 DEF FreeList
<1>4. fl # <<>>
    BY <1>1, <1>2
<1>5. /\ rest \in Seq(TreeIndices) /\ Len(rest) = n - 1
      /\ \A k \in 1 .. n - 1 : rest[k] = fl[k + 1]
    BY <1>1, <1>4, HeadTailProperties
<1>6. LinkTo(fl, 2) \in TreeLinks
    BY <1>1 DEF LinkTo, TreeLinks
<1>7. t \in [root : TreeLinks, free_head : TreeLinks, nodes : [TreeIndices -> TreeNodes]]
    BY DEF Trees
<1>8. /\ w.root = t.root /\ w.free_head = LinkTo(fl, 2)
      /\ w.nodes = [t.nodes EXCEPT ![h] = node] /\ w \in Trees
    BY <1>3, <1>6, <1>7 DEF TreeAlloc, Trees
<1> HIDE DEF w, rest, n, h
<1>9. \A k \in 1 .. n - 1 : k + 1 \in 1 .. n /\ k + 1 # 1 /\ k \in 1 .. n
    BY <1>1
<1>10. \A i, j \in 1 .. Len(rest) : rest[i] = rest[j] => i = j
    <2>1. \A i, j \in 1 .. n : fl[i] = fl[j] => i = j
        BY DEF FreeList, n
    <2>2. ASSUME NEW i \in 1 .. n - 1, NEW j \in 1 .. n - 1, rest[i] = rest[j] PROVE i = j
        <3>1. fl[i + 1] = fl[j + 1] /\ i + 1 \in 1 .. n /\ j + 1 \in 1 .. n
            BY <1>5, <1>9, <2>2
        <3>2. i + 1 = j + 1
            BY <2>1, <3>1
        <3> QED
            BY <3>2
    <2> QED
        BY <1>5, <2>2
<1>11. ASSUME NEW c \in TreeIndices
       PROVE  w.nodes[c].tag = "FREE" <=> \E k \in 1 .. Len(rest) : rest[k] = c
    <2>1. /\ \A i, j \in 1 .. n : fl[i] = fl[j] => i = j
          /\ t.nodes[c].tag = "FREE" <=> \E k \in 1 .. n : fl[k] = c
        BY DEF FreeList, n
    <2>2. CASE c = h
        <3>1. w.nodes[c] = node
            BY <1>7, <1>8, <2>2
        <3>2. ASSUME NEW k \in 1 .. n - 1 PROVE rest[k] # c
            BY <1>2, <1>5, <1>9, <2>1, <2>2
        <3> QED
            BY <1>5, <3>1, <3>2
    <2>3. CASE c # h
        <3>1. w.nodes[c] = t.nodes[c]
            BY <1>7, <1>8, <2>3
        <3>2. ASSUME NEW k \in 1 .. n, fl[k] = c PROVE \E j \in 1 .. n - 1 : rest[j] = c
            <4>1. k # 1
                BY <1>2, <2>3, <3>2
            <4>2. k - 1 \in 1 .. n - 1 /\ (k - 1) + 1 = k
                BY <1>1, <4>1 DEF n
            <4>3. rest[k - 1] = c
                BY <1>5, <3>2, <4>2
            <4> QED
                BY <4>2, <4>3
        <3>3. ASSUME NEW k \in 1 .. n - 1, rest[k] = c PROVE \E j \in 1 .. n : fl[j] = c
            BY <1>5, <1>9, <3>3
        <3> QED
            BY <1>5, <2>1, <3>1, <3>2, <3>3
    <2> QED
        BY <2>2, <2>3
<1>12. w.free_head = LinkTo(rest, 1)
    BY <1>1, <1>5, <1>8 DEF LinkTo, n
<1>13. ASSUME NEW k \in 1 .. Len(rest) PROVE w.nodes[rest[k]].next_free = LinkTo(rest, k + 1)
    <2>1. k \in 1 .. n - 1 /\ rest[k] = fl[k + 1] /\ k + 1 \in 1 .. n
        BY <1>5, <1>9
    <2>2. fl[k + 1] # h /\ fl[k + 1] \in TreeIndices
        BY <1>1, <1>2, <1>9, <2>1 DEF FreeList, n
    <2>3. w.nodes[rest[k]] = t.nodes[fl[k + 1]]
        BY <1>7, <1>8, <2>1, <2>2
    <2>4. t.nodes[fl[k + 1]].next_free = LinkTo(fl, (k + 1) + 1)
        BY <2>1 DEF FreeList, n
    <2>5. LinkTo(fl, (k + 1) + 1) = LinkTo(rest, k + 1)
        <3>1. k + 1 \in 1 .. n - 1 <=> (k + 1) + 1 \in 1 .. n
            BY <1>1, <2>1 DEF n
        <3>2. k + 1 \in 1 .. n - 1 => rest[k + 1] = fl[(k + 1) + 1]
            BY <1>5
        <3> QED
            BY <1>5, <3>1, <3>2 DEF LinkTo, n
    <2> QED
        BY <2>3, <2>4, <2>5
<1>14. FreeList(w, rest)
    BY <1>5, <1>10, <1>11, <1>12, <1>13 DEF FreeList
<1> QED
    BY <1>3, <1>8, <1>14 DEF w, rest, h

\* TreeFree puts a node before it.
LEMMA FreePutsBefore ==
    ASSUME NEW t \in Trees, NEW fl, FreeList(t, fl), NEW c \in Live(t)
    PROVE  /\ TreeFree(t, c) \in Trees
           /\ TreeFree(t, c).root = t.root
           /\ TreeFree(t, c).nodes = [t.nodes EXCEPT ![c] = Free(t.free_head)]
           /\ FreeList(TreeFree(t, c), <<c>> \o fl)
<1> DEFINE w == TreeFree(t, c)
           n == Len(fl)
           more == <<c>> \o fl
<1>1. fl \in Seq(TreeIndices) /\ n \in Nat /\ c \in TreeIndices /\ t.nodes[c].tag # "FREE"
    BY DEF FreeList, Live
<1>2. /\ more \in Seq(TreeIndices) /\ Len(more) = n + 1 /\ more[1] = c
      /\ \A k \in 1 .. n : more[k + 1] = fl[k]
    BY <1>1
<1>3. t \in [root : TreeLinks, free_head : TreeLinks, nodes : [TreeIndices -> TreeNodes]]
    BY DEF Trees
<1>4. Free(t.free_head) \in TreeNodes /\ Free(t.free_head).tag = "FREE"
      /\ Free(t.free_head).next_free = t.free_head
    BY <1>3 DEF Free, TreeNodes, FreeTreeNodes
<1>5. /\ w.root = t.root /\ w.free_head = c
      /\ w.nodes = [t.nodes EXCEPT ![c] = Free(t.free_head)] /\ w \in Trees
    BY <1>1, <1>3, <1>4 DEF TreeFree, Trees, TreeLinks
<1> HIDE DEF w, more, n
<1>6. \A k \in 1 .. n + 1 : k = 1 \/ (k - 1 \in 1 .. n /\ (k - 1) + 1 = k /\ more[k] = fl[k - 1])
    BY <1>1, <1>2
<1>7. \A k \in 1 .. n : fl[k] \in TreeIndices /\ fl[k] # c
    BY <1>1 DEF FreeList, n
<1>8. ASSUME NEW i \in 1 .. Len(more), NEW j \in 1 .. Len(more), more[i] = more[j]
      PROVE  i = j
    <2>1. \A k, l \in 1 .. n : fl[k] = fl[l] => k = l
        BY DEF FreeList, n
    <2> QED
        BY <1>2, <1>6, <1>7, <1>8, <2>1
<1>9. ASSUME NEW d \in TreeIndices
      PROVE  w.nodes[d].tag = "FREE" <=> \E k \in 1 .. Len(more) : more[k] = d
    <2>1. t.nodes[d].tag = "FREE" <=> \E k \in 1 .. n : fl[k] = d
        BY DEF FreeList, n
    <2>2. CASE d = c
        <3>1. 1 \in 1 .. Len(more)
            BY <1>1, <1>2
        <3> QED
            BY <1>2, <1>3, <1>4, <1>5, <2>2, <3>1
    <2>3. CASE d # c
        <3>1. w.nodes[d] = t.nodes[d]
            BY <1>3, <1>5, <2>3
        <3>2. ASSUME NEW k \in 1 .. n, fl[k] = d PROVE \E j \in 1 .. n + 1 : more[j] = d
            <4>1. k + 1 \in 1 .. n + 1 /\ more[k + 1] = d
                BY <1>1, <1>2, <3>2
            <4> QED
                BY <4>1
        <3>3. ASSUME NEW k \in 1 .. n + 1, more[k] = d PROVE \E j \in 1 .. n : fl[j] = d
            BY <1>2, <1>6, <2>3, <3>3
        <3> QED
            BY <1>2, <2>1, <3>1, <3>2, <3>3
    <2> QED
        BY <2>2, <2>3
<1>10. w.free_head = LinkTo(more, 1)
    BY <1>1, <1>2, <1>5 DEF LinkTo
<1>11. ASSUME NEW k \in 1 .. Len(more) PROVE w.nodes[more[k]].next_free = LinkTo(more, k + 1)
    <2>1. CASE k = 1
        <3>1. w.nodes[more[k]].next_free = LinkTo(fl, 1)
            BY <1>1, <1>2, <1>3, <1>4, <1>5, <2>1 DEF FreeList
        <3>2. LinkTo(more, 2) = LinkTo(fl, 1)
            BY <1>1, <1>2 DEF LinkTo, n
        <3> QED
            BY <2>1, <3>1, <3>2
    <2>2. CASE k # 1
        <3>1. k - 1 \in 1 .. n /\ (k - 1) + 1 = k /\ more[k] = fl[k - 1]
            BY <1>2, <1>6, <2>2
        <3>2. w.nodes[more[k]] = t.nodes[fl[k - 1]]
            BY <1>3, <1>5, <1>7, <3>1
        <3>3. t.nodes[fl[k - 1]].next_free = LinkTo(fl, (k - 1) + 1)
            BY <3>1 DEF FreeList, n
        <3>4. LinkTo(fl, k) = LinkTo(more, k + 1)
            <4>1. k \in 1 .. n <=> k + 1 \in 1 .. n + 1
                BY <1>1, <1>2
            <4>2. k \in 1 .. n => more[k + 1] = fl[k]
                BY <1>2
            <4> QED
                BY <1>2, <4>1, <4>2 DEF LinkTo, n
        <3> QED
            BY <3>1, <3>2, <3>3, <3>4
    <2> QED
        BY <2>1, <2>2
<1>12. FreeList(w, more)
    BY <1>2, <1>8, <1>9, <1>10, <1>11 DEF FreeList
<1> QED
    BY <1>5, <1>12 DEF w, more

\* What leaves the free nodes and the head alone leaves the list alone.
LEMMA SameFreeList ==
    ASSUME NEW t, NEW fl, FreeList(t, fl), NEW w, w.free_head = t.free_head,
           \A c \in TreeIndices :
                IF t.nodes[c].tag = "FREE" THEN w.nodes[c] = t.nodes[c]
                ELSE w.nodes[c].tag # "FREE"
    PROVE  FreeList(w, fl)
<1>1. \A c \in TreeIndices : w.nodes[c].tag = "FREE" <=> t.nodes[c].tag = "FREE"
    OBVIOUS
<1>2. \A k \in 1 .. Len(fl) : w.nodes[fl[k]] = t.nodes[fl[k]]
    BY DEF FreeList
<1> QED
    BY <1>1, <1>2 DEF FreeList

\* The list is the one that following the links from free_head yields.
LEMMA FreeListIsFollowed ==
    ASSUME NEW t \in Trees, NEW fl, FreeList(t, fl)
    PROVE  TreeFreeList(t) = fl
<1> DEFINE next == NextFree(t)
<1>1. fl \in Seq(TreeIndices) /\ Len(fl) \in Nat /\ SLAB_NONE_INDEX \notin TreeIndices
      /\ SLAB_TREE_CAPACITY \in Nat
    BY CapacityAssumption DEF FreeList
<1>2. \A k \in 1 .. Len(fl) : next[fl[k]] = LinkTo(fl, k + 1)
    BY <1>1 DEF FreeList, NextFree
<1>3. next[SLAB_NONE_INDEX] = SLAB_NONE_INDEX
    BY DEF NextFree
<1>4. Len(fl) <= SLAB_TREE_CAPACITY + 1
    <2>1. IsFiniteSet(TreeIndices) /\ Cardinality(TreeIndices) = SLAB_TREE_CAPACITY
        BY FS_Interval, CapacityAssumption DEF TreeIndices
    <2>2. [k \in 1 .. Len(fl) |-> fl[k]] \in Injection(1 .. Len(fl), TreeIndices)
        BY <1>1 DEF FreeList, Injection, IsInjective
    <2>3. Cardinality(1 .. Len(fl)) <= Cardinality(TreeIndices)
        BY <2>1, <2>2, FS_Injection
    <2>4. Cardinality(1 .. Len(fl)) = Len(fl)
        <3>1. \A k \in Nat : Cardinality(1 .. k) = k
            BY FS_Interval
        <3> QED
            BY <1>1, <3>1
    <2> QED
        BY <1>1, <2>1, <2>3, <2>4
<1> HIDE DEF next
<1>5. Follow(LinkTo(fl, 1), next, SLAB_TREE_CAPACITY + 1) = fl
    BY <1>1, <1>2, <1>3, <1>4, FollowsList
<1> QED
    BY <1>5 DEF TreeFreeList, FreeList, next

----------------------------------------------------------------------------
(* The two operations on a tree.                                            *)

\* Shape and free list are both as they should be.
Sound(t) == (\E sub : IsTree(t, sub)) /\ (\E fl : FreeList(t, fl))

\* What TreeAlloc writes for a price is a leaf with that price.
LEMMA LeafIsNode ==
    ASSUME NEW p \in PriceRange
    PROVE  Leaf(p) \in TreeNodes /\ Leaf(p).tag = "LEAF" /\ Leaf(p).price = p
BY DEF Leaf, TreeNodes, LeafTreeNodes, NodeLinks

\* What it writes to splice a branch in is an inner node with these children.
LEMMA InnerIsNode ==
    ASSUME NEW s \in 0 .. PRICE_BITS - 1, NEW l \in TreeIndices, NEW r \in TreeIndices
    PROVE  Inner(s, l, r) \in TreeNodes /\ Inner(s, l, r).tag = "INNER"
BY DEF Inner, TreeNodes, InnerTreeNodes

\* leaf is the leaf of price p in w, whose other leaves are those of t. If it
\* is new it is empty.
HasLeaf(t, w, leaf, p) ==
    /\ leaf \in LeafNodes(w) /\ w.nodes[leaf].price = p
    /\ LeafNodes(w) = LeafNodes(t) \union {leaf}
    /\ \A c \in LeafNodes(t) : w.nodes[c] = t.nodes[c]
    /\ leaf \notin LeafNodes(t) => w.nodes[leaf] = Leaf(p)

\* A splice that finds two free nodes keeps the tree sound and adds the leaf.
LEMMA SpliceSound ==
    ASSUME NEW t, NEW sub, IsTree(t, sub), NEW fl, FreeList(t, fl), t.root # SLAB_NONE_INDEX,
           NEW p \in PriceRange, NEW found, found = Last(PathToLeaf(t, p)),
           t.nodes[found].price # p, NEW s, s = SharedBit(p, t.nodes[found].price),
           Splice(t, p, s).ok
    PROVE  /\ Sound(Splice(t, p, s).tree)
           /\ HasLeaf(t, Splice(t, p, s).tree, Splice(t, p, s).leaf, p)
<1> DEFINE path == SplicePath(t, p, s)
           x == Last(path)
           leaf == t.free_head
           t1 == TreeAlloc(t, Leaf(p))
           inner == t1.free_head
           node == IF Bit(p, s) = 1 THEN Inner(s, x, leaf) ELSE Inner(s, leaf, x)
           t2 == TreeAlloc(t1, node)
           w == Relink(t2, Front(path), p, inner)
<1>1. /\ leaf # SLAB_NONE_INDEX /\ inner # SLAB_NONE_INDEX
      /\ Splice(t, p, s) = [ok |-> TRUE, leaf |-> leaf, tree |-> w]
    <2>1. ~ (leaf = SLAB_NONE_INDEX \/ inner = SLAB_NONE_INDEX)
        <3>1. SUFFICES ASSUME leaf = SLAB_NONE_INDEX \/ inner = SLAB_NONE_INDEX PROVE FALSE
            OBVIOUS
        <3>2. Splice(t, p, s) = [ok |-> FALSE]
            BY <3>1 DEF Splice
        <3> QED
            BY <3>2
    <2> QED
        BY <2>1 DEF Splice
<1>2. Spot(t, sub, p, s, x) /\ LeadsTo(t, Front(path), p, x)
    BY SplicePathEnds
<1>3. /\ t \in Trees /\ x \in Live(t) /\ x \in TreeIndices /\ s \in 0 .. PRICE_BITS - 1 /\ p \in Nat
      /\ Live(t) \subseteq TreeIndices /\ LeafNodes(t) \subseteq Live(t)
    BY <1>2, LiveNodes DEF IsTree, Spot, Live, PriceRange
<1> HIDE DEF x, path
<1>4. /\ leaf \in TreeIndices /\ t.nodes[leaf].tag = "FREE"
      /\ t1 \in Trees /\ t1.root = t.root
      /\ t1.nodes = [t.nodes EXCEPT ![leaf] = Leaf(p)] /\ FreeList(t1, Tail(fl))
    BY <1>1, <1>3, LeafIsNode, AllocTakesHead
<1> HIDE DEF leaf, t1
<1>5. node \in TreeNodes /\ node.tag = "INNER"
    BY <1>3, <1>4, InnerIsNode
<1>6. /\ inner \in TreeIndices /\ t1.nodes[inner].tag = "FREE"
      /\ t2 \in Trees /\ t2.root = t1.root
      /\ t2.nodes = [t1.nodes EXCEPT ![inner] = node] /\ FreeList(t2, Tail(Tail(fl)))
    <2> HIDE DEF node, inner
    <2>1. inner = t1.free_head /\ node.tag # "FREE" /\ node \in TreeNodes
        BY <1>5 DEF inner
    <2> QED
        BY <1>1, <1>4, <2>1, AllocTakesHead
<1> HIDE DEF inner, t2, w
<1>7. t.nodes \in [TreeIndices -> TreeNodes]
    BY <1>3 DEF Trees
<1>8. /\ leaf \notin Live(t) /\ inner \notin Live(t) /\ inner # leaf
      /\ t2.nodes[leaf] = Leaf(p) /\ t2.nodes[inner] = node
      /\ \A c \in TreeIndices \ {leaf, inner} : t2.nodes[c] = t.nodes[c]
    <2>1. t1.nodes[leaf] = Leaf(p) /\ \A c \in TreeIndices \ {leaf} : t1.nodes[c] = t.nodes[c]
        BY <1>4, <1>7
    <2>2. inner # leaf
        BY <1>6, <2>1, LeafIsNode
    <2>3. t1.nodes \in [TreeIndices -> TreeNodes]
        BY <1>4 DEF Trees
    <2>4. /\ t2.nodes[inner] = node
          /\ \A c \in TreeIndices \ {inner} : t2.nodes[c] = t1.nodes[c]
        BY <1>6, <2>3
    <2>5. leaf \notin Live(t) /\ inner \notin Live(t)
        BY <1>4, <1>6, <2>1, <2>2 DEF Live
    <2> QED
        BY <1>4, <2>1, <2>2, <2>4, <2>5
<1> HIDE DEF node
<1>9. \A c \in Live(t) : t2.nodes[c] = t.nodes[c] /\ c # leaf /\ c # inner
    BY <1>3, <1>8
<1>10. /\ w \in Trees /\ w.free_head = t2.free_head /\ w.root = To(t.root, x, inner)
       /\ \A c \in Live(t) : w.nodes[c] = Moved(t.nodes[c], x, inner)
       /\ \A c \in TreeIndices \ Live(t) : w.nodes[c] = t2.nodes[c]
    <2> DEFINE above == Front(path)
    <2>1. /\ IsTree(t, sub) /\ t.root # SLAB_NONE_INDEX /\ p \in Nat
          /\ LeadsTo(t, above, p, x) /\ inner \in TreeIndices /\ t2 \in Trees
          /\ t2.root = t.root /\ \A c \in Live(t) : t2.nodes[c] = t.nodes[c]
        BY <1>2, <1>3, <1>4, <1>6, <1>9
    <2>2. w = Relink(t2, above, p, inner)
        BY DEF w
    <2> HIDE DEF above
    <2>3. /\ Relink(t2, above, p, inner) \in Trees
          /\ Relink(t2, above, p, inner).free_head = t2.free_head
          /\ Relink(t2, above, p, inner).root = To(t.root, x, inner)
          /\ \A c \in Live(t) :
                Relink(t2, above, p, inner).nodes[c] = Moved(t.nodes[c], x, inner)
          /\ \A c \in TreeIndices \ Live(t) :
                Relink(t2, above, p, inner).nodes[c] = t2.nodes[c]
        BY ONLY <2>1, RelinkMoves
    <2> QED
        BY ONLY <2>2, <2>3
<1>11. w.nodes[leaf] = Leaf(p) /\ w.nodes[inner] = node
    BY <1>4, <1>6, <1>8, <1>10
<1>12. \A c \in TreeIndices \ (Live(t) \union {leaf, inner}) : w.nodes[c].tag = "FREE"
    BY <1>8, <1>10 DEF Live
<1>13. /\ IsTree(w, SpliceSub(t, sub, x, leaf, inner))
       /\ LeafNodes(w) = LeafNodes(t) \union {leaf}
    BY <1>2, <1>4, <1>6, <1>8, <1>10, <1>11, <1>12, SpliceIsTree DEF node
<1>14. FreeList(w, Tail(Tail(fl)))
    <2>1. ASSUME NEW c \in TreeIndices
          PROVE  IF t2.nodes[c].tag = "FREE" THEN w.nodes[c] = t2.nodes[c]
                 ELSE w.nodes[c].tag # "FREE"
        <3>1. CASE c \in Live(t)
            <4>1. w.nodes[c] = Moved(t.nodes[c], x, inner) /\ t2.nodes[c] = t.nodes[c]
                BY <1>9, <1>10, <3>1
            <4>2. Moved(t.nodes[c], x, inner).tag = t.nodes[c].tag
                BY DEF Moved, Inner
            <4> QED
                BY <3>1, <4>1, <4>2 DEF Live
        <3>2. CASE c \notin Live(t)
            BY <1>10, <3>2
        <3> QED
            BY <3>1, <3>2
    <2> QED
        BY <1>6, <1>10, <2>1, SameFreeList
<1>15. HasLeaf(t, w, leaf, p)
    <2>1. \A c \in LeafNodes(t) : w.nodes[c] = t.nodes[c]
        <3>1. \A c \in LeafNodes(t) : c \in Live(t) /\ t.nodes[c].tag # "INNER"
            BY <1>3 DEF LeafNodes
        <3> QED
            BY <1>10, <3>1 DEF Moved
    <2> QED
        BY <1>11, <1>13, <2>1, LeafIsNode DEF HasLeaf
<1>16. Sound(w)
    BY <1>13, <1>14 DEF Sound
<1> QED
    BY <1>1, <1>15, <1>16

\* critbit_find_or_create_leaf keeps the tree sound and returns the leaf of the
\* price, which is new and empty unless the price had one.
LEMMA FindOrCreateSound ==
    ASSUME NEW t, Sound(t), NEW p \in PriceRange, FindOrCreateLeaf(t, p).ok
    PROVE  /\ Sound(FindOrCreateLeaf(t, p).tree)
           /\ HasLeaf(t, FindOrCreateLeaf(t, p).tree, FindOrCreateLeaf(t, p).leaf, p)
<1>1. PICK sub : IsTree(t, sub)
    BY DEF Sound
<1>2. PICK fl : FreeList(t, fl)
    BY DEF Sound
<1>3. t \in Trees
    BY <1>1 DEF IsTree
<1>4. CASE t.root = SLAB_NONE_INDEX
    <2> DEFINE f == t.free_head
               a == TreeAlloc(t, Leaf(p))
               w == [a EXCEPT !.root = f]
    <2>1. f # SLAB_NONE_INDEX /\ FindOrCreateLeaf(t, p) = [ok |-> TRUE, leaf |-> f, tree |-> w]
        <3>1. FindOrCreateLeaf(t, p) = NewRoot(t, p)
            BY <1>4 DEF FindOrCreateLeaf
        <3>2. f = SLAB_NONE_INDEX => NewRoot(t, p) = [ok |-> FALSE]
            BY DEF NewRoot
        <3>3. f # SLAB_NONE_INDEX
            BY <3>1, <3>2
        <3> QED
            BY <3>1, <3>3 DEF NewRoot
    <2>2. /\ f \in TreeIndices /\ a \in Trees /\ FreeList(a, Tail(fl))
          /\ a.nodes = [t.nodes EXCEPT ![f] = Leaf(p)]
        BY <1>2, <1>3, <2>1, LeafIsNode, AllocTakesHead
    <2> HIDE DEF a, f
    <2>3. Live(t) = {} /\ t.nodes \in [TreeIndices -> TreeNodes]
        BY <1>1, <1>3, <1>4, CapacityAssumption DEF IsTree, Rooted, Live, Trees
    <2>4. a \in [root : TreeLinks, free_head : TreeLinks, nodes : [TreeIndices -> TreeNodes]]
        BY <2>2 DEF Trees
    <2>5. /\ w \in Trees /\ w.root = f /\ w.nodes = a.nodes /\ w.free_head = a.free_head
        BY <2>2, <2>4 DEF Trees, TreeLinks
    <2> HIDE DEF w
    <2>6. /\ w.nodes[f] = Leaf(p)
          /\ \A c \in TreeIndices \ {f} : w.nodes[c].tag = "FREE"
        BY <2>2, <2>3, <2>5 DEF Live
    <2>7. IsTree(w, [c \in {f} |-> {f}]) /\ LeafNodes(w) = {f}
        <3>1. w.nodes[f].tag = "LEAF"
            BY <2>6, LeafIsNode
        <3> QED
            BY <2>2, <2>5, <2>6, <3>1, RootIsTree
    <2>8. FreeList(w, Tail(fl))
        BY <2>2, <2>5, SameFreeList
    <2>9. LeafNodes(t) = {}
        BY <2>3, LiveNodes, <1>3
    <2>10. HasLeaf(t, w, f, p)
        BY <2>6, <2>7, <2>9, LeafIsNode DEF HasLeaf
    <2> QED
        BY <2>1, <2>7, <2>8, <2>10 DEF Sound
<1>5. CASE t.root # SLAB_NONE_INDEX
    <2> DEFINE found == Last(PathToLeaf(t, p))
               s == SharedBit(p, t.nodes[found].price)
    <2>1. found \in LeafNodes(t)
        BY <1>1, <1>5, PathToLeafEnds
    <2>2. CASE t.nodes[found].price = p
        <3>1. FindOrCreateLeaf(t, p) = [ok |-> TRUE, leaf |-> found, tree |-> t]
            BY <1>5, <2>2 DEF FindOrCreateLeaf
        <3>2. HasLeaf(t, t, found, p)
            BY <2>1, <2>2 DEF HasLeaf
        <3> QED
            BY <3>1, <3>2
    <2>3. CASE t.nodes[found].price # p
        <3>1. FindOrCreateLeaf(t, p) = Splice(t, p, s)
            BY <1>5, <2>3 DEF FindOrCreateLeaf
        <3> HIDE DEF found, s
        <3>2. found = Last(PathToLeaf(t, p)) /\ s = SharedBit(p, t.nodes[found].price)
              /\ Splice(t, p, s).ok
            BY <3>1 DEF found, s
        <3> QED
            BY <1>1, <1>2, <1>5, <2>3, <3>1, <3>2, SpliceSound
    <2> QED
        BY <2>2, <2>3
<1> QED
    BY <1>4, <1>5

\* critbit_remove_leaf keeps the tree sound and takes away that leaf only.
LEMMA RemoveSound ==
    ASSUME NEW t, Sound(t), NEW leaf \in LeafNodes(t)
    PROVE  /\ Sound(RemoveLeaf(t, leaf))
           /\ LeafNodes(RemoveLeaf(t, leaf)) = LeafNodes(t) \ {leaf}
           /\ \A c \in LeafNodes(t) \ {leaf} : RemoveLeaf(t, leaf).nodes[c] = t.nodes[c]
<1>1. PICK sub : IsTree(t, sub)
    BY DEF Sound
<1>2. PICK fl : FreeList(t, fl)
    BY DEF Sound
<1>3. /\ t \in Trees /\ leaf \in Live(t) /\ leaf \notin Inners(t)
      /\ t.nodes \in [TreeIndices -> TreeNodes]
      /\ Live(t) = Inners(t) \union LeafNodes(t) /\ Inners(t) \cap LeafNodes(t) = {}
      /\ Live(t) \subseteq TreeIndices
    BY <1>1, LiveNodes DEF IsTree, Trees, Live
<1>4. CASE t.root = leaf
    <2> DEFINE a == TreeFree(t, leaf)
               w == [a EXCEPT !.root = SLAB_NONE_INDEX]
    <2>1. RemoveLeaf(t, leaf) = w
        BY <1>4 DEF RemoveLeaf
    <2>2. /\ a \in Trees /\ a.nodes = [t.nodes EXCEPT ![leaf] = Free(t.free_head)]
          /\ FreeList(a, <<leaf>> \o fl)
        BY <1>2, <1>3, FreePutsBefore
    <2> HIDE DEF a
    <2>3. a \in [root : TreeLinks, free_head : TreeLinks, nodes : [TreeIndices -> TreeNodes]]
        BY <2>2 DEF Trees
    <2>4. /\ w \in Trees /\ w.root = SLAB_NONE_INDEX /\ w.nodes = a.nodes
          /\ w.free_head = a.free_head
        BY <2>2, <2>3 DEF Trees, TreeLinks
    <2> HIDE DEF w
    <2>5. Live(t) = {leaf}
        BY <1>1, <1>3, <1>4 DEF IsTree, Rooted, Branches
    <2>6. \A c \in TreeIndices : w.nodes[c].tag = "FREE"
        BY <1>3, <2>2, <2>4, <2>5 DEF Live, Free
    <2>7. IsTree(w, [c \in {} |-> {}]) /\ LeafNodes(w) = {}
        BY <2>4, <2>6, NothingIsTree
    <2>8. FreeList(w, <<leaf>> \o fl)
        BY <2>2, <2>4, SameFreeList
    <2> QED
        BY <1>3, <2>1, <2>5, <2>7, <2>8 DEF Sound
<1>5. CASE t.root # leaf
    <2> DEFINE p == t.nodes[leaf].price
               path == PathToLeaf(t, p)
               m == path[Len(path) - 1]
               y == CHOOSE c \in {t.nodes[m].left_child, t.nodes[m].right_child} : c # leaf
               above == Front(Front(path))
               a == Relink(t, above, p, y)
               b == TreeFree(a, m)
               w == TreeFree(b, leaf)
               next == Toward(t, p, 0)
    <2>1. RemoveLeaf(t, leaf) = w
        BY <1>5 DEF RemoveLeaf
    <2>2. t.root \in Live(t) /\ t.root # SLAB_NONE_INDEX /\ sub[t.root] = Live(t)
        BY <1>1, <1>3, LiveNodes DEF IsTree, Rooted
    <2>3. p \in PriceRange /\ p \in Nat
        BY <1>3, KindOfNode DEF LeafNodes, LeafTreeNodes, PriceRange
    <2>4. IsPath(path, t.root, next) /\ Last(path) \in LeafNodes(t) /\ DOMAIN next = Inners(t)
        BY <1>1, <2>2, PathToLeafEnds
    \* The way by the leaf's own price stays above the leaf.
    <2>5. Last(path) = leaf
        <3> DEFINE F == {c \in Live(t) : leaf \in sub[c]}
        <3>1. ASSUME NEW c \in F \cap DOMAIN next PROVE next[c] \in F
            <4>1. c \in Inners(t) /\ next[c] = ChildToward(t.nodes[c], p)
                  /\ Bit(p, t.nodes[c].split_bit) \in {0, 1}
                <5>1. c \in Inners(t) /\ t.nodes[c].split_bit \in 0 .. PRICE_BITS - 1
                    BY <1>3, <2>4, KindOfNode DEF Inners, InnerTreeNodes
                <5> QED
                    BY <2>3, <5>1, BitIsBit DEF Toward
            <4>2. /\ t.nodes[c].left_child \in Live(t) /\ t.nodes[c].right_child \in Live(t)
                  /\ leaf \in sub[t.nodes[c].left_child] \/ leaf \in sub[t.nodes[c].right_child]
                BY <1>1, <1>3, <4>1 DEF IsTree, Branches
            <4>3. leaf \in sub[t.nodes[c].left_child] => Bit(p, t.nodes[c].split_bit) = 0
                BY <1>1, <4>1 DEF IsTree, PricesSplit
            <4>4. leaf \in sub[t.nodes[c].right_child] => Bit(p, t.nodes[c].split_bit) = 1
                BY <1>1, <4>1 DEF IsTree, PricesSplit
            <4> QED
                BY <4>1, <4>2, <4>3, <4>4 DEF ChildToward
        <3>2. t.root \in F
            BY <1>3, <2>2
        <3> HIDE DEF F, path, next
        <3>3. Last(path) \in F
            BY <2>4, <3>1, <3>2, PassedAlong, PathEnd
        <3> QED
            BY <1>1, <2>4, <3>3 DEF F, IsTree, Branches
    <2> HIDE DEF path, next
    <2>6. /\ Front(path) # <<>> /\ m \in Inners(t) /\ leaf = next[m] /\ Last(Front(path)) = m
          /\ Len(path) \in Nat /\ Len(path) > 1
        BY <1>5, <2>4, <2>5, PathEnd
    <2>7. leaf \in Children(t, m) /\ Children(t, m) = {t.nodes[m].left_child, t.nodes[m].right_child}
          /\ t.nodes[m].left_child # t.nodes[m].right_child
        <3>1. leaf \in Children(t, m)
            BY <2>4, <2>6, TowardChild DEF next
        <3> QED
            BY <1>1, <2>6, <3>1, OneParent DEF Children, Inners
    <2>8. y \in Children(t, m) /\ y # leaf
        <3>1. \E c \in {t.nodes[m].left_child, t.nodes[m].right_child} : c # leaf
            BY <2>7
        <3>2. y \in {t.nodes[m].left_child, t.nodes[m].right_child} /\ y # leaf
            BY <3>1
        <3> QED
            BY <2>7, <3>2
    <2> HIDE DEF y
    <2>9. y \in Live(t) /\ m \in Live(t) /\ m # leaf /\ y # m /\ y \in TreeIndices
        BY <1>1, <1>3, <2>6, <2>8, ChildrenBelow
    \* What is above the parent leads to it.
    <2>10. LeadsTo(t, above, p, m)
        <3> DEFINE q == Front(path)
                   n == Len(path)
        <3>1. /\ q \in Seq(TreeIndices) /\ Len(q) = n - 1
              /\ \A i \in 1 .. n - 1 : q[i] = path[i]
            BY <2>4, PathEnd
        <3>2. above = SubSeq(q, 1, n - 2)
            BY <3>1, <2>6 DEF Front
        <3>3. 1 \in Int /\ n - 2 \in Int /\ \A i \in 1 .. n - 2 : q[i] \in TreeIndices
            BY <2>6, <3>1
        <3>4. /\ Len(SubSeq(q, 1, n - 2)) = IF 1 <= n - 2 THEN (n - 2) - 1 + 1 ELSE 0
              /\ \A i \in 1 .. (n - 2) - 1 + 1 : SubSeq(q, 1, n - 2)[i] = q[1 + i - 1]
              /\ SubSeq(q, 1, n - 2) \in Seq(TreeIndices)
            BY ONLY <3>3, SubSeqProperties
        <3>5. CASE n = 2
            <4>1. above = <<>>
                BY <3>2, <3>4, <3>5
            <4>2. m = path[1]
                BY <3>5
            <4> QED
                BY <2>4, <4>1, <4>2 DEF LeadsTo, IsPath
        <3>6. CASE n # 2
            <4>1. n > 2
                <5>1. n \in Nat /\ n > 1
                    BY <2>6
                <5> HIDE DEF n
                <5> QED
                    BY <3>6, <5>1
            <4>2. Len(above) = n - 2 /\ above # <<>> /\ above[n - 2] = path[n - 2]
                <5>1. n - 2 \in 1 .. (n - 2) - 1 + 1 /\ n - 2 \in 1 .. n - 1 /\ 1 + (n - 2) - 1 = n - 2
                    BY <2>6, <4>1
                <5>2. Len(above) = n - 2
                    BY <2>6, <3>2, <3>4, <4>1
                <5>3. above[n - 2] = q[1 + (n - 2) - 1]
                    BY <3>2, <3>4, <5>1
                <5>4. above # <<>>
                    BY <2>6, <4>1, <5>2
                <5> QED
                    BY <3>1, <5>1, <5>2, <5>3, <5>4
            <4>3. n - 2 \in 1 .. n - 1 /\ (n - 2) + 1 = n - 1
                BY <2>6, <4>1
            <4>4. path[n - 2] \in DOMAIN next /\ m = next[path[n - 2]]
                BY <2>4, <4>3 DEF IsPath
            <4>5. Last(above) = path[n - 2]
                BY <4>2 DEF Last
            <4> QED
                BY <2>4, <4>2, <4>4, <4>5 DEF LeadsTo, next, Toward
        <3> QED
            BY <3>5, <3>6
    <2> HIDE DEF above, m, p
    <2>11. /\ a \in Trees /\ a.free_head = t.free_head /\ a.root = To(t.root, m, y)
           /\ \A c \in Live(t) : a.nodes[c] = Moved(t.nodes[c], m, y)
           /\ \A c \in TreeIndices \ Live(t) : a.nodes[c] = t.nodes[c]
        <3> DEFINE u == t
        <3>1. /\ IsTree(t, sub) /\ t.root # SLAB_NONE_INDEX /\ p \in Nat
              /\ LeadsTo(t, above, p, m) /\ y \in TreeIndices /\ u \in Trees
              /\ u.root = t.root /\ \A c \in Live(t) : u.nodes[c] = t.nodes[c]
            BY <1>1, <1>3, <2>2, <2>3, <2>9, <2>10
        <3>2. a = Relink(u, above, p, y) /\ u.free_head = t.free_head /\ u.nodes = t.nodes
            OBVIOUS
        <3> HIDE DEF a, u
        <3> DEFINE v == Relink(u, above, p, y)
        <3>3. /\ v \in Trees /\ v.free_head = u.free_head /\ v.root = To(t.root, m, y)
              /\ \A c \in Live(t) : v.nodes[c] = Moved(t.nodes[c], m, y)
              /\ \A c \in TreeIndices \ Live(t) : v.nodes[c] = u.nodes[c]
            BY ONLY <3>1, RelinkMoves
        <3> QED
            BY <3>2, <3>3
    <2> HIDE DEF a
    <2>12. FreeList(a, fl) /\ Live(a) = Live(t)
        <3>1. \A node : Moved(node, m, y).tag = node.tag
            BY DEF Moved, Inner
        <3>2. ASSUME NEW c \in TreeIndices
              PROVE  /\ a.nodes[c].tag = t.nodes[c].tag
                     /\ t.nodes[c].tag = "FREE" => a.nodes[c] = t.nodes[c]
            BY <2>11, <3>1 DEF Live
        <3> QED
            BY <1>2, <2>11, <3>2, SameFreeList DEF Live
    <2>13. /\ b \in Trees /\ b.root = a.root /\ b.nodes = [a.nodes EXCEPT ![m] = Free(a.free_head)]
           /\ FreeList(b, <<m>> \o fl)
        BY <2>9, <2>11, <2>12, FreePutsBefore
    <2> HIDE DEF b
    <2>14. /\ a.nodes \in [TreeIndices -> TreeNodes] /\ b.nodes \in [TreeIndices -> TreeNodes]
        BY <2>11, <2>13 DEF Trees
    <2>15. b.nodes[leaf] = a.nodes[leaf] /\ leaf \in Live(b)
        BY <1>3, <2>9, <2>12, <2>13, <2>14 DEF Live
    <2>16. /\ w \in Trees /\ w.root = b.root /\ w.nodes = [b.nodes EXCEPT ![leaf] = Free(b.free_head)]
           /\ FreeList(w, <<leaf>> \o (<<m>> \o fl))
        BY <2>13, <2>15, FreePutsBefore
    <2> HIDE DEF w
    <2>17. \A c \in TreeIndices :
            w.nodes[c] = IF c = leaf THEN Free(b.free_head)
                         ELSE IF c = m THEN Free(a.free_head) ELSE a.nodes[c]
        BY <2>9, <2>13, <2>14, <2>16
    <2>18. \A c \in Live(t) \ {m, leaf} : w.nodes[c] = Moved(t.nodes[c], m, y)
        BY <1>3, <2>11, <2>17
    <2>19. \A c \in TreeIndices \ (Live(t) \ {m, leaf}) : w.nodes[c].tag = "FREE"
        BY <2>11, <2>17 DEF Live, Free
    <2>20. IsTree(w, CutSub(t, sub, m, leaf)) /\ LeafNodes(w) = LeafNodes(t) \ {leaf}
        <3>1. /\ IsTree(t, sub) /\ leaf \in LeafNodes(t) /\ m \in Inners(t)
              /\ leaf \in Children(t, m) /\ y \in Children(t, m) /\ y # leaf
              /\ w \in Trees /\ w.root = To(t.root, m, y)
            BY <1>1, <2>6, <2>7, <2>8, <2>11, <2>13, <2>16
        <3> QED
            BY ONLY <2>18, <2>19, <3>1, CutIsTree
    <2>21. ASSUME NEW c \in LeafNodes(t) \ {leaf} PROVE w.nodes[c] = t.nodes[c]
        <3>1. c \in Live(t) \ {m, leaf} /\ t.nodes[c].tag = "LEAF"
            BY <1>3, <2>6 DEF LeafNodes
        <3> QED
            BY <2>18, <3>1 DEF Moved
    <2> QED
        BY <2>1, <2>16, <2>20, <2>21 DEF Sound
<1> QED
    BY <1>4, <1>5

----------------------------------------------------------------------------
(* The lists of the pool.                                                   *)

PoolNodes == [order_id : Nat, size : Nat, next : NodeLinks, prev : NodeLinks]
Holds(s, n) == \E k \in 1 .. Len(s) : s[k] = n

\* fl is the free list of the pool N: no node twice, from head on.
PoolList(N, head, fl) ==
    /\ fl \in Seq(PoolIndices)
    /\ \A i, j \in 1 .. Len(fl) : fl[i] = fl[j] => i = j
    /\ head = LinkTo(fl, 1)
    /\ \A k \in 1 .. Len(fl) : N[fl[k]].next = LinkTo(fl, k + 1)

\* q is a queue of the pool N: linked both ways, in order of arrival, with
\* size left, and all of its orders older than id.
QueueOf(N, id, q) ==
    /\ q \in Seq(PoolIndices)
    /\ \A k \in 1 .. Len(q) :
            /\ N[q[k]].next = LinkTo(q, k + 1) /\ N[q[k]].prev = LinkTo(q, k - 1)
            /\ N[q[k]].size > 0 /\ N[q[k]].order_id < id
    /\ \A j, k \in 1 .. Len(q) : j < k => N[q[j]].order_id < N[q[k]].order_id

\* What a list without its head links to.
LEMMA TailLinks ==
    ASSUME NEW S, NEW s \in Seq(S), s # <<>>
    PROVE  /\ Tail(s) \in Seq(S) /\ Len(s) \in Nat /\ Len(s) > 0 /\ Len(Tail(s)) = Len(s) - 1
           /\ \A k \in 1 .. Len(s) - 1 : /\ k + 1 \in 1 .. Len(s) /\ k \in 1 .. Len(s)
                                         /\ Tail(s)[k] = s[k + 1]
           /\ \A k \in 1 .. Len(s) : LinkTo(Tail(s), k) = LinkTo(s, k + 1)
           /\ \A k \in 1 .. Len(s) : k # 1 => k - 1 \in 1 .. Len(s) - 1 /\ (k - 1) + 1 = k
<1>1. /\ Tail(s) \in Seq(S) /\ Len(s) \in Nat /\ Len(s) > 0 /\ Len(Tail(s)) = Len(s) - 1
      /\ \A k \in 1 .. Len(Tail(s)) : Tail(s)[k] = s[k + 1]
    BY HeadTailProperties, EmptySeq, LenProperties
<1> DEFINE n == Len(s)
           r == Tail(s)
<1>2. n \in Nat /\ n > 0 /\ Len(r) = n - 1 /\ \A k \in 1 .. n - 1 : r[k] = s[k + 1]
    BY <1>1
<1> HIDE DEF n, r
<1>3. \A k \in 1 .. n - 1 : k + 1 \in 1 .. n /\ k \in 1 .. n
    BY <1>2
<1>4. ASSUME NEW k \in 1 .. n PROVE LinkTo(r, k) = LinkTo(s, k + 1)
    <2>1. k \in 1 .. n - 1 <=> k + 1 \in 1 .. n
        BY <1>2
    <2> QED
        BY <1>2, <2>1 DEF LinkTo, n
<1>5. \A k \in 1 .. n : k # 1 => k - 1 \in 1 .. n - 1 /\ (k - 1) + 1 = k
    BY <1>2
<1> QED
    BY <1>1, <1>2, <1>3, <1>4, <1>5 DEF n, r

\* Taking the head of the free list.
LEMMA PoolTake ==
    ASSUME NEW N, NEW head, NEW fl, PoolList(N, head, fl), head # SLAB_NONE_INDEX, NEW M,
           \A n \in PoolIndices : Holds(fl, n) /\ n # head => M[n].next = N[n].next
    PROVE  /\ head \in PoolIndices /\ Holds(fl, head)
           /\ PoolList(M, N[head].next, Tail(fl))
           /\ \A n : Holds(Tail(fl), n) <=> Holds(fl, n) /\ n # head
<1>1. fl \in Seq(PoolIndices) /\ Len(fl) \in Nat /\ fl # <<>>
    BY DEF PoolList, LinkTo
<1> DEFINE m == Len(fl)
           r == Tail(fl)
<1>2. /\ r \in Seq(PoolIndices) /\ m \in Nat /\ m > 0 /\ Len(r) = m - 1
      /\ \A k \in 1 .. m - 1 : k + 1 \in 1 .. m /\ k \in 1 .. m /\ r[k] = fl[k + 1]
      /\ \A k \in 1 .. m : LinkTo(r, k) = LinkTo(fl, k + 1)
      /\ \A k \in 1 .. m : k # 1 => k - 1 \in 1 .. m - 1 /\ (k - 1) + 1 = k
    BY <1>1, TailLinks
<1>3. /\ \A i, j \in 1 .. m : fl[i] = fl[j] => i = j
      /\ \A k \in 1 .. m : fl[k] \in PoolIndices /\ N[fl[k]].next = LinkTo(fl, k + 1)
      /\ 1 \in 1 .. m /\ head = fl[1]
    BY <1>1, <1>2 DEF PoolList, LinkTo
<1> HIDE DEF m, r
<1>4. ASSUME NEW i \in 1 .. Len(r), NEW j \in 1 .. Len(r), r[i] = r[j] PROVE i = j
    <2>1. fl[i + 1] = fl[j + 1] /\ i + 1 \in 1 .. m /\ j + 1 \in 1 .. m
        BY <1>2, <1>4
    <2>2. i + 1 = j + 1
        BY <1>3, <2>1
    <2> QED
        BY <2>2
<1>5. \A k \in 1 .. m - 1 : k + 1 # 1 /\ fl[k + 1] # head
    BY <1>2, <1>3
<1>6. N[head].next = LinkTo(r, 1)
    BY <1>2, <1>3
<1>7. ASSUME NEW k \in 1 .. Len(r) PROVE M[r[k]].next = LinkTo(r, k + 1)
    <2>1. r[k] = fl[k + 1] /\ k + 1 \in 1 .. m /\ fl[k + 1] # head
        BY <1>2, <1>5
    <2>2. N[r[k]].next = LinkTo(r, k + 1)
        BY <1>2, <1>3, <2>1
    <2>3. M[r[k]].next = N[r[k]].next
        BY <1>3, <2>1 DEF Holds, m
    <2> QED
        BY <2>2, <2>3
<1>8. ASSUME NEW n PROVE Holds(r, n) <=> Holds(fl, n) /\ n # head
    <2>1. ASSUME NEW k \in 1 .. m, fl[k] = n, n # head PROVE Holds(r, n)
        <3>1. k - 1 \in 1 .. m - 1 /\ r[k - 1] = n
            BY <1>2, <1>3, <2>1
        <3> QED
            BY <1>2, <3>1 DEF Holds
    <2>2. ASSUME NEW k \in 1 .. m - 1, r[k] = n PROVE Holds(fl, n) /\ n # head
        BY <1>2, <1>5, <2>2 DEF Holds, m
    <2> QED
        BY <1>2, <2>1, <2>2 DEF Holds, m
<1> QED
    BY <1>2, <1>3, <1>4, <1>6, <1>7, <1>8 DEF PoolList, Holds, m, r

\* Putting a node before it.
LEMMA PoolPut ==
    ASSUME NEW N, NEW head, NEW fl, PoolList(N, head, fl), NEW x \in PoolIndices,
           ~ Holds(fl, x), NEW M, M[x].next = head,
           \A n \in PoolIndices : Holds(fl, n) => M[n].next = N[n].next
    PROVE  /\ PoolList(M, x, <<x>> \o fl)
           /\ \A n : Holds(<<x>> \o fl, n) <=> Holds(fl, n) \/ n = x
<1> DEFINE m == Len(fl)
           more == <<x>> \o fl
<1>1. fl \in Seq(PoolIndices) /\ m \in Nat
    BY DEF PoolList
<1>2. /\ more \in Seq(PoolIndices) /\ Len(more) = m + 1 /\ more[1] = x
      /\ \A k \in 1 .. m : more[k + 1] = fl[k]
    BY <1>1
<1>3. /\ \A i, j \in 1 .. m : fl[i] = fl[j] => i = j
      /\ \A k \in 1 .. m : fl[k] \in PoolIndices /\ fl[k] # x /\ N[fl[k]].next = LinkTo(fl, k + 1)
      /\ \A k \in 1 .. m : M[fl[k]].next = LinkTo(fl, k + 1)
      /\ M[x].next = LinkTo(fl, 1)
    BY <1>1 DEF PoolList, Holds
<1> HIDE DEF more, m
<1>4. /\ \A k \in 1 .. m + 1 : k = 1 \/ (k - 1 \in 1 .. m /\ (k - 1) + 1 = k /\ more[k] = fl[k - 1])
      /\ 1 \in 1 .. m + 1 /\ \A k \in 1 .. m : k + 1 \in 1 .. m + 1
    BY <1>1, <1>2
<1>5. ASSUME NEW i \in 1 .. m + 1, NEW j \in 1 .. m + 1, more[i] = more[j] PROVE i = j
    BY <1>2, <1>3, <1>4, <1>5
<1>6. \A k \in 1 .. m + 1 : LinkTo(more, k + 1) = LinkTo(fl, k)
    <2>1. ASSUME NEW k \in 1 .. m + 1 PROVE LinkTo(more, k + 1) = LinkTo(fl, k)
        <3>1. k + 1 \in 1 .. m + 1 <=> k \in 1 .. m
            BY <1>1
        <3> QED
            BY <1>2, <3>1 DEF LinkTo, m
    <2> QED
        BY <2>1
<1>7. ASSUME NEW k \in 1 .. m + 1 PROVE M[more[k]].next = LinkTo(more, k + 1)
    <2>1. CASE k = 1
        BY <1>2, <1>3, <1>6, <2>1
    <2>2. CASE k # 1
        BY <1>3, <1>4, <1>6, <2>2
    <2> QED
        BY <2>1, <2>2
<1>8. x = LinkTo(more, 1)
    BY <1>2, <1>4 DEF LinkTo
<1>9. ASSUME NEW n PROVE Holds(more, n) <=> Holds(fl, n) \/ n = x
    <2>1. ASSUME NEW k \in 1 .. m, fl[k] = n PROVE Holds(more, n)
        <3>1. k + 1 \in 1 .. Len(more) /\ more[k + 1] = n
            BY <1>2, <1>4, <2>1
        <3> QED
            BY <3>1 DEF Holds
    <2>2. ASSUME NEW k \in 1 .. m + 1, more[k] = n PROVE Holds(fl, n) \/ n = x
        BY <1>2, <1>4, <2>2 DEF Holds, m
    <2>3. Holds(more, x)
        BY <1>2, <1>4 DEF Holds
    <2> QED
        BY <1>2, <2>1, <2>2, <2>3 DEF Holds, m
<1> QED
    BY <1>2, <1>5, <1>7, <1>8, <1>9 DEF PoolList, m, more

\* M is N after order n of that id has joined the tail of q.
Joined(N, M, id, q, n) ==
    /\ M[n].order_id = id /\ M[n].size > 0 /\ M[n].next = SLAB_NONE_INDEX
    /\ M[n].prev = LinkTo(q, Len(q))
    /\ \A m \in PoolIndices : Holds(q, m) =>
            M[m] = IF m = LinkTo(q, Len(q)) THEN [N[m] EXCEPT !.next = n] ELSE N[m]

\* An order with the next id joins the tail of a queue.
LEMMA QueueJoin ==
    ASSUME NEW N \in [PoolIndices -> PoolNodes], NEW id \in Nat, NEW q, QueueOf(N, id, q),
           NEW n \in PoolIndices, ~ Holds(q, n), NEW M \in [PoolIndices -> PoolNodes],
           Joined(N, M, id, q, n)
    PROVE  /\ QueueOf(M, id + 1, Append(q, n)) /\ Append(q, n) # <<>>
           /\ Len(Append(q, n)) = Len(q) + 1
           /\ LinkTo(Append(q, n), 1) = IF LinkTo(q, 1) = SLAB_NONE_INDEX THEN n ELSE LinkTo(q, 1)
           /\ LinkTo(Append(q, n), Len(q) + 1) = n
           /\ \A m : Holds(Append(q, n), m) <=> Holds(q, m) \/ m = n
<1> DEFINE l == Len(q)
           r == Append(q, n)
<1>1. q \in Seq(PoolIndices) /\ l \in Nat
    BY DEF QueueOf
<1>2. /\ r \in Seq(PoolIndices) /\ Len(r) = l + 1 /\ r[l + 1] = n /\ r # <<>>
      /\ \A k \in 1 .. l : r[k] = q[k]
    BY <1>1, AppendProperties
<1>3. /\ \A k \in 1 .. l : /\ q[k] \in PoolIndices /\ q[k] # n /\ Holds(q, q[k])
                           /\ N[q[k]].next = LinkTo(q, k + 1) /\ N[q[k]].prev = LinkTo(q, k - 1)
                           /\ N[q[k]].size > 0 /\ N[q[k]].order_id < id
      /\ \A j, k \in 1 .. l : j < k => N[q[j]].order_id < N[q[k]].order_id
    BY <1>1 DEF QueueOf, Holds
<1>4. \A j, k \in 1 .. l : q[j] = q[k] => j = k
    <2>1. ASSUME NEW j \in 1 .. l, NEW k \in 1 .. l, j < k PROVE q[j] # q[k]
        <3>1. N[q[j]].order_id < N[q[k]].order_id /\ N[q[j]].order_id \in Nat
            BY <1>3, <2>1 DEF PoolNodes
        <3> QED
            BY <3>1
    <2>2. \A j, k \in 1 .. l : j = k \/ j < k \/ k < j
        BY <1>1
    <2> QED
        BY <2>1, <2>2
<1>5. \A k \in 1 .. l : q[k] = LinkTo(q, l) <=> k = l
    BY <1>1, <1>4 DEF LinkTo
<1>6. \A m \in PoolIndices : Holds(q, m) =>
                M[m] = IF m = LinkTo(q, l) THEN [N[m] EXCEPT !.next = n] ELSE N[m]
    BY DEF Joined
<1>7. /\ M[n].order_id = id /\ M[n].size > 0 /\ M[n].next = SLAB_NONE_INDEX
      /\ M[n].prev = LinkTo(q, l)
    BY DEF Joined
<1> HIDE DEF l, r
<1>8. ASSUME NEW k \in 1 .. l
      PROVE  /\ M[q[k]].next = IF k = l THEN n ELSE LinkTo(q, k + 1)
             /\ M[q[k]].prev = LinkTo(q, k - 1)
             /\ M[q[k]].size > 0 /\ M[q[k]].order_id = N[q[k]].order_id
             /\ M[q[k]].order_id < id
    <2>1. M[q[k]] = IF k = l THEN [N[q[k]] EXCEPT !.next = n] ELSE N[q[k]]
        BY <1>3, <1>5, <1>6
    <2>2. N[q[k]] \in PoolNodes
        BY <1>3
    <2> QED
        BY <1>3, <2>1, <2>2 DEF PoolNodes
<1>9. /\ \A k \in 1 .. l + 1 : k \in 1 .. l \/ k = l + 1
      /\ \A k \in 1 .. l : k \in 1 .. l + 1 /\ k # l + 1 /\ (k # l => k + 1 \in 1 .. l)
      /\ l + 1 \in 1 .. l + 1 /\ (l # 0 => l \in 1 .. l /\ 1 \in 1 .. l) /\ 1 \in 1 .. l + 1
      /\ l + 1 - 1 = l /\ (l + 1) + 1 \notin 1 .. l + 1
    BY <1>1
<1>10. ASSUME NEW k \in 1 .. l PROVE LinkTo(r, k - 1) = LinkTo(q, k - 1)
    <2>1. k - 1 \in 1 .. l + 1 <=> k - 1 \in 1 .. l
        BY <1>1
    <2> QED
        BY <1>2, <2>1 DEF LinkTo, l
<1>11. ASSUME NEW k \in 1 .. l
       PROVE  LinkTo(r, k + 1) = IF k = l THEN n ELSE LinkTo(q, k + 1)
    <2>1. k + 1 \in 1 .. l + 1
        BY <1>1
    <2>2. CASE k = l
        BY <1>2, <2>1, <2>2 DEF LinkTo
    <2>3. CASE k # l
        BY <1>2, <1>9, <2>1, <2>3 DEF LinkTo, l
    <2> QED
        BY <2>2, <2>3
<1>12. LinkTo(r, l) = LinkTo(q, l)
    <2>1. l \in 1 .. l + 1 <=> l \in 1 .. l
        BY <1>1
    <2> QED
        BY <1>2, <2>1 DEF LinkTo, l
<1>13. ASSUME NEW k \in 1 .. Len(r)
       PROVE  /\ M[r[k]].next = LinkTo(r, k + 1) /\ M[r[k]].prev = LinkTo(r, k - 1)
              /\ M[r[k]].size > 0 /\ M[r[k]].order_id < id + 1
    <2>1. CASE k \in 1 .. l
        <3>1. M[q[k]].order_id \in Nat
            BY <1>3, <2>1 DEF PoolNodes
        <3> QED
            BY <1>2, <1>8, <1>10, <1>11, <2>1, <3>1
    <2>2. CASE k = l + 1
        <3>1. LinkTo(r, k + 1) = SLAB_NONE_INDEX /\ LinkTo(r, k - 1) = LinkTo(q, l)
            BY <1>2, <1>9, <1>12, <2>2 DEF LinkTo
        <3> QED
            BY <1>2, <1>7, <2>2, <3>1
    <2> QED
        BY <1>2, <1>9, <2>1, <2>2
<1>14. ASSUME NEW j \in 1 .. Len(r), NEW k \in 1 .. Len(r), j < k
       PROVE  M[r[j]].order_id < M[r[k]].order_id
    <2>1. j \in 1 .. l
        BY <1>1, <1>2, <1>14
    <2>2. CASE k \in 1 .. l
        BY <1>2, <1>3, <1>8, <1>14, <2>1, <2>2
    <2>3. CASE k = l + 1
        BY <1>2, <1>7, <1>8, <2>1, <2>3
    <2> QED
        BY <1>2, <1>9, <2>2, <2>3
<1>15. LinkTo(r, 1) = IF LinkTo(q, 1) = SLAB_NONE_INDEX THEN n ELSE LinkTo(q, 1)
    <2>1. CASE l = 0
        BY <1>2, <1>9, <2>1 DEF LinkTo, l
    <2>2. CASE l # 0
        <3>1. q[1] # SLAB_NONE_INDEX
            BY <1>3, <1>9, <2>2, CapacityAssumption
        <3> QED
            BY <1>2, <1>9, <2>2, <3>1 DEF LinkTo, l
    <2> QED
        BY <2>1, <2>2
<1>16. LinkTo(r, l + 1) = n
    BY <1>2, <1>9 DEF LinkTo
<1>17. ASSUME NEW m PROVE Holds(r, m) <=> Holds(q, m) \/ m = n
    <2>1. ASSUME NEW k \in 1 .. l, q[k] = m PROVE Holds(r, m)
        BY <1>2, <1>9, <2>1 DEF Holds
    <2>2. ASSUME NEW k \in 1 .. l + 1, r[k] = m PROVE Holds(q, m) \/ m = n
        BY <1>2, <1>9, <2>2 DEF Holds, l
    <2>3. Holds(r, n)
        BY <1>2, <1>9 DEF Holds
    <2> QED
        BY <1>2, <2>1, <2>2, <2>3 DEF Holds, l
<1>18. QueueOf(M, id + 1, r)
    BY <1>2, <1>13, <1>14 DEF QueueOf
<1> QED
    BY <1>2, <1>15, <1>16, <1>17, <1>18 DEF l, r

\* M is N after the head of q has left, as far as the rest of q goes.
Left(N, M, q) ==
    \A m \in PoolIndices : Holds(q, m) /\ m # q[1] =>
        M[m] = IF m = LinkTo(q, 2) THEN [N[m] EXCEPT !.prev = SLAB_NONE_INDEX] ELSE N[m]

\* The head of a queue leaves it.
LEMMA QueueLeave ==
    ASSUME NEW N \in [PoolIndices -> PoolNodes], NEW id, NEW q, QueueOf(N, id, q), q # <<>>,
           NEW M \in [PoolIndices -> PoolNodes], Left(N, M, q)
    PROVE  /\ QueueOf(M, id, Tail(q)) /\ Len(Tail(q)) = Len(q) - 1
           /\ LinkTo(Tail(q), 1) = LinkTo(q, 2)
           /\ LinkTo(q, 2) = SLAB_NONE_INDEX <=> Tail(q) = <<>>
           /\ Tail(q) # <<>> => LinkTo(Tail(q), Len(q) - 1) = LinkTo(q, Len(q))
           /\ q[1] \in PoolIndices /\ LinkTo(q, 1) = q[1] /\ Holds(q, q[1])
           /\ \A m : Holds(Tail(q), m) <=> Holds(q, m) /\ m # q[1]
<1> DEFINE l == Len(q)
           r == Tail(q)
<1>1. q \in Seq(PoolIndices)
    BY DEF QueueOf
<1>2. /\ r \in Seq(PoolIndices) /\ l \in Nat /\ l > 0 /\ Len(r) = l - 1
      /\ \A k \in 1 .. l - 1 : k + 1 \in 1 .. l /\ k \in 1 .. l /\ r[k] = q[k + 1]
      /\ \A k \in 1 .. l : LinkTo(r, k) = LinkTo(q, k + 1)
      /\ \A k \in 1 .. l : k # 1 => k - 1 \in 1 .. l - 1 /\ (k - 1) + 1 = k
    BY <1>1, TailLinks
<1>3. /\ \A k \in 1 .. l : /\ q[k] \in PoolIndices /\ Holds(q, q[k])
                           /\ N[q[k]].next = LinkTo(q, k + 1) /\ N[q[k]].prev = LinkTo(q, k - 1)
                           /\ N[q[k]].size > 0 /\ N[q[k]].order_id < id
      /\ \A j, k \in 1 .. l : j < k => N[q[j]].order_id < N[q[k]].order_id
    BY <1>1 DEF QueueOf, Holds
<1>4. \A j, k \in 1 .. l : q[j] = q[k] => j = k
    <2>1. ASSUME NEW j \in 1 .. l, NEW k \in 1 .. l, j < k PROVE q[j] # q[k]
        <3>1. N[q[j]].order_id < N[q[k]].order_id /\ N[q[j]].order_id \in Nat
            BY <1>3, <2>1 DEF PoolNodes
        <3> QED
            BY <3>1
    <2>2. \A j, k \in 1 .. l : j = k \/ j < k \/ k < j
        BY <1>2
    <2> QED
        BY <2>1, <2>2
<1>5. 1 \in 1 .. l /\ LinkTo(q, 1) = q[1] /\ LinkTo(r, 1) = LinkTo(q, 2)
    BY <1>2 DEF LinkTo
<1> HIDE DEF l, r
<1>6. ASSUME NEW k \in 1 .. l - 1
      PROVE  /\ M[r[k]].next = LinkTo(r, k + 1) /\ M[r[k]].prev = LinkTo(r, k - 1)
             /\ M[r[k]].size > 0 /\ M[r[k]].order_id < id
             /\ M[r[k]].order_id = N[q[k + 1]].order_id
    <2>1. /\ k + 1 \in 1 .. l /\ k \in 1 .. l /\ r[k] = q[k + 1] /\ k + 1 # 1 /\ q[k + 1] # q[1]
          /\ k = (k + 1) - 1
        BY <1>2, <1>4, <1>5
    <2>2. q[k + 1] = LinkTo(q, 2) <=> k = 1
        <3>1. 2 \in 1 .. l
            BY <1>2
        <3>2. LinkTo(q, 2) = q[2]
            BY <3>1 DEF LinkTo, l
        <3>3. k + 1 = 2 <=> k = 1
            BY <1>2
        <3> QED
            BY <1>4, <2>1, <3>1, <3>2, <3>3
    <2>3. M[r[k]] = IF k = 1 THEN [N[q[k + 1]] EXCEPT !.prev = SLAB_NONE_INDEX] ELSE N[q[k + 1]]
        BY <1>3, <2>1, <2>2 DEF Left
    <2>4. N[q[k + 1]] \in PoolNodes
        BY <1>3, <2>1
    <2>5. LinkTo(r, k + 1) = N[q[k + 1]].next
        BY <1>2, <1>3, <2>1
    <2>6. k = 1 => LinkTo(r, k - 1) = SLAB_NONE_INDEX
        BY DEF LinkTo
    <2>7. k # 1 => LinkTo(r, k - 1) = N[q[k + 1]].prev
        BY <1>2, <1>3, <2>1
    <2> QED
        BY <1>3, <2>1, <2>3, <2>4, <2>5, <2>6, <2>7 DEF PoolNodes
<1>7. ASSUME NEW j \in 1 .. l - 1, NEW k \in 1 .. l - 1, j < k
      PROVE  M[r[j]].order_id < M[r[k]].order_id
    <2>1. j + 1 \in 1 .. l /\ k + 1 \in 1 .. l /\ j + 1 < k + 1
        BY <1>2, <1>7
    <2> QED
        BY <1>3, <1>6, <2>1
<1>8. QueueOf(M, id, r)
    BY <1>2, <1>6, <1>7 DEF QueueOf
<1>9. LinkTo(q, 2) = SLAB_NONE_INDEX <=> r = <<>>
    <2>1. CASE l = 1
        <3>1. LinkTo(q, 2) = SLAB_NONE_INDEX
            BY <2>1 DEF LinkTo, l
        <3>2. r = <<>>
            BY <1>2, <2>1, EmptySeq
        <3> QED
            BY <3>1, <3>2
    <2>2. CASE l # 1
        <3>1. 2 \in 1 .. l
            BY <1>2, <2>2
        <3>2. LinkTo(q, 2) \in PoolIndices
            BY <1>3, <3>1 DEF LinkTo, l
        <3>3. r # <<>>
            BY <1>2, <2>2, EmptySeq
        <3> QED
            BY <3>2, <3>3, CapacityAssumption
    <2> QED
        BY <2>1, <2>2
<1>10. r # <<>> => LinkTo(r, l - 1) = LinkTo(q, l)
    <2>1. SUFFICES ASSUME r # <<>> PROVE LinkTo(r, l - 1) = LinkTo(q, l)
        OBVIOUS
    <2>2. Len(r) # 0
        BY <1>2, <2>1, EmptySeq
    <2>3. l - 1 \in 1 .. l /\ (l - 1) + 1 = l
        BY <1>2, <2>2
    <2> QED
        BY <1>2, <2>3
<1>11. ASSUME NEW m PROVE Holds(r, m) <=> Holds(q, m) /\ m # q[1]
    <2>1. ASSUME NEW k \in 1 .. l, q[k] = m, m # q[1] PROVE Holds(r, m)
        <3>1. k - 1 \in 1 .. l - 1 /\ r[k - 1] = m
            BY <1>2, <2>1
        <3> QED
            BY <1>2, <3>1 DEF Holds
    <2>2. ASSUME NEW k \in 1 .. l - 1, r[k] = m PROVE Holds(q, m) /\ m # q[1]
        <3>1. k + 1 \in 1 .. l /\ k + 1 # 1 /\ q[k + 1] = m
            BY <1>2, <2>2
        <3> QED
            BY <1>4, <1>5, <3>1 DEF Holds, l
    <2> QED
        BY <1>2, <2>1, <2>2 DEF Holds, l
<1> QED
    BY <1>2, <1>3, <1>5, <1>8, <1>9, <1>10, <1>11 DEF l, r

\* A queue that keeps its links, its ids and some size is still a queue.
LEMMA QueueStays ==
    ASSUME NEW N \in [PoolIndices -> PoolNodes], NEW id \in Nat, NEW q, QueueOf(N, id, q),
           NEW M, NEW later \in Nat, id <= later,
           \A m \in PoolIndices : Holds(q, m) =>
                /\ M[m].next = N[m].next /\ M[m].prev = N[m].prev
                /\ M[m].order_id = N[m].order_id /\ M[m].size > 0
    PROVE  QueueOf(M, later, q)
<1>1. q \in Seq(PoolIndices) /\ Len(q) \in Nat
    BY DEF QueueOf
<1>2. ASSUME NEW k \in 1 .. Len(q)
      PROVE  /\ q[k] \in PoolIndices
             /\ M[q[k]].next = N[q[k]].next /\ M[q[k]].prev = N[q[k]].prev
             /\ M[q[k]].order_id = N[q[k]].order_id /\ M[q[k]].size > 0
             /\ N[q[k]].order_id < later
    <2>1. q[k] \in PoolIndices /\ Holds(q, q[k])
        BY <1>1 DEF Holds
    <2>2. N[q[k]].order_id < id /\ N[q[k]].order_id \in Nat
        BY <2>1 DEF QueueOf, PoolNodes
    <2> QED
        BY <2>1, <2>2
<1> QED
    BY <1>1, <1>2 DEF QueueOf

----------------------------------------------------------------------------
(* The pool and the levels together.                                        *)

LevelOf(leaf, q) ==
    /\ leaf.head_node = LinkTo(q, 1) /\ leaf.tail_node = LinkTo(q, Len(q))
    /\ leaf.order_count = Len(q)

\* The pool N is shared out: fl is its free list, from head on, queue[s][c] is
\* the queue of leaf c of side s, or empty if c is no leaf, and at[n] and lv[n]
\* tell which of these node n is in. Orders have ids below id, and count is
\* the number of them.
Shared(T, N, head, id, count, queue, fl, at, lv) ==
    /\ N \in [PoolIndices -> PoolNodes]
    /\ at \in [PoolIndices -> Sides \union {"FREE"}] /\ lv \in [PoolIndices -> TreeIndices]
    /\ PoolList(N, head, fl)
    /\ \A n \in PoolIndices : at[n] = "FREE" <=> Holds(fl, n)
    /\ \A s \in Sides, c \in TreeIndices :
            /\ QueueOf(N, id, queue[s][c])
            /\ queue[s][c] # <<>> <=> c \in LeafNodes(T[s])
            /\ c \in LeafNodes(T[s]) => LevelOf(T[s].nodes[c], queue[s][c])
            /\ \A n \in PoolIndices : Holds(queue[s][c], n) <=> at[n] = s /\ lv[n] = c
    /\ count = Cardinality({n \in PoolIndices : at[n] # "FREE"})

\* f with another value for n.
Put(f, n, x) == [f EXCEPT ![n] = x]

\* The pool has as many nodes as its capacity says.
LEMMA PoolIsFinite ==
    IsFiniteSet(PoolIndices) /\ Cardinality(PoolIndices) = SLAB_POOL_CAPACITY
BY FS_Interval, CapacityAssumption DEF PoolIndices

\* The number of orders is within the capacity of the pool.
LEMMA CountFits ==
    ASSUME NEW at
    PROVE  /\ IsFiniteSet({n \in PoolIndices : at[n] # "FREE"})
           /\ Cardinality({n \in PoolIndices : at[n] # "FREE"}) \in 0 .. SLAB_POOL_CAPACITY
<1> DEFINE S == {n \in PoolIndices : at[n] # "FREE"}
<1>1. S \in SUBSET PoolIndices
    OBVIOUS
<1> HIDE DEF S
<1>2. IsFiniteSet(S) /\ Cardinality(S) <= Cardinality(PoolIndices)
    BY <1>1, PoolIsFinite, FS_Subset
<1>3. Cardinality(S) \in Nat
    BY <1>2, FS_CardinalityType
<1>4. IsFiniteSet(S) /\ Cardinality(S) \in 0 .. SLAB_POOL_CAPACITY
    BY <1>2, <1>3, PoolIsFinite, CapacityAssumption
<1> QED
    BY <1>4 DEF S

\* U and M are the trees and the pool after order head of that id and size has
\* joined the level at leaf, old before.
JoinsLevel(T, N, head, id, s, leaf, old, size, U, M) ==
    /\ old \in LeafTreeNodes
    /\ IF leaf \in LeafNodes(T[s]) THEN old = T[s].nodes[leaf] ELSE LevelOf(old, <<>>)
    /\ \A r \in Sides \ {s} : U[r] = T[r]
    /\ LeafNodes(U[s]) = LeafNodes(T[s]) \union {leaf}
    /\ \A c \in LeafNodes(T[s]) \ {leaf} : U[s].nodes[c] = T[s].nodes[c]
    /\ U[s].nodes[leaf] = JoinLevel(old, head)
    /\ M = [m \in PoolIndices |->
                IF m = head THEN [order_id |-> id, size |-> size,
                                  next |-> SLAB_NONE_INDEX, prev |-> old.tail_node]
                ELSE IF m = old.tail_node THEN [N[m] EXCEPT !.next = head]
                ELSE N[m]]

\* insert_order's sharing: the head of the free list joins the queue of a
\* level that was there, or has been created empty.
LEMMA SharedJoin ==
    ASSUME NEW T, NEW N, NEW head, NEW id \in Nat, NEW count, NEW queue, NEW fl, NEW at, NEW lv,
           Shared(T, N, head, id, count, queue, fl, at, lv), head # SLAB_NONE_INDEX,
           NEW s \in Sides, NEW leaf \in TreeIndices, NEW old, NEW size \in Nat \ {0},
           NEW U, NEW M, JoinsLevel(T, N, head, id, s, leaf, old, size, U, M)
    PROVE  /\ head \in PoolIndices /\ at[head] = "FREE"
           /\ \E queue2, fl2 :
                Shared(U, M, N[head].next, id + 1, count + 1, queue2, fl2,
                       Put(at, head, s), Put(lv, head, leaf))
<1> DEFINE q == queue[s][leaf]
           Q2 == [r \in Sides |-> [c \in TreeIndices |->
                    IF r = s /\ c = leaf THEN Append(q, head) ELSE queue[r][c]]]
           at2 == [at EXCEPT ![head] = s]
           lv2 == [lv EXCEPT ![head] = leaf]
<1>0. /\ old \in LeafTreeNodes
      /\ IF leaf \in LeafNodes(T[s]) THEN old = T[s].nodes[leaf] ELSE LevelOf(old, <<>>)
      /\ \A r \in Sides \ {s} : U[r] = T[r]
      /\ LeafNodes(U[s]) = LeafNodes(T[s]) \union {leaf}
      /\ \A c \in LeafNodes(T[s]) \ {leaf} : U[s].nodes[c] = T[s].nodes[c]
      /\ U[s].nodes[leaf] = JoinLevel(old, head)
      /\ M = [m \in PoolIndices |->
                IF m = head THEN [order_id |-> id, size |-> size,
                                  next |-> SLAB_NONE_INDEX, prev |-> old.tail_node]
                ELSE IF m = old.tail_node THEN [N[m] EXCEPT !.next = head]
                ELSE N[m]]
    BY DEF JoinsLevel
<1>1. /\ N \in [PoolIndices -> PoolNodes]
      /\ at \in [PoolIndices -> Sides \union {"FREE"}] /\ lv \in [PoolIndices -> TreeIndices]
      /\ PoolList(N, head, fl)
      /\ \A n \in PoolIndices : at[n] = "FREE" <=> Holds(fl, n)
      /\ count = Cardinality({n \in PoolIndices : at[n] # "FREE"})
    BY DEF Shared
<1>2. \A r \in Sides, c \in TreeIndices :
            /\ QueueOf(N, id, queue[r][c])
            /\ queue[r][c] # <<>> <=> c \in LeafNodes(T[r])
            /\ c \in LeafNodes(T[r]) => LevelOf(T[r].nodes[c], queue[r][c])
            /\ \A n \in PoolIndices : Holds(queue[r][c], n) <=> at[n] = r /\ lv[n] = c
    BY DEF Shared
<1>3. LevelOf(old, q) /\ QueueOf(N, id, q)
    <2>1. CASE leaf \in LeafNodes(T[s])
        BY <1>0, <1>2, <2>1
    <2>2. CASE leaf \notin LeafNodes(T[s])
        <3>1. q = <<>>
            BY <1>2, <2>2
        <3> QED
            BY <1>0, <1>2, <2>2, <3>1
    <2> QED
        BY <2>1, <2>2
<1>4. "FREE" \notin Sides
    BY DEF Sides
<1> HIDE DEF q
<1>5. old.tail_node = LinkTo(q, Len(q)) /\ old.head_node = LinkTo(q, 1) /\ old.order_count = Len(q)
      /\ old.tail_node \in NodeLinks
    BY <1>0, <1>3 DEF LevelOf, LeafTreeNodes
<1>6. /\ head \in PoolIndices /\ Holds(fl, head) /\ at[head] = "FREE"
      /\ ~ Holds(q, head) /\ Len(q) \in Nat
    <2>1. head \in PoolIndices /\ Holds(fl, head)
        <3>1. \A n \in PoolIndices : Holds(fl, n) /\ n # head => N[n].next = N[n].next
            OBVIOUS
        <3> QED
            BY <1>1, <3>1, PoolTake
    <2>2. at[head] = "FREE"
        BY <1>1, <2>1
    <2>3. ~ Holds(q, head)
        BY <1>2, <1>4, <2>1, <2>2 DEF q
    <2>4. Len(q) \in Nat
        BY <1>3 DEF QueueOf
    <2> QED
        BY <2>1, <2>2, <2>3, <2>4
<1>7. M \in [PoolIndices -> PoolNodes]
    <2>1. ASSUME NEW m \in PoolIndices PROVE M[m] \in PoolNodes
        <3>1. N[m] \in PoolNodes /\ head \in NodeLinks /\ SLAB_NONE_INDEX \in NodeLinks
            BY <1>1, <1>6 DEF NodeLinks
        <3> QED
            BY <1>0, <1>5, <3>1 DEF PoolNodes
    <2> QED
        BY <1>0, <2>1
<1>8. Holds(q, old.tail_node) \/ old.tail_node = SLAB_NONE_INDEX
    BY <1>5, <1>6 DEF LinkTo, Holds
<1>9. \A m \in PoolIndices : m # head /\ ~ Holds(q, m) => M[m] = N[m]
    BY <1>0, <1>8, CapacityAssumption
<1>10. /\ PoolList(M, N[head].next, Tail(fl))
       /\ \A n : Holds(Tail(fl), n) <=> Holds(fl, n) /\ n # head
    <2>1. ASSUME NEW n \in PoolIndices, Holds(fl, n), n # head PROVE M[n].next = N[n].next
        <3>1. at[n] # s
            BY <1>1, <1>4, <2>1
        <3>2. ~ Holds(q, n)
            BY <1>2, <3>1 DEF q
        <3> QED
            BY <1>9, <2>1, <3>2
    <2>2. /\ PoolList(N, head, fl) /\ head # SLAB_NONE_INDEX
          /\ \A n \in PoolIndices : Holds(fl, n) /\ n # head => M[n].next = N[n].next
        BY <1>1, <2>1
    <2> QED
        BY ONLY <2>2, PoolTake
<1>11. /\ QueueOf(M, id + 1, Append(q, head)) /\ Append(q, head) # <<>>
       /\ LevelOf(JoinLevel(old, head), Append(q, head))
       /\ \A m : Holds(Append(q, head), m) <=> Holds(q, m) \/ m = head
    <2>1. /\ M[head].order_id = id /\ M[head].size > 0 /\ M[head].next = SLAB_NONE_INDEX
          /\ M[head].prev = LinkTo(q, Len(q))
        BY <1>0, <1>5, <1>6
    <2>2. \A m \in PoolIndices : Holds(q, m) =>
                M[m] = IF m = LinkTo(q, Len(q)) THEN [N[m] EXCEPT !.next = head] ELSE N[m]
        BY <1>0, <1>5, <1>6
    <2>3. /\ N \in [PoolIndices -> PoolNodes] /\ M \in [PoolIndices -> PoolNodes]
          /\ head \in PoolIndices /\ id \in Nat /\ QueueOf(N, id, q) /\ ~ Holds(q, head)
          /\ Joined(N, M, id, q, head)
        BY <1>1, <1>3, <1>6, <1>7, <2>1, <2>2 DEF Joined
    <2>4. /\ QueueOf(M, id + 1, Append(q, head)) /\ Append(q, head) # <<>>
          /\ Len(Append(q, head)) = Len(q) + 1
          /\ LinkTo(Append(q, head), 1) =
                IF LinkTo(q, 1) = SLAB_NONE_INDEX THEN head ELSE LinkTo(q, 1)
          /\ LinkTo(Append(q, head), Len(q) + 1) = head
          /\ \A m : Holds(Append(q, head), m) <=> Holds(q, m) \/ m = head
        BY ONLY <2>3, QueueJoin
    <2>5. /\ JoinLevel(old, head).head_node =
                IF old.head_node = SLAB_NONE_INDEX THEN head ELSE old.head_node
          /\ JoinLevel(old, head).tail_node = head
          /\ JoinLevel(old, head).order_count = old.order_count + 1
        BY DEF JoinLevel, LeafTreeNodes
    <2> QED
        BY <1>5, <2>4, <2>5 DEF LevelOf
<1>12. ASSUME NEW r \in Sides, NEW c \in TreeIndices
       PROVE  /\ QueueOf(M, id + 1, Q2[r][c])
              /\ Q2[r][c] # <<>> <=> c \in LeafNodes(U[r])
              /\ c \in LeafNodes(U[r]) => LevelOf(U[r].nodes[c], Q2[r][c])
              /\ \A n \in PoolIndices : Holds(Q2[r][c], n) <=> at2[n] = r /\ lv2[n] = c
    <2>1. CASE r = s /\ c = leaf
        <3>1. Q2[r][c] = Append(q, head)
            BY <2>1
        <3>2. \A n \in PoolIndices : Holds(q, n) <=> at[n] = r /\ lv[n] = c
            BY <1>2, <2>1 DEF q
        <3>3. \A n \in PoolIndices : IF n = head THEN at2[n] = s /\ lv2[n] = leaf
                                     ELSE at2[n] = at[n] /\ lv2[n] = lv[n]
            BY <1>1
        <3>4. c \in LeafNodes(U[r]) /\ U[r].nodes[c] = JoinLevel(old, head)
            BY <1>0, <2>1
        <3> HIDE DEF Q2, at2, lv2
        <3> QED
            BY <1>11, <2>1, <3>1, <3>2, <3>3, <3>4
    <2>2. CASE ~ (r = s /\ c = leaf)
        <3>1. Q2[r][c] = queue[r][c]
            BY <2>2
        <3>2. \A n \in PoolIndices : Holds(queue[r][c], n) => n # head /\ ~ Holds(q, n)
            BY <1>2, <1>4, <1>6, <2>2 DEF q
        <3>3. QueueOf(M, id + 1, queue[r][c])
            <4> DEFINE o == queue[r][c]
            <4>1. \A m \in PoolIndices : Holds(o, m) =>
                    /\ M[m].next = N[m].next /\ M[m].prev = N[m].prev
                    /\ M[m].order_id = N[m].order_id /\ M[m].size > 0
                <5>1. ASSUME NEW m \in PoolIndices, Holds(o, m) PROVE N[m].size > 0 /\ M[m] = N[m]
                    <6>1. M[m] = N[m]
                        BY <1>9, <3>2, <5>1
                    <6>2. PICK k \in 1 .. Len(o) : o[k] = m
                        BY <5>1 DEF Holds
                    <6>3. QueueOf(N, id, o)
                        BY <1>2
                    <6> HIDE DEF o
                    <6>4. N[o[k]].size > 0
                        BY <6>2, <6>3 DEF QueueOf
                    <6> QED
                        BY <6>1, <6>2, <6>4
                <5> QED
                    BY <5>1
            <4>2. QueueOf(N, id, o) /\ id \in Nat /\ id + 1 \in Nat /\ id <= id + 1
                BY <1>2
            <4> HIDE DEF o
            <4>3. QueueOf(M, id + 1, o)
                BY <1>1, <4>1, <4>2, QueueStays
            <4> QED
                BY <4>3 DEF o
        <3>4. /\ c \in LeafNodes(U[r]) <=> c \in LeafNodes(T[r])
              /\ c \in LeafNodes(T[r]) => U[r].nodes[c] = T[r].nodes[c]
            BY <1>0, <2>2
        <3>5. \A n \in PoolIndices : Holds(queue[r][c], n) <=> at2[n] = r /\ lv2[n] = c
            <4>1. \A n \in PoolIndices : IF n = head THEN at2[n] = s /\ lv2[n] = leaf
                                         ELSE at2[n] = at[n] /\ lv2[n] = lv[n]
                BY <1>1
            <4> QED
                BY <1>2, <2>2, <3>2, <4>1
        <3> HIDE DEF Q2, at2, lv2
        <3>6. /\ queue[r][c] # <<>> <=> c \in LeafNodes(T[r])
              /\ c \in LeafNodes(T[r]) => LevelOf(T[r].nodes[c], queue[r][c])
            BY <1>2
        <3> QED
            BY ONLY <3>1, <3>3, <3>4, <3>5, <3>6
    <2> QED
        BY <2>1, <2>2
<1>13. /\ at2 \in [PoolIndices -> Sides \union {"FREE"}] /\ lv2 \in [PoolIndices -> TreeIndices]
       /\ \A n \in PoolIndices : at2[n] = "FREE" <=> Holds(Tail(fl), n)
    BY <1>1, <1>4, <1>6, <1>10
<1>14. count + 1 = Cardinality({n \in PoolIndices : at2[n] # "FREE"})
    <2> DEFINE S == {n \in PoolIndices : at[n] # "FREE"}
               S2 == {n \in PoolIndices : at2[n] # "FREE"}
    <2>1. S2 = S \union {head} /\ head \notin S
        BY <1>1, <1>4, <1>6
    <2>2. IsFiniteSet(S) /\ count = Cardinality(S)
        BY <1>1, CountFits
    <2> HIDE DEF S, S2
    <2>3. Cardinality(S2) = count + 1
        BY <2>1, <2>2, FS_AddElement
    <2> QED
        BY <2>3 DEF S2
<1>16. at2 = Put(at, head, s) /\ lv2 = Put(lv, head, leaf)
    BY DEF Put
<1> HIDE DEF Q2, at2, lv2
<1>15. Shared(U, M, N[head].next, id + 1, count + 1, Q2, Tail(fl), at2, lv2)
    BY <1>7, <1>10, <1>12, <1>13, <1>14 DEF Shared
<1> QED
    BY <1>6, <1>15, <1>16

\* U and M are the trees and the pool after the head h of the queue of leaf,
\* with nh behind it, has gone to the free list: a level whose queue that
\* empties has left its tree.
LeavesLevel(T, N, head, s, leaf, h, nh, U, M) ==
    /\ T[s].nodes[leaf] \in LeafTreeNodes
    /\ h = T[s].nodes[leaf].head_node /\ nh = N[h].next
    /\ \A r \in Sides \ {s} : U[r] = T[r]
    /\ \A c \in LeafNodes(T[s]) \ {leaf} : U[s].nodes[c] = T[s].nodes[c]
    /\ IF nh = SLAB_NONE_INDEX THEN LeafNodes(U[s]) = LeafNodes(T[s]) \ {leaf}
       ELSE /\ LeafNodes(U[s]) = LeafNodes(T[s])
            /\ U[s].nodes[leaf] = LeaveLevel(T[s].nodes[leaf], nh)
    /\ M = [m \in PoolIndices |->
                IF m = h THEN FreeNode(head)
                ELSE IF m = nh THEN [N[m] EXCEPT !.prev = SLAB_NONE_INDEX]
                ELSE N[m]]

\* pop_head's sharing.
LEMMA SharedLeave ==
    ASSUME NEW T, NEW N, NEW head, NEW id, NEW count, NEW queue, NEW fl, NEW at, NEW lv,
           Shared(T, N, head, id, count, queue, fl, at, lv),
           NEW s \in Sides, NEW leaf \in LeafNodes(T[s]), NEW h, NEW nh, NEW U, NEW M,
           LeavesLevel(T, N, head, s, leaf, h, nh, U, M)
    PROVE  /\ h \in PoolIndices /\ at[h] = s /\ lv[h] = leaf
           /\ \E queue2, fl2 :
                Shared(U, M, h, id, count - 1, queue2, fl2, Put(at, h, "FREE"), lv)
<1> DEFINE q == queue[s][leaf]
           old == T[s].nodes[leaf]
           Q2 == [r \in Sides |-> [c \in TreeIndices |->
                    IF r = s /\ c = leaf THEN Tail(q) ELSE queue[r][c]]]
           at2 == [at EXCEPT ![h] = "FREE"]
<1>0. /\ T[s].nodes[leaf] \in LeafTreeNodes
      /\ h = T[s].nodes[leaf].head_node /\ nh = N[h].next
      /\ \A r \in Sides \ {s} : U[r] = T[r]
      /\ \A c \in LeafNodes(T[s]) \ {leaf} : U[s].nodes[c] = T[s].nodes[c]
      /\ IF nh = SLAB_NONE_INDEX THEN LeafNodes(U[s]) = LeafNodes(T[s]) \ {leaf}
         ELSE /\ LeafNodes(U[s]) = LeafNodes(T[s])
              /\ U[s].nodes[leaf] = LeaveLevel(T[s].nodes[leaf], nh)
      /\ M = [m \in PoolIndices |->
                IF m = h THEN FreeNode(head)
                ELSE IF m = nh THEN [N[m] EXCEPT !.prev = SLAB_NONE_INDEX]
                ELSE N[m]]
    BY DEF LeavesLevel
<1>1. /\ N \in [PoolIndices -> PoolNodes]
      /\ at \in [PoolIndices -> Sides \union {"FREE"}] /\ lv \in [PoolIndices -> TreeIndices]
      /\ PoolList(N, head, fl)
      /\ \A n \in PoolIndices : at[n] = "FREE" <=> Holds(fl, n)
      /\ count = Cardinality({n \in PoolIndices : at[n] # "FREE"})
    BY DEF Shared
<1>2. \A r \in Sides, c \in TreeIndices :
            /\ QueueOf(N, id, queue[r][c])
            /\ queue[r][c] # <<>> <=> c \in LeafNodes(T[r])
            /\ c \in LeafNodes(T[r]) => LevelOf(T[r].nodes[c], queue[r][c])
            /\ \A n \in PoolIndices : Holds(queue[r][c], n) <=> at[n] = r /\ lv[n] = c
    BY DEF Shared
<1>3. "FREE" \notin Sides /\ leaf \in TreeIndices /\ old \in LeafTreeNodes
    BY <1>0 DEF Sides, LeafNodes
<1>4. LevelOf(old, q) /\ QueueOf(N, id, q) /\ q # <<>>
    BY <1>2, <1>3
<1>5. \A n \in PoolIndices : Holds(q, n) <=> at[n] = s /\ lv[n] = leaf
    BY <1>2, <1>3
<1> HIDE DEF q, old
<1>6. /\ q \in Seq(PoolIndices) /\ Len(q) \in Nat /\ Len(q) > 0
      /\ old.head_node = LinkTo(q, 1) /\ old.tail_node = LinkTo(q, Len(q))
      /\ old.order_count = Len(q)
    <2>1. q \in Seq(PoolIndices)
        BY <1>4 DEF QueueOf
    <2> QED
        BY <1>4, <2>1, TailLinks DEF LevelOf
<1>7. /\ h = q[1] /\ h \in PoolIndices /\ Holds(q, h) /\ nh = LinkTo(q, 2)
      /\ at[h] = s /\ lv[h] = leaf /\ ~ Holds(fl, h)
    <2>1. 1 \in 1 .. Len(q)
        BY <1>6
    <2>2. h = q[1] /\ h \in PoolIndices /\ Holds(q, h)
        BY <1>0, <1>6, <2>1 DEF LinkTo, Holds, old
    <2>3. nh = LinkTo(q, 2)
        BY <1>0, <1>4, <2>1, <2>2 DEF QueueOf
    <2> QED
        BY <1>1, <1>3, <1>5, <2>2, <2>3
<1>8. nh = SLAB_NONE_INDEX \/ (nh \in PoolIndices /\ Holds(q, nh))
    <2>1. CASE 2 \in 1 .. Len(q)
        BY <1>6, <1>7, <2>1 DEF LinkTo, Holds
    <2>2. CASE 2 \notin 1 .. Len(q)
        BY <1>7, <2>2 DEF LinkTo
    <2> QED
        BY <2>1, <2>2
<1>9. head \in NodeLinks
    BY <1>1 DEF PoolList, LinkTo, NodeLinks
<1>10. M \in [PoolIndices -> PoolNodes]
    <2>1. ASSUME NEW m \in PoolIndices PROVE M[m] \in PoolNodes
        <3>1. N[m] \in PoolNodes /\ SLAB_NONE_INDEX \in NodeLinks
            BY <1>1 DEF NodeLinks
        <3> QED
            BY <1>0, <1>9, <3>1 DEF PoolNodes, FreeNode
    <2> QED
        BY <1>0, <2>1
<1>11. /\ \A m \in PoolIndices : ~ Holds(q, m) => M[m] = N[m]
       /\ M[h].next = head
       /\ Left(N, M, q)
    <2>1. ASSUME NEW m \in PoolIndices, ~ Holds(q, m) PROVE M[m] = N[m]
        <3>1. m # h /\ m # nh
            BY <1>7, <1>8, <2>1, CapacityAssumption
        <3> QED
            BY <1>0, <3>1
    <2>2. M[h].next = head
        BY <1>0, <1>7 DEF FreeNode
    <2>3. Left(N, M, q)
        BY <1>0, <1>7 DEF Left
    <2> QED
        BY <2>1, <2>2, <2>3
<1>12. /\ QueueOf(M, id, Tail(q)) /\ Len(Tail(q)) = Len(q) - 1
       /\ LinkTo(Tail(q), 1) = nh
       /\ nh = SLAB_NONE_INDEX <=> Tail(q) = <<>>
       /\ Tail(q) # <<>> => LinkTo(Tail(q), Len(q) - 1) = LinkTo(q, Len(q))
       /\ \A m : Holds(Tail(q), m) <=> Holds(q, m) /\ m # h
    <2>1. /\ N \in [PoolIndices -> PoolNodes] /\ QueueOf(N, id, q) /\ q # <<>>
          /\ M \in [PoolIndices -> PoolNodes] /\ Left(N, M, q)
        BY <1>1, <1>4, <1>10, <1>11
    <2>2. /\ QueueOf(M, id, Tail(q)) /\ Len(Tail(q)) = Len(q) - 1
          /\ LinkTo(Tail(q), 1) = LinkTo(q, 2)
          /\ LinkTo(q, 2) = SLAB_NONE_INDEX <=> Tail(q) = <<>>
          /\ Tail(q) # <<>> => LinkTo(Tail(q), Len(q) - 1) = LinkTo(q, Len(q))
          /\ \A m : Holds(Tail(q), m) <=> Holds(q, m) /\ m # q[1]
        BY ONLY <2>1, QueueLeave
    <2> QED
        BY <1>7, <2>2
<1>13. /\ PoolList(M, h, <<h>> \o fl)
       /\ \A n : Holds(<<h>> \o fl, n) <=> Holds(fl, n) \/ n = h
    <2>1. ASSUME NEW n \in PoolIndices, Holds(fl, n) PROVE M[n].next = N[n].next
        <3>1. at[n] # s
            BY <1>1, <1>3, <2>1
        <3>2. ~ Holds(q, n)
            BY <1>5, <3>1
        <3> QED
            BY <1>11, <3>2
    <2>2. /\ PoolList(N, head, fl) /\ h \in PoolIndices /\ ~ Holds(fl, h) /\ M[h].next = head
          /\ \A n \in PoolIndices : Holds(fl, n) => M[n].next = N[n].next
        BY <1>1, <1>7, <1>11, <2>1
    <2> QED
        BY ONLY <2>2, PoolPut
<1>14. nh # SLAB_NONE_INDEX => LevelOf(LeaveLevel(old, nh), Tail(q))
    <2>1. SUFFICES ASSUME nh # SLAB_NONE_INDEX PROVE LevelOf(LeaveLevel(old, nh), Tail(q))
        OBVIOUS
    <2>2. /\ LeaveLevel(old, nh).head_node = nh
          /\ LeaveLevel(old, nh).tail_node = old.tail_node
          /\ LeaveLevel(old, nh).order_count = old.order_count - 1
        BY <1>3, <2>1 DEF LeaveLevel, LeafTreeNodes
    <2> QED
        BY <1>6, <1>12, <2>1, <2>2 DEF LevelOf
<1>15. \A n \in PoolIndices : at2[n] = IF n = h THEN "FREE" ELSE at[n]
    BY <1>1
<1>16. ASSUME NEW r \in Sides, NEW c \in TreeIndices
       PROVE  /\ QueueOf(M, id, Q2[r][c])
              /\ Q2[r][c] # <<>> <=> c \in LeafNodes(U[r])
              /\ c \in LeafNodes(U[r]) => LevelOf(U[r].nodes[c], Q2[r][c])
              /\ \A n \in PoolIndices : Holds(Q2[r][c], n) <=> at2[n] = r /\ lv[n] = c
    <2>1. CASE r = s /\ c = leaf
        <3>1. Q2[r][c] = Tail(q)
            BY <2>1
        <3>2. \A n \in PoolIndices : Holds(Tail(q), n) <=> at2[n] = r /\ lv[n] = c
            BY <1>3, <1>5, <1>12, <1>15, <2>1
        <3>3. c \in LeafNodes(U[r]) <=> nh # SLAB_NONE_INDEX
            BY <1>0, <2>1
        <3>4. c \in LeafNodes(U[r]) => U[r].nodes[c] = LeaveLevel(old, nh)
            BY <1>0, <2>1, <3>3 DEF old
        <3> HIDE DEF Q2, at2
        <3> QED
            BY ONLY <1>12, <1>14, <3>1, <3>2, <3>3, <3>4
    <2>2. CASE ~ (r = s /\ c = leaf)
        <3> DEFINE o == queue[r][c]
        <3>1. Q2[r][c] = o
            BY <2>2
        <3>2. QueueOf(N, id, o) /\ \A n \in PoolIndices : Holds(o, n) <=> at[n] = r /\ lv[n] = c
            BY <1>2
        <3>3. /\ o # <<>> <=> c \in LeafNodes(T[r])
              /\ c \in LeafNodes(T[r]) => LevelOf(T[r].nodes[c], o)
            BY <1>2
        <3> HIDE DEF o, Q2, at2
        <3>4. \A n \in PoolIndices : Holds(o, n) => n # h /\ ~ Holds(q, n)
            BY <1>5, <1>7, <2>2, <3>2
        <3>5. QueueOf(M, id, o)
            <4>1. \A k \in 1 .. Len(o) : o[k] \in PoolIndices /\ M[o[k]] = N[o[k]]
                <5>1. ASSUME NEW k \in 1 .. Len(o)
                      PROVE  o[k] \in PoolIndices /\ M[o[k]] = N[o[k]]
                    <6>1. o[k] \in PoolIndices /\ Holds(o, o[k])
                        BY <3>2 DEF QueueOf, Holds
                    <6> QED
                        BY <1>11, <3>4, <6>1
                <5> QED
                    BY <5>1
            <4> QED
                BY ONLY <3>2, <4>1 DEF QueueOf
        <3>6. /\ c \in LeafNodes(U[r]) <=> c \in LeafNodes(T[r])
              /\ c \in LeafNodes(T[r]) => U[r].nodes[c] = T[r].nodes[c]
            BY <1>0, <2>2
        <3>7. \A n \in PoolIndices : Holds(o, n) <=> at2[n] = r /\ lv[n] = c
            BY <1>3, <1>7, <1>15, <2>2, <3>2
        <3> QED
            BY ONLY <3>1, <3>3, <3>5, <3>6, <3>7
    <2> QED
        BY <2>1, <2>2
<1>17. /\ at2 \in [PoolIndices -> Sides \union {"FREE"}]
       /\ \A n \in PoolIndices : at2[n] = "FREE" <=> Holds(<<h>> \o fl, n)
    BY <1>1, <1>13, <1>15
<1>18. count - 1 = Cardinality({n \in PoolIndices : at2[n] # "FREE"})
    <2> DEFINE S == {n \in PoolIndices : at[n] # "FREE"}
               S2 == {n \in PoolIndices : at2[n] # "FREE"}
    <2>1. S2 = S \ {h} /\ h \in S
        BY <1>3, <1>7, <1>15
    <2>2. IsFiniteSet(S) /\ count = Cardinality(S)
        BY <1>1, CountFits
    <2> HIDE DEF S, S2
    <2>3. Cardinality(S2) = count - 1
        BY <2>1, <2>2, FS_RemoveElement
    <2> QED
        BY <2>3 DEF S2
<1>20. at2 = Put(at, h, "FREE")
    BY DEF Put
<1> HIDE DEF Q2, at2
<1>19. Shared(U, M, h, id, count - 1, Q2, <<h>> \o fl, at2, lv)
    BY <1>1, <1>10, <1>13, <1>16, <1>17, <1>18 DEF Shared
<1> QED
    BY <1>7, <1>19, <1>20

\* A fill that leaves the maker something changes nothing but its size.
LEMMA SharedStays ==
    ASSUME NEW T, NEW N, NEW head, NEW id \in Nat, NEW count, NEW queue, NEW fl, NEW at, NEW lv,
           Shared(T, N, head, id, count, queue, fl, at, lv),
           NEW h \in PoolIndices, NEW size \in Nat \ {0}
    PROVE  Shared(T, [N EXCEPT ![h].size = size], head, id, count, queue, fl, at, lv)
<1> DEFINE M == [N EXCEPT ![h].size = size]
<1>1. N \in [PoolIndices -> PoolNodes]
    BY DEF Shared
<1>2. \A m \in PoolIndices :
            /\ M[m] \in PoolNodes
            /\ M[m].next = N[m].next /\ M[m].prev = N[m].prev /\ M[m].order_id = N[m].order_id
            /\ N[m].size > 0 => M[m].size > 0
    BY <1>1 DEF PoolNodes
<1>3. M \in [PoolIndices -> PoolNodes]
    BY <1>1, <1>2
<1> HIDE DEF M
<1>4. PoolList(M, head, fl)
    <2>1. PoolList(N, head, fl)
        BY DEF Shared
    <2>2. \A k \in 1 .. Len(fl) : fl[k] \in PoolIndices
        BY <2>1 DEF PoolList
    <2> QED
        BY <1>2, <2>1, <2>2 DEF PoolList
<1>5. ASSUME NEW s \in Sides, NEW c \in TreeIndices PROVE QueueOf(M, id, queue[s][c])
    <2> DEFINE o == queue[s][c]
    <2>1. QueueOf(N, id, o)
        BY DEF Shared
    <2> HIDE DEF o
    <2>2. ASSUME NEW m \in PoolIndices, Holds(o, m) PROVE M[m].size > 0
        <3>1. PICK k \in 1 .. Len(o) : o[k] = m
            BY <2>2 DEF Holds
        <3>2. N[o[k]].size > 0
            BY <2>1 DEF QueueOf
        <3> QED
            BY <1>2, <3>1, <3>2
    <2>3. \A m \in PoolIndices : Holds(o, m) =>
                /\ M[m].next = N[m].next /\ M[m].prev = N[m].prev
                /\ M[m].order_id = N[m].order_id /\ M[m].size > 0
        BY <1>2, <2>2
    <2>4. QueueOf(M, id, o)
        BY <1>1, <2>1, <2>3, QueueStays
    <2> QED
        BY <2>4 DEF o
<1> QED
    BY <1>3, <1>4, <1>5 DEF Shared, M

\* A level that an order joins or leaves is a level of the same price.
LEMMA LevelTypes ==
    ASSUME NEW leaf \in LeafTreeNodes, NEW n \in NodeLinks
    PROVE  /\ JoinLevel(leaf, n) \in LeafTreeNodes /\ JoinLevel(leaf, n).price = leaf.price
           /\ leaf.order_count > 0 => LeaveLevel(leaf, n) \in LeafTreeNodes
           /\ LeaveLevel(leaf, n).price = leaf.price
<1> USE DEF LeafTreeNodes
<1>1. SLAB_NONE_INDEX \in NodeLinks
    BY DEF NodeLinks
<1>2. JoinLevel(leaf, n) \in LeafTreeNodes /\ JoinLevel(leaf, n).price = leaf.price
    <2> DEFINE head == IF leaf.head_node = SLAB_NONE_INDEX THEN n ELSE leaf.head_node
    <2>1. head \in NodeLinks /\ leaf.order_count + 1 \in Nat
        OBVIOUS
    <2>2. JoinLevel(leaf, n) = [leaf EXCEPT !.head_node = head, !.tail_node = n,
                                            !.order_count = leaf.order_count + 1]
        BY DEF JoinLevel
    <2> HIDE DEF head
    <2> QED
        BY <2>1, <2>2
<1>3. leaf.order_count > 0 => leaf.order_count - 1 \in Nat
    OBVIOUS
<1>4. leaf.order_count > 0 => LeaveLevel(leaf, n) \in LeafTreeNodes
    BY <1>1, <1>3 DEF LeaveLevel
<1>5. LeaveLevel(leaf, n).price = leaf.price
    BY DEF LeaveLevel
<1> QED
    BY <1>2, <1>4, <1>5

PutLeaf(t, leaf, x) == [t EXCEPT !.nodes[leaf] = x]

\* A leaf whose queue changes stays the leaf that it was.
LEMMA LeafChange ==
    ASSUME NEW t, Sound(t), NEW leaf \in LeafNodes(t), NEW x \in LeafTreeNodes,
           x.price = t.nodes[leaf].price
    PROVE  /\ Sound(PutLeaf(t, leaf, x)) /\ LeafNodes(PutLeaf(t, leaf, x)) = LeafNodes(t)
           /\ \A c \in TreeIndices :
                PutLeaf(t, leaf, x).nodes[c] = IF c = leaf THEN x ELSE t.nodes[c]
<1> DEFINE u == PutLeaf(t, leaf, x)
<1>1. PICK sub : IsTree(t, sub)
    BY DEF Sound
<1>2. PICK fl : FreeList(t, fl)
    BY DEF Sound
<1>3. /\ t \in [root : TreeLinks, free_head : TreeLinks, nodes : [TreeIndices -> TreeNodes]]
      /\ leaf \in TreeIndices /\ t.nodes[leaf].tag = "LEAF" /\ x.tag = "LEAF" /\ x \in TreeNodes
    BY <1>1 DEF IsTree, Trees, LeafNodes, TreeNodes, LeafTreeNodes
<1>4. /\ u \in Trees /\ u.root = t.root /\ u.free_head = t.free_head
      /\ \A c \in TreeIndices : u.nodes[c] = IF c = leaf THEN x ELSE t.nodes[c]
    BY <1>3 DEF Trees, PutLeaf
<1> HIDE DEF u
<1>5. \A c \in TreeIndices \ LeafNodes(t) : u.nodes[c] = t.nodes[c]
    BY <1>4
<1>6. \A c \in LeafNodes(t) : u.nodes[c].tag = "LEAF" /\ u.nodes[c].price = t.nodes[c].price
    BY <1>3, <1>4 DEF LeafNodes
<1>7. IsTree(u, sub) /\ LeafNodes(u) = LeafNodes(t)
    BY <1>1, <1>4, <1>5, <1>6, SameShape
<1>8. FreeList(u, fl)
    <2>1. \A c \in TreeIndices :
                IF t.nodes[c].tag = "FREE" THEN u.nodes[c] = t.nodes[c]
                ELSE u.nodes[c].tag # "FREE"
        BY <1>3, <1>4
    <2> QED
        BY <1>2, <1>4, <2>1, SameFreeList
<1> QED
    BY <1>4, <1>7, <1>8 DEF Sound, u

\* best() ends at a leaf.
LEMMA BestLeafIsLeaf ==
    ASSUME NEW t, Sound(t), t.root # SLAB_NONE_INDEX, NEW want_max
    PROVE  BestLeaf(t, want_max) \in LeafNodes(t)
<1>1. PICK sub : IsTree(t, sub)
    BY DEF Sound
<1> DEFINE next == [c \in InnerNodes(t, 0) |->
                IF want_max THEN t.nodes[c].right_child ELSE t.nodes[c].left_child]
           q == Descend(t, next)
<1>2. InnerNodes(t, 0) = Inners(t)
    <2>1. ASSUME NEW c \in Inners(t) PROVE t.nodes[c].split_bit >= 0
        BY <1>1, KindOfNode DEF IsTree, Inners, InnerTreeNodes
    <2> QED
        BY <2>1 DEF InnerNodes, Inners
<1>3. DOMAIN next = Inners(t) /\ \A c \in DOMAIN next : next[c] \in Children(t, c)
    BY <1>2 DEF Children, Inners
<1>4. BestLeaf(t, want_max) = Last(q)
    BY DEF BestLeaf
<1> HIDE DEF next
<1>5. IsPath(q, t.root, next)
    BY <1>1, <1>3, TreeDescent
<1> HIDE DEF q
<1>6. Last(q) = q[Len(q)] /\ Last(q) \notin DOMAIN next /\ Len(q) \in Nat \ {0}
    BY <1>5, PathEnd
<1>7. q[Len(q)] \in Live(t)
    BY <1>1, <1>3, <1>5, <1>6, PathInTree
<1>8. Live(t) = Inners(t) \union LeafNodes(t)
    BY <1>1, LiveNodes DEF IsTree
<1> QED
    BY <1>3, <1>4, <1>6, <1>7, <1>8

----------------------------------------------------------------------------
(* The invariant.                                                           *)

\* Both trees are sound, and the pool is shared out among the queues of their
\* leaves and its free list.
SlabInv ==
    /\ trees \in [Sides -> Trees]
    /\ \A s \in Sides : Sound(trees[s])
    /\ \E queue, fl, at, lv :
            Shared(trees, nodes, pool_free_head, next_order_id, active_count, queue, fl, at, lv)
    /\ next_order_id \in 0 .. U64_MAX
    /\ taker \in Takers \union {NoTaker}

\* The free lists that CreateSlab builds: 0, 1, 2, ...
CountsUp(fl, n) ==
    /\ fl \in Seq(0 .. n - 1) /\ Len(fl) = n /\ LinkTo(fl, 1) = 0
    /\ \A i, j \in 1 .. n : fl[i] = fl[j] => i = j
    /\ \A c \in 0 .. n - 1 : c + 1 \in 1 .. n /\ fl[c + 1] = c
    /\ \A k \in 1 .. n : /\ fl[k] \in 0 .. n - 1
                         /\ LinkTo(fl, k + 1) =
                                IF fl[k] + 1 < n THEN fl[k] + 1 ELSE SLAB_NONE_INDEX

\* There is such a list of every length.
LEMMA Counted ==
    ASSUME NEW n \in Nat \ {0} PROVE \E fl : CountsUp(fl, n)
<1> DEFINE fl == [k \in 1 .. n |-> k - 1]
<1>1. /\ fl \in [1 .. n -> 0 .. n - 1] /\ fl \in Seq(0 .. n - 1) /\ Len(fl) = n
      /\ \A k \in 1 .. n : fl[k] = k - 1
    OBVIOUS
<1> HIDE DEF fl
<1>2. ASSUME NEW k \in 1 .. n
      PROVE  LinkTo(fl, k + 1) = IF fl[k] + 1 < n THEN fl[k] + 1 ELSE SLAB_NONE_INDEX
    BY <1>1 DEF LinkTo
<1>3. LinkTo(fl, 1) = 0
    BY <1>1 DEF LinkTo
<1>4. \A c \in 0 .. n - 1 : c + 1 \in 1 .. n /\ fl[c + 1] = c
    BY <1>1
<1>5. \A i, j \in 1 .. n : fl[i] = fl[j] => i = j
    BY <1>1
<1>6. CountsUp(fl, n)
    BY <1>1, <1>2, <1>3, <1>4, <1>5 DEF CountsUp
<1> QED
    BY <1>6

\* A new slab is sound.
LEMMA InitSound ==
    ASSUME Init PROVE SlabInv
<1> DEFINE n == SLAB_TREE_CAPACITY
           Next1(c) == IF c + 1 < n THEN c + 1 ELSE SLAB_NONE_INDEX
<1>1. n \in Nat \ {0} /\ TreeIndices = 0 .. n - 1
    BY CapacityAssumption DEF TreeIndices
<1>2. ASSUME NEW s \in Sides
      PROVE  /\ trees[s] \in Trees /\ Sound(trees[s]) /\ LeafNodes(trees[s]) = {}
    <2> DEFINE t == trees[s]
    <2>1. t = [root |-> SLAB_NONE_INDEX, free_head |-> 0,
               nodes |-> [c \in TreeIndices |-> Free(Next1(c))]]
        BY DEF Init
    <2>2. \A c \in TreeIndices : Next1(c) \in TreeLinks /\ Free(Next1(c)) \in TreeNodes
        <3>1. \A c \in TreeIndices : Next1(c) \in TreeLinks
            BY <1>1 DEF TreeLinks
        <3> QED
            BY <3>1 DEF Free, TreeNodes, FreeTreeNodes
    <2>3. SLAB_NONE_INDEX \in TreeLinks /\ 0 \in TreeLinks
        BY <1>1 DEF TreeLinks
    <2> HIDE DEF t
    <2>4. /\ t \in Trees /\ t.root = SLAB_NONE_INDEX /\ t.free_head = 0
          /\ \A c \in TreeIndices : t.nodes[c].tag = "FREE" /\ t.nodes[c].next_free = Next1(c)
        <3> HIDE DEF n, Next1
        <3>1. t \in Trees
            BY <2>1, <2>2, <2>3 DEF Trees
        <3> QED
            BY <2>1, <3>1 DEF Free
    <2>5. IsTree(t, [c \in {} |-> {}]) /\ LeafNodes(t) = {}
        BY <2>4, NothingIsTree
    <2> HIDE DEF n, Next1
    <2>6. PICK fl : CountsUp(fl, n)
        BY <1>1, Counted
    <2>7. /\ fl \in Seq(TreeIndices) /\ Len(fl) = n /\ LinkTo(fl, 1) = 0
          /\ \A i, j \in 1 .. n : fl[i] = fl[j] => i = j
          /\ \A c \in TreeIndices : c + 1 \in 1 .. n /\ fl[c + 1] = c
          /\ \A k \in 1 .. n : fl[k] \in TreeIndices /\ LinkTo(fl, k + 1) = Next1(fl[k])
        BY ONLY <1>1, <2>6 DEF Next1, CountsUp
    <2>8. \A c \in TreeIndices : \E k \in 1 .. Len(fl) : fl[k] = c
        BY <2>7
    <2>9. FreeList(t, fl)
        BY <2>4, <2>7, <2>8 DEF FreeList
    <2> QED
        BY <2>4, <2>5, <2>9 DEF Sound, t
<1>3. trees \in [Sides -> Trees]
    BY <1>2 DEF Init
<1>4. \E queue, fl, at, lv :
            Shared(trees, nodes, pool_free_head, next_order_id, active_count, queue, fl, at, lv)
    <2> DEFINE m == SLAB_POOL_CAPACITY
               Next2(c) == IF c + 1 < m THEN c + 1 ELSE SLAB_NONE_INDEX
               queue == [s \in Sides |-> [c \in TreeIndices |-> <<>>]]
               at == [c \in PoolIndices |-> "FREE"]
               lv == [c \in PoolIndices |-> 0]
    <2>1. m \in Nat \ {0} /\ PoolIndices = 0 .. m - 1
        BY CapacityAssumption DEF PoolIndices
    <2>2. \A c \in PoolIndices : Next2(c) \in NodeLinks /\ FreeNode(Next2(c)) \in PoolNodes
        <3>1. \A c \in PoolIndices : Next2(c) \in NodeLinks
            BY <2>1 DEF NodeLinks
        <3> QED
            BY <3>1 DEF FreeNode, PoolNodes, NodeLinks
    <2>3. /\ nodes \in [PoolIndices -> PoolNodes]
          /\ \A c \in PoolIndices : nodes[c].next = Next2(c)
        <3>1. nodes = [c \in PoolIndices |-> FreeNode(Next2(c))]
            BY DEF Init
        <3> HIDE DEF Next2
        <3> QED
            BY <2>2, <3>1 DEF FreeNode
    <2> HIDE DEF m, Next2
    <2>4. PICK fl : CountsUp(fl, m)
        BY <2>1, Counted
    <2>5. /\ fl \in Seq(PoolIndices) /\ Len(fl) = m /\ LinkTo(fl, 1) = 0
          /\ \A i, j \in 1 .. m : fl[i] = fl[j] => i = j
          /\ \A c \in PoolIndices : c + 1 \in 1 .. m /\ fl[c + 1] = c
          /\ \A k \in 1 .. m : fl[k] \in PoolIndices /\ LinkTo(fl, k + 1) = Next2(fl[k])
        BY ONLY <2>1, <2>4 DEF Next2, CountsUp
    <2>6. PoolList(nodes, pool_free_head, fl) /\ \A c \in PoolIndices : Holds(fl, c)
        <3>1. pool_free_head = 0
            BY DEF Init
        <3> QED
            BY <2>3, <2>5, <3>1 DEF PoolList, Holds
    <2>7. "FREE" \notin Sides
        BY DEF Sides
    <2>8. /\ at \in [PoolIndices -> Sides \union {"FREE"}] /\ lv \in [PoolIndices -> TreeIndices]
          /\ \A c \in PoolIndices : at[c] = "FREE"
        BY <1>1
    <2>9. ASSUME NEW s \in Sides, NEW c \in TreeIndices
          PROVE  /\ QueueOf(nodes, next_order_id, queue[s][c])
                 /\ queue[s][c] # <<>> <=> c \in LeafNodes(trees[s])
                 /\ c \in LeafNodes(trees[s]) => LevelOf(trees[s].nodes[c], queue[s][c])
                 /\ \A k \in PoolIndices : Holds(queue[s][c], k) <=> at[k] = s /\ lv[k] = c
        <3>1. queue[s][c] = <<>> /\ LeafNodes(trees[s]) = {}
            BY <1>2
        <3>2. QueueOf(nodes, next_order_id, <<>>)
            BY DEF QueueOf
        <3>3. \A k \in PoolIndices : ~ Holds(<<>>, k) /\ at[k] # s
            BY <2>7, <2>8 DEF Holds
        <3> QED
            BY ONLY <3>1, <3>2, <3>3
    <2>10. active_count = Cardinality({c \in PoolIndices : at[c] # "FREE"})
        <3>1. {c \in PoolIndices : at[c] # "FREE"} = {}
            BY <2>8
        <3> QED
            BY <3>1, FS_EmptySet DEF Init
    <2> HIDE DEF queue, at, lv
    <2>11. Shared(trees, nodes, pool_free_head, next_order_id, active_count, queue, fl, at, lv)
        BY <2>3, <2>6, <2>8, <2>9, <2>10 DEF Shared
    <2> QED
        BY <2>11
<1>5. next_order_id \in 0 .. U64_MAX /\ taker \in Takers \union {NoTaker}
    BY InputAssumption DEF Init
<1> QED
    BY <1>2, <1>3, <1>4, <1>5 DEF SlabInv

\* The trees U and the pool M hold what T and N do, and an order at n besides,
\* queued at leaf.
Entered(T, N, U, M, at, n, s, leaf, price, id, size) ==
    /\ n \in PoolIndices /\ at[n] = "FREE" /\ leaf \in TreeIndices
    /\ U[s].nodes[leaf].price = price
    /\ \A r \in Sides : \A c \in LeafNodes(T[r]) : U[r].nodes[c].price = T[r].nodes[c].price
    /\ M[n].order_id = id /\ M[n].size = size
    /\ \A m \in PoolIndices \ {n} : M[m].order_id = N[m].order_id /\ M[m].size = N[m].size

\* They hold what T and N do but for the order at h.
Gone(T, N, U, M, h) ==
    /\ \A r \in Sides : \A c \in LeafNodes(U[r]) : U[r].nodes[c].price = T[r].nodes[c].price
    /\ \A m \in PoolIndices \ {h} : M[m].order_id = N[m].order_id /\ M[m].size = N[m].size

\* An order that is placed.
LEMMA InsertSound ==
    ASSUME SlabInv, NEW s \in Sides, NEW price \in Prices, NEW size \in Nat \ {0},
           InsertOrder(s, price, size), taker' = taker, NEW queue, NEW fl, NEW at, NEW lv,
           Shared(trees, nodes, pool_free_head, next_order_id, active_count, queue, fl, at, lv)
    PROVE  /\ SlabInv'
           /\ \E queue2, fl2, leaf :
                /\ Entered(trees, nodes, trees', nodes', at, pool_free_head, s, leaf, price,
                           next_order_id, size)
                /\ Shared(trees', nodes', pool_free_head', next_order_id', active_count',
                          queue2, fl2, Put(at, pool_free_head, s), Put(lv, pool_free_head, leaf))
<1> DEFINE t == trees[s]
           n == pool_free_head
           found == FindOrCreateLeaf(t, price)
           w == found.tree
           leaf == found.leaf
           old == w.nodes[leaf]
           joined == JoinLevel(old, n)
           u == PutLeaf(w, leaf, joined)
<1>1. /\ n # SLAB_NONE_INDEX /\ next_order_id < U64_MAX /\ found.ok
      /\ trees' = [trees EXCEPT ![s] = u]
      /\ nodes' = [m \in PoolIndices |->
                IF m = n THEN [order_id |-> next_order_id, size |-> size,
                               next |-> SLAB_NONE_INDEX, prev |-> old.tail_node]
                ELSE IF m = old.tail_node THEN [nodes[m] EXCEPT !.next = n]
                ELSE nodes[m]]
      /\ pool_free_head' = nodes[n].next
      /\ next_order_id' = next_order_id + 1
      /\ active_count' = active_count + 1
    BY DEF InsertOrder, PutLeaf
<1>2. /\ trees \in [Sides -> Trees] /\ t \in Trees /\ Sound(t)
      /\ \A r \in Sides : trees[r] \in Trees /\ Sound(trees[r])
      /\ next_order_id \in 0 .. U64_MAX /\ next_order_id \in Nat /\ price \in PriceRange
    BY InputAssumption DEF SlabInv
<1>3. Shared(trees, nodes, n, next_order_id, active_count, queue, fl, at, lv)
    OBVIOUS
<1>4. Sound(w) /\ HasLeaf(t, w, leaf, price)
    BY <1>1, <1>2, FindOrCreateSound
<1> HIDE DEF n, t, found, w, leaf
<1>5. /\ leaf \in LeafNodes(w) /\ leaf \in TreeIndices /\ old.price = price
      /\ LeafNodes(w) = LeafNodes(t) \union {leaf}
      /\ \A c \in LeafNodes(t) : w.nodes[c] = t.nodes[c]
      /\ IF leaf \in LeafNodes(t) THEN old = t.nodes[leaf] ELSE old = Leaf(price)
    BY <1>4 DEF HasLeaf, LeafNodes
<1>6. old \in LeafTreeNodes
    <2>1. w \in Trees
        BY <1>4 DEF Sound, IsTree
    <2> QED
        BY <1>5, <2>1, KindOfNode DEF LeafNodes
<1> HIDE DEF old
<1>7. n \in PoolIndices
    <2>1. PoolList(nodes, n, fl)
        BY <1>3 DEF Shared
    <2> QED
        BY <1>1, <2>1 DEF PoolList, LinkTo
<1>8. joined \in LeafTreeNodes /\ joined.price = old.price
    BY <1>6, <1>7, LevelTypes DEF NodeLinks
<1> HIDE DEF joined
<1>9. /\ Sound(u) /\ LeafNodes(u) = LeafNodes(w)
      /\ \A c \in TreeIndices : u.nodes[c] = IF c = leaf THEN joined ELSE w.nodes[c]
    <2>1. /\ Sound(w) /\ leaf \in LeafNodes(w) /\ joined \in LeafTreeNodes
          /\ joined.price = w.nodes[leaf].price
        BY <1>4, <1>5, <1>8 DEF old
    <2> QED
        BY ONLY <2>1, LeafChange
<1> HIDE DEF u
<1>10. u \in Trees
    BY <1>9 DEF Sound, IsTree
<1>11. /\ trees' \in [Sides -> Trees] /\ trees'[s] = u
       /\ \A r \in Sides \ {s} : trees'[r] = trees[r]
    BY <1>1, <1>2, <1>10
<1>12. \A r \in Sides : Sound(trees'[r])
    BY <1>2, <1>9, <1>11
<1>13. LevelOf(Leaf(price), <<>>)
    BY DEF LevelOf, Leaf, LinkTo
<1>14. /\ at[n] = "FREE"
       /\ \E queue2, fl2 :
            Shared(trees', nodes', nodes[n].next, next_order_id + 1, active_count + 1,
                   queue2, fl2, Put(at, n, s), Put(lv, n, leaf))
    <2> DEFINE U == trees'
               M == nodes'
    <2>1. \A c \in LeafNodes(t) \ {leaf} : U[s].nodes[c] = t.nodes[c]
        BY <1>5, <1>9, <1>11 DEF LeafNodes
    <2>2. LeafNodes(U[s]) = LeafNodes(t) \union {leaf} /\ U[s].nodes[leaf] = JoinLevel(old, n)
        BY <1>5, <1>9, <1>11 DEF joined
    <2>3. IF leaf \in LeafNodes(t) THEN old = t.nodes[leaf] ELSE LevelOf(old, <<>>)
        BY <1>5, <1>13
    <2>4. M = [m \in PoolIndices |->
                IF m = n THEN [order_id |-> next_order_id, size |-> size,
                               next |-> SLAB_NONE_INDEX, prev |-> old.tail_node]
                ELSE IF m = old.tail_node THEN [nodes[m] EXCEPT !.next = n]
                ELSE nodes[m]]
        BY <1>1 DEF old
    <2>5. \A r \in Sides \ {s} : U[r] = trees[r]
        BY <1>11
    <2> HIDE DEF U, M
    <2>6. JoinsLevel(trees, nodes, n, next_order_id, s, leaf, old, size, U, M)
        BY <1>6, <2>1, <2>2, <2>3, <2>4, <2>5 DEF JoinsLevel, t
    <2>7. /\ at[n] = "FREE"
          /\ \E queue2, fl2 :
                Shared(U, M, nodes[n].next, next_order_id + 1, active_count + 1,
                       queue2, fl2, Put(at, n, s), Put(lv, n, leaf))
        BY <1>1, <1>2, <1>3, <1>5, <2>6, SharedJoin
    <2> QED
        BY <2>7 DEF U, M
<1>15. next_order_id + 1 \in 0 .. U64_MAX
    BY <1>1, <1>2, InputAssumption
<1>16. /\ pool_free_head' = nodes[n].next /\ next_order_id' = next_order_id + 1
       /\ active_count' = active_count + 1
    BY <1>1
<1>17. taker' \in Takers \union {NoTaker}
    BY DEF SlabInv
<1>18. SlabInv'
    BY <1>11, <1>12, <1>14, <1>15, <1>16, <1>17 DEF SlabInv
<1>19. Entered(trees, nodes, trees', nodes', at, n, s, leaf, price, next_order_id, size)
    <2>1. trees'[s].nodes[leaf].price = price
        BY <1>5, <1>8, <1>9, <1>11
    <2>2. ASSUME NEW r \in Sides, NEW c \in LeafNodes(trees[r])
          PROVE  trees'[r].nodes[c].price = trees[r].nodes[c].price
        <3>1. CASE r = s /\ c = leaf
            BY <1>5, <2>1, <2>2, <3>1 DEF t
        <3>2. CASE r = s /\ c # leaf
            <4>1. c \in LeafNodes(t) /\ c \in TreeIndices
                BY <2>2, <3>2 DEF LeafNodes, t
            <4>2. trees'[r].nodes[c] = t.nodes[c]
                BY <1>5, <1>9, <1>11, <3>2, <4>1
            <4> QED
                BY <3>2, <4>2 DEF t
        <3>3. CASE r # s
            BY <1>11, <3>3
        <3> QED
            BY <3>1, <3>2, <3>3
    <2>3. nodes \in [PoolIndices -> PoolNodes]
        BY <1>3 DEF Shared
    <2>4. /\ nodes'[n].order_id = next_order_id /\ nodes'[n].size = size
          /\ \A m \in PoolIndices \ {n} : /\ nodes'[m].order_id = nodes[m].order_id
                                          /\ nodes'[m].size = nodes[m].size
        BY <1>1, <1>7, <2>3 DEF PoolNodes
    <2> QED
        BY <1>5, <1>7, <1>14, <2>1, <2>2, <2>4 DEF Entered
<1> QED
    BY <1>14, <1>16, <1>18, <1>19 DEF n

\* The lesser of two numbers.
LEMMA LesserOfTwo ==
    ASSUME NEW a \in Nat, NEW b \in Nat
    PROVE  Min({a, b}) \in {a, b} /\ Min({a, b}) <= a /\ Min({a, b}) <= b
<1>1. \E x \in {a, b} : \A y \in {a, b} : x <= y
    OBVIOUS
<1>2. Min({a, b}) = CHOOSE x \in {a, b} : \A y \in {a, b} : x <= y
    BY DEF Min
<1> HIDE DEF Min
<1>3. Min({a, b}) \in {a, b} /\ \A y \in {a, b} : Min({a, b}) <= y
    BY <1>1, <1>2, Zenon
<1> QED
    BY <1>3

\* The head of a level of the maker side that leaves it.
LEMMA PopSound ==
    ASSUME SlabInv, MakerSide \in Sides, NEW leaf \in LeafNodes(trees[MakerSide]),
           PopHead(leaf), UNCHANGED next_order_id, taker' \in Takers,
           NEW queue, NEW fl, NEW at, NEW lv,
           Shared(trees, nodes, pool_free_head, next_order_id, active_count, queue, fl, at, lv),
           NEW h, h = trees[MakerSide].nodes[leaf].head_node
    PROVE  /\ SlabInv'
           /\ h \in PoolIndices /\ at[h] = MakerSide /\ lv[h] = leaf
           /\ Gone(trees, nodes, trees', nodes', h)
           /\ \E queue2, fl2 :
                Shared(trees', nodes', pool_free_head', next_order_id', active_count',
                       queue2, fl2, Put(at, h, "FREE"), lv)
<1> DEFINE s == MakerSide
           t == trees[s]
           old == t.nodes[leaf]
           nh == nodes[h].next
           x == LeaveLevel(old, nh)
           u == PutLeaf(t, leaf, x)
           w == IF nh = SLAB_NONE_INDEX THEN RemoveLeaf(u, leaf) ELSE u
<1>1. /\ trees' = [trees EXCEPT ![s] = w]
      /\ nodes' = FreeHead(h)
      /\ pool_free_head' = h
      /\ active_count' = active_count - 1 /\ h = old.head_node
    BY DEF PopHead, PutLeaf
<1>2. /\ trees \in [Sides -> Trees] /\ s \in Sides /\ t \in Trees /\ Sound(t)
      /\ \A r \in Sides : trees[r] \in Trees /\ Sound(trees[r])
      /\ next_order_id \in 0 .. U64_MAX /\ leaf \in LeafNodes(t)
    BY DEF SlabInv
<1>3. Shared(trees, nodes, pool_free_head, next_order_id, active_count, queue, fl, at, lv)
    OBVIOUS
<1> HIDE DEF s
<1>4. old \in LeafTreeNodes /\ leaf \in TreeIndices
    BY <1>2, KindOfNode DEF LeafNodes
<1>5. old.order_count > 0 /\ nh \in NodeLinks
    <2> DEFINE q == queue[s][leaf]
    <2>1. LevelOf(old, q) /\ QueueOf(nodes, next_order_id, q) /\ q # <<>>
        BY <1>2, <1>3, <1>4 DEF Shared
    <2> HIDE DEF q
    <2>2. q \in Seq(PoolIndices) /\ Len(q) \in Nat /\ Len(q) > 0
        <3>1. q \in Seq(PoolIndices)
            BY <2>1 DEF QueueOf
        <3> QED
            BY <2>1, <3>1, TailLinks
    <2>3. h = q[1] /\ h \in PoolIndices
        BY <1>1, <2>1, <2>2 DEF LevelOf, LinkTo
    <2>4. nodes \in [PoolIndices -> PoolNodes]
        BY <1>3 DEF Shared
    <2> QED
        BY <2>1, <2>2, <2>3, <2>4 DEF LevelOf, PoolNodes
<1> HIDE DEF t, old, nh, x
<1>6. x \in LeafTreeNodes /\ x.price = old.price
    BY <1>4, <1>5, LevelTypes DEF x
<1>7. /\ Sound(u) /\ LeafNodes(u) = LeafNodes(t)
      /\ \A c \in TreeIndices : u.nodes[c] = IF c = leaf THEN x ELSE t.nodes[c]
    <2>1. /\ Sound(t) /\ leaf \in LeafNodes(t) /\ x \in LeafTreeNodes
          /\ x.price = t.nodes[leaf].price
        BY <1>2, <1>6 DEF old
    <2> QED
        BY ONLY <2>1, LeafChange
<1> HIDE DEF u
<1>8. nh = SLAB_NONE_INDEX =>
            /\ Sound(RemoveLeaf(u, leaf))
            /\ LeafNodes(RemoveLeaf(u, leaf)) = LeafNodes(t) \ {leaf}
            /\ \A c \in LeafNodes(t) \ {leaf} : RemoveLeaf(u, leaf).nodes[c] = t.nodes[c]
    <2>1. /\ Sound(RemoveLeaf(u, leaf))
          /\ LeafNodes(RemoveLeaf(u, leaf)) = LeafNodes(u) \ {leaf}
          /\ \A c \in LeafNodes(u) \ {leaf} : RemoveLeaf(u, leaf).nodes[c] = u.nodes[c]
        BY <1>2, <1>7, RemoveSound
    <2>2. \A c \in LeafNodes(t) \ {leaf} : u.nodes[c] = t.nodes[c]
        BY <1>7 DEF LeafNodes
    <2> QED
        BY <1>7, <2>1, <2>2
<1>9. /\ Sound(w)
      /\ \A c \in LeafNodes(t) \ {leaf} : w.nodes[c] = t.nodes[c]
      /\ IF nh = SLAB_NONE_INDEX THEN LeafNodes(w) = LeafNodes(t) \ {leaf}
         ELSE LeafNodes(w) = LeafNodes(t) /\ w.nodes[leaf] = x
    <2>1. CASE nh = SLAB_NONE_INDEX
        BY <1>8, <2>1
    <2>2. CASE nh # SLAB_NONE_INDEX
        BY <1>4, <1>7, <2>2 DEF LeafNodes
    <2> QED
        BY <2>1, <2>2
<1> HIDE DEF w
<1>10. w \in Trees
    BY <1>9 DEF Sound, IsTree
<1>11. /\ trees' \in [Sides -> Trees] /\ trees'[s] = w
       /\ \A r \in Sides \ {s} : trees'[r] = trees[r]
    BY <1>1, <1>2, <1>10
<1>12. \A r \in Sides : Sound(trees'[r])
    BY <1>2, <1>9, <1>11
<1>13. /\ h \in PoolIndices /\ at[h] = s /\ lv[h] = leaf
       /\ \E queue2, fl2 :
            Shared(trees', nodes', h, next_order_id, active_count - 1, queue2, fl2,
                   Put(at, h, "FREE"), lv)
    <2> DEFINE U == trees'
               M == nodes'
    <2>1. M = [m \in PoolIndices |->
                IF m = h THEN FreeNode(pool_free_head)
                ELSE IF m = nh THEN [nodes[m] EXCEPT !.prev = SLAB_NONE_INDEX]
                ELSE nodes[m]]
        BY <1>1 DEF FreeHead, nh
    <2>2. \A r \in Sides \ {s} : U[r] = trees[r]
        BY <1>11
    <2>3. /\ \A c \in LeafNodes(t) \ {leaf} : U[s].nodes[c] = t.nodes[c]
          /\ IF nh = SLAB_NONE_INDEX THEN LeafNodes(U[s]) = LeafNodes(t) \ {leaf}
             ELSE LeafNodes(U[s]) = LeafNodes(t) /\ U[s].nodes[leaf] = LeaveLevel(old, nh)
        BY <1>9, <1>11 DEF x
    <2> HIDE DEF U, M
    <2>4. LeavesLevel(trees, nodes, pool_free_head, s, leaf, h, nh, U, M)
        BY <1>1, <1>4, <2>1, <2>2, <2>3 DEF LeavesLevel, t, old, nh
    <2>5. s \in Sides /\ leaf \in LeafNodes(trees[s])
        BY <1>2 DEF t
    <2>6. /\ h \in PoolIndices /\ at[h] = s /\ lv[h] = leaf
          /\ \E queue2, fl2 :
                Shared(U, M, h, next_order_id, active_count - 1, queue2, fl2,
                       Put(at, h, "FREE"), lv)
        BY ONLY <1>3, <2>4, <2>5, SharedLeave
    <2> QED
        BY <2>6 DEF U, M
<1>14. /\ pool_free_head' = h /\ next_order_id' = next_order_id
       /\ active_count' = active_count - 1
    BY <1>1
<1>15. SlabInv'
    BY <1>2, <1>11, <1>12, <1>13, <1>14 DEF SlabInv
<1>16. Gone(trees, nodes, trees', nodes', h)
    <2>1. ASSUME NEW r \in Sides, NEW c \in LeafNodes(trees'[r])
          PROVE  trees'[r].nodes[c].price = trees[r].nodes[c].price
        <3>1. CASE r # s
            BY <1>11, <3>1
        <3>2. CASE r = s /\ c # leaf
            <4>1. c \in LeafNodes(t) \ {leaf}
                BY <1>9, <1>11, <2>1, <3>2
            <4> QED
                BY <1>9, <1>11, <3>2, <4>1 DEF t
        <3>3. CASE r = s /\ c = leaf
            <4>1. nh # SLAB_NONE_INDEX
                BY <1>9, <1>11, <2>1, <3>3
            <4> QED
                BY <1>6, <1>9, <1>11, <3>3, <4>1 DEF t, old
        <3> QED
            BY <3>1, <3>2, <3>3
    <2>2. nodes \in [PoolIndices -> PoolNodes]
        BY <1>3 DEF Shared
    <2>3. ASSUME NEW m \in PoolIndices \ {h}
          PROVE  nodes'[m].order_id = nodes[m].order_id /\ nodes'[m].size = nodes[m].size
        BY <1>1, <2>2 DEF FreeHead, nh, PoolNodes
    <2> QED
        BY <2>1, <2>3 DEF Gone
<1> QED
    BY <1>13, <1>14, <1>15, <1>16 DEF s

\* A turn of the matching loop: the maker that it meets, and what both trade.
FillsAt(leaf, h, fill) ==
    /\ taker \in Takers /\ taker.remaining > 0 /\ taker.fills_left > 0
    /\ LevelCrosses /\ trees[MakerSide].root # SLAB_NONE_INDEX
    /\ leaf = BestLeaf(trees[MakerSide], MakerSide = "BID")
    /\ leaf \in LeafNodes(trees[MakerSide]) /\ h = trees[MakerSide].nodes[leaf].head_node
    /\ h \in PoolIndices /\ nodes[h].size \in Nat \ {0}
    /\ fill = FillSize(h) /\ fill \in Nat \ {0} /\ fill <= nodes[h].size
    /\ taker' = [taker EXCEPT !.remaining = @ - fill, !.fills_left = @ - 1] /\ taker' \in Takers
    /\ next_order_id' = next_order_id
    /\ \/ fill = nodes[h].size /\ PopHead(leaf)
       \/ /\ fill # nodes[h].size
          /\ nodes' = [nodes EXCEPT ![h].size = nodes[h].size - fill]
          /\ UNCHANGED <<trees, pool_free_head, active_count>>

\* SlabFill always meets one.
LEMMA FillMeetsMaker ==
    ASSUME SlabInv, SlabFill
    PROVE  \E leaf, h, fill : FillsAt(leaf, h, fill)
<1> DEFINE leaf == BestLeaf(trees[MakerSide], MakerSide = "BID")
           h == trees[MakerSide].nodes[leaf].head_node
           fill == FillSize(h)
<1>1. /\ taker # NoTaker /\ taker.remaining > 0 /\ taker.fills_left > 0 /\ LevelCrosses
      /\ \/ fill = nodes[h].size /\ PopHead(leaf)
         \/ /\ fill # nodes[h].size
            /\ nodes' = [nodes EXCEPT ![h].size = nodes[h].size - fill]
            /\ UNCHANGED <<trees, pool_free_head, active_count>>
      /\ taker' = [taker EXCEPT !.remaining = @ - fill, !.fills_left = @ - 1]
      /\ next_order_id' = next_order_id
    BY DEF SlabFill
<1>2. /\ trees \in [Sides -> Trees] /\ \A r \in Sides : Sound(trees[r])
      /\ taker \in Takers
    <2>1. taker # NoTaker
        BY <1>1
    <2> QED
        BY <2>1 DEF SlabInv
<1>3. PICK queue, fl, at, lv :
            Shared(trees, nodes, pool_free_head, next_order_id, active_count, queue, fl, at, lv)
    BY DEF SlabInv
<1>4. /\ MakerSide \in Sides /\ Sound(trees[MakerSide])
      /\ trees[MakerSide].root # SLAB_NONE_INDEX
    BY <1>1, <1>2 DEF MakerSide, Sides, LevelCrosses
<1>11. leaf = BestLeaf(trees[MakerSide], MakerSide = "BID")
       /\ h = trees[MakerSide].nodes[leaf].head_node /\ fill = FillSize(h)
    OBVIOUS
<1>5. leaf \in LeafNodes(trees[MakerSide]) /\ leaf \in TreeIndices
    BY <1>4, BestLeafIsLeaf DEF LeafNodes
<1> HIDE DEF leaf
<1>6. h \in PoolIndices /\ nodes \in [PoolIndices -> PoolNodes] /\ nodes[h].size \in Nat \ {0}
    <2> DEFINE q == queue[MakerSide][leaf]
    <2>1. LevelOf(trees[MakerSide].nodes[leaf], q) /\ QueueOf(nodes, next_order_id, q) /\ q # <<>>
        BY <1>3, <1>4, <1>5 DEF Shared
    <2> HIDE DEF q
    <2>2. q \in Seq(PoolIndices) /\ Len(q) \in Nat /\ Len(q) > 0
        <3>1. q \in Seq(PoolIndices)
            BY <2>1 DEF QueueOf
        <3> QED
            BY <2>1, <3>1, TailLinks
    <2>3. h = q[1] /\ h \in PoolIndices /\ nodes[h].size > 0
        BY <2>1, <2>2 DEF LevelOf, LinkTo, QueueOf
    <2>4. nodes \in [PoolIndices -> PoolNodes]
        BY <1>3 DEF Shared
    <2> QED
        BY <2>3, <2>4 DEF PoolNodes
<1> HIDE DEF h
<1>7. /\ taker.remaining \in Nat /\ taker.fills_left \in Nat
      /\ fill \in Nat \ {0} /\ fill <= taker.remaining /\ fill <= nodes[h].size
    <2>1. taker.remaining \in Nat /\ taker.fills_left \in Nat
        BY <1>2 DEF Takers
    <2>2. fill \in {taker.remaining, nodes[h].size} /\ fill <= taker.remaining
          /\ fill <= nodes[h].size
        BY <1>6, <2>1, LesserOfTwo DEF FillSize
    <2> QED
        BY <1>1, <1>6, <2>1, <2>2
<1> HIDE DEF fill
<1>8. taker' \in Takers
    <2>1. taker.remaining - fill \in Nat /\ taker.fills_left - 1 \in Nat
        BY <1>1, <1>7
    <2> QED
        BY <1>1, <1>2, <2>1 DEF Takers
<1>9. FillsAt(leaf, h, fill)
    BY <1>1, <1>2, <1>4, <1>5, <1>6, <1>7, <1>8, <1>11 DEF FillsAt
<1> QED
    BY <1>9

\* A fill that leaves the maker something keeps the pool as it is shared.
LEMMA PartFillShares ==
    ASSUME SlabInv, NEW leaf, NEW h, NEW fill, FillsAt(leaf, h, fill), fill # nodes[h].size,
           NEW queue, NEW fl, NEW at, NEW lv,
           Shared(trees, nodes, pool_free_head, next_order_id, active_count, queue, fl, at, lv)
    PROVE  Shared(trees', nodes', pool_free_head', next_order_id', active_count', queue, fl, at, lv)
<1> DEFINE rest == nodes[h].size - fill
<1>4. /\ h \in PoolIndices /\ nodes[h].size \in Nat /\ fill \in Nat /\ fill <= nodes[h].size
      /\ nodes' = [nodes EXCEPT ![h].size = rest]
      /\ trees' = trees /\ pool_free_head' = pool_free_head /\ active_count' = active_count
      /\ next_order_id' = next_order_id
    BY Zenon DEF FillsAt
<1>1. /\ h \in PoolIndices /\ rest \in Nat \ {0} /\ nodes' = [nodes EXCEPT ![h].size = rest]
      /\ UNCHANGED <<trees, pool_free_head, active_count, next_order_id>>
    BY <1>4
<1>2. next_order_id \in Nat
    BY InputAssumption DEF SlabInv
<1> HIDE DEF rest
<1>3. Shared(trees, [nodes EXCEPT ![h].size = rest], pool_free_head, next_order_id,
             active_count, queue, fl, at, lv)
    BY <1>1, <1>2, SharedStays
<1> QED
    BY <1>1, <1>3

\* A turn of the matching loop keeps the invariant.
LEMMA FillSound ==
    ASSUME SlabInv, SlabFill PROVE SlabInv'
<1>1. PICK leaf, h, fill : FillsAt(leaf, h, fill)
    BY FillMeetsMaker
<1>2. PICK queue, fl, at, lv :
            Shared(trees, nodes, pool_free_head, next_order_id, active_count, queue, fl, at, lv)
    BY DEF SlabInv
<1>3. CASE fill = nodes[h].size
    <2>1. /\ MakerSide \in Sides /\ leaf \in LeafNodes(trees[MakerSide]) /\ PopHead(leaf)
          /\ UNCHANGED next_order_id /\ taker' \in Takers
          /\ h = trees[MakerSide].nodes[leaf].head_node
        BY <1>1, <1>3 DEF FillsAt, MakerSide, Sides
    <2> QED
        BY <1>2, <2>1, PopSound
<1>4. CASE fill # nodes[h].size
    <2>1. Shared(trees', nodes', pool_free_head', next_order_id', active_count', queue, fl, at, lv)
        BY <1>1, <1>2, <1>4, PartFillShares
    <2>2. UNCHANGED <<trees, next_order_id>> /\ taker' \in Takers
        BY <1>1, <1>4 DEF FillsAt
    <2> QED
        BY <2>1, <2>2 DEF SlabInv
<1> QED
    BY <1>3, <1>4

\* Everything the slab does keeps both trees sound and the pool shared out.
THEOREM SlabStaysSound == Spec => []SlabInv
<1>1. Init => SlabInv
    BY InitSound
<1>2. SlabInv /\ [Next]_vars => SlabInv'
    <2> SUFFICES ASSUME SlabInv, [Next]_vars PROVE SlabInv'
        OBVIOUS
    <2>1. ASSUME NEW side \in Sides, NEW price \in Prices, NEW size \in Sizes,
                 SlabPlaceOrder(side, price, size)
          PROVE  SlabInv'
        <3>1. size \in Nat \ {0} /\ InsertOrder(side, price, size) /\ taker' = taker
            BY <2>1, InputAssumption DEF SlabPlaceOrder
        <3>2. PICK queue, fl, at, lv :
                Shared(trees, nodes, pool_free_head, next_order_id, active_count,
                       queue, fl, at, lv)
            BY DEF SlabInv
        <3> QED
            BY <3>1, <3>2, InsertSound
    <2>2. ASSUME NEW side \in Sides, NEW limit \in Limits, NEW size \in Sizes,
                 NEW max_fills \in FillCaps, SlabMatch(side, limit, size, max_fills)
          PROVE  SlabInv'
        <3>1. taker' \in Takers
            BY <2>2, InputAssumption DEF SlabMatch, Takers
        <3> QED
            BY <2>2, <3>1 DEF SlabMatch, SlabInv
    <2>3. CASE SlabFill
        BY <2>3, FillSound
    <2>4. CASE SlabMatchEnd
        BY <2>4 DEF SlabMatchEnd, SlabInv
    <2>5. CASE UNCHANGED vars
        BY <2>5 DEF vars, SlabInv
    <2> QED
        BY <2>1, <2>2, <2>3, <2>4, <2>5 DEF Next
<1> QED
    BY <1>1, <1>2, PTL DEF Spec

----------------------------------------------------------------------------
(* What is read off the links.                                              *)

\* The nodes reached from c in up to k links, for k up to fuel.
Reaches(reached, t, c, fuel) ==
    reached = [k \in 0 .. fuel |->
        IF k = 0 THEN {c} \ {SLAB_NONE_INDEX}
        ELSE reached[k - 1] \union UNION {Children(t, i) : i \in reached[k - 1]}]

\* There is one for every fuel.
LEMMA ReachesExists ==
    ASSUME NEW t, NEW c, NEW fuel \in Nat
    PROVE  \E reached : Reaches(reached, t, c, fuel)
<1> DEFINE Bad == {n \in Nat : ~ \E reached : Reaches(reached, t, c, n)}
<1>1. SUFFICES ASSUME Bad # {} PROVE FALSE
    OBVIOUS
<1>2. PICK m \in Bad : \A x \in Bad : m <= x
    BY <1>1, Least
<1>3. CASE m = 0
    <2> DEFINE reached == [k \in 0 .. 0 |-> {c} \ {SLAB_NONE_INDEX}]
    <2>1. Reaches(reached, t, c, 0)
        BY DEF Reaches
    <2> QED
        BY <2>1, <1>3
<1>4. CASE m # 0
    <2>1. m - 1 \in Nat /\ m - 1 \notin Bad
        BY <1>2, <1>4
    <2>2. PICK before : Reaches(before, t, c, m - 1)
        BY <2>1
    <2> DEFINE more == before[m - 1] \union UNION {Children(t, i) : i \in before[m - 1]}
    <2> HIDE DEF more
    <2> DEFINE reached == [k \in 0 .. m |-> IF k = m THEN more ELSE before[k]]
    <2>3. ASSUME NEW k \in 0 .. m
          PROVE  reached[k] = IF k = 0 THEN {c} \ {SLAB_NONE_INDEX}
                              ELSE reached[k - 1] \union
                                   UNION {Children(t, i) : i \in reached[k - 1]}
        <3>1. CASE k = m
            <4>1. reached[k] = more /\ reached[k - 1] = before[m - 1] /\ k # 0
                BY <1>4, <2>1, <3>1
            <4> QED
                BY <4>1 DEF more
        <3>2. CASE k # m
            <4>1. k \in 0 .. m - 1 /\ (k # 0 => k - 1 \in 0 .. m - 1 /\ k - 1 \in 0 .. m /\ k - 1 # m)
                BY <2>1, <3>2
            <4>2. reached[k] = before[k] /\ (k # 0 => reached[k - 1] = before[k - 1])
                BY <3>2, <4>1
            <4> QED
                BY <2>2, <4>1, <4>2 DEF Reaches
        <3> QED
            BY <3>1, <3>2
    <2>4. Reaches(reached, t, c, m)
        BY <2>3, <2>1 DEF Reaches
    <2> QED
        BY <2>4
<1> QED
    BY <1>3, <1>4

\* The subtree at a node of a tree is the one that the tree says.
LEMMA SubtreeIsSub ==
    ASSUME NEW t, NEW sub, IsTree(t, sub), NEW c \in Live(t)
    PROVE  Subtree(t, c) = sub[c]
<1> DEFINE N == PRICE_BITS
           SB(i) == t.nodes[i].split_bit
<1>1. PICK at : Reaches(at, t, c, N) /\ Subtree(t, c) = at[N]
    <2>1. \E at : Reaches(at, t, c, N)
        BY ReachesExists, InputAssumption
    <2> DEFINE at == CHOOSE at : Reaches(at, t, c, N)
    <2>2. Reaches(at, t, c, N)
        BY <2>1
    <2>3. Subtree(t, c) = at[N]
        BY DEF Subtree, Reaches
    <2> QED
        BY <2>2, <2>3
<1>2. N \in Nat /\ c # SLAB_NONE_INDEX
    BY InputAssumption, CapacityAssumption DEF Live
<1>3. /\ at[0] = {c}
      /\ \A k \in 0 .. N - 1 :
            at[k + 1] = at[k] \union UNION {Children(t, i) : i \in at[k]}
    <2>1. at[0] = {c} \ {SLAB_NONE_INDEX}
        BY <1>1, <1>2 DEF Reaches
    <2>2. ASSUME NEW k \in 0 .. N - 1
          PROVE  at[k + 1] = at[k] \union UNION {Children(t, i) : i \in at[k]}
        <3>1. k + 1 \in 0 .. N /\ k + 1 # 0 /\ (k + 1) - 1 = k
            BY <1>2
        <3> QED
            BY <1>1, <3>1 DEF Reaches
    <2> QED
        BY <1>2, <2>1, <2>2
<1>4. /\ sub \in [Live(t) -> SUBSET Live(t)] /\ Live(t) = Inners(t) \union LeafNodes(t)
      /\ \A i \in Live(t) : i \in sub[i] /\ (i \notin Inners(t) => sub[i] = {i})
      /\ \A i \in Inners(t) :
            \A d \in sub[i] : d # i => \E e \in Children(t, i) : e \in Live(t) /\ d \in sub[e]
      /\ \A i \in Live(t) \ Inners(t) : Children(t, i) = {}
    BY LiveNodes DEF IsTree, Branches, Children, Inners, LeafNodes, Live
\* Nothing else is reached.
<1>5. ASSUME NEW n \in 0 .. N PROVE at[n] \subseteq sub[c]
    <2> DEFINE Bad == {k \in 0 .. N : ~ at[k] \subseteq sub[c]}
    <2>1. SUFFICES ASSUME Bad # {} PROVE FALSE
        OBVIOUS
    <2>2. Bad \in SUBSET Nat
        OBVIOUS
    <2>3. PICK m \in Bad : \A x \in Bad : m <= x
        BY <2>1, <2>2, Least
    <2>4. m # 0
        BY <1>3, <1>4, <2>3
    <2>5. m - 1 \in 0 .. N - 1 /\ m - 1 \notin Bad /\ (m - 1) + 1 = m
        BY <1>2, <2>3, <2>4
    <2>6. at[m - 1] \subseteq sub[c]
        BY <1>2, <2>5
    <2>7. ASSUME NEW i \in at[m - 1], NEW d \in Children(t, i) PROVE d \in sub[c]
        <3>1. i \in Inners(t) /\ i \in sub[c]
            BY <1>4, <2>6, <2>7
        <3>2. d \in sub[i]
            BY <3>1, <2>7, ChildrenBelow
        <3>3. sub[i] \subseteq sub[c]
            BY <3>1 DEF IsTree, Nested
        <3> QED
            BY <3>2, <3>3
    <2>8. at[m] = at[m - 1] \union UNION {Children(t, i) : i \in at[m - 1]}
        BY <1>3, <2>5
    <2> QED
        BY <2>3, <2>6, <2>7, <2>8
\* What is not reached yet is below an inner node whose bit is that much lower.
<1>6. ASSUME NEW d \in sub[c], NEW n \in 0 .. N
      PROVE  d \in at[n] \/ \E i \in at[n] \cap Inners(t) :
                                d \in sub[i] /\ d # i /\ SB(i) <= N - 1 - n
    <2> DEFINE Covered(k) == d \in at[k] \/ \E i \in at[k] \cap Inners(t) :
                                   d \in sub[i] /\ d # i /\ SB(i) <= N - 1 - k
               Bad == {k \in 0 .. N : ~ Covered(k)}
    <2>1. SUFFICES ASSUME Bad # {} PROVE FALSE
        OBVIOUS
    <2>2. Bad \in SUBSET Nat
        OBVIOUS
    <2>3. PICK m \in Bad : \A x \in Bad : m <= x
        BY <2>1, <2>2, Least
    <2>4. m # 0
        <3>1. SUFFICES ASSUME m = 0 PROVE FALSE
            OBVIOUS
        <3>2. d # c /\ c \in at[0]
            BY <1>3, <2>3, <3>1
        <3>3. c \in Inners(t)
            BY <1>4, <3>2
        <3>4. SB(c) \in 0 .. N - 1
            BY <3>3, KindOfNode DEF IsTree, Inners, InnerTreeNodes
        <3>5. SB(c) <= N - 1 - 0
            BY <1>2, <3>4
        <3> QED
            BY <2>3, <3>1, <3>2, <3>3, <3>5
    <2>5. m - 1 \in 0 .. N - 1 /\ m - 1 \notin Bad /\ (m - 1) + 1 = m /\ m \in Nat
        BY <1>2, <2>3, <2>4
    <2>6. Covered(m - 1)
        BY <1>2, <2>5
    <2>7. at[m] = at[m - 1] \union UNION {Children(t, i) : i \in at[m - 1]}
        BY <1>3, <2>5
    <2>8. d \notin at[m]
        BY <2>3
    <2>9. PICK i \in at[m - 1] \cap Inners(t) :
                d \in sub[i] /\ d # i /\ SB(i) <= N - 1 - (m - 1)
        BY <2>6, <2>7, <2>8
    <2>10. PICK e \in Children(t, i) : e \in Live(t) /\ d \in sub[e]
        BY <1>4, <2>9
    <2>11. e \in at[m]
        BY <2>7, <2>9, <2>10
    <2>12. d # e /\ e \in Inners(t)
        BY <1>4, <2>8, <2>10, <2>11
    <2>13. SB(e) < SB(i) /\ SB(e) \in 0 .. N - 1 /\ SB(i) \in 0 .. N - 1
        BY <2>9, <2>12, ChildrenBelow
    <2>14. SB(e) <= N - 1 - m
        BY <1>2, <2>5, <2>9, <2>13
    <2> QED
        BY <2>3, <2>10, <2>11, <2>12, <2>14
<1>7. ASSUME NEW d \in sub[c] PROVE d \in at[N]
    <2>1. ASSUME NEW i \in Inners(t), SB(i) <= N - 1 - N PROVE FALSE
        <3>1. SB(i) \in 0 .. N - 1
            BY KindOfNode DEF IsTree, Inners, InnerTreeNodes
        <3> QED
            BY <1>2, <2>1, <3>1
    <2> QED
        BY <1>2, <1>6, <2>1
<1>8. N \in 0 .. N
    BY <1>2
<1> QED
    BY <1>1, <1>5, <1>7, <1>8

\* Nothing is below no node.
LEMMA NothingBelowNone ==
    ASSUME NEW t PROVE Subtree(t, SLAB_NONE_INDEX) = {}
<1> DEFINE N == PRICE_BITS
           c == SLAB_NONE_INDEX
<1>1. PICK at : Reaches(at, t, c, N) /\ Subtree(t, c) = at[N]
    <2>1. \E at : Reaches(at, t, c, N)
        BY ReachesExists, InputAssumption
    <2> DEFINE at == CHOOSE at : Reaches(at, t, c, N)
    <2>2. Reaches(at, t, c, N)
        BY <2>1
    <2>3. Subtree(t, c) = at[N]
        BY DEF Subtree, Reaches
    <2> QED
        BY <2>2, <2>3
<1>2. N \in Nat
    BY InputAssumption
<1>3. at[N] = {}
    <2> DEFINE Bad == {k \in 0 .. N : at[k] # {}}
    <2>1. SUFFICES ASSUME Bad # {} PROVE FALSE
        BY <1>2
    <2>2. Bad \in SUBSET Nat
        OBVIOUS
    <2>3. PICK m \in Bad : \A x \in Bad : m <= x
        BY <2>1, <2>2, Least
    <2>4. m # 0
        BY <1>1, <2>3 DEF Reaches
    <2>5. m - 1 \in 0 .. N /\ m - 1 \notin Bad /\ m \in 0 .. N
        BY <1>2, <2>3, <2>4
    <2>6. at[m] = at[m - 1] \union UNION {Children(t, i) : i \in at[m - 1]}
        BY <1>1, <2>4, <2>5 DEF Reaches
    <2> QED
        BY <2>3, <2>5, <2>6
<1> QED
    BY <1>1, <1>3

\* A sequence of nodes without repetition is no longer than the pool, and is
\* the list that following its links from its head yields.
LEMMA ListIsFollowed ==
    ASSUME nodes \in [PoolIndices -> PoolNodes], NEW s \in Seq(PoolIndices),
           \A j, k \in 1 .. Len(s) : s[j] = s[k] => j = k,
           \A k \in 1 .. Len(s) : nodes[s[k]].next = LinkTo(s, k + 1)
    PROVE  Follow(LinkTo(s, 1), NextNode, SLAB_POOL_CAPACITY + 1) = s
<1> DEFINE next == NextNode
<1>1. Len(s) \in Nat /\ SLAB_NONE_INDEX \notin PoolIndices /\ SLAB_POOL_CAPACITY \in Nat
    BY CapacityAssumption
<1>2. \A k \in 1 .. Len(s) : next[s[k]] = LinkTo(s, k + 1)
    BY <1>1 DEF NextNode
<1>3. next[SLAB_NONE_INDEX] = SLAB_NONE_INDEX
    BY DEF NextNode
<1>4. Len(s) <= SLAB_POOL_CAPACITY + 1
    <2>1. [k \in 1 .. Len(s) |-> s[k]] \in Injection(1 .. Len(s), PoolIndices)
        BY <1>1 DEF Injection, IsInjective
    <2>2. Cardinality(1 .. Len(s)) <= Cardinality(PoolIndices)
        BY <2>1, PoolIsFinite, FS_Injection
    <2>3. Cardinality(1 .. Len(s)) = Len(s)
        <3> DEFINE n == Len(s)
        <3>1. n \in Nat
            BY <1>1
        <3> HIDE DEF n
        <3>2. Cardinality(1 .. n) = n
            BY <3>1, FS_Interval
        <3> QED
            BY <3>2 DEF n
    <2> QED
        BY <1>1, <2>2, <2>3, PoolIsFinite
<1> HIDE DEF next
<1>5. Follow(LinkTo(s, 1), next, SLAB_POOL_CAPACITY + 1) = s
    <2> DEFINE fuel == SLAB_POOL_CAPACITY + 1
    <2>1. /\ SLAB_NONE_INDEX \notin PoolIndices /\ s \in Seq(PoolIndices)
          /\ next[SLAB_NONE_INDEX] = SLAB_NONE_INDEX
          /\ \A k \in 1 .. Len(s) : next[s[k]] = LinkTo(s, k + 1)
          /\ fuel \in Nat /\ Len(s) <= fuel
        BY <1>1, <1>2, <1>3, <1>4
    <2> HIDE DEF fuel
    <2>2. Follow(LinkTo(s, 1), next, fuel) = s
        BY ONLY <2>1, FollowsList
    <2> QED
        BY <2>2 DEF fuel
<1> QED
    BY <1>5 DEF next

\* No queue holds a node twice.
LEMMA QueueIsInjective ==
    ASSUME NEW N \in [PoolIndices -> PoolNodes], NEW id, NEW q, QueueOf(N, id, q)
    PROVE  \A j, k \in 1 .. Len(q) : q[j] = q[k] => j = k
<1>1. q \in Seq(PoolIndices) /\ Len(q) \in Nat /\ \A k \in 1 .. Len(q) : q[k] \in PoolIndices
    BY DEF QueueOf
<1>2. ASSUME NEW j \in 1 .. Len(q), NEW k \in 1 .. Len(q), j < k PROVE q[j] # q[k]
    <2>1. N[q[j]].order_id < N[q[k]].order_id /\ N[q[j]].order_id \in Nat
        BY <1>1, <1>2 DEF QueueOf, PoolNodes
    <2> QED
        BY <2>1
<1>3. \A j, k \in 1 .. Len(q) : j = k \/ j < k \/ k < j
    BY <1>1
<1> QED
    BY <1>2, <1>3

\* The levels of a side are the leaves of its tree.
LEMMA LevelsAreLeaves ==
    ASSUME NEW s, Sound(trees[s])
    PROVE  Levels(s) = {trees[s].nodes[c] : c \in LeafNodes(trees[s])}
<1> DEFINE t == trees[s]
<1>1. PICK sub : IsTree(t, sub)
    BY DEF Sound
<1>2. Subtree(t, t.root) = Live(t)
    <2>1. CASE t.root = SLAB_NONE_INDEX
        <3>1. Live(t) = {}
            BY <1>1, <2>1, CapacityAssumption DEF IsTree, Rooted, Live
        <3> QED
            BY <2>1, <3>1, NothingBelowNone
    <2>2. CASE t.root # SLAB_NONE_INDEX
        <3>1. t.root \in Live(t) /\ sub[t.root] = Live(t)
            BY <1>1, <2>2 DEF IsTree, Rooted
        <3> QED
            BY <1>1, <3>1, SubtreeIsSub
    <2> QED
        BY <2>1, <2>2
<1>3. Leaves(t, t.root) = LeafNodes(t)
    BY <1>2 DEF Leaves, Live, LeafNodes, IsLeaf
<1> QED
    BY <1>3 DEF Levels

\* What the invariant says of the tree of a side, and what is read off it.
LEMMA TreeRead ==
    ASSUME SlabInv, NEW s \in Sides
    PROVE  \E sub, fl :
                /\ IsTree(trees[s], sub) /\ FreeList(trees[s], fl)
                /\ TreeFreeList(trees[s]) = fl
                /\ Subtree(trees[s], trees[s].root) = Live(trees[s])
                /\ \A c \in Live(trees[s]) : Subtree(trees[s], c) = sub[c]
<1> DEFINE t == trees[s]
<1>1. t \in Trees /\ Sound(t)
    BY DEF SlabInv
<1>2. PICK sub : IsTree(t, sub)
    BY <1>1 DEF Sound
<1>3. PICK fl : FreeList(t, fl)
    BY <1>1 DEF Sound
<1> HIDE DEF t
<1>4. TreeFreeList(t) = fl
    BY <1>1, <1>3, FreeListIsFollowed
<1>5. \A c \in Live(t) : Subtree(t, c) = sub[c]
    BY <1>2, SubtreeIsSub
<1>6. Subtree(t, t.root) = Live(t)
    <2>1. CASE t.root = SLAB_NONE_INDEX
        <3>1. Live(t) = {}
            BY <1>2, <2>1, CapacityAssumption DEF IsTree, Rooted, Live
        <3> QED
            BY <2>1, <3>1, NothingBelowNone
    <2>2. CASE t.root # SLAB_NONE_INDEX
        <3>1. t.root \in Live(t) /\ sub[t.root] = Live(t)
            BY <1>2, <2>2 DEF IsTree, Rooted
        <3> QED
            BY <1>5, <3>1
    <2> QED
        BY <2>1, <2>2
<1> QED
    BY <1>2, <1>3, <1>4, <1>5, <1>6 DEF t

----------------------------------------------------------------------------
(* The invariants that the runs check.                                      *)

\* Links are indices or none, and counts stay in range.
LEMMA InvType == SlabInv => TypeOK
<1> SUFFICES ASSUME SlabInv PROVE TypeOK
    OBVIOUS
<1>1. PICK queue, fl, at, lv :
            Shared(trees, nodes, pool_free_head, next_order_id, active_count, queue, fl, at, lv)
    BY DEF SlabInv
<1>2. ASSUME NEW s \in Sides
      PROVE  /\ trees[s].root \in TreeIndices \union {SLAB_NONE_INDEX}
             /\ trees[s].free_head \in TreeIndices \union {SLAB_NONE_INDEX}
             /\ \A c \in TreeIndices : trees[s].nodes[c].tag \in {"FREE", "INNER", "LEAF"}
    <2>1. trees[s] \in Trees
        BY DEF SlabInv
    <2>2. \A c \in TreeIndices : trees[s].nodes[c].tag \in {"FREE", "INNER", "LEAF"}
        BY <2>1, KindOfNode
    <2> QED
        BY <2>1, <2>2 DEF Trees, TreeLinks
<1>3. /\ nodes \in [PoolIndices -> PoolNodes] /\ PoolList(nodes, pool_free_head, fl)
      /\ active_count = Cardinality({n \in PoolIndices : at[n] # "FREE"})
    BY <1>1 DEF Shared
<1>4. pool_free_head \in PoolIndices \union {SLAB_NONE_INDEX}
    BY <1>3 DEF PoolList, LinkTo
<1>5. active_count \in 0 .. SLAB_POOL_CAPACITY
    BY <1>3, CountFits
<1>6. next_order_id \in 0 .. U64_MAX /\ taker \in Takers \union {NoTaker}
    BY DEF SlabInv
<1> QED
    BY <1>2, <1>3, <1>4, <1>5, <1>6 DEF TypeOK, PoolNodes, NodeLinks

\* Prices are where the split bits say.
LEMMA InvOrdered == SlabInv => CritbitOrdered
<1> SUFFICES ASSUME SlabInv, NEW s \in Sides, NEW c \in Subtree(trees[s], trees[s].root),
                    ~ IsLeaf(trees[s].nodes[c]),
                    NEW i \in Leaves(trees[s], c), NEW j \in Leaves(trees[s], c)
             PROVE  /\ Bit(trees[s].nodes[i].price, trees[s].nodes[c].split_bit) =
                         IF i \in Leaves(trees[s], trees[s].nodes[c].right_child) THEN 1 ELSE 0
                    /\ \A b \in trees[s].nodes[c].split_bit + 1 .. PRICE_BITS - 1 :
                         Bit(trees[s].nodes[i].price, b) = Bit(trees[s].nodes[j].price, b)
    BY DEF CritbitOrdered
<1> DEFINE t == trees[s]
<1>1. PICK sub, fl : /\ IsTree(t, sub) /\ FreeList(t, fl)
                     /\ Subtree(t, t.root) = Live(t)
                     /\ \A d \in Live(t) : Subtree(t, d) = sub[d]
    BY TreeRead
<1>2. /\ c \in Subtree(t, t.root) /\ ~ IsLeaf(t.nodes[c])
      /\ i \in Leaves(t, c) /\ j \in Leaves(t, c)
    OBVIOUS
<1> HIDE DEF t
<1>3. c \in Live(t) /\ c \in Inners(t)
    <2>1. Live(t) = Inners(t) \union LeafNodes(t)
        BY <1>1, LiveNodes DEF IsTree
    <2> QED
        BY <1>1, <1>2, <2>1 DEF IsLeaf, LeafNodes
<1> DEFINE l == t.nodes[c].left_child
           r == t.nodes[c].right_child
           b0 == t.nodes[c].split_bit
<1>4. /\ l \in Live(t) /\ r \in Live(t) /\ sub[c] = {c} \union sub[l] \union sub[r]
      /\ b0 \in 0 .. PRICE_BITS - 1 /\ sub \in [Live(t) -> SUBSET Live(t)]
    BY <1>1, <1>3, KindOfNode DEF IsTree, Branches, Inners, InnerTreeNodes
<1>5. /\ i \in sub[c] \cap LeafNodes(t) /\ j \in sub[c] \cap LeafNodes(t)
      /\ Leaves(t, r) = sub[r] \cap LeafNodes(t)
    BY <1>1, <1>2, <1>3, <1>4 DEF Leaves, IsLeaf, LeafNodes, Live
<1>6. i # c
    BY <1>3, <1>5 DEF Inners, LeafNodes
<1>7. /\ \A k \in sub[l] \cap LeafNodes(t) : Bit(t.nodes[k].price, b0) = 0
      /\ \A k \in sub[r] \cap LeafNodes(t) : Bit(t.nodes[k].price, b0) = 1
      /\ \A k, m \in sub[c] \cap LeafNodes(t) : \A b \in 0 .. PRICE_BITS - 1 :
                b > b0 => Bit(t.nodes[k].price, b) = Bit(t.nodes[m].price, b)
    BY <1>1, <1>3 DEF IsTree, PricesSplit
<1> HIDE DEF l, r, b0
<1>8. Bit(t.nodes[i].price, b0) = IF i \in Leaves(t, r) THEN 1 ELSE 0
    BY <1>4, <1>5, <1>6, <1>7
<1>9. ASSUME NEW b \in b0 + 1 .. PRICE_BITS - 1
      PROVE  Bit(t.nodes[i].price, b) = Bit(t.nodes[j].price, b)
    <2>1. b \in 0 .. PRICE_BITS - 1 /\ b > b0
        BY <1>4, InputAssumption
    <2> QED
        BY <1>5, <1>7, <2>1
<1> QED
    BY <1>8, <1>9 DEF t, r, b0

\* Tree nodes are in the tree or on the free list.
LEMMA InvTreeNodes == SlabInv => TreeNodesAccounted
<1> SUFFICES ASSUME SlabInv, NEW s \in Sides
             PROVE  /\ IsInjective(TreeFreeList(trees[s]))
                    /\ ToSet(TreeFreeList(trees[s])) =
                            TreeIndices \ Subtree(trees[s], trees[s].root)
                    /\ \A c \in TreeIndices : trees[s].nodes[c].tag = "FREE" <=>
                            c \notin Subtree(trees[s], trees[s].root)
    BY DEF TreeNodesAccounted
<1> DEFINE t == trees[s]
<1>1. PICK sub, fl : /\ IsTree(t, sub) /\ FreeList(t, fl) /\ TreeFreeList(t) = fl
                     /\ Subtree(t, t.root) = Live(t)
    BY TreeRead
<1> HIDE DEF t
<1>2. fl \in Seq(TreeIndices) /\ DOMAIN fl = 1 .. Len(fl)
    BY <1>1 DEF FreeList
<1>3. IsInjective(fl)
    BY <1>1, <1>2 DEF FreeList, IsInjective
<1>4. \A c \in TreeIndices : t.nodes[c].tag = "FREE" <=> c \notin Live(t)
    BY DEF Live
<1>5. ToSet(fl) = TreeIndices \ Live(t)
    <2>1. \A c \in ToSet(fl) : c \in TreeIndices \ Live(t)
        BY <1>1, <1>2 DEF ToSet, FreeList, Live
    <2>2. \A c \in TreeIndices \ Live(t) : c \in ToSet(fl)
        BY <1>1, <1>2 DEF ToSet, FreeList, Live
    <2> QED
        BY <2>1, <2>2
<1> QED
    BY <1>1, <1>3, <1>4, <1>5 DEF t

\* A level's queue read off its links is the one of the invariant.
LEMMA QueueRead ==
    ASSUME SlabInv, NEW queue, NEW fl, NEW at, NEW lv,
           Shared(trees, nodes, pool_free_head, next_order_id, active_count, queue, fl, at, lv)
    PROVE  /\ \A s \in Sides : Levels(s) = {trees[s].nodes[c] : c \in LeafNodes(trees[s])}
           /\ \A s \in Sides : \A c \in LeafNodes(trees[s]) :
                    /\ Queue(trees[s].nodes[c]) = queue[s][c]
                    /\ QueueOf(nodes, next_order_id, queue[s][c])
                    /\ LevelOf(trees[s].nodes[c], queue[s][c]) /\ queue[s][c] # <<>>
                    /\ \A n \in PoolIndices : Holds(queue[s][c], n) <=> at[n] = s /\ lv[n] = c
           /\ PoolFreeList = fl /\ PoolList(nodes, pool_free_head, fl)
           /\ \A n \in PoolIndices : at[n] = "FREE" <=> Holds(fl, n)
           /\ \A n \in PoolIndices : at[n] # "FREE" =>
                    \E s \in Sides : \E c \in LeafNodes(trees[s]) : at[n] = s /\ lv[n] = c
<1>1. nodes \in [PoolIndices -> PoolNodes]
    BY DEF Shared
<1>2. ASSUME NEW s \in Sides, NEW c \in LeafNodes(trees[s])
      PROVE  /\ Queue(trees[s].nodes[c]) = queue[s][c]
             /\ QueueOf(nodes, next_order_id, queue[s][c])
             /\ LevelOf(trees[s].nodes[c], queue[s][c]) /\ queue[s][c] # <<>>
             /\ \A n \in PoolIndices : Holds(queue[s][c], n) <=> at[n] = s /\ lv[n] = c
    <2> DEFINE q == queue[s][c]
    <2>1. /\ QueueOf(nodes, next_order_id, q)
          /\ LevelOf(trees[s].nodes[c], q) /\ q # <<>>
          /\ \A n \in PoolIndices : Holds(q, n) <=> at[n] = s /\ lv[n] = c
        BY DEF Shared, LeafNodes
    <2> HIDE DEF q
    <2>2. \A j, k \in 1 .. Len(q) : q[j] = q[k] => j = k
        BY <1>1, <2>1, QueueIsInjective
    <2>3. Follow(LinkTo(q, 1), NextNode, SLAB_POOL_CAPACITY + 1) = q
        BY <1>1, <2>1, <2>2, ListIsFollowed DEF QueueOf
    <2>4. Queue(trees[s].nodes[c]) = q
        BY <2>1, <2>3 DEF Queue, LevelOf
    <2> QED
        BY <2>1, <2>4 DEF q
<1>3. PoolList(nodes, pool_free_head, fl) /\ \A n \in PoolIndices : at[n] = "FREE" <=> Holds(fl, n)
    BY DEF Shared
<1>4. PoolFreeList = fl
    <2>1. Follow(LinkTo(fl, 1), NextNode, SLAB_POOL_CAPACITY + 1) = fl
        BY <1>1, <1>3, ListIsFollowed DEF PoolList
    <2> QED
        BY <1>3, <2>1 DEF PoolFreeList, PoolList
<1>5. \A s \in Sides : Levels(s) = {trees[s].nodes[c] : c \in LeafNodes(trees[s])}
    BY LevelsAreLeaves DEF SlabInv
<1>6. ASSUME NEW n \in PoolIndices, at[n] # "FREE"
      PROVE  \E s \in Sides : \E c \in LeafNodes(trees[s]) : at[n] = s /\ lv[n] = c
    <2>1. at[n] \in Sides /\ lv[n] \in TreeIndices
        BY <1>6 DEF Shared
    <2>2. Holds(queue[at[n]][lv[n]], n)
        BY <2>1 DEF Shared
    <2>3. queue[at[n]][lv[n]] # <<>>
        BY <2>2 DEF Holds
    <2>4. lv[n] \in LeafNodes(trees[at[n]])
        BY <2>1, <2>3 DEF Shared
    <2> QED
        BY <2>1, <2>4
<1> QED
    BY <1>2, <1>3, <1>4, <1>5, <1>6

\* Queues are intact.
LEMMA InvFifos == SlabInv => FifosIntact
<1> SUFFICES ASSUME SlabInv PROVE FifosIntact
    OBVIOUS
<1>1. PICK queue, fl, at, lv :
            Shared(trees, nodes, pool_free_head, next_order_id, active_count, queue, fl, at, lv)
    BY DEF SlabInv
<1>2. SUFFICES ASSUME NEW s \in Sides, NEW leaf \in Levels(s)
               PROVE  LET q == Queue(leaf)
                      IN /\ q # <<>>
                         /\ Last(q) = leaf.tail_node
                         /\ Len(q) = leaf.order_count
                         /\ nodes[Head(q)].prev = SLAB_NONE_INDEX
                         /\ \A k \in 1 .. Len(q) - 1 :
                              /\ nodes[q[k + 1]].prev = q[k]
                              /\ nodes[q[k]].order_id < nodes[q[k + 1]].order_id
                         /\ \A k \in 1 .. Len(q) : nodes[q[k]].size > 0
    BY DEF FifosIntact, Sides
<1>3. PICK c \in LeafNodes(trees[s]) : leaf = trees[s].nodes[c]
    BY <1>1, QueueRead
<1> DEFINE q == Queue(leaf)
<1>4. /\ q = queue[s][c] /\ QueueOf(nodes, next_order_id, q) /\ LevelOf(leaf, q) /\ q # <<>>
    BY <1>1, <1>3, QueueRead
<1> HIDE DEF q
<1>5. q \in Seq(PoolIndices) /\ Len(q) \in Nat /\ Len(q) > 0
    <2>1. q \in Seq(PoolIndices)
        BY <1>4 DEF QueueOf
    <2> QED
        BY <1>4, <2>1, TailLinks
<1>6. \A k \in 1 .. Len(q) : nodes[q[k]].prev = LinkTo(q, k - 1) /\ nodes[q[k]].size > 0
    BY <1>4 DEF QueueOf
<1>7. Last(q) = leaf.tail_node /\ Len(q) = leaf.order_count
    BY <1>4, <1>5 DEF LevelOf, LinkTo, Last
<1>8. nodes[Head(q)].prev = SLAB_NONE_INDEX
    <2>1. Head(q) = q[1] /\ 1 \in 1 .. Len(q) /\ LinkTo(q, 1 - 1) = SLAB_NONE_INDEX
        BY <1>5 DEF LinkTo
    <2> QED
        BY <1>6, <2>1
<1>9. ASSUME NEW k \in 1 .. Len(q) - 1
      PROVE  nodes[q[k + 1]].prev = q[k] /\ nodes[q[k]].order_id < nodes[q[k + 1]].order_id
    <2>1. k \in 1 .. Len(q) /\ k + 1 \in 1 .. Len(q) /\ (k + 1) - 1 = k /\ k < k + 1
        BY <1>5
    <2> QED
        BY <1>4, <1>6, <2>1 DEF QueueOf, LinkTo
<1> QED
    BY <1>4, <1>6, <1>7, <1>8, <1>9 DEF q

\* The pool is shared out.
LEMMA InvPoolNodes == SlabInv => PoolNodesAccounted
<1> SUFFICES ASSUME SlabInv PROVE PoolNodesAccounted
    OBVIOUS
<1>1. PICK queue, fl, at, lv :
            Shared(trees, nodes, pool_free_head, next_order_id, active_count, queue, fl, at, lv)
    BY DEF SlabInv
<1> DEFINE queues == {Queue(leaf) : leaf \in Levels("BID") \union Levels("ASK")}
           queued == UNION {ToSet(q) : q \in queues}
\* Each is the queue of a leaf.
<1>2. ASSUME NEW q \in queues
      PROVE  \E s \in Sides : \E c \in LeafNodes(trees[s]) :
                /\ q = queue[s][c] /\ QueueOf(nodes, next_order_id, q)
                /\ \A n \in PoolIndices : Holds(q, n) <=> at[n] = s /\ lv[n] = c
    <2>1. PICK s \in Sides : \E leaf \in Levels(s) : q = Queue(leaf)
        BY <1>2 DEF Sides
    <2>2. PICK c \in LeafNodes(trees[s]) : q = Queue(trees[s].nodes[c])
        BY <1>1, <2>1, QueueRead
    <2> QED
        BY <1>1, <2>2, QueueRead
<1>3. ASSUME NEW s \in Sides, NEW c \in LeafNodes(trees[s])
      PROVE  /\ queue[s][c] \in queues
             /\ \A n \in PoolIndices : Holds(queue[s][c], n) <=> at[n] = s /\ lv[n] = c
    <2>1. trees[s].nodes[c] \in Levels(s) /\ Queue(trees[s].nodes[c]) = queue[s][c]
        BY <1>1, QueueRead
    <2>2. trees[s].nodes[c] \in Levels("BID") \union Levels("ASK")
        BY <2>1 DEF Sides
    <2>3. queue[s][c] \in queues
        BY <2>1, <2>2
    <2> QED
        BY <1>1, <2>3, QueueRead
<1> HIDE DEF queues
<1>4. ASSUME NEW q \in queues
      PROVE  q \in Seq(PoolIndices) /\ DOMAIN q = 1 .. Len(q) /\ IsInjective(q)
             /\ \A n : n \in ToSet(q) <=> n \in PoolIndices /\ Holds(q, n)
    <2>1. QueueOf(nodes, next_order_id, q)
        BY <1>2
    <2>2. q \in Seq(PoolIndices) /\ DOMAIN q = 1 .. Len(q)
        BY <2>1 DEF QueueOf
    <2>3. \A j, k \in 1 .. Len(q) : q[j] = q[k] => j = k
        BY <1>1, <2>1, QueueIsInjective DEF Shared
    <2> QED
        BY <2>2, <2>3 DEF IsInjective, ToSet, Holds
<1>5. PoolFreeList = fl /\ PoolList(nodes, pool_free_head, fl)
      /\ \A n \in PoolIndices : at[n] = "FREE" <=> Holds(fl, n)
    BY <1>1, QueueRead
<1>6. fl \in Seq(PoolIndices) /\ DOMAIN fl = 1 .. Len(fl) /\ IsInjective(fl)
      /\ \A n : n \in ToSet(fl) <=> n \in PoolIndices /\ at[n] = "FREE"
    BY <1>5 DEF PoolList, IsInjective, ToSet, Holds
<1>7. ASSUME NEW q \in queues, NEW r \in queues, NEW n, n \in ToSet(q), n \in ToSet(r)
      PROVE  q = r
    <2>1. n \in PoolIndices /\ Holds(q, n) /\ Holds(r, n)
        BY <1>4, <1>7
    <2>2. PICK s \in Sides : \E c \in LeafNodes(trees[s]) :
                q = queue[s][c] /\ \A m \in PoolIndices : Holds(q, m) <=> at[m] = s /\ lv[m] = c
        BY <1>2
    <2>3. q = queue[at[n]][lv[n]]
        BY <2>1, <2>2
    <2>4. PICK s2 \in Sides : \E c \in LeafNodes(trees[s2]) :
                r = queue[s2][c] /\ \A m \in PoolIndices : Holds(r, m) <=> at[m] = s2 /\ lv[m] = c
        BY <1>2
    <2>5. r = queue[at[n]][lv[n]]
        BY <2>1, <2>4
    <2> QED
        BY <2>3, <2>5
<1>8. \A n : n \in queued <=> n \in PoolIndices /\ at[n] # "FREE"
    <2>1. ASSUME NEW n, n \in queued PROVE n \in PoolIndices /\ at[n] # "FREE"
        <3>1. PICK q \in queues : n \in ToSet(q)
            BY <2>1
        <3>2. n \in PoolIndices /\ Holds(q, n)
            BY <1>4, <3>1
        <3>3. at[n] \in Sides
            BY <1>2, <3>2
        <3> QED
            BY <3>2, <3>3 DEF Sides
    <2>2. ASSUME NEW n \in PoolIndices, at[n] # "FREE" PROVE n \in queued
        <3>1. PICK s \in Sides : \E c \in LeafNodes(trees[s]) : at[n] = s /\ lv[n] = c
            BY <1>1, <2>2, QueueRead
        <3>2. PICK c \in LeafNodes(trees[s]) : at[n] = s /\ lv[n] = c
            BY <3>1
        <3>3. queue[s][c] \in queues /\ Holds(queue[s][c], n)
            BY <1>3, <3>2
        <3>4. n \in ToSet(queue[s][c])
            BY <1>4, <3>3
        <3> QED
            BY <3>3, <3>4
    <2> QED
        BY <2>1, <2>2
<1> HIDE DEF queued
<1>9. ToSet(fl) = PoolIndices \ queued
    BY <1>6, <1>8
<1>10. active_count = Cardinality(queued)
    <2>1. queued = {n \in PoolIndices : at[n] # "FREE"}
        BY <1>8
    <2> QED
        BY <1>1, <2>1 DEF Shared
<1>11. \A q, r \in queues : q # r => ToSet(q) \cap ToSet(r) = {}
    BY <1>7
<1> QED
    BY <1>4, <1>5, <1>6, <1>9, <1>10, <1>11 DEF PoolNodesAccounted, queues, queued

----------------------------------------------------------------------------
(* The theorems.                                                            *)

\* The links stay within their arrays, and counts and ids within their types:
\* no subtraction of the code ever has to saturate.
THEOREM SlabTypeOK == Spec => []TypeOK
BY SlabStaysSound, InvType, PTL

\* Each tree stays a critbit tree: every walk by price, and best(), finds what
\* it looks for.
THEOREM SlabOrdered == Spec => []CritbitOrdered
BY SlabStaysSound, InvOrdered, PTL

\* No tree node is ever lost or in two places.
THEOREM SlabTreeNodes == Spec => []TreeNodesAccounted
BY SlabStaysSound, InvTreeNodes, PTL

\* No order node is ever lost or in two places, and active_count counts them.
THEOREM SlabPoolNodes == Spec => []PoolNodesAccounted
BY SlabStaysSound, InvPoolNodes, PTL

\* Every level has its orders, linked both ways and oldest first.
THEOREM SlabFifos == Spec => []FifosIntact
BY SlabStaysSound, InvFifos, PTL

----------------------------------------------------------------------------
(* The best level.                                                          *)

\* Of two prices that first differ at a bit, the one that has it is higher.
LEMMA HigherByBit ==
    ASSUME NEW p \in PriceRange, NEW q \in PriceRange, NEW b \in 0 .. PRICE_BITS - 1,
           Bit(p, b) = 0, Bit(q, b) = 1,
           \A k \in 0 .. PRICE_BITS - 1 : k > b => Bit(p, k) = Bit(q, k)
    PROVE  p < q
<1>1. PRICE_BITS \in Nat \ {0} /\ p \in Nat /\ q \in Nat
    BY InputAssumption DEF PriceRange
<1> DEFINE f == Shifted(p)
           g == Shifted(q)
<1>2. /\ f \in [0 .. PRICE_BITS -> Nat] /\ f[0] = p /\ f[PRICE_BITS] = 0
      /\ \A k \in 0 .. PRICE_BITS - 1 : f[k + 1] = f[k] \div 2
    BY <1>1, ShiftHalves DEF PriceRange
<1>3. /\ g \in [0 .. PRICE_BITS -> Nat] /\ g[0] = q /\ g[PRICE_BITS] = 0
      /\ \A k \in 0 .. PRICE_BITS - 1 : g[k + 1] = g[k] \div 2
    BY <1>1, ShiftHalves DEF PriceRange
<1>4. /\ f[b] % 2 = 0 /\ g[b] % 2 = 1
      /\ \A k \in 0 .. PRICE_BITS - 1 : k > b => f[k] % 2 = g[k] % 2
    BY DEF Bit
<1> HIDE DEF f, g
\* What is left above the bit is the same, and less with it than without.
<1> DEFINE Same(k) == IF k > b THEN f[k] = g[k] ELSE f[k] < g[k]
           Bad == {n \in 0 .. PRICE_BITS : ~ Same(PRICE_BITS - n)}
<1>5. Bad = {}
    <2>1. SUFFICES ASSUME Bad # {} PROVE FALSE
        OBVIOUS
    <2>2. Bad \in SUBSET Nat
        OBVIOUS
    <2>3. PICK n \in Bad : \A x \in Bad : n <= x
        BY <2>1, <2>2, Least
    <2>4. n # 0
        BY <1>1, <1>2, <1>3
    <2> DEFINE k == PRICE_BITS - n
    <2>5. k \in 0 .. PRICE_BITS - 1 /\ n - 1 \in 0 .. PRICE_BITS /\ n - 1 \notin Bad
        BY <1>1, <2>3, <2>4
    <2>6. Same(k + 1)
        <3>1. PRICE_BITS - (n - 1) = k + 1
            BY <1>1, <2>3
        <3> HIDE DEF Same
        <3> QED
            BY <2>5, <3>1
    <2>7. ~ Same(k)
        BY <2>3
    <2> HIDE DEF k
    <2>8. /\ k \in 0 .. PRICE_BITS /\ f[k + 1] = f[k] \div 2 /\ g[k + 1] = g[k] \div 2
          /\ f[k] \in Nat /\ g[k] \in Nat
        <3>1. k \in 0 .. PRICE_BITS
            BY <1>1, <2>5
        <3>2. f[k] \in Nat /\ g[k] \in Nat
            BY <1>2, <1>3, <3>1
        <3>3. f[k + 1] = f[k] \div 2 /\ g[k + 1] = g[k] \div 2
            BY <1>2, <1>3, <2>5
        <3> QED
            BY <3>1, <3>2, <3>3
    <2>9. CASE k > b
        <3>1. f[k] \div 2 = g[k] \div 2 /\ f[k] % 2 = g[k] % 2
            BY <1>4, <2>5, <2>6, <2>8, <2>9
        <3> QED
            BY <2>7, <2>8, <2>9, <3>1
    <2>10. CASE k = b
        <3>1. f[k] \div 2 = g[k] \div 2 /\ f[k] % 2 = 0 /\ g[k] % 2 = 1
            BY <1>4, <2>5, <2>6, <2>8, <2>10
        <3> QED
            BY <2>7, <2>8, <2>10, <3>1
    <2>11. CASE k < b
        <3>1. f[k] \div 2 < g[k] \div 2
            BY <2>5, <2>6, <2>8, <2>11
        <3> QED
            BY <2>5, <2>7, <2>8, <2>11, <3>1
    <2> QED
        BY <2>5, <2>9, <2>10, <2>11
<1>6. PRICE_BITS \notin Bad
    BY <1>5
<1> QED
    BY <1>1, <1>2, <1>3, <1>6

\* best() ends at the leaf of the best price.
LEMMA BestLeafIsBest ==
    ASSUME NEW t, Sound(t), t.root # SLAB_NONE_INDEX, NEW want_max \in BOOLEAN
    PROVE  /\ BestLeaf(t, want_max) \in LeafNodes(t)
           /\ \A i \in LeafNodes(t) \ {BestLeaf(t, want_max)} :
                IF want_max THEN t.nodes[i].price < t.nodes[BestLeaf(t, want_max)].price
                ELSE t.nodes[i].price > t.nodes[BestLeaf(t, want_max)].price
<1>1. PICK sub : IsTree(t, sub)
    BY DEF Sound
<1> DEFINE next == [c \in InnerNodes(t, 0) |->
                IF want_max THEN t.nodes[c].right_child ELSE t.nodes[c].left_child]
           q == Descend(t, next)
           x == BestLeaf(t, want_max)
           Price(i) == t.nodes[i].price
           Worse(i, j) == IF want_max THEN Price(i) < Price(j) ELSE Price(i) > Price(j)
           \* The nodes below which all leaves are better than all others.
           On == {c \in Live(t) : \A i \in LeafNodes(t) \ sub[c] :
                                    \A j \in LeafNodes(t) \cap sub[c] : Worse(i, j)}
<1>2. /\ x \in LeafNodes(t)
      /\ LeafNodes(t) \subseteq Live(t) /\ Inners(t) \subseteq Live(t) /\ Live(t) \subseteq TreeIndices
    BY <1>1, BestLeafIsLeaf, LiveNodes DEF IsTree, Live
<1>3. \A i \in LeafNodes(t) : Price(i) \in PriceRange /\ Price(i) \in Nat
    BY <1>1, KindOfNode DEF IsTree, LeafNodes, LeafTreeNodes, PriceRange
<1>4. InnerNodes(t, 0) = Inners(t)
    <2>1. ASSUME NEW c \in Inners(t) PROVE t.nodes[c].split_bit >= 0
        BY <1>1, KindOfNode DEF IsTree, Inners, InnerTreeNodes
    <2> QED
        BY <2>1 DEF InnerNodes, Inners
<1>5. DOMAIN next = Inners(t) /\ \A c \in DOMAIN next : next[c] \in Children(t, c)
    BY <1>4 DEF Children, Inners
<1>6. \A c \in Inners(t) :
        next[c] = IF want_max THEN t.nodes[c].right_child ELSE t.nodes[c].left_child
    BY <1>4
<1>7. x = Last(q)
    BY DEF BestLeaf
<1> HIDE DEF next, x
<1>8. IsPath(q, t.root, next)
    BY <1>1, <1>5, TreeDescent
<1> HIDE DEF q
<1>9. x = q[Len(q)]
    BY <1>7, <1>8, PathEnd
<1>10. ASSUME NEW c \in Inners(t),
              NEW i \in LeafNodes(t) \cap sub[t.nodes[c].left_child],
              NEW j \in LeafNodes(t) \cap sub[t.nodes[c].right_child]
       PROVE  Price(i) < Price(j)
    <2> DEFINE b == t.nodes[c].split_bit
               l == t.nodes[c].left_child
               r == t.nodes[c].right_child
    <2>1. b \in 0 .. PRICE_BITS - 1
        BY <1>1, KindOfNode DEF IsTree, Inners, InnerTreeNodes
    <2>2. i \in sub[c] /\ j \in sub[c]
        BY <1>1 DEF IsTree, Branches
    <2>3. /\ Bit(Price(i), b) = 0 /\ Bit(Price(j), b) = 1
          /\ \A k \in 0 .. PRICE_BITS - 1 : k > b => Bit(Price(i), k) = Bit(Price(j), k)
        BY <1>1, <2>2 DEF IsTree, PricesSplit
    <2>4. Price(i) \in PriceRange /\ Price(j) \in PriceRange
        BY <1>3
    <2> HIDE DEF b, Price
    <2> QED
        BY <2>1, <2>3, <2>4, HigherByBit
<1>11. t.root \in On
    <2>1. t.root \in Live(t) /\ sub[t.root] = Live(t)
        BY <1>1 DEF IsTree, Rooted
    <2> QED
        BY <1>2, <2>1
<1>12. ASSUME NEW c \in On \cap DOMAIN next PROVE next[c] \in On
    <2> DEFINE l == t.nodes[c].left_child
               r == t.nodes[c].right_child
    <2>1. /\ c \in Inners(t) /\ next[c] = IF want_max THEN r ELSE l
          /\ l \in Live(t) /\ r \in Live(t) /\ sub[c] = {c} \union sub[l] \union sub[r]
          /\ c \notin LeafNodes(t)
        BY <1>1, <1>5, <1>6, LiveNodes DEF IsTree, Branches
    <2>2. ASSUME NEW i \in LeafNodes(t) \ sub[next[c]], NEW j \in LeafNodes(t) \cap sub[next[c]]
          PROVE  Worse(i, j)
        <3>1. j \in sub[c]
            BY <2>1
        <3>2. CASE i \notin sub[c]
            BY <2>2, <3>1, <3>2
        <3>3. CASE i \in sub[c] /\ want_max
            <4>1. i \in sub[l] /\ j \in sub[r]
                BY <2>1, <2>2, <3>3
            <4> QED
                BY <1>10, <2>1, <3>3, <4>1
        <3>4. CASE i \in sub[c] /\ ~ want_max
            <4>1. i \in sub[r] /\ j \in sub[l]
                BY <2>1, <2>2, <3>4
            <4>2. Price(j) < Price(i) /\ Price(i) \in Nat /\ Price(j) \in Nat
                BY <1>3, <1>10, <2>1, <4>1
            <4> HIDE DEF Price
            <4> QED
                BY <3>4, <4>2
        <3> QED
            BY <3>2, <3>3, <3>4
    <2> HIDE DEF l, r, Worse
    <2> QED
        BY <2>1, <2>2
<1> HIDE DEF On
<1>13. x \in On
    BY <1>8, <1>9, <1>11, <1>12, PassedAlong
<1>14. sub[x] = {x}
    BY <1>1, <1>2 DEF IsTree, Branches
<1> QED
    BY <1>2, <1>13, <1>14 DEF On, x

----------------------------------------------------------------------------
(* The book that the trees and the pool stand for.                          *)

\* The book that is stored in the trees T and the pool N.
Book(T, N, at, lv) ==
    [n \in {m \in PoolIndices : at[m] # "FREE"} |->
        [id |-> N[n].order_id, side |-> at[n],
         price |-> T[at[n]].nodes[lv[n]].price, size |-> N[n].size]]

\* Every order is in the queue of a leaf.
LEMMA SitsOnLeaf ==
    ASSUME NEW T, NEW N, NEW head, NEW id, NEW count, NEW queue, NEW fl, NEW at, NEW lv,
           Shared(T, N, head, id, count, queue, fl, at, lv),
           NEW n \in PoolIndices, at[n] # "FREE"
    PROVE  /\ at[n] \in Sides /\ lv[n] \in LeafNodes(T[at[n]])
           /\ Holds(queue[at[n]][lv[n]], n)
<1>1. at[n] \in Sides /\ lv[n] \in TreeIndices
    BY DEF Shared
<1>2. Holds(queue[at[n]][lv[n]], n)
    BY <1>1 DEF Shared
<1>3. queue[at[n]][lv[n]] # <<>>
    BY <1>2 DEF Holds
<1> QED
    BY <1>1, <1>2, <1>3 DEF Shared

\* The head of a queue is the oldest order of its level.
LEMMA HeadIsOldest ==
    ASSUME NEW T, NEW N, NEW head, NEW id, NEW count, NEW queue, NEW fl, NEW at, NEW lv,
           Shared(T, N, head, id, count, queue, fl, at, lv),
           NEW s \in Sides, NEW leaf \in LeafNodes(T[s]), NEW h, h = T[s].nodes[leaf].head_node
    PROVE  /\ h \in PoolIndices /\ at[h] = s /\ lv[h] = leaf /\ at[h] # "FREE"
           /\ \A g \in PoolIndices : at[g] = s /\ lv[g] = leaf => N[h].order_id <= N[g].order_id
<1> DEFINE q == queue[s][leaf]
<1>1. /\ QueueOf(N, id, q) /\ q # <<>> /\ LevelOf(T[s].nodes[leaf], q)
      /\ \A n \in PoolIndices : Holds(q, n) <=> at[n] = s /\ lv[n] = leaf
    BY DEF Shared, LeafNodes
<1>2. N \in [PoolIndices -> PoolNodes] /\ "FREE" \notin Sides
    BY DEF Shared, Sides
<1> HIDE DEF q
<1>3. q \in Seq(PoolIndices) /\ Len(q) \in Nat /\ Len(q) > 0
    <2>1. q \in Seq(PoolIndices)
        BY <1>1 DEF QueueOf
    <2> QED
        BY <1>1, <2>1, TailLinks
<1>4. h = q[1] /\ 1 \in 1 .. Len(q) /\ h \in PoolIndices
    BY <1>1, <1>3 DEF LevelOf, LinkTo
<1>5. Holds(q, h)
    BY <1>4 DEF Holds
<1>6. ASSUME NEW g \in PoolIndices, at[g] = s, lv[g] = leaf
      PROVE  N[h].order_id <= N[g].order_id
    <2>1. PICK k \in 1 .. Len(q) : q[k] = g
        BY <1>1, <1>6 DEF Holds
    <2>2. N[g].order_id \in Nat /\ N[h].order_id \in Nat
        BY <1>2, <1>4 DEF PoolNodes
    <2>3. CASE k = 1
        BY <1>4, <2>1, <2>2, <2>3
    <2>4. CASE k # 1
        <3>1. 1 < k
            BY <1>3, <2>4
        <3>2. N[q[1]].order_id < N[q[k]].order_id
            BY <1>1, <1>4, <2>1, <3>1 DEF QueueOf
        <3> QED
            BY <1>4, <2>1, <2>2, <3>2
    <2> QED
        BY <2>3, <2>4
<1> QED
    BY <1>1, <1>2, <1>4, <1>5, <1>6

\* RestingOrders, which follows the links, reads that book.
LEMMA BookRead ==
    ASSUME SlabInv, NEW queue, NEW fl, NEW at, NEW lv,
           Shared(trees, nodes, pool_free_head, next_order_id, active_count, queue, fl, at, lv)
    PROVE  RestingOrders = Book(trees, nodes, at, lv)
<1> DEFINE D == {m \in PoolIndices : at[m] # "FREE"}
           Price(n) == trees[at[n]].nodes[lv[n]].price
           Home(n) == <<n, at[n], Price(n)>>
           Homes(s) == UNION {{<<n, s, leaf.price>> : n \in ToSet(Queue(leaf))} : leaf \in Levels(s)}
           homes == Homes("BID") \union Homes("ASK")
<1>1. ASSUME NEW s \in Sides, NEW c \in LeafNodes(trees[s])
      PROVE  \A n : n \in ToSet(Queue(trees[s].nodes[c])) <=>
                        n \in PoolIndices /\ at[n] = s /\ lv[n] = c
    <2> DEFINE q == queue[s][c]
    <2>1. /\ Queue(trees[s].nodes[c]) = q /\ QueueOf(nodes, next_order_id, q)
          /\ \A n \in PoolIndices : Holds(q, n) <=> at[n] = s /\ lv[n] = c
        BY QueueRead
    <2> HIDE DEF q
    <2>2. q \in Seq(PoolIndices)
        BY <2>1 DEF QueueOf
    <2>3. \A n : n \in ToSet(q) <=> n \in PoolIndices /\ Holds(q, n)
        BY <2>2 DEF ToSet, Holds
    <2> QED
        BY <2>1, <2>3
<1>2. \A n \in D : at[n] \in Sides /\ lv[n] \in LeafNodes(trees[at[n]])
    BY SitsOnLeaf
<1>3. "FREE" \notin Sides /\ Sides = {"BID", "ASK"}
    BY DEF Sides
<1>4. ASSUME NEW s \in Sides
      PROVE  Homes(s) = {Home(n) : n \in {m \in D : at[m] = s}}
    <2>1. ASSUME NEW h \in Homes(s) PROVE h \in {Home(n) : n \in {m \in D : at[m] = s}}
        <3>1. PICK leaf \in Levels(s) : h \in {<<n, s, leaf.price>> : n \in ToSet(Queue(leaf))}
            BY <2>1
        <3>2. PICK c \in LeafNodes(trees[s]) : leaf = trees[s].nodes[c]
            BY QueueRead
        <3>3. PICK n \in ToSet(Queue(leaf)) : h = <<n, s, leaf.price>>
            BY <3>1
        <3>4. n \in PoolIndices /\ at[n] = s /\ lv[n] = c
            BY <1>1, <3>2, <3>3
        <3> QED
            BY <1>3, <3>2, <3>3, <3>4
    <2>2. ASSUME NEW n \in D, at[n] = s PROVE Home(n) \in Homes(s)
        <3> DEFINE leaf == trees[s].nodes[lv[n]]
        <3>1. lv[n] \in LeafNodes(trees[s]) /\ leaf \in Levels(s)
            BY <1>2, <2>2, QueueRead
        <3>2. n \in ToSet(Queue(leaf))
            BY <1>1, <2>2, <3>1
        <3>3. Home(n) = <<n, s, leaf.price>>
            BY <2>2
        <3> HIDE DEF leaf, Home
        <3> QED
            BY <3>1, <3>2, <3>3
    <2> QED
        BY <2>1, <2>2
<1>5. homes = {Home(n) : n \in D}
    <2>1. \A n \in D : at[n] = "BID" \/ at[n] = "ASK"
        BY <1>2, <1>3
    <2>2. /\ Homes("BID") = {Home(n) : n \in {m \in D : at[m] = "BID"}}
          /\ Homes("ASK") = {Home(n) : n \in {m \in D : at[m] = "ASK"}}
        BY <1>3, <1>4
    <2> HIDE DEF D, Home, Homes
    <2> QED
        BY <2>1, <2>2
<1>6. RestingOrders = [n \in {h[1] : h \in homes} |->
            [id |-> nodes[n].order_id, side |-> (CHOOSE h \in homes : h[1] = n)[2],
             price |-> (CHOOSE h \in homes : h[1] = n)[3], size |-> nodes[n].size]]
    BY DEF RestingOrders
<1> HIDE DEF homes, Homes
<1>7. {h[1] : h \in homes} = D
    <2>1. \A n \in D : Home(n)[1] = n
        OBVIOUS
    <2>2. ASSUME NEW m \in {h[1] : h \in homes} PROVE m \in D
        <3>1. PICK h \in homes : m = h[1]
            BY <2>2
        <3>2. PICK n \in D : h = Home(n)
            BY <1>5, <3>1
        <3> HIDE DEF D, Home
        <3> QED
            BY <2>1, <3>1, <3>2
    <2>3. ASSUME NEW n \in D PROVE n \in {h[1] : h \in homes}
        <3> HIDE DEF D, Home
        <3>1. Home(n) \in homes /\ n = Home(n)[1]
            BY <1>5, <2>1
        <3> QED
            BY <3>1
    <2> HIDE DEF D
    <2> QED
        BY <2>2, <2>3
<1>8. ASSUME NEW n \in D
      PROVE  (CHOOSE h \in homes : h[1] = n) = Home(n)
    <2>1. Home(n) \in homes /\ Home(n)[1] = n
        BY <1>5
    <2>2. \A h \in homes : h[1] = n => h = Home(n)
        BY <1>5
    <2> HIDE DEF Home
    <2> QED
        BY <2>1, <2>2
<1>9. \A n \in D : Home(n)[2] = at[n] /\ Home(n)[3] = Price(n)
    OBVIOUS
<1> HIDE DEF D, Home, Price
<1>10. RestingOrders = [n \in D |-> [id |-> nodes[n].order_id, side |-> at[n],
                                     price |-> Price(n), size |-> nodes[n].size]]
    <2> DEFINE home(n) == CHOOSE h \in homes : h[1] = n
    <2>1. \A n \in D : home(n)[2] = at[n] /\ home(n)[3] = Price(n)
        <3> SUFFICES ASSUME NEW n \in D PROVE home(n)[2] = at[n] /\ home(n)[3] = Price(n)
            OBVIOUS
        <3>1. home(n) = Home(n)
            BY <1>8
        <3> HIDE DEF home
        <3> QED
            BY <1>9, <3>1
    <2>2. RestingOrders = [n \in D |-> [id |-> nodes[n].order_id, side |-> home(n)[2],
                                        price |-> home(n)[3], size |-> nodes[n].size]]
        BY <1>6, <1>7
    <2> HIDE DEF home
    <2> QED
        BY <2>1, <2>2
<1> QED
    BY <1>10 DEF Book, D, Price

\* In one formula, to be read in the state after a step.
LEMMA BookReadAlways ==
    \A queue, fl, at, lv :
        /\ SlabInv
        /\ Shared(trees, nodes, pool_free_head, next_order_id, active_count, queue, fl, at, lv)
        => RestingOrders = Book(trees, nodes, at, lv)
BY BookRead

\* It holds there as well.
LEMMA BookReadNext ==
    (\A queue, fl, at, lv :
        /\ SlabInv
        /\ Shared(trees, nodes, pool_free_head, next_order_id, active_count, queue, fl, at, lv)
        => RestingOrders = Book(trees, nodes, at, lv))'
BY BookReadAlways, PTL

\* An order more.
LEMMA BookEntered ==
    ASSUME NEW T, NEW N, NEW head, NEW id, NEW count, NEW queue, NEW fl, NEW at, NEW lv,
           Shared(T, N, head, id, count, queue, fl, at, lv),
           NEW U, NEW M, NEW n, NEW s \in Sides, NEW leaf, NEW price, NEW size,
           Entered(T, N, U, M, at, n, s, leaf, price, id, size)
    PROVE  LET before == Book(T, N, at, lv)
               after == Book(U, M, Put(at, n, s), Put(lv, n, leaf))
           IN /\ n \in PoolIndices /\ n \notin DOMAIN before
              /\ DOMAIN after = DOMAIN before \union {n}
              /\ after[n] = [id |-> id, side |-> s, price |-> price, size |-> size]
              /\ \A g \in DOMAIN before : after[g] = before[g]
<1> DEFINE before == Book(T, N, at, lv)
           after == Book(U, M, Put(at, n, s), Put(lv, n, leaf))
<1>1. /\ at \in [PoolIndices -> Sides \union {"FREE"}] /\ lv \in [PoolIndices -> TreeIndices]
      /\ "FREE" \notin Sides
    BY DEF Shared, Sides
<1>2. /\ n \in PoolIndices /\ at[n] = "FREE"
      /\ U[s].nodes[leaf].price = price
      /\ \A r \in Sides : \A c \in LeafNodes(T[r]) : U[r].nodes[c].price = T[r].nodes[c].price
      /\ M[n].order_id = id /\ M[n].size = size
      /\ \A m \in PoolIndices \ {n} : M[m].order_id = N[m].order_id /\ M[m].size = N[m].size
    BY DEF Entered
<1>3. \A m \in PoolIndices : /\ Put(at, n, s)[m] = IF m = n THEN s ELSE at[m]
                             /\ Put(lv, n, leaf)[m] = IF m = n THEN leaf ELSE lv[m]
    BY <1>1, <1>2 DEF Put
<1>4. /\ DOMAIN before = {m \in PoolIndices : at[m] # "FREE"}
      /\ DOMAIN after = {m \in PoolIndices : Put(at, n, s)[m] # "FREE"}
      /\ \A g \in DOMAIN before : before[g] = [id |-> N[g].order_id, side |-> at[g],
                price |-> T[at[g]].nodes[lv[g]].price, size |-> N[g].size]
      /\ \A g \in DOMAIN after : after[g] = [id |-> M[g].order_id, side |-> Put(at, n, s)[g],
                price |-> U[Put(at, n, s)[g]].nodes[Put(lv, n, leaf)[g]].price, size |-> M[g].size]
    BY DEF Book
<1> HIDE DEF before, after
<1>5. n \notin DOMAIN before /\ DOMAIN after = DOMAIN before \union {n}
    BY <1>1, <1>2, <1>3, <1>4
<1>6. after[n] = [id |-> id, side |-> s, price |-> price, size |-> size]
    BY <1>2, <1>3, <1>4, <1>5
<1>7. ASSUME NEW g \in DOMAIN before PROVE after[g] = before[g]
    <2>1. g \in PoolIndices \ {n} /\ at[g] # "FREE" /\ g \in DOMAIN after
        BY <1>4, <1>5
    <2>2. at[g] \in Sides /\ lv[g] \in LeafNodes(T[at[g]])
        BY <2>1, SitsOnLeaf
    <2>3. U[at[g]].nodes[lv[g]].price = T[at[g]].nodes[lv[g]].price
        BY <1>2, <2>2
    <2>4. Put(at, n, s)[g] = at[g] /\ Put(lv, n, leaf)[g] = lv[g]
        BY <1>3, <2>1
    <2>5. M[g].order_id = N[g].order_id /\ M[g].size = N[g].size
        BY <1>2, <2>1
    <2>6. after[g] = [id |-> M[g].order_id, side |-> Put(at, n, s)[g],
                price |-> U[Put(at, n, s)[g]].nodes[Put(lv, n, leaf)[g]].price, size |-> M[g].size]
        BY ONLY <1>4, <2>1
    <2>7. before[g] = [id |-> N[g].order_id, side |-> at[g],
                price |-> T[at[g]].nodes[lv[g]].price, size |-> N[g].size]
        BY ONLY <1>4, <1>7
    <2> QED
        BY ONLY <2>3, <2>4, <2>5, <2>6, <2>7
<1> QED
    BY <1>2, <1>5, <1>6, <1>7 DEF before, after

\* A book without the order at h, and with another size for it.
Without(book, h) == [g \in DOMAIN book \ {h} |-> book[g]]
Resized(book, h, size) == [book EXCEPT ![h].size = size]

\* An order less.
LEMMA BookGone ==
    ASSUME NEW T, NEW N, NEW U, NEW M, NEW at \in [PoolIndices -> Sides \union {"FREE"}], NEW lv,
           NEW h \in PoolIndices, at[h] # "FREE", Gone(T, N, U, M, h),
           NEW head, NEW id, NEW count, NEW queue, NEW fl,
           Shared(U, M, head, id, count, queue, fl, Put(at, h, "FREE"), lv)
    PROVE  Book(U, M, Put(at, h, "FREE"), lv) = Without(Book(T, N, at, lv), h)
<1> DEFINE before == Book(T, N, at, lv)
           after == Book(U, M, Put(at, h, "FREE"), lv)
           at2 == Put(at, h, "FREE")
<1>1. \A m \in PoolIndices : at2[m] = IF m = h THEN "FREE" ELSE at[m]
    BY DEF Put
<1>2. /\ \A r \in Sides : \A c \in LeafNodes(U[r]) : U[r].nodes[c].price = T[r].nodes[c].price
      /\ \A m \in PoolIndices \ {h} : M[m].order_id = N[m].order_id /\ M[m].size = N[m].size
    BY DEF Gone
<1>3. ASSUME NEW g \in PoolIndices \ {h}, at[g] # "FREE"
      PROVE  U[at[g]].nodes[lv[g]].price = T[at[g]].nodes[lv[g]].price
    <2>1. at2[g] # "FREE" /\ at2[g] = at[g]
        BY <1>1, <1>3
    <2>2. at2[g] \in Sides /\ lv[g] \in LeafNodes(U[at2[g]])
        BY <2>1, SitsOnLeaf
    <2> QED
        BY <1>2, <2>1, <2>2
<1>4. /\ DOMAIN before = {m \in PoolIndices : at[m] # "FREE"}
      /\ \A g \in DOMAIN before : before[g] = [id |-> N[g].order_id, side |-> at[g],
                price |-> T[at[g]].nodes[lv[g]].price, size |-> N[g].size]
    BY DEF Book
<1>5. after = [g \in {m \in PoolIndices : at2[m] # "FREE"} |->
                [id |-> M[g].order_id, side |-> at2[g],
                 price |-> U[at2[g]].nodes[lv[g]].price, size |-> M[g].size]]
    BY DEF Book
<1> HIDE DEF before, after, at2
<1>6. {m \in PoolIndices : at2[m] # "FREE"} = DOMAIN before \ {h}
    BY <1>1, <1>4
<1>7. \A g \in DOMAIN before \ {h} :
            [id |-> M[g].order_id, side |-> at2[g],
             price |-> U[at2[g]].nodes[lv[g]].price, size |-> M[g].size] = before[g]
    BY <1>1, <1>2, <1>3, <1>4
<1>8. after = [g \in DOMAIN before \ {h} |-> before[g]]
    BY <1>5, <1>6, <1>7
<1> QED
    BY <1>8 DEF before, after, Without

\* An order smaller.
LEMMA BookReduced ==
    ASSUME NEW T, NEW N, NEW M, NEW at, NEW lv, NEW h \in PoolIndices, at[h] # "FREE", NEW size,
           \A g \in PoolIndices : /\ M[g].order_id = N[g].order_id
                                  /\ M[g].size = IF g = h THEN size ELSE N[g].size
    PROVE  Book(T, M, at, lv) = Resized(Book(T, N, at, lv), h, size)
<1> DEFINE before == Book(T, N, at, lv)
           after == Book(T, M, at, lv)
           D == {m \in PoolIndices : at[m] # "FREE"}
<1>1. /\ before = [g \in D |-> [id |-> N[g].order_id, side |-> at[g],
                price |-> T[at[g]].nodes[lv[g]].price, size |-> N[g].size]]
      /\ after = [g \in D |-> [id |-> M[g].order_id, side |-> at[g],
                price |-> T[at[g]].nodes[lv[g]].price, size |-> M[g].size]]
    BY DEF Book
<1>2. h \in D /\ D \subseteq PoolIndices
    OBVIOUS
<1> HIDE DEF before, after, D
<1>3. after = [before EXCEPT ![h].size = size]
    BY <1>1, <1>2
<1> QED
    BY <1>3 DEF before, after, Resized

----------------------------------------------------------------------------
(* Slab implements PriceTimeBook with time priority.                        *)

\* CreateSlab leaves an empty book.
LEMMA InitRefines == Init => PriceTime!Init
<1> SUFFICES ASSUME Init PROVE PriceTime!Init
    OBVIOUS
<1>1. SlabInv
    BY InitSound
<1>2. PICK queue, fl, at, lv :
            Shared(trees, nodes, pool_free_head, next_order_id, active_count, queue, fl, at, lv)
    BY <1>1 DEF SlabInv
<1>3. \A s \in Sides : LeafNodes(trees[s]) = {}
    BY DEF Init, LeafNodes, Free
<1>4. \A n \in PoolIndices : at[n] = "FREE"
    BY <1>2, <1>3, SitsOnLeaf
<1>5. {m \in PoolIndices : at[m] # "FREE"} = {}
    BY <1>4
<1>6. Book(trees, nodes, at, lv) = [h \in {} |-> 0]
    BY <1>5 DEF Book
<1>7. RestingOrders = [h \in {} |-> 0]
    BY <1>1, <1>2, <1>6, BookRead
<1> QED
    BY <1>7 DEF Init, PriceTime!Init

\* SlabPlaceOrder is Place: the order rests under the pool node that was free.
LEMMA PlaceRefines ==
    ASSUME SlabInv, NEW side \in Sides, NEW price \in Prices, NEW size \in Sizes,
           SlabPlaceOrder(side, price, size)
    PROVE  PriceTime!Place
<1> DEFINE n == pool_free_head
           B == RestingOrders
<1>1. /\ size \in Nat \ {0} /\ price \in Nat \ {0} /\ taker = NoTaker
      /\ InsertOrder(side, price, size) /\ taker' = taker
    BY InputAssumption DEF SlabPlaceOrder, PriceRange
<1>2. PICK queue, fl, at, lv :
            Shared(trees, nodes, pool_free_head, next_order_id, active_count, queue, fl, at, lv)
    BY DEF SlabInv
<1>3. /\ SlabInv'
      /\ \E queue2, fl2, leaf :
            /\ Entered(trees, nodes, trees', nodes', at, n, side, leaf, price, next_order_id, size)
            /\ Shared(trees', nodes', pool_free_head', next_order_id', active_count',
                      queue2, fl2, Put(at, n, side), Put(lv, n, leaf))
    BY <1>1, <1>2, InsertSound
<1>4. PICK queue2, fl2, leaf :
            /\ Entered(trees, nodes, trees', nodes', at, n, side, leaf, price, next_order_id, size)
            /\ Shared(trees', nodes', pool_free_head', next_order_id', active_count',
                      queue2, fl2, Put(at, n, side), Put(lv, n, leaf))
    BY <1>3
<1> DEFINE after == Book(trees', nodes', Put(at, n, side), Put(lv, n, leaf))
<1>5. B = Book(trees, nodes, at, lv)
    BY <1>2, BookRead
<1>6. B' = after
    BY <1>3, <1>4, BookReadNext
<1>7. /\ n \in PoolIndices /\ n \notin DOMAIN B /\ DOMAIN after = DOMAIN B \union {n}
      /\ after[n] = [id |-> next_order_id, side |-> side, price |-> price, size |-> size]
      /\ \A g \in DOMAIN B : after[g] = B[g]
    <2> DEFINE before == Book(trees, nodes, at, lv)
    <2>1. /\ n \in PoolIndices /\ n \notin DOMAIN before /\ DOMAIN after = DOMAIN before \union {n}
          /\ after[n] = [id |-> next_order_id, side |-> side, price |-> price, size |-> size]
          /\ \A g \in DOMAIN before : after[g] = before[g]
        BY ONLY <1>2, <1>4, side \in Sides, BookEntered
    <2> HIDE DEF B, after, n
    <2> QED
        BY <1>5, <2>1
<1>8. next_order_id \in Nat /\ next_order_id < U64_MAX /\ next_order_id' = next_order_id + 1
      /\ U64_MAX \in Nat
    BY <1>1, InputAssumption DEF InsertOrder, SlabInv
<1> HIDE DEF after
<1>9. after[n] \in PriceTime!Orders /\ after[n].id = next_order_id
    BY <1>1, <1>7, <1>8 DEF PriceTime!Orders, PriceTime!Sides, Sides
<1>10. next_order_id' = PriceTime!Min({next_order_id + 1, U64_MAX})
    <2>1. next_order_id + 1 \in Nat
        BY <1>8
    <2>2. PriceTime!Min({next_order_id + 1, U64_MAX}) = Min({next_order_id + 1, U64_MAX})
        BY DEF Min, PriceTime!Min
    <2>3. Min({next_order_id + 1, U64_MAX}) \in {next_order_id + 1, U64_MAX}
          /\ Min({next_order_id + 1, U64_MAX}) <= next_order_id + 1
          /\ Min({next_order_id + 1, U64_MAX}) <= U64_MAX
        BY <1>8, <2>1, LesserOfTwo
    <2> QED
        BY <1>8, <2>2, <2>3
<1> HIDE DEF B, n
<1>11. n \in PoolIndices \ DOMAIN B /\ DOMAIN B' = DOMAIN B \union {n}
       /\ B'[n] \in PriceTime!Orders /\ B'[n].id = next_order_id
       /\ \A g \in DOMAIN B : B'[g] = B[g]
    BY <1>6, <1>7, <1>9
<1> QED
    BY <1>1, <1>10, <1>11 DEF PriceTime!Place, B

\* What is not written reads the same.
LEMMA BookUnchanged ==
    ASSUME UNCHANGED <<trees, nodes>> PROVE RestingOrders' = RestingOrders
BY DEF RestingOrders, Levels, Leaves, Subtree, Children, Queue, Follow, NextNode

\* SlabMatch is Take: a taker appears and the book stays.
LEMMA TakeRefines ==
    ASSUME NEW side \in Sides, NEW limit \in Limits, NEW size \in Sizes,
           NEW max_fills \in FillCaps, SlabMatch(side, limit, size, max_fills)
    PROVE  PriceTime!Take
<1>1. taker' \in PriceTime!Takers
    BY InputAssumption DEF SlabMatch, PriceTime!Takers, PriceTime!Sides, Sides
<1>2. UNCHANGED <<trees, nodes, next_order_id>> /\ taker = NoTaker
    BY DEF SlabMatch
<1> QED
    BY <1>1, <1>2, BookUnchanged DEF PriceTime!Take

\* The orders that cross are those of the other side whose level does.
LEMMA CrossingMakers ==
    ASSUME SlabInv, taker \in Takers, NEW queue, NEW fl, NEW at, NEW lv,
           Shared(trees, nodes, pool_free_head, next_order_id, active_count, queue, fl, at, lv)
    PROVE  LET B == Book(trees, nodes, at, lv)
           IN \A g : g \in PriceTime!Crossing(B, taker)
                     <=> /\ g \in PoolIndices /\ at[g] = MakerSide
                         /\ lv[g] \in LeafNodes(trees[MakerSide])
                         /\ B[g].price = trees[MakerSide].nodes[lv[g]].price
                         /\ Crosses(B[g].price)
<1> DEFINE B == Book(trees, nodes, at, lv)
<1>1. DOMAIN B = {m \in PoolIndices : at[m] # "FREE"}
      /\ \A g \in DOMAIN B : B[g].side = at[g] /\ B[g].price = trees[at[g]].nodes[lv[g]].price
    BY DEF Book
<1> HIDE DEF B
<1>2. \A g \in DOMAIN B : at[g] \in Sides /\ lv[g] \in LeafNodes(trees[at[g]])
    BY <1>1, SitsOnLeaf
<1>3. /\ MakerSide \in Sides /\ MakerSide # "FREE"
      /\ \A s \in Sides : s # taker.side <=> s = MakerSide
    BY DEF MakerSide, Sides, Takers
<1>4. \A p : PriceTime!Accepts(taker, p) <=> Crosses(p)
    BY DEF PriceTime!Accepts, Crosses
<1>5. \A g : g \in PriceTime!Crossing(B, taker)
             <=> g \in DOMAIN B /\ B[g].side # taker.side /\ Crosses(B[g].price)
    BY <1>4 DEF PriceTime!Crossing
<1>6. ASSUME NEW g \in DOMAIN B
      PROVE  B[g].side # taker.side <=> at[g] = MakerSide
    BY <1>1, <1>2, <1>3
<1>7. ASSUME NEW g \in PoolIndices, at[g] = MakerSide PROVE g \in DOMAIN B
    BY <1>1, <1>3, <1>7
<1> QED
    BY <1>1, <1>2, <1>5, <1>6, <1>7 DEF B

\* The head of the best level is a best order of the abstract book.
LEMMA HeadIsBest ==
    ASSUME SlabInv, taker \in Takers, NEW queue, NEW fl, NEW at, NEW lv,
           Shared(trees, nodes, pool_free_head, next_order_id, active_count, queue, fl, at, lv),
           NEW leaf, NEW h, NEW fill, FillsAt(leaf, h, fill)
    PROVE  h \in PriceTime!Best(Book(trees, nodes, at, lv), taker)
<1> DEFINE t == trees[MakerSide]
           B == Book(trees, nodes, at, lv)
           Price(c) == t.nodes[c].price
<1>1. /\ t.root # SLAB_NONE_INDEX /\ leaf = BestLeaf(t, MakerSide = "BID")
      /\ leaf \in LeafNodes(t) /\ h = t.nodes[leaf].head_node /\ Crosses(Price(leaf))
    BY DEF FillsAt, LevelCrosses
<1>2. MakerSide \in Sides /\ Sound(t)
    BY DEF MakerSide, Sides, SlabInv
<1>3. \A c \in LeafNodes(t) \ {leaf} :
        IF MakerSide = "BID" THEN Price(c) < Price(leaf) ELSE Price(c) > Price(leaf)
    BY <1>1, <1>2, BestLeafIsBest
<1>4. \A c \in LeafNodes(t) : Price(c) \in Nat
    BY <1>2, KindOfNode DEF Sound, IsTree, LeafNodes, LeafTreeNodes, PriceRange
<1>5. /\ h \in PoolIndices /\ at[h] = MakerSide /\ lv[h] = leaf /\ at[h] # "FREE"
      /\ \A g \in PoolIndices :
            at[g] = MakerSide /\ lv[g] = leaf => nodes[h].order_id <= nodes[g].order_id
    BY <1>1, <1>2, HeadIsOldest
<1>6. \A g : g \in PriceTime!Crossing(B, taker)
              <=> /\ g \in PoolIndices /\ at[g] = MakerSide /\ lv[g] \in LeafNodes(t)
                  /\ B[g].price = Price(lv[g]) /\ Crosses(B[g].price)
    BY CrossingMakers
<1>7. \A g \in PoolIndices : at[g] = MakerSide =>
            B[g].price = Price(lv[g]) /\ B[g].id = nodes[g].order_id
    BY <1>2 DEF Book, Sides
<1> HIDE DEF B, t, Price
<1>8. h \in PriceTime!Crossing(B, taker) /\ B[h].price = Price(leaf)
    BY <1>1, <1>5, <1>6, <1>7
<1>9. ASSUME NEW g \in PriceTime!Crossing(B, taker)
      PROVE  /\ PriceTime!NoWorse(taker, B[h], B[g])
             /\ B[g].price = B[h].price => B[h].id <= B[g].id
    <2>1. /\ g \in PoolIndices /\ at[g] = MakerSide /\ lv[g] \in LeafNodes(t)
          /\ B[g].price = Price(lv[g])
        BY <1>6
    <2>2. CASE lv[g] = leaf
        <3>1. B[g].price = B[h].price /\ B[h].price \in Nat
            BY <1>1, <1>4, <1>8, <2>1, <2>2
        <3>2. PriceTime!NoWorse(taker, B[h], B[g])
            BY <3>1 DEF PriceTime!NoWorse
        <3>3. B[h].id <= B[g].id
            BY <1>5, <1>7, <2>1, <2>2
        <3> QED
            BY <3>2, <3>3
    <2>3. CASE lv[g] # leaf
        <3>1. IF MakerSide = "BID" THEN B[g].price < B[h].price ELSE B[g].price > B[h].price
            BY <1>3, <1>8, <2>1, <2>3
        <3>2. B[g].price \in Nat /\ B[h].price \in Nat
            BY <1>1, <1>4, <1>8, <2>1
        <3>3. taker.side = "BID" <=> MakerSide = "ASK"
            BY DEF MakerSide
        <3>4. MakerSide = "BID" \/ MakerSide = "ASK"
            BY DEF MakerSide
        <3> QED
            BY <3>1, <3>2, <3>3, <3>4 DEF PriceTime!NoWorse
    <2> QED
        BY <2>2, <2>3
<1> QED
    BY <1>8, <1>9 DEF PriceTime!Best, B

\* SlabFill is Fill: taker and best maker give up the same amount.
LEMMA FillRefines ==
    ASSUME SlabInv, SlabFill
    PROVE  PriceTime!Fill
<1> DEFINE B == RestingOrders
<1>1. PICK leaf, h, fill : FillsAt(leaf, h, fill)
    BY FillMeetsMaker
<1>2. PICK queue, fl, at, lv :
            Shared(trees, nodes, pool_free_head, next_order_id, active_count, queue, fl, at, lv)
    BY DEF SlabInv
<1> DEFINE before == Book(trees, nodes, at, lv)
<1>3. B = before
    BY <1>2, BookRead
<1>4. taker \in Takers /\ SlabInv'
    BY <1>1, FillSound DEF FillsAt
<1>5. h \in PriceTime!Best(before, taker)
    BY <1>1, <1>2, <1>4, HeadIsBest
<1>6. /\ MakerSide \in Sides /\ leaf \in LeafNodes(trees[MakerSide])
      /\ h = trees[MakerSide].nodes[leaf].head_node
    BY <1>1 DEF FillsAt, MakerSide, Sides
<1>7. /\ h \in PoolIndices /\ at[h] # "FREE"
      /\ at \in [PoolIndices -> Sides \union {"FREE"}] /\ nodes \in [PoolIndices -> PoolNodes]
    <2>1. h \in PoolIndices /\ at[h] # "FREE"
        BY <1>2, <1>6, HeadIsOldest
    <2>2. at \in [PoolIndices -> Sides \union {"FREE"}] /\ nodes \in [PoolIndices -> PoolNodes]
        BY <1>2 DEF Shared
    <2> QED
        BY <2>1, <2>2
<1>8. before[h].size = nodes[h].size
    BY <1>7 DEF Book
<1>9. fill = PriceTime!Min({taker.remaining, before[h].size})
    <2> HIDE DEF before
    <2>1. fill = Min({taker.remaining, nodes[h].size})
        BY <1>1 DEF FillsAt, FillSize
    <2> QED
        BY <1>8, <2>1 DEF Min, PriceTime!Min
<1>10. B' = IF fill = before[h].size THEN [g \in DOMAIN before \ {h} |-> before[g]]
            ELSE [before EXCEPT ![h].size = @ - fill]
    <2>1. CASE fill = nodes[h].size
        <3>1. /\ PopHead(leaf) /\ UNCHANGED next_order_id /\ taker' \in Takers
            BY <1>1, <2>1 DEF FillsAt
        <3>2. Gone(trees, nodes, trees', nodes', h)
            BY <1>2, <1>6, <3>1, PopSound
        <3>3. \E queue2, fl2 :
                Shared(trees', nodes', pool_free_head', next_order_id', active_count',
                       queue2, fl2, Put(at, h, "FREE"), lv)
            BY <1>2, <1>6, <3>1, PopSound
        <3>4. PICK queue2, fl2 :
                    Shared(trees', nodes', pool_free_head', next_order_id', active_count',
                           queue2, fl2, Put(at, h, "FREE"), lv)
            BY <3>3
        <3>5. B' = Book(trees', nodes', Put(at, h, "FREE"), lv)
            BY <1>4, <3>4, BookReadNext
        <3>6. Book(trees', nodes', Put(at, h, "FREE"), lv) = Without(before, h)
            BY ONLY <1>7, <3>2, <3>4, BookGone
        <3> HIDE DEF before, B
        <3> QED
            BY <1>8, <2>1, <3>5, <3>6 DEF Without
    <2>2. CASE fill # nodes[h].size
        <3> DEFINE rest == nodes[h].size - fill
        <3>1. /\ nodes' = [nodes EXCEPT ![h].size = rest] /\ trees' = trees
              /\ nodes[h].size \in Nat /\ fill \in Nat /\ fill <= nodes[h].size
            BY <1>1, <2>2, Zenon DEF FillsAt
        <3>2. rest \in Nat
            BY <3>1
        <3>3. Shared(trees', nodes', pool_free_head', next_order_id', active_count',
                     queue, fl, at, lv)
            BY <1>1, <1>2, <2>2, PartFillShares
        <3>4. B' = Book(trees', nodes', at, lv)
            BY <1>4, <3>3, BookReadNext
        <3>5. \A g \in PoolIndices : /\ nodes'[g].order_id = nodes[g].order_id
                                     /\ nodes'[g].size = IF g = h THEN rest ELSE nodes[g].size
            BY <1>7, <3>1, <3>2 DEF PoolNodes
        <3> HIDE DEF rest
        <3>6. Book(trees, nodes', at, lv) = Resized(before, h, rest)
            BY ONLY <1>7, <3>5, BookReduced
        <3>7. B' = Resized(before, h, rest)
            <4> HIDE DEF B
            <4> QED
                BY <3>1, <3>4, <3>6
        <3> HIDE DEF before, B
        <3>8. Resized(before, h, rest) = [before EXCEPT ![h].size = @ - fill]
            BY <1>8 DEF rest, Resized
        <3> QED
            BY <1>8, <2>2, <3>7, <3>8
    <2> QED
        BY <2>1, <2>2
<1>11. /\ taker # NoTaker /\ taker.remaining > 0 /\ taker.fills_left > 0
       /\ taker' = [taker EXCEPT !.remaining = @ - fill, !.fills_left = @ - 1]
       /\ UNCHANGED next_order_id
    BY <1>1, <1>4, TakerAssumption DEF FillsAt
<1> HIDE DEF before
<1> QED
    BY <1>3, <1>5, <1>9, <1>10, <1>11 DEF PriceTime!Fill, B

\* SlabMatchEnd is Done: if the best level does not cross, no order does.
LEMMA DoneRefines ==
    ASSUME SlabInv, SlabMatchEnd
    PROVE  PriceTime!Done
<1>1. taker \in Takers /\ taker # NoTaker /\ taker' = NoTaker
    BY DEF SlabMatchEnd, SlabInv
<1>2. RestingOrders' = RestingOrders /\ UNCHANGED next_order_id
    BY BookUnchanged DEF SlabMatchEnd
<1>3. ASSUME ~ LevelCrosses PROVE PriceTime!Crossing(RestingOrders, taker) = {}
    <2>1. PICK queue, fl, at, lv :
            Shared(trees, nodes, pool_free_head, next_order_id, active_count, queue, fl, at, lv)
        BY DEF SlabInv
    <2> DEFINE t == trees[MakerSide]
               B == Book(trees, nodes, at, lv)
               best == BestLeaf(t, MakerSide = "BID")
               Price(c) == t.nodes[c].price
    <2>2. RestingOrders = B
        BY <2>1, BookRead
    <2>3. SUFFICES ASSUME NEW g \in PriceTime!Crossing(B, taker) PROVE FALSE
        BY <2>2
    <2>4. /\ g \in PoolIndices /\ at[g] = MakerSide /\ lv[g] \in LeafNodes(t)
          /\ Crosses(Price(lv[g]))
        BY <1>1, <2>1, CrossingMakers
    <2>5. MakerSide \in Sides /\ Sound(t)
        BY DEF MakerSide, Sides, SlabInv
    <2>6. t.root # SLAB_NONE_INDEX
        <3>1. PICK sub : Rooted(t, sub)
            BY <2>5 DEF Sound, IsTree
        <3>2. lv[g] \in Live(t)
            BY <2>4 DEF LeafNodes, Live
        <3>3. SLAB_NONE_INDEX \notin TreeIndices
            BY CapacityAssumption
        <3> HIDE DEF t
        <3> QED
            BY <3>1, <3>2, <3>3 DEF Rooted, Live
    <2>7. /\ best \in LeafNodes(t)
          /\ \A c \in LeafNodes(t) \ {best} :
                IF MakerSide = "BID" THEN Price(c) < Price(best) ELSE Price(c) > Price(best)
        BY <2>5, <2>6, BestLeafIsBest
    <2>8. t.nodes[best].head_node # SLAB_NONE_INDEX
        <3>1. t.nodes[best].head_node \in PoolIndices
            BY <2>1, <2>5, <2>7, HeadIsOldest
        <3> QED
            BY <3>1, CapacityAssumption
    <2>9. ~ Crosses(Price(best))
        BY <1>3, <2>6, <2>8 DEF LevelCrosses
    <2>10. \A c \in LeafNodes(t) : Price(c) \in Nat
        BY <2>5, KindOfNode DEF Sound, IsTree, LeafNodes, LeafTreeNodes, PriceRange
    <2>11. /\ taker.limit \in Nat
           /\ MakerSide \in {"BID", "ASK"}
           /\ (taker.side = "BID" <=> MakerSide = "ASK")
        BY <1>1 DEF MakerSide, Takers
    <2> HIDE DEF t, B, best, Price
    <2>12. CASE lv[g] = best
        BY <2>4, <2>9, <2>12
    <2>13. CASE lv[g] # best
        <3>1. Price(lv[g]) \in Nat /\ Price(best) \in Nat
            BY <2>4, <2>7, <2>10
        <3>2. IF MakerSide = "BID" THEN Price(lv[g]) < Price(best) ELSE Price(lv[g]) > Price(best)
            BY <2>4, <2>7, <2>13
        <3> QED
            BY <2>4, <2>9, <2>11, <3>1, <3>2 DEF Crosses
    <2> QED
        BY <2>12, <2>13
<1>4. taker.remaining = 0 \/ taker.fills_left = 0 \/ ~ LevelCrosses
    BY DEF SlabMatchEnd
<1> QED
    BY <1>1, <1>2, <1>3, <1>4 DEF PriceTime!Done

\* Every step of the slab is a step of the abstract book or a stutter.
LEMMA NextRefines == SlabInv /\ [Next]_vars => [PriceTime!Next]_PriceTime!bookVars
<1> SUFFICES ASSUME SlabInv, [Next]_vars
             PROVE  PriceTime!Next \/ UNCHANGED PriceTime!bookVars
    BY DEF PriceTime!bookVars
<1>1. CASE \E side \in Sides, price \in Prices, size \in Sizes : SlabPlaceOrder(side, price, size)
    BY <1>1, PlaceRefines DEF PriceTime!Next
<1>2. CASE \E side \in Sides, limit \in Limits, size \in Sizes, max_fills \in FillCaps :
                SlabMatch(side, limit, size, max_fills)
    BY <1>2, TakeRefines DEF PriceTime!Next
<1>3. CASE SlabFill
    BY <1>3, FillRefines DEF PriceTime!Next
<1>4. CASE SlabMatchEnd
    BY <1>4, DoneRefines DEF PriceTime!Next
<1>5. CASE UNCHANGED vars
    BY <1>5, BookUnchanged DEF vars, PriceTime!bookVars
<1> QED
    BY <1>1, <1>2, <1>3, <1>4, <1>5 DEF Next

\* Every behaviour of the slab is one of the price-time book: best price first,
\* oldest first within a price, orders change by nothing but fills, and a match
\* that stops with fills and size to spare leaves nothing that crosses.
THEOREM SlabRefines == Spec => RefinesPriceTimeBook
<1>1. Spec => PriceTime!Spec
    BY InitRefines, NextRefines, SlabStaysSound, PTL DEF Spec, PriceTime!Spec
<1> QED
    BY <1>1 DEF RefinesPriceTimeBook

----------------------------------------------------------------------------
(* How many price levels a tree can have, and which orders it turns away.   *)

\* The nodes of a tree are finitely many.
LEMMA TreeIsFinite ==
    /\ IsFiniteSet(TreeIndices) /\ Cardinality(TreeIndices) = SLAB_TREE_CAPACITY
    /\ \A S \in SUBSET TreeIndices : IsFiniteSet(S) /\ Cardinality(S) \in Nat
<1>1. IsFiniteSet(TreeIndices) /\ Cardinality(TreeIndices) = SLAB_TREE_CAPACITY
    BY FS_Interval, CapacityAssumption DEF TreeIndices
<1> QED
    BY <1>1, FS_Subset, FS_CardinalityType

\* Two disjoint sets of tree nodes have together as many as both.
LEMMA CountTogether ==
    ASSUME NEW S \in SUBSET TreeIndices, NEW T \in SUBSET TreeIndices, S \cap T = {}
    PROVE  Cardinality(S \union T) = Cardinality(S) + Cardinality(T)
<1>1. /\ IsFiniteSet(S) /\ IsFiniteSet(T)
      /\ Cardinality(S) \in Nat /\ Cardinality(T) \in Nat
    BY TreeIsFinite
<1>2. Cardinality(S \union T) = Cardinality(S) + Cardinality(T) - Cardinality(S \cap T)
    BY <1>1, FS_Union
<1>3. Cardinality(S \cap T) = 0
    BY FS_EmptySet
<1> QED
    BY <1>1, <1>2, <1>3

\* A subtree has one leaf more than it has inner nodes: a subtree with the
\* fewest nodes for which it were otherwise would not be a leaf, and both of
\* its children would be smaller.
LEMMA OneLeafMore ==
    ASSUME NEW t, NEW sub, IsTree(t, sub), NEW x \in Live(t)
    PROVE  Cardinality(sub[x] \cap LeafNodes(t)) = Cardinality(sub[x] \cap Inners(t)) + 1
<1> DEFINE L(c) == sub[c] \cap LeafNodes(t)
           I(c) == sub[c] \cap Inners(t)
           Bad == {c \in Live(t) : Cardinality(L(c)) # Cardinality(I(c)) + 1}
           Counts == {Cardinality(sub[c]) : c \in Bad}
<1>1. /\ t \in Trees /\ sub \in [Live(t) -> SUBSET Live(t)]
      /\ Live(t) = Inners(t) \union LeafNodes(t) /\ Inners(t) \cap LeafNodes(t) = {}
      /\ Live(t) \subseteq TreeIndices
    BY LiveNodes DEF IsTree, Branches, Live
<1>2. \A c \in Live(t) :
            /\ sub[c] \in SUBSET TreeIndices /\ L(c) \in SUBSET TreeIndices
            /\ I(c) \in SUBSET TreeIndices
            /\ Cardinality(sub[c]) \in Nat /\ Cardinality(L(c)) \in Nat /\ Cardinality(I(c)) \in Nat
    <2>1. \A c \in Live(t) : sub[c] \in SUBSET TreeIndices /\ L(c) \in SUBSET TreeIndices
                             /\ I(c) \in SUBSET TreeIndices
        BY <1>1
    <2> HIDE DEF L, I
    <2> QED
        BY <2>1, TreeIsFinite
<1>3. SUFFICES ASSUME Bad # {} PROVE FALSE
    OBVIOUS
<1>4. Counts \in SUBSET Nat /\ Counts # {}
    <2>1. \A c \in Bad : Cardinality(sub[c]) \in Nat
        BY <1>2
    <2> HIDE DEF Bad
    <2> QED
        BY <1>3, <2>1
<1>5. PICK m \in Counts : \A k \in Counts : m <= k
    BY <1>4, Least
<1>6. PICK c \in Bad : m = Cardinality(sub[c])
    OBVIOUS
<1>7. c \in Live(t) /\ Cardinality(L(c)) # Cardinality(I(c)) + 1
    OBVIOUS
<1>8. CASE c \in LeafNodes(t)
    <2>1. L(c) = {c} /\ I(c) = {}
        BY <1>1, <1>8 DEF IsTree, Branches
    <2> HIDE DEF L, I
    <2>2. Cardinality({c}) = 1 /\ Cardinality({}) = 0
        BY FS_Singleton, FS_EmptySet
    <2> QED
        BY <1>7, <2>1, <2>2
<1>9. CASE c \in Inners(t)
    <2> DEFINE l == t.nodes[c].left_child
               r == t.nodes[c].right_child
    <2>1. /\ l \in Live(t) /\ r \in Live(t)
          /\ sub[c] = {c} \union sub[l] \union sub[r]
          /\ c \notin sub[l] /\ c \notin sub[r] /\ sub[l] \cap sub[r] = {}
        BY <1>9 DEF IsTree, Branches
    <2> HIDE DEF l, r
    <2>2. ASSUME NEW d \in {l, r} PROVE Cardinality(L(d)) = Cardinality(I(d)) + 1
        <3>1. d \in Live(t) /\ c \notin sub[d] /\ {c} \union sub[d] \subseteq sub[c]
            BY <2>1, <2>2
        <3>2. {c} \in SUBSET TreeIndices /\ sub[d] \in SUBSET TreeIndices
              /\ sub[c] \in SUBSET TreeIndices /\ {c} \cap sub[d] = {}
            BY <1>1, <1>2, <1>7, <3>1
        <3>3. Cardinality({c} \union sub[d]) = 1 + Cardinality(sub[d])
            <4>1. Cardinality({c}) = 1
                BY FS_Singleton
            <4>2. Cardinality({c} \union sub[d]) = Cardinality({c}) + Cardinality(sub[d])
                BY ONLY <3>2, CountTogether
            <4> QED
                BY <4>1, <4>2
        <3>4. Cardinality({c} \union sub[d]) <= Cardinality(sub[c])
            BY <3>1, <3>2, TreeIsFinite, FS_Subset
        <3>5. Cardinality(sub[d]) < m
            <4>1. Cardinality(sub[d]) \in Nat /\ Cardinality(sub[c]) \in Nat
                BY <1>2, <1>7, <3>1
            <4> QED
                BY <1>6, <3>3, <3>4, <4>1
        <3>6. d \notin Bad
            <4>1. SUFFICES ASSUME d \in Bad PROVE FALSE
                OBVIOUS
            <4>2. Cardinality(sub[d]) \in Counts
                BY <4>1
            <4>3. m <= Cardinality(sub[d]) /\ m \in Nat /\ Cardinality(sub[d]) \in Nat
                BY <1>4, <1>5, <4>2
            <4> HIDE DEF Counts, Bad
            <4> QED
                BY <3>5, <4>3
        <3> QED
            BY <3>1, <3>6
    <2>3. /\ L(c) = L(l) \union L(r) /\ L(l) \cap L(r) = {}
          /\ I(c) = {c} \union (I(l) \union I(r)) /\ I(l) \cap I(r) = {}
          /\ {c} \cap (I(l) \union I(r)) = {}
          /\ {c} \in SUBSET TreeIndices
        BY <1>1, <1>9, <2>1
    <2>4. /\ L(l) \in SUBSET TreeIndices /\ L(r) \in SUBSET TreeIndices
          /\ I(l) \in SUBSET TreeIndices /\ I(r) \in SUBSET TreeIndices
          /\ Cardinality(L(l)) \in Nat /\ Cardinality(L(r)) \in Nat
          /\ Cardinality(I(l)) \in Nat /\ Cardinality(I(r)) \in Nat
        BY <1>2, <2>1
    <2> HIDE DEF L, I
    <2>5. Cardinality(L(c)) = Cardinality(L(l)) + Cardinality(L(r))
        BY <2>3, <2>4, CountTogether
    <2>6. Cardinality(I(c)) = 1 + (Cardinality(I(l)) + Cardinality(I(r)))
        <3>1. Cardinality(I(l) \union I(r)) = Cardinality(I(l)) + Cardinality(I(r))
            BY <2>3, <2>4, CountTogether
        <3>2. I(l) \union I(r) \in SUBSET TreeIndices
            BY <2>4
        <3>3. Cardinality({c} \union (I(l) \union I(r))) =
                    Cardinality({c}) + Cardinality(I(l) \union I(r))
            BY <2>3, <3>2, CountTogether
        <3>4. Cardinality({c}) = 1
            BY FS_Singleton
        <3> QED
            BY <2>3, <3>1, <3>3, <3>4
    <2>7. Cardinality(L(l)) = Cardinality(I(l)) + 1 /\ Cardinality(L(r)) = Cardinality(I(r)) + 1
        BY <2>2
    <2> QED
        BY <1>7, <2>4, <2>5, <2>6, <2>7
<1> QED
    BY <1>1, <1>7, <1>8, <1>9

\* The length of a free list is the number of free nodes: those that the leaves,
\* and one inner node less than there are leaves, do not take.
LEMMA FreeNodesLeft ==
    ASSUME NEW t, NEW sub, IsTree(t, sub), NEW fl, FreeList(t, fl)
    PROVE  LET n == Cardinality(LeafNodes(t))
           IN  /\ n \in Nat
               /\ n = 0 <=> t.root = SLAB_NONE_INDEX
               /\ Len(fl) = SLAB_TREE_CAPACITY - (IF n = 0 THEN 0 ELSE 2 * n - 1)
<1> DEFINE n == Cardinality(LeafNodes(t))
           i == Cardinality(Inners(t))
           FreeNodes == TreeIndices \ Live(t)
<1>1. /\ t \in Trees /\ Live(t) = Inners(t) \union LeafNodes(t)
      /\ Inners(t) \cap LeafNodes(t) = {}
      /\ Live(t) \in SUBSET TreeIndices /\ FreeNodes \in SUBSET TreeIndices
      /\ Inners(t) \in SUBSET TreeIndices /\ LeafNodes(t) \in SUBSET TreeIndices
    BY LiveNodes DEF IsTree, Live, Inners, LeafNodes
<1>2. n \in Nat /\ i \in Nat /\ SLAB_TREE_CAPACITY \in Nat
    BY <1>1, TreeIsFinite, CapacityAssumption
<1>3. Cardinality(Live(t)) = i + n
    BY <1>1, CountTogether
<1>4. Cardinality(FreeNodes) = SLAB_TREE_CAPACITY - (i + n)
    <2>1. TreeIndices = FreeNodes \union Live(t) /\ FreeNodes \cap Live(t) = {}
        BY <1>1
    <2>2. Cardinality(FreeNodes \union Live(t)) = Cardinality(FreeNodes) + Cardinality(Live(t))
        BY <1>1, <2>1, CountTogether
    <2>3. Cardinality(FreeNodes) \in Nat
        BY <1>1, TreeIsFinite
    <2> HIDE DEF FreeNodes, n, i
    <2> QED
        BY <1>2, <1>3, <2>1, <2>2, <2>3, TreeIsFinite
<1>5. Len(fl) = Cardinality(FreeNodes)
    <2>1. fl \in Seq(TreeIndices) /\ Len(fl) \in Nat
        BY DEF FreeList
    <2>2. \A c \in TreeIndices : c \in FreeNodes <=> \E k \in 1 .. Len(fl) : fl[k] = c
        BY DEF FreeList, Live
    <2> DEFINE f == [k \in 1 .. Len(fl) |-> fl[k]]
    <2>3. f \in [1 .. Len(fl) -> FreeNodes]
        BY <2>1, <2>2
    <2>4. f \in Bijection(1 .. Len(fl), FreeNodes)
        BY <1>1, <2>1, <2>2, <2>3 DEF FreeList, Bijection, Injection, Surjection, IsInjective
    <2>5. IsFiniteSet(1 .. Len(fl)) /\ Cardinality(1 .. Len(fl)) = Len(fl)
        <3>1. \A k \in Nat : IsFiniteSet(1 .. k) /\ Cardinality(1 .. k) = k
            BY FS_Interval
        <3> QED
            BY <2>1, <3>1
    <2> HIDE DEF FreeNodes, f
    <2>6. ExistsBijection(1 .. Len(fl), FreeNodes)
        BY <2>4 DEF ExistsBijection
    <2> QED
        BY <2>5, <2>6, FS_Bijection
<1> HIDE DEF FreeNodes
<1>6. CASE t.root = SLAB_NONE_INDEX
    <2>1. Live(t) = {}
        BY <1>6, CapacityAssumption DEF IsTree, Rooted, Live
    <2>2. n = 0 /\ i = 0
        BY <1>1, <2>1, FS_EmptySet
    <2> HIDE DEF n, i
    <2>3. Len(fl) = SLAB_TREE_CAPACITY - (IF n = 0 THEN 0 ELSE 2 * n - 1)
        BY <1>2, <1>4, <1>5, <2>2
    <2> QED
        BY <1>2, <1>6, <2>2, <2>3 DEF n
<1>7. CASE t.root # SLAB_NONE_INDEX
    <2>1. t.root \in Live(t) /\ sub[t.root] = Live(t)
        BY <1>7 DEF IsTree, Rooted
    <2>2. sub[t.root] \cap LeafNodes(t) = LeafNodes(t) /\ sub[t.root] \cap Inners(t) = Inners(t)
        BY <1>1, <2>1
    <2>3. n = i + 1
        BY <2>1, <2>2, OneLeafMore
    <2> HIDE DEF n, i
    <2>4. n # 0 /\ Len(fl) = SLAB_TREE_CAPACITY - (2 * n - 1)
        BY <1>2, <1>4, <1>5, <2>3
    <2> QED
        BY <1>2, <1>7, <2>4 DEF n
<1> QED
    BY <1>6, <1>7

\* The leaf of a price is where a descent by that price ends.
LEMMA PriceIsFound ==
    ASSUME NEW t, NEW sub, IsTree(t, sub), t.root # SLAB_NONE_INDEX,
           NEW i \in LeafNodes(t), NEW p, t.nodes[i].price = p
    PROVE  Last(PathToLeaf(t, p)) = i
<1> DEFINE q == PathToLeaf(t, p)
           next == Toward(t, p, 0)
           F == {c \in Live(t) : i \in sub[c]}
<1>1. IsPath(q, t.root, next) /\ Last(q) \in LeafNodes(t) /\ DOMAIN next = Inners(t)
    BY PathToLeafEnds
<1>2. /\ t \in Trees /\ Live(t) = Inners(t) \union LeafNodes(t)
      /\ Inners(t) \cap LeafNodes(t) = {}
    BY LiveNodes DEF IsTree
<1>3. t.root \in F
    BY <1>2 DEF IsTree, Rooted
<1>4. ASSUME NEW c \in F \cap DOMAIN next PROVE next[c] \in F
    <2> DEFINE l == t.nodes[c].left_child
               r == t.nodes[c].right_child
    <2>1. c \in Inners(t) /\ i \in sub[c] /\ next[c] = ChildToward(t.nodes[c], p)
        BY <1>1 DEF Toward
    <2>2. l \in Live(t) /\ r \in Live(t) /\ sub[c] = {c} \union sub[l] \union sub[r]
        BY <2>1 DEF IsTree, Branches
    <2>3. i \in sub[l] \/ i \in sub[r]
        BY <1>2, <2>1, <2>2
    <2>4. /\ i \in sub[l] => Bit(p, t.nodes[c].split_bit) = 0
          /\ i \in sub[r] => Bit(p, t.nodes[c].split_bit) = 1
        BY <2>1 DEF IsTree, PricesSplit
    <2> QED
        BY <2>1, <2>2, <2>3, <2>4 DEF ChildToward
<1> HIDE DEF q, next, F
<1>5. q[Len(q)] \in F
    BY <1>1, <1>3, <1>4, PassedAlong
<1>6. Last(q) = q[Len(q)]
    BY <1>1, PathEnd
<1> QED
    BY <1>1, <1>5, <1>6 DEF IsTree, Branches, F, q

\* A price has a level, or a tree of n levels has the nodes for one more: just
\* then does critbit_find_or_create_leaf succeed.
LEMMA LevelOrRoom ==
    ASSUME NEW t, Sound(t), NEW p \in PriceRange
    PROVE  FindOrCreateLeaf(t, p).ok <=>
                \/ \E i \in LeafNodes(t) : t.nodes[i].price = p
                \/ 2 * Cardinality(LeafNodes(t)) + 1 <= SLAB_TREE_CAPACITY
<1> DEFINE n == Cardinality(LeafNodes(t))
           Known == \E i \in LeafNodes(t) : t.nodes[i].price = p
           ok == FindOrCreateLeaf(t, p).ok
<1>1. PICK sub : IsTree(t, sub)
    BY DEF Sound
<1>2. PICK fl : FreeList(t, fl)
    BY DEF Sound
<1>3. /\ n \in Nat /\ (n = 0 <=> t.root = SLAB_NONE_INDEX)
      /\ Len(fl) = SLAB_TREE_CAPACITY - (IF n = 0 THEN 0 ELSE 2 * n - 1)
    BY <1>1, <1>2, FreeNodesLeft
<1>4. /\ t \in Trees /\ SLAB_TREE_CAPACITY \in Nat \ {0} /\ SLAB_NONE_INDEX \notin TreeIndices
      /\ fl \in Seq(TreeIndices) /\ Len(fl) \in Nat
    BY <1>1, <1>2, CapacityAssumption DEF IsTree, FreeList
<1>5. t.free_head = SLAB_NONE_INDEX <=> Len(fl) = 0
    BY <1>2, <1>4 DEF FreeList, LinkTo
<1>6. CASE t.root = SLAB_NONE_INDEX
    <2>1. FindOrCreateLeaf(t, p) = NewRoot(t, p)
        BY <1>6 DEF FindOrCreateLeaf
    <2>2. t.free_head # SLAB_NONE_INDEX
        BY <1>3, <1>4, <1>5, <1>6
    <2>3. ok = TRUE
        BY <2>1, <2>2 DEF NewRoot
    <2>4. 2 * n + 1 <= SLAB_TREE_CAPACITY
        BY <1>3, <1>4, <1>6
    <2> QED
        BY <2>3, <2>4
<1>7. CASE t.root # SLAB_NONE_INDEX
    <2> DEFINE found == Last(PathToLeaf(t, p))
               s == SharedBit(p, t.nodes[found].price)
    <2>1. found \in LeafNodes(t)
        BY <1>1, <1>7, PathToLeafEnds
    <2>2. Known <=> t.nodes[found].price = p
        <3>1. Known => t.nodes[found].price = p
            <4>1. ASSUME NEW i \in LeafNodes(t), t.nodes[i].price = p PROVE found = i
                BY <1>1, <1>7, <4>1, PriceIsFound
            <4> HIDE DEF found
            <4> QED
                BY <4>1
        <3> QED
            BY <2>1, <3>1
    <2>3. CASE t.nodes[found].price = p
        <3>1. FindOrCreateLeaf(t, p) = [ok |-> TRUE, leaf |-> found, tree |-> t]
            BY <1>7, <2>3 DEF FindOrCreateLeaf
        <3> QED
            BY <2>2, <2>3, <3>1
    <2>4. CASE t.nodes[found].price # p
        <3> DEFINE t1 == TreeAlloc(t, Leaf(p))
        <3>1. FindOrCreateLeaf(t, p) = Splice(t, p, s)
            BY <1>7, <2>4 DEF FindOrCreateLeaf
        <3>2. ok <=> t.free_head # SLAB_NONE_INDEX /\ t1.free_head # SLAB_NONE_INDEX
            <4> HIDE DEF s
            <4>1. t.free_head = SLAB_NONE_INDEX \/ t1.free_head = SLAB_NONE_INDEX
                        => Splice(t, p, s) = [ok |-> FALSE]
                BY DEF Splice
            <4>2. ~ (t.free_head = SLAB_NONE_INDEX \/ t1.free_head = SLAB_NONE_INDEX)
                        => Splice(t, p, s).ok = TRUE
                BY DEF Splice
            <4> QED
                BY <3>1, <4>1, <4>2
        <3>3. t.free_head # SLAB_NONE_INDEX =>
                    (t1.free_head = SLAB_NONE_INDEX <=> Len(fl) = 1)
            <4>1. SUFFICES ASSUME t.free_head # SLAB_NONE_INDEX
                           PROVE  t1.free_head = SLAB_NONE_INDEX <=> Len(fl) = 1
                OBVIOUS
            <4>2. FreeList(t1, Tail(fl))
                BY <1>2, <1>4, <4>1, LeafIsNode, AllocTakesHead
            <4>3. fl # <<>> /\ Len(fl) # 0
                BY <1>4, <1>5, <4>1
            <4>4. Tail(fl) \in Seq(TreeIndices) /\ Len(Tail(fl)) = Len(fl) - 1
                BY <1>4, <4>3, HeadTailProperties
            <4> HIDE DEF t1
            <4> QED
                BY <1>4, <4>2, <4>4 DEF FreeList, LinkTo
        <3> HIDE DEF t1
        <3>4. ok <=> Len(fl) >= 2
            <4>1. t.free_head # SLAB_NONE_INDEX /\ t1.free_head # SLAB_NONE_INDEX <=> Len(fl) >= 2
                <5>1. Len(fl) \in Nat
                    BY <1>4
                <5>2. \A k \in Nat : (k # 0 /\ k # 1) <=> k >= 2
                    OBVIOUS
                <5>3. (Len(fl) # 0 /\ Len(fl) # 1) <=> Len(fl) >= 2
                    BY <5>1, <5>2
                <5> QED
                    BY <1>5, <3>3, <5>3, Zenon
            <4> QED
                BY <3>2, <4>1, Zenon
        <3>5. Len(fl) >= 2 <=> 2 * n + 1 <= SLAB_TREE_CAPACITY
            BY <1>3, <1>4, <1>7
        <3> HIDE DEF ok, n, Known
        <3> QED
            BY <2>2, <2>4, <3>4, <3>5 DEF ok, n, Known
    <2> QED
        BY <2>3, <2>4
<1> QED
    BY <1>6, <1>7

\* The pool has a free node just as long as active_count is below its capacity.
LEMMA PoolRoom ==
    ASSUME SlabInv
    PROVE  pool_free_head # SLAB_NONE_INDEX <=> active_count < SLAB_POOL_CAPACITY
<1>1. PICK queue, fl, at, lv :
            Shared(trees, nodes, pool_free_head, next_order_id, active_count, queue, fl, at, lv)
    BY DEF SlabInv
<1> DEFINE Used == {n \in PoolIndices : at[n] # "FREE"}
<1>2. /\ active_count = Cardinality(Used) /\ IsFiniteSet(Used) /\ Used \in SUBSET PoolIndices
      /\ Cardinality(Used) \in 0 .. SLAB_POOL_CAPACITY
    BY <1>1, CountFits DEF Shared
<1>3. pool_free_head # SLAB_NONE_INDEX <=> Used # PoolIndices
    <2>1. /\ fl \in Seq(PoolIndices) /\ pool_free_head = LinkTo(fl, 1)
          /\ \A n \in PoolIndices : at[n] = "FREE" <=> \E k \in 1 .. Len(fl) : fl[k] = n
        BY <1>1 DEF Shared, PoolList, Holds
    <2>2. Len(fl) \in Nat /\ SLAB_NONE_INDEX \notin PoolIndices
        BY <2>1, CapacityAssumption
    <2>3. pool_free_head # SLAB_NONE_INDEX <=> Len(fl) # 0
        BY <2>1, <2>2 DEF LinkTo
    <2>4. Len(fl) # 0 <=> \E n \in PoolIndices : at[n] = "FREE"
        <3>1. Len(fl) # 0 => 1 \in 1 .. Len(fl) /\ fl[1] \in PoolIndices
            BY <2>1, <2>2
        <3> QED
            BY <2>1, <2>2, <3>1
    <2> QED
        BY <2>3, <2>4
<1> HIDE DEF Used
<1>4. Used # PoolIndices <=> Cardinality(Used) # SLAB_POOL_CAPACITY
    BY <1>2, PoolIsFinite, FS_Subset
<1> QED
    BY <1>2, <1>3, <1>4, CapacityAssumption

\* As many levels as the tree has leaves: no two leaves have one price.
LEMMA LevelsCounted ==
    ASSUME SlabInv, NEW s \in Sides
    PROVE  /\ Cardinality(Levels(s)) = Cardinality(LeafNodes(trees[s]))
           /\ \A p : (\E i \in LeafNodes(trees[s]) : trees[s].nodes[i].price = p)
                        <=> \E leaf \in Levels(s) : leaf.price = p
<1> DEFINE t == trees[s]
           f == [i \in LeafNodes(t) |-> t.nodes[i]]
<1>1. Sound(t) /\ t \in Trees
    BY DEF SlabInv
<1>2. PICK sub : IsTree(t, sub)
    BY <1>1 DEF Sound
<1>3. Levels(s) = {t.nodes[i] : i \in LeafNodes(t)}
    BY <1>1, LevelsAreLeaves
<1> HIDE DEF t
<1>4. ASSUME NEW i \in LeafNodes(t), NEW j \in LeafNodes(t), t.nodes[i].price = t.nodes[j].price
      PROVE  i = j
    <2>1. t.root # SLAB_NONE_INDEX
        <3>1. i \in Live(t)
            BY <1>1, LiveNodes
        <3> QED
            BY <1>2, <3>1, CapacityAssumption DEF IsTree, Rooted, Live
    <2> QED
        BY <1>2, <1>4, <2>1, PriceIsFound
<1>5. f \in Bijection(LeafNodes(t), Levels(s))
    BY <1>3, <1>4 DEF Bijection, Injection, Surjection, IsInjective
<1> HIDE DEF f
<1>6. IsFiniteSet(LeafNodes(t))
    BY TreeIsFinite DEF LeafNodes
<1>7. ExistsBijection(LeafNodes(t), Levels(s))
    BY <1>5 DEF ExistsBijection
<1>8. Cardinality(Levels(s)) = Cardinality(LeafNodes(t))
    BY <1>6, <1>7, FS_Bijection
<1> QED
    BY <1>3, <1>8 DEF t

\* However orders come and go, no side ever has more price levels than half the
\* nodes of its tree, rounded up, and a tree of n levels has 2 n - 1 of its nodes
\* in use: that is what SLAB_TREE_CAPACITY nodes are good for.
THEOREM LevelsFit ==
    Spec => [](\A s \in Sides :
                LET n == Cardinality(Levels(s))
                IN  /\ 2 * n <= SLAB_TREE_CAPACITY + 1
                    /\ Len(TreeFreeList(trees[s])) =
                            SLAB_TREE_CAPACITY - (IF n = 0 THEN 0 ELSE 2 * n - 1))
<1> DEFINE Fit(s) ==
        LET n == Cardinality(Levels(s))
        IN  /\ 2 * n <= SLAB_TREE_CAPACITY + 1
            /\ Len(TreeFreeList(trees[s])) =
                    SLAB_TREE_CAPACITY - (IF n = 0 THEN 0 ELSE 2 * n - 1)
<1>1. ASSUME SlabInv, NEW s \in Sides PROVE Fit(s)
    <2>1. PICK sub, fl : /\ IsTree(trees[s], sub) /\ FreeList(trees[s], fl)
                         /\ TreeFreeList(trees[s]) = fl
        BY <1>1, TreeRead
    <2>2. LET n == Cardinality(LeafNodes(trees[s]))
          IN  n \in Nat /\ Len(fl) = SLAB_TREE_CAPACITY - (IF n = 0 THEN 0 ELSE 2 * n - 1)
        BY <2>1, FreeNodesLeft
    <2>3. Cardinality(Levels(s)) = Cardinality(LeafNodes(trees[s]))
        BY <1>1, LevelsCounted
    <2>4. Len(fl) \in Nat /\ SLAB_TREE_CAPACITY \in Nat
        BY <2>1, CapacityAssumption DEF FreeList
    <2> QED
        BY <2>1, <2>2, <2>3, <2>4
<1>2. SlabInv => \A s \in Sides : Fit(s)
    BY <1>1
<1> QED
    BY <1>2, SlabStaysSound, PTL

\* SlabPlaceOrder with the values it leaves as parameters: the action is the case
\* in which they are those of the next state.
PlaceTo(side, price, size, trees2, nodes2, head2, id2, count2, taker2) ==
    LET n == pool_free_head
        found == FindOrCreateLeaf(trees[side], price)
        tail == found.tree.nodes[found.leaf].tail_node
    IN /\ taker = NoTaker
       /\ price # 0 /\ size # 0
       /\ n # SLAB_NONE_INDEX
       /\ next_order_id < U64_MAX
       /\ found.ok
       /\ trees2 = [trees EXCEPT ![side] =
                        [found.tree EXCEPT !.nodes[found.leaf] = JoinLevel(@, n)]]
       /\ nodes2 = [m \in PoolIndices |->
                IF m = n THEN [order_id |-> next_order_id, size |-> size,
                               next |-> SLAB_NONE_INDEX, prev |-> tail]
                ELSE IF m = tail THEN [nodes[m] EXCEPT !.next = n]
                ELSE nodes[m]]
       /\ head2 = nodes[n].next
       /\ id2 = next_order_id + 1
       /\ count2 = active_count + 1
       /\ taker2 = taker

\* The action is that case.
LEMMA PlaceRelation ==
    ASSUME NEW side, NEW price, NEW size
    PROVE  SlabPlaceOrder(side, price, size) <=>
                PlaceTo(side, price, size, trees', nodes', pool_free_head', next_order_id',
                        active_count', taker')
BY Zenon DEF SlabPlaceOrder, InsertOrder, PlaceTo

\* There is a next state that SlabPlaceOrder leads to.
CanPlace(side, price, size) ==
    \E trees2, nodes2, head2, id2, count2, taker2 :
        PlaceTo(side, price, size, trees2, nodes2, head2, id2, count2, taker2)

\* The slab takes an order just when the pool is not full, ids are not used up,
\* and the order's price has a level or its side fewer levels than fit. Nothing
\* else turns one away: no order of events wears the free lists out or strands
\* a node, and none makes a level unreachable.
THEOREM RoomForOrders ==
    Spec => [](\A s \in Sides, price \in Prices \ {0}, size \in Sizes \ {0} :
                taker = NoTaker =>
                    (CanPlace(s, price, size) <=>
                        /\ active_count < SLAB_POOL_CAPACITY
                        /\ next_order_id < U64_MAX
                        /\ \/ \E leaf \in Levels(s) : leaf.price = price
                           \/ 2 * Cardinality(Levels(s)) + 1 <= SLAB_TREE_CAPACITY))
<1> DEFINE Room(s, price) ==
                /\ active_count < SLAB_POOL_CAPACITY
                /\ next_order_id < U64_MAX
                /\ \/ \E leaf \in Levels(s) : leaf.price = price
                   \/ 2 * Cardinality(Levels(s)) + 1 <= SLAB_TREE_CAPACITY
<1>1. ASSUME SlabInv, taker = NoTaker, NEW s \in Sides, NEW price \in Prices \ {0},
             NEW size \in Sizes \ {0}
      PROVE  CanPlace(s, price, size) <=> Room(s, price)
    <2>1. price \in PriceRange /\ Sound(trees[s])
        BY <1>1, InputAssumption DEF SlabInv
    <2>2. FindOrCreateLeaf(trees[s], price).ok <=>
                \/ \E leaf \in Levels(s) : leaf.price = price
                \/ 2 * Cardinality(Levels(s)) + 1 <= SLAB_TREE_CAPACITY
        <3>1. FindOrCreateLeaf(trees[s], price).ok <=>
                    \/ \E i \in LeafNodes(trees[s]) : trees[s].nodes[i].price = price
                    \/ 2 * Cardinality(LeafNodes(trees[s])) + 1 <= SLAB_TREE_CAPACITY
            BY <2>1, LevelOrRoom
        <3>2. /\ Cardinality(Levels(s)) = Cardinality(LeafNodes(trees[s]))
              /\ \A p : (\E i \in LeafNodes(trees[s]) : trees[s].nodes[i].price = p)
                            <=> \E leaf \in Levels(s) : leaf.price = p
            BY <1>1, LevelsCounted
        <3>3. (\E i \in LeafNodes(trees[s]) : trees[s].nodes[i].price = price)
                    <=> \E leaf \in Levels(s) : leaf.price = price
            BY <3>2, Zenon
        <3> QED
            BY <3>1, <3>2, <3>3, Zenon
    <2>3. pool_free_head # SLAB_NONE_INDEX <=> active_count < SLAB_POOL_CAPACITY
        BY <1>1, PoolRoom
    <2>4. CanPlace(s, price, size) <=>
                /\ pool_free_head # SLAB_NONE_INDEX
                /\ next_order_id < U64_MAX
                /\ FindOrCreateLeaf(trees[s], price).ok
        <3>1. price # 0 /\ size # 0
            OBVIOUS
        <3> QED
            BY <1>1, <3>1, Zenon DEF CanPlace, PlaceTo
    <2> QED
        BY <2>2, <2>3, <2>4, Zenon
<1>2. SlabInv => \A s \in Sides, price \in Prices \ {0}, size \in Sizes \ {0} :
                    taker = NoTaker => (CanPlace(s, price, size) <=> Room(s, price))
    BY <1>1
<1> QED
    BY <1>2, SlabStaysSound, PTL

=============================================================================
