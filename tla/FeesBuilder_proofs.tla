--------------------------- MODULE FeesBuilder_proofs ---------------------------
(***************************************************************************)
(* Proofs about FeesBuilder for any traders, builders, markets, mints,     *)
(* fees, shares and widths: what builders are owed is in the fee vaults,   *)
(* the protocol's part of every fee stays there, what is owed can be       *)
(* claimed, and a claim pays in full; and what fee an order pays while its *)
(* product fits.                                                           *)
(***************************************************************************)
EXTENDS FeesBuilder, TLAPS, FiniteSetTheorems

----------------------------------------------------------------------------
(* Sums: how a total moves when one part of it does.                        *)

\* The part of owner r, nothing where there is none.
Part(f, r) == IF r \in DOMAIN f THEN f[r] ELSE 0

\* The amounts f and g are the same but for r, which has n in f and m in g.
Differ(f, g, r, n, m) ==
    /\ n = Part(f, r) /\ m = Part(g, r)
    /\ \A q : q # r => (q \in DOMAIN f <=> q \in DOMAIN g)
    /\ \A q \in DOMAIN f : q # r => f[q] = g[q]

Others(f, r) == {x \in Units(f) : x[1] # r}

\* A total is what r has and what the others have.
LEMMA TotalSplits ==
    ASSUME NEW f, NEW r, NEW n \in Nat, n = Part(f, r)
    PROVE  /\ IsFiniteSet(Units(f)) <=> IsFiniteSet(Others(f, r))
           /\ IsFiniteSet(Units(f)) => /\ Cardinality(Others(f, r)) \in Nat
                                       /\ Total(f) = Cardinality(Others(f, r)) + n
<1> DEFINE Own == {r} \X (1 .. n)
           Rest == Others(f, r)
<1>1. Units(f) = Rest \union Own /\ Rest \cap Own = {}
    <2>1. ASSUME NEW x \in Own PROVE x \in Units(f) /\ x[1] = r
        BY DEF Units, Part
    <2>2. ASSUME NEW x \in Units(f), x[1] = r PROVE x \in Own
        BY <2>2 DEF Units, Part
    <2> QED
        BY <2>1, <2>2 DEF Others
<1>2. IsFiniteSet(Own) /\ Cardinality(Own) = n
    <2>1. IsFiniteSet(1 .. n) /\ Cardinality(1 .. n) = n
        BY FS_Interval
    <2>2. IsFiniteSet({r}) /\ Cardinality({r}) = 1
        BY FS_Singleton
    <2>3. IsFiniteSet(Own) /\ Cardinality(Own) = 1 * n
        BY <2>1, <2>2, FS_Product
    <2> QED
        BY <2>3
<1> HIDE DEF Own, Rest
<1>3. ASSUME IsFiniteSet(Rest)
      PROVE  /\ IsFiniteSet(Rest \union Own) /\ Cardinality(Rest) \in Nat
             /\ Cardinality(Rest \union Own) = Cardinality(Rest) + n
    <2>1. Cardinality(Rest \cap Own) = 0 /\ Cardinality(Rest) \in Nat
        BY <1>1, <1>3, FS_EmptySet, FS_CardinalityType
    <2>2. /\ IsFiniteSet(Rest \union Own)
          /\ Cardinality(Rest \union Own) = Cardinality(Rest) + Cardinality(Own) - Cardinality(Rest \cap Own)
        BY <1>2, <1>3, FS_Union
    <2> QED
        BY <1>2, <2>1, <2>2
<1>4. IsFiniteSet(Rest \union Own) => IsFiniteSet(Rest)
    BY FS_Subset
<1> QED
    BY <1>1, <1>3, <1>4 DEF Total, Rest

\* When one part of a sum goes from n to m, the sum moves by as much.
LEMMA TotalMoves ==
    ASSUME NEW f, NEW g, NEW r, NEW n \in Nat, NEW m \in Nat, IsFiniteSet(Units(f)),
           Differ(f, g, r, n, m)
    PROVE  IsFiniteSet(Units(g)) /\ Total(f) \in Nat /\ Total(g) = Total(f) + (m - n)
<1>1. Others(g, r) = Others(f, r)
    BY DEF Differ, Others, Units
<1>2. /\ Cardinality(Others(f, r)) \in Nat /\ IsFiniteSet(Others(f, r))
      /\ Total(f) = Cardinality(Others(f, r)) + n
    BY TotalSplits DEF Differ
<1>3. IsFiniteSet(Units(g)) /\ Total(g) = Cardinality(Others(g, r)) + m
    BY <1>1, <1>2, TotalSplits DEF Differ
<1> QED
    BY <1>1, <1>2, <1>3

\* No part exceeds the total.
LEMMA PartWithinTotal ==
    ASSUME NEW f, NEW r \in DOMAIN f, f[r] \in Nat, IsFiniteSet(Units(f))
    PROVE  f[r] <= Total(f)
<1>1. /\ Cardinality(Others(f, r)) \in Nat
      /\ Total(f) = Cardinality(Others(f, r)) + f[r]
    BY TotalSplits DEF Part
<1> QED
    BY <1>1

\* Nobody owns nothing.
LEMMA NoUnits ==
    ASSUME NEW f, DOMAIN f = {}
    PROVE  IsFiniteSet(Units(f)) /\ Total(f) = 0
BY FS_EmptySet DEF Units, Total

----------------------------------------------------------------------------
(* Products, quotients and remainders of naturals.                          *)

\* The product of naturals is one.
LEMMA ProductNat ==
    ASSUME NEW x \in Nat, NEW y \in Nat
    PROVE  x * y \in Nat
OBVIOUS

\* What division promises.
LEMMA Division ==
    ASSUME NEW x \in Nat, NEW n \in Nat \ {0}
    PROVE  x \div n \in Nat /\ n * (x \div n) <= x /\ x % n \in 0 .. n - 1
OBVIOUS

\* A quotient of a wrapped product, cut to one word, is a natural.
LEMMA WrappedQuotientNat ==
    ASSUME NEW x \in Nat, NEW w \in Nat \ {0}, NEW d \in Nat \ {0}
    PROVE  ((x % (w * w)) \div d) % w \in Nat
<1>1. w * w \in Nat \ {0}
    OBVIOUS
<1>2. x % (w * w) \in Nat
    BY <1>1, Division
<1>3. (x % (w * w)) \div d \in Nat
    BY <1>2, Division
<1> QED
    BY <1>3, Division

----------------------------------------------------------------------------
(* Arithmetic of fees and shares.                                           *)

\* A fee is a natural, whatever wraps.
LEMMA FeeNat ==
    ASSUME NEW notional \in Nat
    PROVE  ProtocolFee(notional) \in Nat
<1>1. /\ notional * PROTOCOL_FEE_BPS \in Nat /\ U64_MAX + 1 \in Nat \ {0}
      /\ BPS_DENOMINATOR \in Nat \ {0}
    BY GateAssumption, ProductNat
<1> QED
    BY <1>1, WrappedQuotientNat DEF ProtocolFee

\* A builder's share of a fee is a natural, and its part of the fee at most
\* the cap, whatever was registered.
LEMMA ShareBound ==
    ASSUME NEW fee \in Nat, NEW registered \in Nat
    PROVE  LET share == BuilderShare(fee, BuilderShareBps(registered))
           IN share \in Nat /\ BPS_DENOMINATOR * share <= fee * PROTOCOL_BUILDER_SHARE_CAP_BPS
<1> DEFINE bps == BuilderShareBps(registered)
           cap == PROTOCOL_BUILDER_SHARE_CAP_BPS
<1>1. BPS_DENOMINATOR \in Nat \ {0} /\ cap \in Nat
    BY PolicyAssumption, GateAssumption
<1>2. bps \in Nat /\ bps <= cap
    BY <1>1 DEF BuilderShareBps
<1> HIDE DEF bps
<1>3. fee * bps \in Nat /\ fee * bps <= fee * cap /\ fee * cap \in Nat
    BY <1>1, <1>2
<1>4. /\ (fee * bps) \div BPS_DENOMINATOR \in Nat
      /\ BPS_DENOMINATOR * ((fee * bps) \div BPS_DENOMINATOR) <= fee * bps
    BY <1>1, <1>3, Division
<1>5. BuilderShare(fee, bps) = (fee * bps) \div BPS_DENOMINATOR
    BY DEF BuilderShare
<1> HIDE DEF cap
<1>6. \A share \in Nat : BPS_DENOMINATOR * share \in Nat
    BY <1>1
<1> QED
    BY <1>3, <1>4, <1>5, <1>6 DEF bps, cap

----------------------------------------------------------------------------
(* The inductive invariant: the vaults cover what is owed. What the         *)
(* protocol keeps in a step says how either of them moves, and so is used   *)
(* to prove it.                                                             *)

OwedFinite == \A mint \in Mints : IsFiniteSet(Units(Accrued(mint)))

IInv == TypeOK /\ FeesCovered /\ OwedFinite

\* The body of ProtocolKeepsItsPart.
Keeps(mint) ==
    LET paid == tokens'[FeeVault(mint)] - tokens[FeeVault(mint)]
        kept == paid - (Owed(mint)' - Owed(mint))
    IN IF paid > 0
       THEN kept * BPS_DENOMINATOR >= paid * (BPS_DENOMINATOR - PROTOCOL_BUILDER_SHARE_CAP_BPS)
       ELSE kept >= 0

\* A profile's fields have their types.
LEMMA Fields ==
    ASSUME TypeOK, NEW b \in DOMAIN profiles
    PROVE  /\ b \in Builders /\ profiles[b] \in Profile
           /\ profiles[b].max_fee_share_bps \in Nat /\ profiles[b].fee_mint \in Mints
           /\ profiles[b].accumulated_fees \in Nat /\ profiles[b].total_volume \in Nat
BY PolicyAssumption, GateAssumption DEF TypeOK, Profile

\* Two mints have no account in common, and wallets are not fee vaults.
LEMMA AccountsDiffer ==
    /\ \A m \in Mints : AccountsOf(m) \subseteq TokenAccounts /\ FeeVault(m) \in AccountsOf(m)
    /\ \A m, w : FeeVault(m) = FeeVault(w) => m = w
    /\ \A m, w : \A a \in AccountsOf(w) : a = FeeVault(m) => m = w
    /\ \A m, u, w : FeeVault(m) # Wallet(u, w)
BY DEF AccountsOf, TokenAccounts, FeeVault, Wallet

\* A covered transfer leaves naturals.
LEMMA TransferTypes ==
    ASSUME tokens \in [TokenAccounts -> Nat], NEW from \in TokenAccounts, NEW to \in TokenAccounts,
           NEW amount \in Nat, Transfer(from, to, amount)
    PROVE  tokens' \in [TokenAccounts -> Nat]
BY DEF Transfer

\* What is owed is a natural, and so is what a fee vault holds.
LEMMA Amounts ==
    ASSUME IInv, NEW mint \in Mints
    PROVE  Owed(mint) \in Nat /\ tokens[FeeVault(mint)] \in Nat
<1>1. Owed(mint) \in Nat
    BY FS_CardinalityType DEF IInv, OwedFinite, Owed, Total
<1>2. tokens[FeeVault(mint)] \in Nat
    BY AccountsDiffer DEF IInv, TypeOK
<1> QED
    BY <1>1, <1>2

\* Where the protocol keeps its part, covered vaults stay covered.
LEMMA KeepingCovers ==
    ASSUME IInv, TypeOK', OwedFinite', \A mint \in Mints : Keeps(mint)
    PROVE  FeesCovered'
<1> SUFFICES ASSUME NEW mint \in Mints
             PROVE  Owed(mint)' <= tokens'[FeeVault(mint)]
    BY DEF FeesCovered, FeeVault
<1> DEFINE t == tokens[FeeVault(mint)]
           t2 == tokens'[FeeVault(mint)]
           o == Owed(mint)
           o2 == Owed(mint)'
           kept == (t2 - t) - (o2 - o)
<1>1. o \in Nat /\ t \in Nat /\ o <= t
    BY Amounts DEF IInv, FeesCovered
<1>2. o2 \in Nat /\ t2 \in Nat
    <2>1. o2 \in Nat
        BY FS_CardinalityType DEF OwedFinite, Owed, Total
    <2>2. t2 \in Nat
        BY AccountsDiffer DEF TypeOK
    <2> QED
        BY <2>1, <2>2
<1>3. kept >= 0
    <2>1. CASE t2 - t > 0
        <3>1. kept * BPS_DENOMINATOR
                    >= (t2 - t) * (BPS_DENOMINATOR - PROTOCOL_BUILDER_SHARE_CAP_BPS)
            BY <2>1 DEF Keeps
        <3>2. \A p, r \in Nat : p * r >= 0
            OBVIOUS
        <3>3. /\ t2 - t \in Nat /\ BPS_DENOMINATOR - PROTOCOL_BUILDER_SHARE_CAP_BPS \in Nat
              /\ BPS_DENOMINATOR \in Nat \ {0} /\ kept \in Int
            BY <1>1, <1>2, <2>1, PolicyAssumption, GateAssumption
        <3>4. \A k \in Int, d \in Nat \ {0} : k * d >= 0 => k >= 0
            OBVIOUS
        <3> HIDE DEF kept, t, t2
        <3>5. (t2 - t) * (BPS_DENOMINATOR - PROTOCOL_BUILDER_SHARE_CAP_BPS) >= 0
            BY <3>2, <3>3
        <3>6. kept * BPS_DENOMINATOR \in Int
            BY <3>3
        <3>7. (t2 - t) * (BPS_DENOMINATOR - PROTOCOL_BUILDER_SHARE_CAP_BPS) \in Int
            BY <3>3
        <3>8. kept * BPS_DENOMINATOR >= 0
            BY <3>1, <3>5, <3>6, <3>7
        <3> QED
            BY <3>3, <3>4, <3>8
    <2>2. CASE ~(t2 - t > 0)
        BY <2>2 DEF Keeps
    <2> QED
        BY <2>1, <2>2
<1> HIDE DEF t, t2, o, o2
<1>4. o2 <= t2
    BY <1>1, <1>2, <1>3
<1> QED
    BY <1>4 DEF o2, t2

\* A step that leaves a mint's vault and accruals alone keeps what there is.
LEMMA Untouched ==
    ASSUME IInv, NEW mint \in Mints, Accrued(mint)' = Accrued(mint),
           tokens'[FeeVault(mint)] = tokens[FeeVault(mint)]
    PROVE  Keeps(mint) /\ IsFiniteSet(Units(Accrued(mint)'))
<1>1. Owed(mint)' = Owed(mint)
    BY DEF Owed
<1>2. Owed(mint) \in Nat /\ tokens[FeeVault(mint)] \in Nat
    BY Amounts
<1>3. IsFiniteSet(Units(Accrued(mint)'))
    BY DEF IInv, OwedFinite
<1> QED
    BY <1>1, <1>2, <1>3 DEF Keeps

----------------------------------------------------------------------------
(* What each action does to fee vaults and accruals.                        *)

Effect == TypeOK' /\ OwedFinite' /\ \A mint \in Mints : Keeps(mint)

\* A gated order brings its fee to the vault of the market's mint, and to no
\* other.
LEMMA GatedEffect ==
    ASSUME IInv, NEW user \in Traders, NEW market \in Markets, NEW book \in Markets,
           NEW oracle \in Markets, NEW mint \in Mints, NEW fee_vault \in Mints,
           NEW price \in Prices, NEW size \in Sizes,
           GatedOrder(user, market, book, oracle, mint, fee_vault, price, size)
    PROVE  LET fee == ProtocolFee(Notional(price, size))
           IN /\ fee \in Nat
              /\ tokens' \in [TokenAccounts -> Nat]
              /\ active' \in [Markets -> 0 .. ORDER_CAPACITY]
              /\ UNCHANGED <<fee_vaults, mark>>
              /\ tokens'[FeeVault(mint)] = tokens[FeeVault(mint)] + fee
              /\ \A m \in Mints \ {mint} : tokens'[FeeVault(m)] = tokens[FeeVault(m)]
<1> DEFINE fee == ProtocolFee(Notional(price, size))
           from == Wallet(user, fee_vault)
<1>1. fee \in Nat
    <2>1. price \in Nat /\ size \in Nat
        BY InputAssumption, PolicyAssumption, GateAssumption
    <2> QED
        BY <2>1, ProductNat, FeeNat DEF Notional
<1>2. /\ Transfer(from, FeeVault(mint), fee) /\ fee_vault = mint
      /\ active[book] < ORDER_CAPACITY /\ active' = [active EXCEPT ![book] = @ + 1]
      /\ UNCHANGED <<fee_vaults, mark>>
    BY DEF GatedOrder, VerifyFeeVault
<1>3. from \in TokenAccounts /\ FeeVault(mint) \in TokenAccounts
      /\ \A m \in Mints : FeeVault(m) \in TokenAccounts
    BY AccountsDiffer DEF AccountsOf
<1>4. tokens \in [TokenAccounts -> Nat]
    BY DEF IInv, TypeOK
<1> HIDE DEF fee
<1>5. tokens' \in [TokenAccounts -> Nat]
    BY <1>1, <1>2, <1>3, <1>4, TransferTypes
<1>6. from # FeeVault(mint)
    BY AccountsDiffer
<1>7. tokens' = [tokens EXCEPT ![from] = @ - fee, ![FeeVault(mint)] = @ + fee]
    BY <1>2, <1>6 DEF Transfer
<1>8. /\ tokens'[FeeVault(mint)] = tokens[FeeVault(mint)] + fee
      /\ \A m \in Mints \ {mint} : tokens'[FeeVault(m)] = tokens[FeeVault(m)]
    <2> HIDE DEF from
    <2>1. \A m \in Mints : FeeVault(m) # from
        BY AccountsDiffer DEF from
    <2>2. \A m \in Mints \ {mint} : FeeVault(m) # FeeVault(mint)
        BY AccountsDiffer
    <2> QED
        BY <1>3, <1>4, <1>7, <2>1, <2>2
<1>9. active' \in [Markets -> 0 .. ORDER_CAPACITY]
    BY <1>2, PolicyAssumption, GateAssumption DEF IInv, TypeOK
<1> QED
    BY <1>1, <1>2, <1>5, <1>8, <1>9 DEF fee

\* Without a builder all of the fee is the protocol's.
LEMMA CheckedEffect ==
    ASSUME IInv, NEW user \in Traders, NEW market \in Markets, NEW book \in Markets,
           NEW oracle \in Markets, NEW mint \in Mints, NEW fee_vault \in Mints,
           NEW price \in Prices, NEW size \in Sizes,
           PlaceOrderChecked(user, market, book, oracle, mint, fee_vault, price, size)
    PROVE  Effect
<1> DEFINE fee == ProtocolFee(Notional(price, size))
<1>1. /\ fee \in Nat /\ tokens' \in [TokenAccounts -> Nat]
      /\ active' \in [Markets -> 0 .. ORDER_CAPACITY] /\ UNCHANGED <<fee_vaults, mark>>
      /\ tokens'[FeeVault(mint)] = tokens[FeeVault(mint)] + fee
      /\ \A m \in Mints \ {mint} : tokens'[FeeVault(m)] = tokens[FeeVault(m)]
    BY GatedEffect DEF PlaceOrderChecked
<1> HIDE DEF fee
<1>2. \A m : Accrued(m)' = Accrued(m)
    BY DEF PlaceOrderChecked, Accrued
<1>3. Keeps(mint) /\ IsFiniteSet(Units(Accrued(mint)'))
    <2>1. Owed(mint)' = Owed(mint) /\ Owed(mint) \in Nat /\ tokens[FeeVault(mint)] \in Nat
        BY <1>2, Amounts DEF Owed
    <2>2. fee * BPS_DENOMINATOR >= fee * (BPS_DENOMINATOR - PROTOCOL_BUILDER_SHARE_CAP_BPS)
        BY <1>1, PolicyAssumption, GateAssumption
    <2>3. IsFiniteSet(Units(Accrued(mint)'))
        BY <1>2 DEF IInv, OwedFinite
    <2>4. /\ tokens'[FeeVault(mint)] - tokens[FeeVault(mint)] = fee
          /\ fee - (Owed(mint)' - Owed(mint)) = fee
        BY <1>1, <2>1
    <2>5. Keeps(mint)
        BY <1>1, <2>2, <2>4 DEF Keeps
    <2> QED
        BY <2>3, <2>5
<1>4. \A m \in Mints \ {mint} : Keeps(m) /\ IsFiniteSet(Units(Accrued(m)'))
    BY <1>1, <1>2, Untouched
<1>5. TypeOK'
    BY <1>1 DEF PlaceOrderChecked, IInv, TypeOK
<1> QED
    BY <1>3, <1>4, <1>5 DEF Effect, OwedFinite, Units

\* Arithmetic of a credit: of a fee x at most the part c of d is promised.
LEMMA CreditArithmetic ==
    ASSUME NEW x \in Nat, NEW s \in Nat, NEW d \in Nat \ {0}, NEW c \in 0 .. d, d * s <= x * c
    PROVE  (x - s) * d >= x * (d - c)
<1>1. (x - s) * d = x * d - d * s
    OBVIOUS
<1>2. x * (d - c) = x * d - x * c
    OBVIOUS
<1>3. x * d \in Nat /\ d * s \in Nat /\ x * c \in Nat
    OBVIOUS
<1> QED
    BY <1>1, <1>2, <1>3

\* When one profile's fees change, what is owed in its mint moves with them and
\* in no other.
LEMMA ProfileMoves ==
    ASSUME IInv, NEW b \in DOMAIN profiles, NEW m \in Nat,
           DOMAIN profiles' = DOMAIN profiles,
           \A p \in DOMAIN profiles \ {b} : profiles'[p] = profiles[p],
           profiles'[b].fee_mint = profiles[b].fee_mint,
           profiles'[b].accumulated_fees = m
    PROVE  LET mint == profiles[b].fee_mint
           IN /\ IsFiniteSet(Units(Accrued(mint)'))
              /\ Owed(mint)' = Owed(mint) + (m - profiles[b].accumulated_fees)
              /\ \A w \in Mints \ {mint} : Accrued(w)' = Accrued(w)
<1> DEFINE mint == profiles[b].fee_mint
           n == profiles[b].accumulated_fees
           f == Accrued(mint)
           g == Accrued(mint)'
<1>1. n \in Nat /\ mint \in Mints
    BY Fields DEF IInv
<1>2. \A w : {p \in DOMAIN profiles' : profiles'[p].fee_mint = w}
                = {p \in DOMAIN profiles : profiles[p].fee_mint = w}
    OBVIOUS
<1>3. b \in DOMAIN f /\ DOMAIN g = DOMAIN f /\ f[b] = n /\ g[b] = m
      /\ \A q \in DOMAIN f \ {b} : g[q] = f[q]
    BY <1>2 DEF Accrued
<1>4. IsFiniteSet(Units(f))
    BY <1>1 DEF IInv, OwedFinite
<1> HIDE DEF f, g, n
<1>5. Differ(f, g, b, n, m)
    BY <1>3 DEF Differ, Part
<1>6. IsFiniteSet(Units(g)) /\ Total(g) = Total(f) + (m - n)
    BY <1>1, <1>4, <1>5, TotalMoves
<1>7. \A w \in Mints \ {mint} : Accrued(w)' = Accrued(w)
    <2> TAKE w \in Mints \ {mint}
    <2>1. \A p \in {q \in DOMAIN profiles : profiles[q].fee_mint = w} : profiles'[p] = profiles[p]
        OBVIOUS
    <2> QED
        BY <1>2, <2>1 DEF Accrued
<1> QED
    BY <1>6, <1>7 DEF f, g, n, Owed, Units, Total, Accrued

\* A change of one profile to another keeps the profiles' type.
LEMMA ProfilesType ==
    ASSUME IInv, NEW b \in DOMAIN profiles, NEW profile \in Profile,
           profiles' = [profiles EXCEPT ![b] = profile]
    PROVE  profiles' \in [DOMAIN profiles' -> Profile] /\ DOMAIN profiles' \subseteq Builders
<1>1. profiles \in [DOMAIN profiles -> Profile] /\ DOMAIN profiles \subseteq Builders
    BY DEF IInv, TypeOK
<1> QED
    BY <1>1

\* An order through a builder credits at most the capped part of its fee, in the
\* mint the fee is paid in.
LEMMA WithBuilderEffect ==
    ASSUME IInv, NEW user \in Traders, NEW market \in Markets, NEW book \in Markets,
           NEW oracle \in Markets, NEW mint \in Mints, NEW fee_vault \in Mints,
           NEW price \in Prices, NEW size \in Sizes, NEW b \in DOMAIN profiles,
           PlaceOrderWithBuilder(user, market, book, oracle, mint, fee_vault, b, price, size)
    PROVE  Effect
<1> DEFINE fee == ProtocolFee(Notional(price, size))
           share == BuilderShare(fee, BuilderShareBps(profiles[b].max_fee_share_bps))
           n == profiles[b].accumulated_fees
           m == n + share
           volume == profiles[b].total_volume + size
<1>1. /\ fee \in Nat /\ tokens' \in [TokenAccounts -> Nat]
      /\ active' \in [Markets -> 0 .. ORDER_CAPACITY] /\ UNCHANGED <<fee_vaults, mark>>
      /\ tokens'[FeeVault(mint)] = tokens[FeeVault(mint)] + fee
      /\ \A w \in Mints \ {mint} : tokens'[FeeVault(w)] = tokens[FeeVault(w)]
    BY GatedEffect DEF PlaceOrderWithBuilder
<1>2. /\ b \in Builders /\ profiles[b] \in Profile /\ n \in Nat
      /\ profiles[b].max_fee_share_bps \in Nat /\ profiles[b].total_volume \in Nat /\ size \in Nat
    BY Fields, InputAssumption, PolicyAssumption, GateAssumption DEF IInv
<1>3. /\ profiles[b].fee_mint = mint
      /\ m <= U64_MAX /\ volume <= U64_MAX
      /\ profiles' = [profiles EXCEPT ![b].accumulated_fees = m, ![b].total_volume = volume]
    BY DEF PlaceOrderWithBuilder, CreditsMint, InRange
<1> HIDE DEF fee
<1>4. share \in Nat /\ BPS_DENOMINATOR * share <= fee * PROTOCOL_BUILDER_SHARE_CAP_BPS
    BY <1>1, <1>2, ShareBound
<1> HIDE DEF share
<1>5. /\ DOMAIN profiles' = DOMAIN profiles
      /\ \A p \in DOMAIN profiles \ {b} : profiles'[p] = profiles[p]
      /\ profiles'[b] = [profiles[b] EXCEPT !.accumulated_fees = m, !.total_volume = volume]
    BY <1>3
<1>6. /\ profiles'[b].fee_mint = profiles[b].fee_mint /\ profiles'[b].accumulated_fees = m
      /\ profiles'[b] \in Profile
    BY <1>2, <1>3, <1>4, <1>5 DEF Profile
<1>7. m \in Nat /\ m - n = share
    BY <1>2, <1>4
<1>8. /\ IsFiniteSet(Units(Accrued(mint)')) /\ Owed(mint)' = Owed(mint) + share
      /\ \A w \in Mints \ {mint} : Accrued(w)' = Accrued(w)
    BY <1>3, <1>5, <1>6, <1>7, ProfileMoves
<1> HIDE DEF m, n, volume
<1>9. Keeps(mint)
    <2>1. Owed(mint) \in Nat /\ tokens[FeeVault(mint)] \in Nat
        BY Amounts
    <2>2. /\ BPS_DENOMINATOR \in Nat \ {0}
          /\ PROTOCOL_BUILDER_SHARE_CAP_BPS \in 0 .. BPS_DENOMINATOR
        BY PolicyAssumption, GateAssumption
    <2>3. (fee - share) * BPS_DENOMINATOR
                >= fee * (BPS_DENOMINATOR - PROTOCOL_BUILDER_SHARE_CAP_BPS)
        BY <1>1, <1>4, <2>2, CreditArithmetic
    <2>4. /\ tokens'[FeeVault(mint)] - tokens[FeeVault(mint)] = fee
          /\ fee - (Owed(mint)' - Owed(mint)) = fee - share
        BY <1>1, <1>4, <1>8, <2>1
    <2>5. fee = 0 => fee - share >= 0
        <3>1. fee = 0 => BPS_DENOMINATOR * share <= 0
            BY <1>4, <2>2
        <3>2. \A d \in Nat \ {0}, s \in Nat : d * s <= 0 => s = 0
            OBVIOUS
        <3> QED
            BY <1>4, <2>2, <3>1, <3>2
    <2> QED
        BY <1>1, <2>3, <2>4, <2>5 DEF Keeps
<1>10. \A w \in Mints \ {mint} : Keeps(w) /\ IsFiniteSet(Units(Accrued(w)'))
    BY <1>1, <1>8, Untouched
<1>11. TypeOK'
    <2> DEFINE profile == profiles'[b]
    <2>1. profiles' = [profiles EXCEPT ![b] = profile] /\ profile \in Profile
        BY <1>3, <1>6
    <2> HIDE DEF profile
    <2>2. profiles' \in [DOMAIN profiles' -> Profile] /\ DOMAIN profiles' \subseteq Builders
        BY <2>1, ProfilesType
    <2> QED
        BY <1>1, <2>2 DEF IInv, TypeOK
<1> QED
    BY <1>8, <1>9, <1>10, <1>11 DEF Effect, OwedFinite, Units

\* A claim takes from the vault what it takes from the accruals, or nothing if
\* the builder has it paid back into the vault.
LEMMA ClaimEffect ==
    ASSUME IInv, NEW builder \in Builders, NEW b \in DOMAIN profiles, NEW mint \in Mints,
           NEW fee_vault \in Mints, NEW builder_token \in AccountsOf(fee_vault),
           ClaimBuilderFees(builder, b, mint, fee_vault, builder_token)
    PROVE  Effect
<1> DEFINE n == profiles[b].accumulated_fees
           vault == FeeVault(mint)
<1>1. /\ profiles[b].fee_mint = mint /\ fee_vault = mint
      /\ profiles' = [profiles EXCEPT ![b] = [profiles[b] EXCEPT !.accumulated_fees = 0]]
      /\ Transfer(vault, builder_token, n)
      /\ UNCHANGED <<fee_vaults, mark, active>>
    BY DEF ClaimBuilderFees, VerifyFeeVault, EarnedIn, Settled
<1>2. profiles[b] \in Profile /\ n \in Nat
    BY Fields DEF IInv
<1>3. /\ DOMAIN profiles' = DOMAIN profiles
      /\ \A p \in DOMAIN profiles \ {b} : profiles'[p] = profiles[p]
      /\ profiles'[b] = [profiles[b] EXCEPT !.accumulated_fees = 0]
    BY <1>1
<1>4. /\ profiles'[b].fee_mint = profiles[b].fee_mint /\ profiles'[b].accumulated_fees = 0
      /\ profiles'[b] \in Profile
    BY <1>2, <1>3, PolicyAssumption, GateAssumption DEF Profile
<1>5. /\ IsFiniteSet(Units(Accrued(mint)')) /\ Owed(mint)' = Owed(mint) + (0 - n)
      /\ \A w \in Mints \ {mint} : Accrued(w)' = Accrued(w)
    BY <1>1, <1>3, <1>4, ProfileMoves
<1>6. vault \in TokenAccounts /\ builder_token \in TokenAccounts
      /\ tokens \in [TokenAccounts -> Nat]
      /\ \A w \in Mints : FeeVault(w) \in TokenAccounts
    BY <1>1, AccountsDiffer DEF IInv, TypeOK
<1> HIDE DEF n, vault
<1>7. tokens' \in [TokenAccounts -> Nat]
    BY <1>1, <1>2, <1>6, TransferTypes
<1>8. /\ tokens'[vault] = tokens[vault] \/ tokens'[vault] = tokens[vault] - n
      /\ \A w \in Mints \ {mint} : tokens'[FeeVault(w)] = tokens[FeeVault(w)]
    <2>1. \A w \in Mints \ {mint} : FeeVault(w) # vault /\ FeeVault(w) # builder_token
        BY <1>1, AccountsDiffer DEF vault
    <2> QED
        BY <1>1, <1>6, <2>1 DEF Transfer
<1>9. Keeps(mint)
    <2>1. Owed(mint) \in Nat /\ tokens[vault] \in Nat
        BY Amounts DEF vault
    <2>2. /\ ~(tokens'[vault] - tokens[vault] > 0)
          /\ (tokens'[vault] - tokens[vault]) - (Owed(mint)' - Owed(mint)) >= 0
        BY <1>2, <1>5, <1>8, <2>1
    <2> QED
        BY <2>2 DEF Keeps, vault
<1>10. \A w \in Mints \ {mint} : Keeps(w) /\ IsFiniteSet(Units(Accrued(w)'))
    BY <1>5, <1>8, Untouched
<1>11. TypeOK'
    <2> DEFINE profile == profiles'[b]
    <2>1. profiles' = [profiles EXCEPT ![b] = profile] /\ profile \in Profile
        BY <1>1, <1>4
    <2> HIDE DEF profile
    <2>2. profiles' \in [DOMAIN profiles' -> Profile] /\ DOMAIN profiles' \subseteq Builders
        BY <2>1, ProfilesType
    <2> QED
        BY <1>1, <1>7, <2>2 DEF IInv, TypeOK
<1> QED
    BY <1>5, <1>9, <1>10, <1>11 DEF Effect, OwedFinite, Units

\* A new profile is owed nothing.
LEMMA RegisterEffect ==
    ASSUME IInv, NEW builder \in Builders, NEW mint \in Mints, NEW requested \in Shares,
           RegisterBuilder(builder, mint, requested)
    PROVE  Effect
<1> DEFINE profile == [max_fee_share_bps |-> BuilderShareBps(requested), fee_mint |-> mint,
                       accumulated_fees |-> 0, total_volume |-> 0]
           f == Accrued(mint)
           g == Accrued(mint)'
<1>1. /\ builder \notin DOMAIN profiles
      /\ profiles' = [b \in DOMAIN profiles \union {builder} |->
              IF b = builder THEN profile ELSE profiles[b]]
      /\ UNCHANGED <<fee_vaults, mark, active, tokens>>
    BY DEF RegisterBuilder
<1>2. profile \in Profile
    BY InputAssumption, PolicyAssumption, GateAssumption DEF Profile, BuilderShareBps
<1>3. profile.fee_mint = mint /\ profile.accumulated_fees = 0
    OBVIOUS
<1> HIDE DEF profile
<1>4. \A w : {p \in DOMAIN profiles' : profiles'[p].fee_mint = w}
                = {p \in DOMAIN profiles : profiles[p].fee_mint = w}
                        \union (IF w = mint THEN {builder} ELSE {})
    BY <1>1, <1>3
<1>5. /\ DOMAIN g = DOMAIN f \union {builder} /\ builder \notin DOMAIN f /\ g[builder] = 0
      /\ \A q \in DOMAIN f : g[q] = f[q]
    BY <1>1, <1>3, <1>4 DEF Accrued
<1>6. IsFiniteSet(Units(f))
    BY DEF IInv, OwedFinite
<1> HIDE DEF f, g
<1>7. Units(g) = Units(f)
    <2>1. {builder} \X (1 .. g[builder]) = {}
        BY <1>5
    <2> QED
        BY <1>5, <2>1 DEF Units
<1>8. Keeps(mint) /\ IsFiniteSet(Units(Accrued(mint)'))
    <2>1. Owed(mint)' = Owed(mint)
        BY <1>7 DEF Owed, Total, f, g
    <2>2. Owed(mint) \in Nat /\ tokens[FeeVault(mint)] \in Nat
        BY Amounts
    <2>3. tokens' = tokens
        BY <1>1
    <2>4. Keeps(mint)
        BY <2>1, <2>2, <2>3 DEF Keeps, FeeVault
    <2> QED
        BY <1>6, <1>7, <2>4 DEF g
<1>9. \A w \in Mints \ {mint} : Keeps(w) /\ IsFiniteSet(Units(Accrued(w)'))
    <2> TAKE w \in Mints \ {mint}
    <2>1. \A p \in {q \in DOMAIN profiles : profiles[q].fee_mint = w} : profiles'[p] = profiles[p]
        BY <1>1
    <2>2. Accrued(w)' = Accrued(w)
        BY <1>4, <2>1 DEF Accrued
    <2> QED
        BY <1>1, <2>2, Untouched DEF FeeVault
<1>10. TypeOK'
    <2>1. profiles' \in [DOMAIN profiles' -> Profile] /\ DOMAIN profiles' \subseteq Builders
        BY <1>1, <1>2 DEF IInv, TypeOK
    <2> QED
        BY <1>1, <2>1 DEF IInv, TypeOK
<1> QED
    BY <1>8, <1>9, <1>10 DEF Effect, OwedFinite, Units

\* The other instructions move neither fees nor accruals.
LEMMA OthersEffect ==
    ASSUME IInv,
           \/ \E mint \in Mints : CreateFeeVault(mint)
           \/ \E market \in Markets, price \in Marks : SetOraclePrice(market, price)
           \/ \E market \in Markets : OracleGoesStale(market)
           \/ \E market \in Markets : PlaceOrder(market)
           \/ \E market \in Markets : OrderLeaves(market)
           \/ UNCHANGED vars
    PROVE  Effect
<1>1. UNCHANGED <<profiles, tokens>>
    BY DEF CreateFeeVault, SetOraclePrice, OracleGoesStale, PlaceOrder, OrderLeaves, vars
<1>2. \A mint \in Mints : Keeps(mint) /\ IsFiniteSet(Units(Accrued(mint)'))
    <2> TAKE mint \in Mints
    <2>1. Accrued(mint)' = Accrued(mint) /\ tokens'[FeeVault(mint)] = tokens[FeeVault(mint)]
        BY <1>1 DEF Accrued
    <2> QED
        BY <2>1, Untouched
<1>3. fee_vaults' \subseteq Mints
    BY DEF IInv, TypeOK, CreateFeeVault, SetOraclePrice, OracleGoesStale, PlaceOrder,
           OrderLeaves, vars
<1>4. mark' \in [Markets -> Marks \union {NoMark}]
    BY DEF IInv, TypeOK, CreateFeeVault, SetOraclePrice, OracleGoesStale, PlaceOrder,
           OrderLeaves, vars
<1>5. active' \in [Markets -> 0 .. ORDER_CAPACITY]
    BY PolicyAssumption, GateAssumption DEF IInv, TypeOK, CreateFeeVault, SetOraclePrice, OracleGoesStale,
           PlaceOrder, OrderLeaves, vars
<1>6. TypeOK'
    BY <1>1, <1>3, <1>4, <1>5 DEF IInv, TypeOK
<1> QED
    BY <1>2, <1>6 DEF Effect, OwedFinite, Units

----------------------------------------------------------------------------
(* The invariant holds at first and every step preserves it.                *)

\* Before any builder registers nothing is owed.
LEMMA InitEstablishes == Init => IInv
<1> SUFFICES ASSUME Init PROVE IInv
    OBVIOUS
<1>1. DOMAIN profiles = {} /\ profiles = [b \in {} |-> 0]
    BY DEF Init
<1>2. TypeOK
    <2>1. tokens \in [TokenAccounts -> Nat]
        BY InputAssumption DEF Init
    <2>2. profiles \in [DOMAIN profiles -> Profile]
        BY <1>1
    <2> QED
        BY <1>1, <2>1, <2>2, PolicyAssumption, GateAssumption DEF Init, TypeOK
<1>3. \A mint \in Mints : IsFiniteSet(Units(Accrued(mint))) /\ Owed(mint) = 0
    <2> TAKE mint \in Mints
    <2>1. DOMAIN Accrued(mint) = {}
        BY <1>1 DEF Accrued
    <2> QED
        BY <2>1, NoUnits DEF Owed
<1>4. FeesCovered
    <2> SUFFICES ASSUME NEW mint \in Mints
                 PROVE  Owed(mint) <= tokens[FeeVault(mint)]
        BY DEF FeesCovered
    <2>1. tokens[FeeVault(mint)] \in Nat
        BY <1>2, AccountsDiffer DEF TypeOK
    <2> QED
        BY <1>3, <2>1
<1> QED
    BY <1>2, <1>3, <1>4 DEF IInv, OwedFinite

\* One case per disjunct of Next.
LEMMA StepEffect == IInv /\ [Next]_vars => Effect
<1> SUFFICES ASSUME IInv, [Next]_vars PROVE Effect
    OBVIOUS
<1>1. CASE \E builder \in Builders, mint \in Mints, requested \in Shares :
                RegisterBuilder(builder, mint, requested)
    BY <1>1, RegisterEffect
<1>2. CASE \E user \in Traders, market, book, oracle \in Markets, mint, fee_vault \in Mints,
              price \in Prices, size \in Sizes :
                \/ PlaceOrderChecked(user, market, book, oracle, mint, fee_vault, price, size)
                \/ \E profile \in DOMAIN profiles :
                        PlaceOrderWithBuilder(user, market, book, oracle, mint, fee_vault,
                                              profile, price, size)
    BY <1>2, CheckedEffect, WithBuilderEffect
<1>3. CASE \E builder \in Builders, profile \in DOMAIN profiles, mint, fee_vault \in Mints :
                \E builder_token \in AccountsOf(fee_vault) :
                    ClaimBuilderFees(builder, profile, mint, fee_vault, builder_token)
    BY <1>3, ClaimEffect
<1>4. CASE \/ \E mint \in Mints : CreateFeeVault(mint)
           \/ \E market \in Markets, price \in Marks : SetOraclePrice(market, price)
           \/ \E market \in Markets : OracleGoesStale(market)
           \/ \E market \in Markets : PlaceOrder(market)
           \/ \E market \in Markets : OrderLeaves(market)
           \/ UNCHANGED vars
    BY <1>4, OthersEffect
<1> QED
    BY <1>1, <1>2, <1>3, <1>4 DEF Next

\* Every step keeps the inductive invariant.
LEMMA StepPreserves == IInv /\ [Next]_vars => IInv'
BY StepEffect, KeepingCovers DEF Effect, IInv

\* It holds in every reachable state.
LEMMA Invariant == Spec => []IInv
BY InitEstablishes, StepPreserves, PTL DEF Spec

----------------------------------------------------------------------------

\* Every field stays in its type: no accrual, volume or balance goes out of
\* its range in a step of any instruction.
THEOREM TypeCorrect == Spec => []TypeOK
<1>1. IInv => TypeOK
    BY DEF IInv
<1> QED
    BY <1>1, Invariant, PTL

\* What builders are owed in a mint is in its fee vault, whatever the shares,
\* the number of builders and markets, and whoever claims to which account.
THEOREM FeesAlwaysCovered == Spec => []FeesCovered
<1>1. IInv => FeesCovered
    BY DEF IInv
<1> QED
    BY <1>1, Invariant, PTL

\* The protocol's part of every fee stays in the fee vault: promised neither
\* when the fee is paid nor when a builder claims.
THEOREM KeepsPart == Spec => ProtocolKeepsItsPart
<1>1. Effect => \A mint \in Mints :
        LET paid == tokens'[FeeVault(mint)] - tokens[FeeVault(mint)]
            kept == paid - (Owed(mint)' - Owed(mint))
        IN IF paid > 0
           THEN kept * BPS_DENOMINATOR
                    >= paid * (BPS_DENOMINATOR - PROTOCOL_BUILDER_SHARE_CAP_BPS)
           ELSE kept >= 0
    BY DEF Effect, Keeps
<1> QED
    BY <1>1, StepEffect, Invariant, PTL DEF Spec, ProtocolKeepsItsPart

----------------------------------------------------------------------------
(* How credited fees leave a profile.                                       *)

\* An order through a builder adds to one profile, and never less than nothing.
LEMMA OrdersOnlyCredit ==
    ASSUME IInv, NEW user \in Traders, NEW market \in Markets, NEW book \in Markets,
           NEW oracle \in Markets, NEW mint \in Mints, NEW fee_vault \in Mints,
           NEW price \in Prices, NEW size \in Sizes, NEW profile \in DOMAIN profiles,
           PlaceOrderWithBuilder(user, market, book, oracle, mint, fee_vault, profile, price, size),
           NEW b \in DOMAIN profiles
    PROVE  ~(profiles'[b].accumulated_fees < profiles[b].accumulated_fees)
<1> DEFINE fee == ProtocolFee(Notional(price, size))
           share == BuilderShare(fee, BuilderShareBps(profiles[profile].max_fee_share_bps))
<1>1. fee \in Nat
    BY GatedEffect DEF PlaceOrderWithBuilder
<1>2. /\ profiles[b].accumulated_fees \in Nat /\ profiles[b] \in Profile
      /\ profiles[profile].max_fee_share_bps \in Nat
    BY Fields DEF IInv
<1>3. share \in Nat
    <2> HIDE DEF fee
    <2> QED
        BY <1>1, <1>2, ShareBound
<1> HIDE DEF fee
<1>4. \/ profiles'[b] = profiles[b]
      \/ profiles'[b].accumulated_fees = profiles[b].accumulated_fees + share
    BY <1>2 DEF PlaceOrderWithBuilder, Profile, fee
<1> HIDE DEF share
<1> QED
    BY <1>2, <1>3, <1>4

\* Whatever orders and claims are made by whom: the fees credited to a builder
\* are only ever taken off the profile by a claim that moves all of them out of
\* the fee vault of the mint they were earned in.
THEOREM AlwaysPaidInFull == Spec => PaidInFull
<1>1. IInv /\ [Next]_vars =>
        [\A b \in DOMAIN profiles :
            profiles'[b].accumulated_fees < profiles[b].accumulated_fees =>
                /\ profiles'[b].accumulated_fees = 0
                /\ \E account \in AccountsOf(profiles[b].fee_mint) :
                        Transfer(FeeVault(profiles[b].fee_mint), account,
                                 profiles[b].accumulated_fees)]_vars
    <2> SUFFICES ASSUME IInv, [Next]_vars, NEW b \in DOMAIN profiles,
                        profiles'[b].accumulated_fees < profiles[b].accumulated_fees
                 PROVE  /\ profiles'[b].accumulated_fees = 0
                        /\ \E account \in AccountsOf(profiles[b].fee_mint) :
                                Transfer(FeeVault(profiles[b].fee_mint), account,
                                         profiles[b].accumulated_fees)
        OBVIOUS
    <2>1. profiles[b].accumulated_fees \in Nat /\ profiles[b] \in Profile
        BY Fields DEF IInv
    <2>2. profiles'[b] # profiles[b]
        BY <2>1
    <2>3. ~ \E builder \in Builders, mint \in Mints, requested \in Shares :
                RegisterBuilder(builder, mint, requested)
        BY <2>2 DEF RegisterBuilder
    <2>4. ~ \E user \in Traders, market, book, oracle \in Markets, mint, fee_vault \in Mints,
               price \in Prices, size \in Sizes :
                    \/ PlaceOrderChecked(user, market, book, oracle, mint, fee_vault, price, size)
                    \/ \E profile \in DOMAIN profiles :
                            PlaceOrderWithBuilder(user, market, book, oracle, mint, fee_vault,
                                                  profile, price, size)
        <3>1. ~ \E user \in Traders, market, book, oracle \in Markets, mint, fee_vault \in Mints,
                   price \in Prices, size \in Sizes :
                    PlaceOrderChecked(user, market, book, oracle, mint, fee_vault, price, size)
            BY <2>2 DEF PlaceOrderChecked
        <3> QED
            BY <3>1, OrdersOnlyCredit
    <2>5. PICK builder \in Builders, profile \in DOMAIN profiles, mint \in Mints, fee_vault \in Mints :
                \E builder_token \in AccountsOf(fee_vault) :
                    ClaimBuilderFees(builder, profile, mint, fee_vault, builder_token)
        BY <2>2, <2>3, <2>4 DEF Next, CreateFeeVault, SetOraclePrice, OracleGoesStale,
                                PlaceOrder, OrderLeaves, vars
    <2> PICK builder_token \in AccountsOf(fee_vault) :
            ClaimBuilderFees(builder, profile, mint, fee_vault, builder_token)
        BY <2>5
    <2>6. profiles' = [profiles EXCEPT ![profile] = Settled(profiles[profile])]
        BY DEF ClaimBuilderFees
    <2>7. profile = b
        BY <2>2, <2>6
    <2>8. profiles'[b].accumulated_fees = 0
        BY <2>1, <2>6, <2>7 DEF Settled, Profile
    <2>9. profiles[b].fee_mint = mint /\ fee_vault = mint
        BY <2>7 DEF ClaimBuilderFees, EarnedIn, VerifyFeeVault
    <2>10. Transfer(FeeVault(mint), builder_token, profiles[b].accumulated_fees)
        BY <2>7, <2>9 DEF ClaimBuilderFees
    <2> QED
        BY <2>8, <2>9, <2>10
<1> QED
    BY <1>1, Invariant, PTL DEF Spec, PaidInFull

----------------------------------------------------------------------------
(* Every builder can claim.  The prover does not know ENABLED, so what it   *)
(* means is spelled out: there is a next state that the action leads to.    *)

\* Fees accrue only where there is a vault to pay them from.
VaultsOfEarners ==
    \A b \in DOMAIN profiles : profiles[b].accumulated_fees > 0 => profiles[b].fee_mint \in fee_vaults

\* Only an order whose fee vault exists credits a builder, in that vault's
\* mint, and vaults are never closed.
LEMMA EarnersStep == IInv /\ VaultsOfEarners /\ [Next]_vars => VaultsOfEarners'
<1> SUFFICES ASSUME IInv, VaultsOfEarners, [Next]_vars PROVE VaultsOfEarners'
    OBVIOUS
<1>1. CASE \E builder \in Builders, mint \in Mints, requested \in Shares :
                RegisterBuilder(builder, mint, requested)
    BY <1>1 DEF RegisterBuilder, VaultsOfEarners
<1>2. CASE \E user \in Traders, market, book, oracle \in Markets, mint, fee_vault \in Mints,
              price \in Prices, size \in Sizes :
                PlaceOrderChecked(user, market, book, oracle, mint, fee_vault, price, size)
    BY <1>2 DEF PlaceOrderChecked, GatedOrder, VaultsOfEarners
<1>3. ASSUME NEW user \in Traders, NEW market \in Markets, NEW book \in Markets,
             NEW oracle \in Markets, NEW mint \in Mints, NEW fee_vault \in Mints,
             NEW price \in Prices, NEW size \in Sizes, NEW profile \in DOMAIN profiles,
             PlaceOrderWithBuilder(user, market, book, oracle, mint, fee_vault, profile, price, size)
      PROVE  VaultsOfEarners'
    <2>1. mint \in fee_vaults /\ fee_vaults' = fee_vaults /\ profiles[profile].fee_mint = mint
        BY <1>3 DEF PlaceOrderWithBuilder, GatedOrder, VerifyFeeVault, CreditsMint
    <2>2. /\ DOMAIN profiles' = DOMAIN profiles
          /\ \A b \in DOMAIN profiles : b # profile => profiles'[b] = profiles[b]
        BY <1>3 DEF PlaceOrderWithBuilder
    <2>3. profiles'[profile].fee_mint = profiles[profile].fee_mint
        BY <1>3, Fields DEF PlaceOrderWithBuilder, IInv, Profile
    <2> QED
        BY <2>1, <2>2, <2>3 DEF VaultsOfEarners
<1>4. ASSUME NEW builder \in Builders, NEW profile \in DOMAIN profiles,
             NEW mint \in Mints, NEW fee_vault \in Mints, NEW builder_token \in AccountsOf(fee_vault),
             ClaimBuilderFees(builder, profile, mint, fee_vault, builder_token)
      PROVE  VaultsOfEarners'
    <2>1. /\ fee_vaults' = fee_vaults
          /\ profiles' = [profiles EXCEPT ![profile] = Settled(profiles[profile])]
        BY <1>4 DEF ClaimBuilderFees
    <2>2. Settled(profiles[profile]).accumulated_fees = 0
        BY Fields DEF IInv, Settled, Profile
    <2> QED
        BY <2>1, <2>2 DEF VaultsOfEarners
<1>5. CASE \/ \E mint \in Mints : CreateFeeVault(mint)
           \/ \E market \in Markets, price \in Marks : SetOraclePrice(market, price)
           \/ \E market \in Markets : OracleGoesStale(market)
           \/ \E market \in Markets : PlaceOrder(market)
           \/ \E market \in Markets : OrderLeaves(market)
           \/ UNCHANGED vars
    BY <1>5 DEF VaultsOfEarners, CreateFeeVault, SetOraclePrice, OracleGoesStale, PlaceOrder,
                OrderLeaves, vars
<1> QED
    BY <1>1, <1>2, <1>3, <1>4, <1>5 DEF Next

\* It holds in every reachable state.
LEMMA EarnersHaveVaults == Spec => [](IInv /\ VaultsOfEarners)
<1>1. Init => VaultsOfEarners
    BY DEF Init, VaultsOfEarners
<1> QED
    BY <1>1, EarnersStep, Invariant, PTL DEF Spec

\* ClaimBuilderFees as a relation between this state and a next one, in which
\* profiles and tokens have the values profiles2 and tokens2.
ClaimTo(builder, profile, mint, fee_vault, builder_token, profiles2, tokens2) ==
    LET owed == profiles[profile].accumulated_fees
    IN /\ profile \in DOMAIN profiles
       /\ VerifyFeeVault(fee_vault, mint)
       /\ VerifyBuilder(profile, builder)
       /\ EarnedIn(profile, mint)
       /\ profiles2 = [profiles EXCEPT ![profile] = Settled(@)]
       /\ owed <= tokens[FeeVault(fee_vault)]
       /\ tokens2 = IF FeeVault(fee_vault) = builder_token THEN tokens
                    ELSE [tokens EXCEPT ![FeeVault(fee_vault)] = @ - owed, ![builder_token] = @ + owed]

\* The relation is the action.
LEMMA ClaimRelation ==
    ASSUME NEW builder, NEW profile, NEW mint, NEW fee_vault, NEW builder_token
    PROVE  ClaimBuilderFees(builder, profile, mint, fee_vault, builder_token)
           <=> /\ ClaimTo(builder, profile, mint, fee_vault, builder_token, profiles', tokens')
               /\ UNCHANGED <<fee_vaults, mark, active>>
BY ZenonT(30) DEF ClaimBuilderFees, ClaimTo, Transfer

\* There is a next state in which b has been paid what it is owed to account.
CanClaim(b, account) ==
    \E profiles2, tokens2 :
        ClaimTo(b, b, profiles[b].fee_mint, profiles[b].fee_mint, account, profiles2, tokens2)

\* What one builder is owed is at most what all of the mint are, which is there.
LEMMA CoveredCanClaim ==
    ASSUME IInv, VaultsOfEarners, NEW b \in DOMAIN profiles, profiles[b].accumulated_fees > 0,
           NEW account \in AccountsOf(profiles[b].fee_mint)
    PROVE  CanClaim(b, account)
<1> DEFINE mint == profiles[b].fee_mint
           owed == profiles[b].accumulated_fees
           f == Accrued(mint)
<1>1. owed \in Nat /\ mint \in Mints /\ mint \in fee_vaults
    BY Fields DEF IInv, VaultsOfEarners
<1>2. owed <= tokens[FeeVault(mint)]
    <2>1. b \in DOMAIN f /\ f[b] = owed
        BY DEF Accrued
    <2>2. IsFiniteSet(Units(f)) /\ Total(f) <= tokens[FeeVault(mint)]
        BY <1>1 DEF IInv, OwedFinite, FeesCovered, Owed
    <2>3. Total(f) \in Nat /\ tokens[FeeVault(mint)] \in Nat
        BY <1>1, Amounts DEF Owed
    <2> HIDE DEF f
    <2>4. owed <= Total(f)
        BY <1>1, <2>1, <2>2, PartWithinTotal
    <2> HIDE DEF owed, mint
    <2> QED
        BY <1>1, <2>2, <2>3, <2>4
<1>3. VerifyFeeVault(mint, mint) /\ VerifyBuilder(b, b) /\ EarnedIn(b, mint)
    BY <1>1 DEF VerifyFeeVault, VerifyBuilder, EarnedIn
<1> DEFINE profiles2 == [profiles EXCEPT ![b] = Settled(@)]
           tokens2 == IF FeeVault(mint) = account THEN tokens
                      ELSE [tokens EXCEPT ![FeeVault(mint)] = @ - owed, ![account] = @ + owed]
<1>4. ClaimTo(b, b, mint, mint, account, profiles2, tokens2)
    BY <1>2, <1>3, Zenon DEF ClaimTo
<1> QED
    BY <1>4, Zenon DEF CanClaim

\* EveryoneCanClaim with ENABLED spelled out: a builder can claim all of what
\* is owed, to any account of the mint, whatever others claimed before.
THEOREM EveryClaimPossible ==
    Spec => [](\A b \in DOMAIN profiles : profiles[b].accumulated_fees > 0 =>
                    \A account \in AccountsOf(profiles[b].fee_mint) : CanClaim(b, account))
<1>1. IInv /\ VaultsOfEarners =>
        \A b \in DOMAIN profiles : profiles[b].accumulated_fees > 0 =>
            \A account \in AccountsOf(profiles[b].fee_mint) : CanClaim(b, account)
    BY CoveredCanClaim
<1> QED
    BY <1>1, EarnersHaveVaults, PTL

----------------------------------------------------------------------------
(* When an order pays its fee.                                              *)

\* A fee is exact when neither the u128 product nor the u64 result wraps.
LEMMA FeeExact ==
    ASSUME NEW notional \in Nat,
           notional * PROTOCOL_FEE_BPS < (U64_MAX + 1) * (U64_MAX + 1),
           (notional * PROTOCOL_FEE_BPS) \div BPS_DENOMINATOR <= U64_MAX
    PROVE  ProtocolFee(notional) = (notional * PROTOCOL_FEE_BPS) \div BPS_DENOMINATOR
<1> DEFINE product == notional * PROTOCOL_FEE_BPS
           width == (U64_MAX + 1) * (U64_MAX + 1)
           quotient == product \div BPS_DENOMINATOR
<1>1. product \in Nat /\ U64_MAX \in Nat /\ BPS_DENOMINATOR \in Nat \ {0}
    BY GateAssumption, ProductNat
<1>2. width \in Nat \ {0}
    BY <1>1
<1>3. quotient \in Nat
    <2> HIDE DEF product
    <2> QED
        BY <1>1, Division
<1>4. \A x \in Nat, w \in Nat \ {0} : x < w => x % w = x
    OBVIOUS
<1>5. product % width = product
    <2> HIDE DEF product, width
    <2>1. product < width
        BY DEF product, width
    <2> QED
        BY <1>1, <1>2, <1>4, <2>1
<1>6. quotient % (U64_MAX + 1) = quotient
    <2> HIDE DEF quotient
    <2>1. quotient <= U64_MAX
        BY DEF quotient
    <2> QED
        BY <1>1, <1>3, <1>4, <2>1
<1> QED
    BY <1>5, <1>6 DEF ProtocolFee

\* "Every order pays `fee_bps` of its notional" as far as it is true: an order
\* through the plain gate brings the fee vault exactly that, rounded down, for
\* every notional whose fee is computed without a wrap.
THEOREM FeePaidWithinWidth ==
    Spec =>
        [][\A user \in Traders, market \in Markets, price \in Prices, size \in Sizes :
            LET mint == QuoteMint[market]
                product == price * size * PROTOCOL_FEE_BPS
            IN /\ PlaceOrderChecked(user, market, market, market, mint, mint, price, size)
               /\ product < (U64_MAX + 1) * (U64_MAX + 1)
               /\ product \div BPS_DENOMINATOR <= U64_MAX
               => tokens'[FeeVault(mint)] - tokens[FeeVault(mint)] = product \div BPS_DENOMINATOR]_vars
<1>1. ASSUME IInv, NEW user \in Traders, NEW market \in Markets, NEW price \in Prices, NEW size \in Sizes,
             PlaceOrderChecked(user, market, market, market, QuoteMint[market], QuoteMint[market],
                               price, size),
             price * size * PROTOCOL_FEE_BPS < (U64_MAX + 1) * (U64_MAX + 1),
             (price * size * PROTOCOL_FEE_BPS) \div BPS_DENOMINATOR <= U64_MAX
      PROVE  tokens'[FeeVault(QuoteMint[market])] - tokens[FeeVault(QuoteMint[market])]
                = (price * size * PROTOCOL_FEE_BPS) \div BPS_DENOMINATOR
    <2> DEFINE mint == QuoteMint[market]
               fee == ProtocolFee(Notional(price, size))
               wallet == Wallet(user, mint)
               vault == FeeVault(mint)
    <2>1. mint \in Mints /\ price \in Nat /\ size \in Nat
        BY InputAssumption, GateAssumption
    <2>2. Notional(price, size) = price * size /\ price * size \in Nat
        BY <2>1, ProductNat DEF Notional
    <2>3. fee = (price * size * PROTOCOL_FEE_BPS) \div BPS_DENOMINATOR
        BY <1>1, <2>2, FeeExact
    <2>4. fee \in Nat
        BY <2>2, FeeNat
    <2>5. wallet # vault /\ vault \in TokenAccounts /\ tokens[vault] \in Nat /\ DOMAIN tokens = TokenAccounts
        <3>1. wallet # vault
            BY AccountsDiffer, Zenon
        <3>2. vault \in TokenAccounts
            BY <2>1, AccountsDiffer, Zenon
        <3>3. tokens \in [TokenAccounts -> Nat]
            BY <1>1 DEF IInv, TypeOK
        <3> HIDE DEF wallet, vault
        <3> QED
            BY <3>1, <3>2, <3>3
    <2>6. Transfer(wallet, vault, fee)
        BY <1>1 DEF PlaceOrderChecked, GatedOrder
    <2> HIDE DEF fee, wallet, vault
    <2>7. tokens'[vault] = tokens[vault] + fee
        BY <2>5, <2>6 DEF Transfer
    <2>8. tokens'[vault] - tokens[vault] = fee
        BY <2>4, <2>5, <2>7
    <2> QED
        BY <2>3, <2>8 DEF vault
<1>2. IInv =>
        \A user \in Traders, market \in Markets, price \in Prices, size \in Sizes :
            LET mint == QuoteMint[market]
                product == price * size * PROTOCOL_FEE_BPS
            IN /\ PlaceOrderChecked(user, market, market, market, mint, mint, price, size)
               /\ product < (U64_MAX + 1) * (U64_MAX + 1)
               /\ product \div BPS_DENOMINATOR <= U64_MAX
               => tokens'[FeeVault(mint)] - tokens[FeeVault(mint)] = product \div BPS_DENOMINATOR
    BY <1>1
<1> QED
    BY <1>2, Invariant, PTL DEF Spec

=============================================================================
