-------------------------- MODULE TradingVault_proofs --------------------------
(***************************************************************************)
(* Proofs about TradingVault for any vaults, depositors, amounts and NAVs: *)
(* the depositors' shares add up to total_shares, no deposit and no        *)
(* withdrawal lowers the price of a share, a NAV that is backed by tokens  *)
(* stays so until the manager reports another and lets everyone leave, a   *)
(* deposit neither gives to the depositor nor takes from them more than a  *)
(* rounding, and a record without shares has no cost basis.                *)
(***************************************************************************)
EXTENDS TradingVault, TLAPS, FiniteSetTheorems

----------------------------------------------------------------------------
(* Sums: how a total moves when one part of it does.                        *)

\* The part of owner r, nothing where there is none.
Part(f, r) == IF r \in DOMAIN f THEN f[r] ELSE 0

\* The amounts f and g are the same but for r, which has n in f and m in g.
Differ(f, g, r, n, m) ==
    /\ n = Part(f, r) /\ m = Part(g, r)
    /\ \A q : q # r => (q \in DOMAIN f <=> q \in DOMAIN g)
    /\ \A q \in DOMAIN f : q # r => f[q] = g[q]

Others(f, r) == {x \in Units(f) : x[1] # r}

\* A total is what r has and what the others have.
LEMMA TotalSplits ==
    ASSUME NEW f, NEW r, NEW n \in Nat, n = Part(f, r)
    PROVE  /\ IsFiniteSet(Units(f)) <=> IsFiniteSet(Others(f, r))
           /\ IsFiniteSet(Units(f)) => /\ Cardinality(Others(f, r)) \in Nat
                                       /\ Total(f) = Cardinality(Others(f, r)) + n
<1> DEFINE Own == {r} \X (1 .. n)
           Rest == Others(f, r)
<1>1. Units(f) = Rest \union Own /\ Rest \cap Own = {}
    <2>1. ASSUME NEW x \in Own PROVE x \in Units(f) /\ x[1] = r
        BY DEF Units, Part
    <2>2. ASSUME NEW x \in Units(f), x[1] = r PROVE x \in Own
        BY <2>2 DEF Units, Part
    <2> QED
        BY <2>1, <2>2 DEF Others
<1>2. IsFiniteSet(Own) /\ Cardinality(Own) = n
    <2>1. IsFiniteSet(1 .. n) /\ Cardinality(1 .. n) = n
        BY FS_Interval
    <2>2. IsFiniteSet({r}) /\ Cardinality({r}) = 1
        BY FS_Singleton
    <2>3. IsFiniteSet(Own) /\ Cardinality(Own) = 1 * n
        BY <2>1, <2>2, FS_Product
    <2> QED
        BY <2>3
<1> HIDE DEF Own, Rest
<1>3. ASSUME IsFiniteSet(Rest)
      PROVE  /\ IsFiniteSet(Rest \union Own) /\ Cardinality(Rest) \in Nat
             /\ Cardinality(Rest \union Own) = Cardinality(Rest) + n
    <2>1. Cardinality(Rest \cap Own) = 0 /\ Cardinality(Rest) \in Nat
        BY <1>1, <1>3, FS_EmptySet, FS_CardinalityType
    <2>2. /\ IsFiniteSet(Rest \union Own)
          /\ Cardinality(Rest \union Own) = Cardinality(Rest) + Cardinality(Own) - Cardinality(Rest \cap Own)
        BY <1>2, <1>3, FS_Union
    <2> QED
        BY <1>2, <2>1, <2>2
<1>4. IsFiniteSet(Rest \union Own) => IsFiniteSet(Rest)
    BY FS_Subset
<1> QED
    BY <1>1, <1>3, <1>4 DEF Total, Rest

\* When one part of a sum goes from n to m, the sum moves by as much.
LEMMA TotalMoves ==
    ASSUME NEW f, NEW g, NEW r, NEW n \in Nat, NEW m \in Nat, IsFiniteSet(Units(f)),
           Differ(f, g, r, n, m)
    PROVE  IsFiniteSet(Units(g)) /\ Total(f) \in Nat /\ Total(g) = Total(f) + (m - n)
<1>1. Others(g, r) = Others(f, r)
    BY DEF Differ, Others, Units
<1>2. /\ Cardinality(Others(f, r)) \in Nat /\ IsFiniteSet(Others(f, r))
      /\ Total(f) = Cardinality(Others(f, r)) + n
    BY TotalSplits DEF Differ
<1>3. IsFiniteSet(Units(g)) /\ Total(g) = Cardinality(Others(g, r)) + m
    BY <1>1, <1>2, TotalSplits DEF Differ
<1> QED
    BY <1>1, <1>2, <1>3

\* No part exceeds the total.
LEMMA PartWithinTotal ==
    ASSUME NEW f, NEW r \in DOMAIN f, f[r] \in Nat, IsFiniteSet(Units(f))
    PROVE  f[r] <= Total(f)
<1>1. /\ Cardinality(Others(f, r)) \in Nat
      /\ Total(f) = Cardinality(Others(f, r)) + f[r]
    BY TotalSplits DEF Part
<1> QED
    BY <1>1

\* Nobody owns nothing.
LEMMA NoUnits ==
    ASSUME NEW f, DOMAIN f = {}
    PROVE  IsFiniteSet(Units(f)) /\ Total(f) = 0
BY FS_EmptySet DEF Units, Total

----------------------------------------------------------------------------
(* Products, quotients and remainders of naturals.                          *)

\* The product of naturals is one.
LEMMA ProductNat ==
    ASSUME NEW x \in Nat, NEW y \in Nat
    PROVE  x * y \in Nat
OBVIOUS

\* A product grows with its factor.
LEMMA ProductMonotone ==
    ASSUME NEW x \in Int, NEW y \in Int, NEW n \in Nat, x <= y
    PROVE  /\ n * x \in Int /\ n * y \in Int /\ n * x <= n * y
           /\ x * n \in Int /\ y * n \in Int /\ x * n <= y * n
OBVIOUS

\* What division promises.
LEMMA Division ==
    ASSUME NEW x \in Nat, NEW n \in Nat \ {0}
    PROVE  x \div n \in Nat /\ n * (x \div n) <= x /\ x % n \in 0 .. n - 1
OBVIOUS

\* It rounds down, and by less than one.
LEMMA QuotientAtLeast ==
    ASSUME NEW x \in Nat, NEW y \in Int, NEW n \in Nat \ {0}, y * n <= x
    PROVE  y <= x \div n
OBVIOUS

\* A quotient is below what exceeds it as a product.
LEMMA QuotientBelow ==
    ASSUME NEW x \in Nat, NEW y \in Int, NEW n \in Nat \ {0}, x < y * n
    PROVE  x \div n < y
OBVIOUS

\* Rounding down loses less than one.
LEMMA RoundedByLessThanOne ==
    ASSUME NEW x \in Nat, NEW n \in Nat \ {0}
    PROVE  x < (x \div n + 1) * n
OBVIOUS

\* A quotient is no larger than what is divided.
LEMMA QuotientBound ==
    ASSUME NEW x \in Nat, NEW y \in Nat, NEW n \in Nat \ {0}, x <= y * n
    PROVE  x \div n <= y
OBVIOUS

\* A remainder is no larger than what is divided, and a small number is its own.
LEMMA ModSmaller ==
    ASSUME NEW x \in Nat, NEW n \in Nat \ {0}
    PROVE  x % n <= x /\ (x < n => x % n = x)
OBVIOUS

----------------------------------------------------------------------------
(* The share records, of which a step changes one.                          *)

HeldIn(sh, vault) == [r \in {s \in DOMAIN sh : s[1] = vault} |-> sh[r].shares]

\* The records sh2 are the records sh, but for r, which has m shares instead
\* of n.
Changes(sh, sh2, r, n, m) ==
    /\ DOMAIN sh2 = DOMAIN sh \union {r}
    /\ n = IF r \in DOMAIN sh THEN sh[r].shares ELSE 0
    /\ sh2[r].shares = m
    /\ \A q \in DOMAIN sh \ {r} : sh2[q].shares = sh[q].shares

\* So what is held of its vault differs for r alone.
LEMMA HeldDiffers ==
    ASSUME NEW sh, NEW sh2, NEW r, NEW n, NEW m, Changes(sh, sh2, r, n, m)
    PROVE  Differ(HeldIn(sh, r[1]), HeldIn(sh2, r[1]), r, n, m)
BY DEF Changes, Differ, Part, HeldIn

\* The other vaults' shares are as before.
LEMMA OthersHeld ==
    ASSUME NEW sh, NEW sh2, NEW r, NEW n, NEW m, Changes(sh, sh2, r, n, m),
           NEW w, w # r[1]
    PROVE  HeldIn(sh2, w) = HeldIn(sh, w)
<1>1. {s \in DOMAIN sh2 : s[1] = w} = {s \in DOMAIN sh : s[1] = w}
    BY DEF Changes
<1>2. \A q \in {s \in DOMAIN sh : s[1] = w} : sh2[q].shares = sh[q].shares
    BY DEF Changes
<1> QED
    BY <1>1, <1>2 DEF HeldIn

----------------------------------------------------------------------------
(* Arithmetic of the share price.                                           *)

\* Minted shares are a natural, and at a positive NAV no more than the deposit
\* buys.
LEMMA MintedShares ==
    ASSUME NEW a \in Nat, NEW T \in Nat, NEW A \in Nat
    PROVE  /\ SharesForDeposit(a, T, A) \in Nat
           /\ T # 0 /\ A # 0 => A * SharesForDeposit(a, T, A) <= a * T
<1>1. a * T \in Nat
    BY ProductNat
<1>2. CASE T # 0 /\ A # 0
    BY <1>1, <1>2, Division DEF SharesForDeposit
<1>3. CASE ~(T # 0 /\ A # 0)
    BY <1>3 DEF SharesForDeposit
<1> QED
    BY <1>2, <1>3

\* Burned shares yield a natural, no more than they are worth.
LEMMA ReturnedAssets ==
    ASSUME NEW b \in Nat, NEW T \in Nat \ {0}, NEW A \in Nat, b <= T
    PROVE  /\ AssetsForWithdraw(b, T, A) \in Nat
           /\ T * AssetsForWithdraw(b, T, A) <= b * A
           /\ AssetsForWithdraw(b, T, A) <= A
<1> DEFINE q == AssetsForWithdraw(b, T, A)
<1>1. b * A \in Nat
    BY ProductNat
<1>2. q \in Nat /\ T * q <= b * A
    BY <1>1, Division DEF AssetsForWithdraw
<1>3. b * A <= T * A
    OBVIOUS
<1>4. q <= A
    <2> HIDE DEF q
    <2>1. SUFFICES ASSUME q >= A + 1 PROVE FALSE
        BY <1>2
    <2>2. T * q >= T * (A + 1)
        BY <1>2, <2>1
    <2>3. T * (A + 1) = T * A + T
        OBVIOUS
    <2>4. T * A \in Nat
        BY ProductNat
    <2> QED
        BY <1>1, <1>2, <1>3, <2>2, <2>3, <2>4
<1> QED
    BY <1>2, <1>4

----------------------------------------------------------------------------
(* The inductive invariant: shares add up and are finitely many, which is   *)
(* what bounds a holder's shares by total_shares, so that the subtraction   *)
(* of VaultWithdraw does not wrap.                                          *)

UnitsFinite == \A v \in DOMAIN vaults : IsFiniteSet(Units(Held(v)))

IInv == TypeOK /\ SharesAddUp /\ UnitsFinite

\* The fields of existing vaults and records are naturals of the type.
LEMMA Fields ==
    ASSUME TypeOK
    PROVE  /\ U64_MAX \in Nat
           /\ \A v \in DOMAIN vaults :
                /\ vaults[v].total_shares \in 0 .. U64_MAX
                /\ vaults[v].total_assets \in 0 .. U64_MAX
           /\ \A r \in DOMAIN shares :
                /\ shares[r].shares \in 0 .. U64_MAX
                /\ shares[r].cost_basis \in 0 .. U64_MAX
                /\ r[1] \in DOMAIN vaults /\ r[2] \in Depositors /\ r = <<r[1], r[2]>>
<1>1. U64_MAX \in Nat
    BY InputAssumption
<1>2. \A v \in DOMAIN vaults : vaults[v] \in Account
    BY DEF TypeOK
<1>3. \A r \in DOMAIN shares : shares[r] \in Share /\ r \in (DOMAIN vaults) \X Depositors
    BY DEF TypeOK
<1> QED
    BY <1>1, <1>2, <1>3 DEF Account, Share

\* No one holds more than there is.
LEMMA HeldWithinTotal ==
    ASSUME IInv, NEW r \in DOMAIN shares
    PROVE  shares[r].shares <= vaults[r[1]].total_shares
<1> DEFINE h == Held(r[1])
<1>1. r \in DOMAIN h /\ h[r] = shares[r].shares
    BY DEF Held
<1>2. shares[r].shares \in Nat /\ r[1] \in DOMAIN vaults
    BY Fields DEF IInv
<1>3. IsFiniteSet(Units(h)) /\ vaults[r[1]].total_shares = Total(h)
    BY <1>2 DEF IInv, UnitsFinite, SharesAddUp
<1> HIDE DEF h
<1> QED
    BY <1>1, <1>2, <1>3, PartWithinTotal

\* A transfer of a natural amount leaves naturals.
LEMMA TransferTypes ==
    ASSUME tokens \in [TokenAccounts -> Nat], NEW from \in TokenAccounts, NEW to \in TokenAccounts,
           NEW amount \in Nat, Transfer(from, to, amount)
    PROVE  tokens' \in [TokenAccounts -> Nat]
BY DEF Transfer

\* The token accounts that exist are token accounts.
LEMMA OpenAreAccounts ==
    ASSUME TypeOK
    PROVE  /\ OpenAccounts \subseteq TokenAccounts
           /\ \A v \in DOMAIN vaults : VaultToken(v) \in TokenAccounts
           /\ \A u \in Depositors : Wallet(u) \in TokenAccounts
BY DEF TypeOK, OpenAccounts, TokenAccounts

\* In a step that changes one record and its vault's total by the same amount,
\* shares keep adding up.
LEMMA CountMoves ==
    ASSUME IInv, NEW r, r[1] \in DOMAIN vaults, NEW n \in Nat, NEW m \in Nat,
           Changes(shares, shares', r, n, m),
           DOMAIN vaults' = DOMAIN vaults,
           vaults'[r[1]].total_shares = vaults[r[1]].total_shares + (m - n),
           \A v \in DOMAIN vaults \ {r[1]} : vaults'[v] = vaults[v]
    PROVE  SharesAddUp' /\ UnitsFinite'
<1> DEFINE vault == r[1]
<1>1. \A v : Held(v) = HeldIn(shares, v) /\ Held(v)' = HeldIn(shares', v)
    BY DEF Held, HeldIn
<1>2. IsFiniteSet(Units(Held(vault))) /\ vaults[vault].total_shares = Total(Held(vault))
    BY DEF IInv, UnitsFinite, SharesAddUp
<1>3. /\ IsFiniteSet(Units(HeldIn(shares', vault)))
      /\ Total(HeldIn(shares', vault)) = Total(HeldIn(shares, vault)) + (m - n)
    <2>1. Differ(HeldIn(shares, vault), HeldIn(shares', vault), r, n, m)
        BY HeldDiffers
    <2> QED
        BY <1>1, <1>2, <2>1, TotalMoves
<1>4. \A w : w # vault => HeldIn(shares', w) = HeldIn(shares, w)
    BY OthersHeld
<1>5. \A v \in DOMAIN vaults' :
        /\ IsFiniteSet(Units(Held(v)'))
        /\ vaults'[v].total_shares = Total(Held(v)')
    <2> TAKE v \in DOMAIN vaults'
    <2>1. CASE v = vault
        BY <1>1, <1>2, <1>3, <2>1
    <2>2. CASE v # vault
        BY <1>1, <1>4, <2>2 DEF IInv, UnitsFinite, SharesAddUp
    <2> QED
        BY <2>1, <2>2
<1> QED
    BY <1>5 DEF SharesAddUp, UnitsFinite, Units, Total

\* At first there is no vault.
LEMMA InitEstablishes == Init => IInv
<1> SUFFICES ASSUME Init PROVE IInv
    OBVIOUS
<1>1. DOMAIN vaults = {} /\ DOMAIN shares = {}
    BY DEF Init
<1>2. tokens \in [TokenAccounts -> Nat]
    BY InputAssumption DEF Init
<1> QED
    BY <1>1, <1>2 DEF Init, IInv, TypeOK, SharesAddUp, UnitsFinite

----------------------------------------------------------------------------
(* Each action preserves it.                                                *)

\* A new vault has no shares: records of it would need it to exist before.
LEMMA CreatePreserves ==
    ASSUME IInv, NEW vault \in Vaults, CreateTradingVault(vault)
    PROVE  IInv'
<1> USE DEF CreateTradingVault
<1>1. TypeOK'
    <2>1. 0 \in 0 .. U64_MAX
        BY InputAssumption
    <2>2. vaults' \in [DOMAIN vaults' -> Account]
        BY <2>1 DEF IInv, TypeOK, Account
    <2> QED
        BY <2>2 DEF IInv, TypeOK
<1>2. \A v : Held(v)' = Held(v)
    BY DEF Held
<1>3. IsFiniteSet(Units(Held(vault))) /\ Total(Held(vault)) = 0
    <2>1. {s \in DOMAIN shares : s[1] = vault} = {}
        BY Fields DEF IInv
    <2>2. DOMAIN Held(vault) = {}
        BY <2>1 DEF Held
    <2> QED
        BY <2>2, NoUnits
<1>4. \A v \in DOMAIN vaults' :
        /\ IsFiniteSet(Units(Held(v)'))
        /\ vaults'[v].total_shares = Total(Held(v)')
    <2> TAKE v \in DOMAIN vaults'
    <2>1. CASE v = vault
        BY <1>2, <1>3, <2>1
    <2>2. CASE v # vault
        BY <1>2, <2>2 DEF IInv, SharesAddUp, UnitsFinite
    <2> QED
        BY <2>1, <2>2
<1> QED
    BY <1>1, <1>4 DEF IInv, SharesAddUp, UnitsFinite

\* A deposit adds the same number to the record and to the total.
LEMMA DepositPreserves ==
    ASSUME IInv, NEW depositor \in Depositors, NEW vault \in DOMAIN vaults,
           NEW vault_token \in OpenAccounts, NEW assets \in Amounts,
           VaultDeposit(depositor, vault, vault_token, assets)
    PROVE  IInv'
<1> DEFINE v == vaults[vault]
           minted == SharesForDeposit(assets, v.total_shares, v.total_assets)
           r == <<vault, depositor>>
           n == IF r \in DOMAIN shares THEN shares[r].shares ELSE 0
           basis == IF r \in DOMAIN shares THEN shares[r].cost_basis ELSE 0
           m == n + minted
<1>1. v.total_shares \in Nat /\ v.total_assets \in Nat /\ assets \in Nat /\ n \in Nat /\ basis \in Nat
    BY Fields, InputAssumption DEF IInv
<1>2. minted \in Nat
    BY <1>1, MintedShares
<1> HIDE DEF minted
<1>3. /\ v.total_shares + minted <= U64_MAX /\ v.total_assets + assets <= U64_MAX
      /\ n + minted <= U64_MAX /\ basis + assets <= U64_MAX
      /\ vaults' = [vaults EXCEPT ![vault] = [total_shares |-> v.total_shares + minted,
                                             total_assets |-> v.total_assets + assets]]
      /\ DOMAIN shares' = DOMAIN shares \union {r}
      /\ shares' = [q \in DOMAIN shares \union {r} |->
            IF q = r THEN [shares |-> m, cost_basis |-> basis + assets] ELSE shares[q]]
      /\ Transfer(Wallet(depositor), vault_token, assets)
    BY DEF VaultDeposit, minted
<1>4. TypeOK'
    <2>1. vaults' \in [DOMAIN vaults' -> Account] /\ DOMAIN vaults' = DOMAIN vaults
        BY <1>1, <1>2, <1>3 DEF IInv, TypeOK, Account
    <2>2. [shares |-> m, cost_basis |-> basis + assets] \in Share
        BY <1>1, <1>2, <1>3 DEF Share
    <2>3. shares' \in [DOMAIN shares' -> Share]
        BY <1>3, <2>2 DEF IInv, TypeOK
    <2>4. DOMAIN shares' \subseteq (DOMAIN vaults') \X Depositors
        BY <1>3, <2>1 DEF IInv, TypeOK
    <2>5. tokens' \in [TokenAccounts -> Nat]
        BY <1>1, <1>3, OpenAreAccounts, TransferTypes DEF IInv, TypeOK
    <2> QED
        BY <2>1, <2>3, <2>4, <2>5 DEF IInv, TypeOK
<1>5. Changes(shares, shares', r, n, m)
    BY <1>3 DEF Changes
<1>6. /\ DOMAIN vaults' = DOMAIN vaults
      /\ vaults'[r[1]].total_shares = vaults[r[1]].total_shares + (m - n)
      /\ \A w \in DOMAIN vaults \ {r[1]} : vaults'[w] = vaults[w]
    BY <1>1, <1>2, <1>3
<1>7. r[1] \in DOMAIN vaults /\ m \in Nat /\ n \in Nat
    BY <1>1, <1>2
<1>8. SharesAddUp' /\ UnitsFinite'
    <2> HIDE DEF m, n, r
    <2> QED
        BY <1>5, <1>6, <1>7, CountMoves
<1> QED
    BY <1>4, <1>8 DEF IInv

Minted(vault, assets) ==
    SharesForDeposit(assets, vaults[vault].total_shares, vaults[vault].total_assets)
Returned(vault, burned) ==
    AssetsForWithdraw(burned, vaults[vault].total_shares, vaults[vault].total_assets)

\* What a withdrawal does to the vault: nothing saturates and nothing wraps, as
\* no one holds more than there is.
LEMMA WithdrawEffect ==
    ASSUME IInv, NEW owner \in Depositors, NEW vault \in DOMAIN vaults, NEW record \in DOMAIN shares,
           NEW vault_token \in OpenAccounts, NEW owner_token \in OpenAccounts, NEW burned \in Burns,
           VaultWithdraw(owner, vault, record, vault_token, owner_token, burned)
    PROVE  LET v == vaults[vault]
               q == Returned(vault, burned)
           IN /\ v.total_shares \in Nat \ {0} /\ v.total_assets \in Nat
              /\ burned \in Nat /\ burned <= v.total_shares
              /\ q \in Nat /\ q <= v.total_assets /\ v.total_shares * q <= burned * v.total_assets
              /\ vaults' = [vaults EXCEPT ![vault] = [total_shares |-> v.total_shares - burned,
                                                     total_assets |-> v.total_assets - q]]
<1> DEFINE v == vaults[vault]
           n == shares[record].shares
           q == Returned(vault, burned)
<1>1. /\ v.total_shares \in 0 .. U64_MAX /\ v.total_assets \in 0 .. U64_MAX
      /\ burned \in Nat /\ n \in 0 .. U64_MAX /\ U64_MAX \in Nat
    BY Fields, InputAssumption DEF IInv
<1>2. record[1] = vault /\ burned <= n /\ v.total_shares # 0
    BY DEF VaultWithdraw, VerifyShare, Holds
<1>3. burned <= v.total_shares
    BY <1>1, <1>2, HeldWithinTotal
<1>4. v.total_shares \in Nat \ {0} /\ v.total_assets \in Nat
    BY <1>1, <1>2
<1>5. q \in Nat /\ q <= v.total_assets /\ v.total_shares * q <= burned * v.total_assets
    <2> HIDE DEF v
    <2> QED
        BY <1>1, <1>3, <1>4, ReturnedAssets DEF Returned, v
<1>6. vaults' = [vaults EXCEPT ![vault] =
            [total_shares |-> (v.total_shares - burned) % (U64_MAX + 1),
             total_assets |-> SaturatingSub(v.total_assets, q)]]
    BY DEF VaultWithdraw, Returned
<1>7. (v.total_shares - burned) % (U64_MAX + 1) = v.total_shares - burned
    BY <1>1, <1>3
<1>8. SaturatingSub(v.total_assets, q) = v.total_assets - q
    BY <1>5 DEF SaturatingSub
<1> QED
    BY <1>1, <1>3, <1>4, <1>5, <1>6, <1>7, <1>8

\* A withdrawal takes the same number from the record and from the total.
LEMMA WithdrawPreserves ==
    ASSUME IInv, NEW owner \in Depositors, NEW vault \in DOMAIN vaults, NEW record \in DOMAIN shares,
           NEW vault_token \in OpenAccounts, NEW owner_token \in OpenAccounts, NEW burned \in Burns,
           VaultWithdraw(owner, vault, record, vault_token, owner_token, burned)
    PROVE  IInv'
<1> DEFINE v == vaults[vault]
           n == shares[record].shares
           basis == shares[record].cost_basis
           q == Returned(vault, burned)
           reduced == SaturatingSub(basis, CostBasisReduction(burned, basis, n))
           m == n - burned
<1>1. /\ v.total_shares \in 0 .. U64_MAX /\ v.total_assets \in 0 .. U64_MAX
      /\ n \in 0 .. U64_MAX /\ basis \in 0 .. U64_MAX /\ U64_MAX \in Nat
    BY Fields DEF IInv
<1>2. record[1] = vault /\ burned <= n /\ burned # 0
    BY DEF VaultWithdraw, VerifyShare, Holds
<1>3. /\ burned \in Nat /\ burned <= v.total_shares
      /\ q \in Nat /\ q <= v.total_assets
      /\ vaults' = [vaults EXCEPT ![vault] = [total_shares |-> v.total_shares - burned,
                                             total_assets |-> v.total_assets - q]]
    BY WithdrawEffect
<1>4. reduced \in 0 .. U64_MAX
    <2>1. /\ burned * basis \in Nat /\ n \in Nat \ {0}
          /\ U64_MAX + 1 \in Nat \ {0}
        BY <1>1, <1>2, <1>3, ProductNat
    <2>2. (burned * basis) \div n \in Nat
        BY <2>1, Division
    <2>3. CostBasisReduction(burned, basis, n) \in Nat
        <3>1. \A y \in Nat : y % (U64_MAX + 1) \in Nat
            BY ONLY <2>1, Division
        <3> QED
            BY <2>2, <3>1 DEF CostBasisReduction
    <2> QED
        BY <1>1, <2>3 DEF SaturatingSub
<1> HIDE DEF reduced
<1>5. /\ shares' = [shares EXCEPT ![record] = [shares |-> m, cost_basis |-> reduced]]
      /\ Transfer(vault_token, owner_token, q) \/ UNCHANGED tokens
    BY DEF VaultWithdraw, Returned, reduced
<1> HIDE DEF q
<1>6. TypeOK'
    <2>1. vaults' \in [DOMAIN vaults' -> Account] /\ DOMAIN vaults' = DOMAIN vaults
        <3>1. [total_shares |-> v.total_shares - burned, total_assets |-> v.total_assets - q]
                    \in Account
            BY <1>1, <1>3 DEF Account
        <3> QED
            BY <1>3, <3>1 DEF IInv, TypeOK
    <2>2. shares' \in [DOMAIN shares' -> Share] /\ DOMAIN shares' = DOMAIN shares
        <3>1. [shares |-> m, cost_basis |-> reduced] \in Share
            BY <1>1, <1>2, <1>3, <1>4 DEF Share
        <3> QED
            BY <1>5, <3>1 DEF IInv, TypeOK
    <2>3. tokens' \in [TokenAccounts -> Nat]
        BY <1>3, <1>5, OpenAreAccounts, TransferTypes DEF IInv, TypeOK
    <2> QED
        BY <2>1, <2>2, <2>3 DEF IInv, TypeOK
<1>7. Changes(shares, shares', record, n, m)
    BY <1>5 DEF Changes
<1>8. /\ DOMAIN vaults' = DOMAIN vaults
      /\ vaults'[record[1]].total_shares = vaults[record[1]].total_shares + (m - n)
      /\ \A w \in DOMAIN vaults \ {record[1]} : vaults'[w] = vaults[w]
    BY <1>1, <1>2, <1>3
<1>9. m \in Nat /\ n \in Nat
    BY <1>1, <1>2, <1>3
<1> HIDE DEF m, n
<1>10. SharesAddUp' /\ UnitsFinite'
    BY <1>2, <1>7, <1>8, <1>9, CountMoves
<1> QED
    BY <1>6, <1>10 DEF IInv

\* The manager's report and a transfer from outside touch no shares.
LEMMA OthersPreserve ==
    ASSUME IInv,
           \/ \E vault \in DOMAIN vaults, nav \in Navs : VaultUpdateNav(vault, nav)
           \/ \E user \in Depositors, vault \in DOMAIN vaults, amount \in Amounts :
                    SplTransfer(user, vault, amount)
           \/ UNCHANGED vars
    PROVE  IInv'
<1>1. UNCHANGED shares /\ DOMAIN vaults' = DOMAIN vaults
      /\ \A v \in DOMAIN vaults : vaults'[v].total_shares = vaults[v].total_shares
    BY DEF VaultUpdateNav, SplTransfer, vars, IInv, TypeOK, Account
<1>2. vaults' \in [DOMAIN vaults' -> Account]
    <2>1. \A nav \in Navs : nav \in 0 .. U64_MAX
        BY InputAssumption
    <2> QED
        BY <2>1 DEF VaultUpdateNav, SplTransfer, vars, IInv, TypeOK, Account
<1>3. tokens' \in [TokenAccounts -> Nat]
    <2>1. \A amount \in Amounts : amount \in Nat
        BY InputAssumption
    <2>2. tokens \in [TokenAccounts -> Nat]
        BY DEF IInv, TypeOK
    <2>3. CASE \E user \in Depositors, vault \in DOMAIN vaults, amount \in Amounts :
                    SplTransfer(user, vault, amount)
        BY <2>1, <2>2, <2>3, OpenAreAccounts, TransferTypes DEF SplTransfer, IInv
    <2>4. CASE UNCHANGED tokens
        BY <2>2, <2>4
    <2> QED
        BY <2>3, <2>4 DEF VaultUpdateNav, vars
<1>4. TypeOK'
    BY <1>1, <1>2, <1>3 DEF IInv, TypeOK
<1>5. \A v : Held(v)' = Held(v)
    BY <1>1 DEF Held
<1> QED
    BY <1>1, <1>4, <1>5 DEF IInv, SharesAddUp, UnitsFinite

\* Every step preserves the invariant.
LEMMA StepPreserves == IInv /\ [Next]_vars => IInv'
<1> SUFFICES ASSUME IInv, [Next]_vars PROVE IInv'
    OBVIOUS
<1>1. CASE \E vault \in Vaults : CreateTradingVault(vault)
    BY <1>1, CreatePreserves
<1>2. CASE \E depositor \in Depositors, vault \in DOMAIN vaults,
              vault_token \in OpenAccounts, assets \in Amounts :
                VaultDeposit(depositor, vault, vault_token, assets)
    BY <1>2, DepositPreserves
<1>3. CASE \E owner \in Depositors, vault \in DOMAIN vaults, record \in DOMAIN shares,
              vault_token, owner_token \in OpenAccounts, burned \in Burns :
                VaultWithdraw(owner, vault, record, vault_token, owner_token, burned)
    BY <1>3, WithdrawPreserves
<1> QED
    BY <1>1, <1>2, <1>3, OthersPreserve DEF Next

\* Types and share totals hold in every reachable state.
LEMMA Invariant == Spec => []IInv
BY InitEstablishes, StepPreserves, PTL DEF Spec

\* No field of a vault or of a share record leaves its type and no token
\* balance goes below zero: VaultDeposit's checks and VaultWithdraw's unchecked
\* subtractions suffice.
THEOREM TypeCorrect == Spec => []TypeOK
<1>1. IInv => TypeOK
    BY DEF IInv
<1> QED
    BY <1>1, Invariant, PTL

\* In every vault total_shares is exactly what VaultDeposit and VaultWithdraw
\* have left in the depositors' records.
THEOREM TotalIsSum == Spec => []SharesAddUp
<1>1. IInv => SharesAddUp
    BY DEF IInv
<1> QED
    BY <1>1, Invariant, PTL

----------------------------------------------------------------------------
(* The price of a share, and what backs it.                                 *)

\* What a deposit does to the vault, and what it mints.
LEMMA DepositEffect ==
    ASSUME IInv, NEW depositor \in Depositors, NEW vault \in DOMAIN vaults,
           NEW vault_token \in OpenAccounts, NEW assets \in Amounts,
           VaultDeposit(depositor, vault, vault_token, assets)
    PROVE  LET v == vaults[vault]
               m == Minted(vault, assets)
           IN /\ v.total_shares \in Nat /\ v.total_assets \in Nat /\ assets \in Nat /\ m \in Nat
              /\ v.total_shares # 0 /\ v.total_assets # 0
                    => v.total_assets * m <= assets * v.total_shares
              /\ vaults' = [vaults EXCEPT ![vault] = [total_shares |-> v.total_shares + m,
                                                     total_assets |-> v.total_assets + assets]]
<1> DEFINE v == vaults[vault]
<1>1. v.total_shares \in Nat /\ v.total_assets \in Nat /\ assets \in Nat
    BY Fields, InputAssumption DEF IInv
<1>2. /\ Minted(vault, assets) \in Nat
      /\ v.total_shares # 0 /\ v.total_assets # 0
            => v.total_assets * Minted(vault, assets) <= assets * v.total_shares
    <2> HIDE DEF v
    <2> QED
        BY <1>1, MintedShares DEF Minted, v
<1> QED
    BY <1>1, <1>2 DEF VaultDeposit, Minted

\* A deposit of a at a price that mints m shares does not lower the price.
LEMMA PriceAfterDeposit ==
    ASSUME NEW T \in Nat, NEW A \in Nat, NEW a \in Nat, NEW m \in Nat,
           A # 0 => A * m <= a * T
    PROVE  (A + a) * T >= A * (T + m)
<1>1. (A + a) * T = A * T + a * T /\ A * (T + m) = A * T + A * m
    OBVIOUS
<1>2. A * T \in Nat /\ a * T \in Nat /\ A * m \in Nat
    BY ProductNat
<1>3. A * m <= a * T
    <2>1. A = 0 => A * m = 0
        OBVIOUS
    <2> QED
        BY <1>2, <2>1
<1> QED
    BY <1>1, <1>2, <1>3

\* Nor does the burning of b shares for q.
LEMMA PriceAfterWithdraw ==
    ASSUME NEW T \in Nat, NEW A \in Nat, NEW b \in Nat, NEW q \in Nat, T * q <= b * A
    PROVE  (A - q) * T >= A * (T - b)
<1>1. (A - q) * T = A * T - q * T /\ A * (T - b) = A * T - A * b
    OBVIOUS
<1>2. q * T = T * q /\ A * b = b * A
    OBVIOUS
<1>3. A * T \in Nat /\ T * q \in Nat /\ b * A \in Nat
    BY ProductNat
<1> QED
    BY <1>1, <1>2, <1>3

PriceHolds(v) ==
    vaults'[v].total_assets * vaults[v].total_shares
        >= vaults[v].total_assets * vaults'[v].total_shares

\* A vault that a step leaves alone keeps its price.
LEMMA SamePrice ==
    ASSUME TypeOK, NEW v \in DOMAIN vaults, vaults'[v] = vaults[v]
    PROVE  PriceHolds(v)
<1>1. vaults[v].total_assets \in Nat /\ vaults[v].total_shares \in Nat
    BY Fields
<1>2. vaults[v].total_assets * vaults[v].total_shares \in Nat
    BY <1>1, ProductNat
<1> QED
    BY <1>2 DEF PriceHolds

\* No step of a depositor lowers the price of a share in any vault.
LEMMA StepKeepsPrice ==
    ASSUME IInv, [Next]_vars, NEW v \in DOMAIN vaults, vaults[v].total_shares > 0
    PROVE  PriceHolds(v) \/ \E nav \in Navs : VaultUpdateNav(v, nav)
<1> DEFINE T == vaults[v].total_shares
           A == vaults[v].total_assets
<1>1. T \in Nat /\ A \in Nat /\ T # 0
    BY Fields DEF IInv
<1>2. ASSUME vaults'[v] = vaults[v] PROVE PriceHolds(v)
    BY <1>2, SamePrice DEF IInv
<1>3. ASSUME NEW depositor \in Depositors, NEW vault \in DOMAIN vaults,
             NEW vault_token \in OpenAccounts, NEW assets \in Amounts,
             VaultDeposit(depositor, vault, vault_token, assets)
      PROVE  PriceHolds(v)
    <2>1. CASE vault = v
        <3> DEFINE m == Minted(v, assets)
        <3>1. /\ assets \in Nat /\ m \in Nat
              /\ A # 0 => A * m <= assets * T
              /\ vaults'[v].total_shares = T + m /\ vaults'[v].total_assets = A + assets
            BY <1>1, <1>3, <2>1, DepositEffect
        <3>2. (A + assets) * T >= A * (T + m)
            <4> HIDE DEF A, T, m
            <4> QED
                BY <1>1, <3>1, PriceAfterDeposit
        <3> QED
            BY <3>1, <3>2 DEF PriceHolds
    <2>2. CASE vault # v
        BY <1>2, <1>3, <2>2, DepositEffect
    <2> QED
        BY <2>1, <2>2
<1>4. ASSUME NEW owner \in Depositors, NEW vault \in DOMAIN vaults, NEW record \in DOMAIN shares,
             NEW vault_token \in OpenAccounts, NEW owner_token \in OpenAccounts, NEW burned \in Burns,
             VaultWithdraw(owner, vault, record, vault_token, owner_token, burned)
      PROVE  PriceHolds(v)
    <2>1. CASE vault = v
        <3> DEFINE q == Returned(v, burned)
        <3>1. /\ burned \in Nat /\ q \in Nat /\ T * q <= burned * A
              /\ vaults'[v].total_shares = T - burned /\ vaults'[v].total_assets = A - q
            BY <1>4, <2>1, WithdrawEffect
        <3>2. (A - q) * T >= A * (T - burned)
            <4> HIDE DEF A, T, q
            <4> QED
                BY <1>1, <3>1, PriceAfterWithdraw
        <3> QED
            BY <3>1, <3>2 DEF PriceHolds
    <2>2. CASE vault # v
        BY <1>2, <1>4, <2>2, WithdrawEffect
    <2> QED
        BY <2>1, <2>2
<1>5. CASE \E vault \in Vaults : CreateTradingVault(vault)
    BY <1>2, <1>5 DEF CreateTradingVault
<1>6. CASE \E vault \in DOMAIN vaults, nav \in Navs : VaultUpdateNav(vault, nav)
    BY <1>2, <1>6 DEF VaultUpdateNav
<1>7. CASE \E user \in Depositors, vault \in DOMAIN vaults, amount \in Amounts :
                SplTransfer(user, vault, amount)
    BY <1>2, <1>7 DEF SplTransfer
<1>8. CASE UNCHANGED vars
    BY <1>2, <1>8 DEF vars
<1> QED
    BY <1>3, <1>4, <1>5, <1>6, <1>7, <1>8 DEF Next

\* Rounding always favours those who stay: only a manager's report lowers what
\* is behind a share, whatever VaultDeposit and VaultWithdraw are called with.
THEOREM PriceNeverFalls == Spec => SharePriceNeverFalls
<1>1. ASSUME IInv, [Next]_vars
      PROVE  \A v \in DOMAIN vaults : vaults[v].total_shares > 0 =>
                \/ vaults'[v].total_assets * vaults[v].total_shares
                        >= vaults[v].total_assets * vaults'[v].total_shares
                \/ \E nav \in Navs : VaultUpdateNav(v, nav)
    BY <1>1, StepKeepsPrice DEF PriceHolds
<1> QED
    BY <1>1, Invariant, PTL DEF Spec, SharePriceNeverFalls

\* Wallets and vault accounts are different accounts, one each.
LEMMA AccountsDiffer ==
    /\ \A u, v : Wallet(u) # VaultToken(v)
    /\ \A v, w : v # w => VaultToken(v) # VaultToken(w)
<1>1. "wallet" # "tvault_token"
    OBVIOUS
<1> QED
    BY <1>1 DEF Wallet, VaultToken

\* No step of a depositor leaves a backed NAV unbacked.
LEMMA StepKeepsBacking ==
    ASSUME IInv, [Next]_vars, NEW v \in DOMAIN vaults,
           vaults[v].total_assets <= tokens[VaultToken(v)]
    PROVE  \/ vaults'[v].total_assets <= tokens'[VaultToken(v)]
           \/ \E nav \in Navs : VaultUpdateNav(v, nav)
<1> DEFINE A == vaults[v].total_assets
           Acc == VaultToken(v)
           Backed == vaults'[v].total_assets <= tokens'[Acc]
<1>1. A \in Nat /\ Acc \in TokenAccounts /\ tokens \in [TokenAccounts -> Nat] /\ tokens[Acc] \in Nat
    BY Fields, OpenAreAccounts DEF IInv, TypeOK
<1>2. ASSUME NEW from \in TokenAccounts, NEW to \in TokenAccounts, NEW amount \in Nat,
             Transfer(from, to, amount), from # Acc
      PROVE  tokens'[Acc] >= tokens[Acc] /\ (to = Acc => tokens'[Acc] = tokens[Acc] + amount)
    BY <1>1, <1>2 DEF Transfer
<1>3. ASSUME NEW depositor \in Depositors, NEW vault \in DOMAIN vaults,
             NEW vault_token \in OpenAccounts, NEW assets \in Amounts,
             VaultDeposit(depositor, vault, vault_token, assets)
      PROVE  Backed
    <2>1. /\ Transfer(Wallet(depositor), VaultToken(vault), assets)
          /\ assets \in Nat /\ Wallet(depositor) # Acc
          /\ Wallet(depositor) \in TokenAccounts /\ VaultToken(vault) \in TokenAccounts
        BY <1>3, AccountsDiffer, OpenAreAccounts, InputAssumption
            DEF VaultDeposit, VerifyVaultToken, IInv
    <2>2. CASE vault = v
        <3>1. vaults'[v].total_assets = A + assets
            BY <1>3, <2>2, DepositEffect
        <3> QED
            BY <1>1, <1>2, <2>1, <2>2, <3>1
    <2>3. CASE vault # v
        <3>1. vaults'[v] = vaults[v]
            BY <1>3, <2>3, DepositEffect
        <3>2. tokens'[Acc] >= tokens[Acc]
            BY <1>2, <2>1
        <3>3. tokens'[Acc] \in Nat
            BY <1>1, <2>1, TransferTypes
        <3> QED
            BY <1>1, <3>1, <3>2, <3>3
    <2> QED
        BY <2>2, <2>3
<1>4. ASSUME NEW owner \in Depositors, NEW vault \in DOMAIN vaults, NEW record \in DOMAIN shares,
             NEW vault_token \in OpenAccounts, NEW owner_token \in OpenAccounts, NEW burned \in Burns,
             VaultWithdraw(owner, vault, record, vault_token, owner_token, burned)
      PROVE  Backed
    <2> DEFINE q == Returned(vault, burned)
    <2>1. /\ Transfer(VaultToken(vault), owner_token, q) \/ (q = 0 /\ UNCHANGED tokens)
          /\ owner_token \in TokenAccounts /\ VaultToken(vault) \in TokenAccounts
        BY <1>4, OpenAreAccounts DEF VaultWithdraw, VerifyVaultToken, Returned, IInv
    <2>2. q \in Nat
        BY <1>4, WithdrawEffect
    <2>3. CASE vault = v
        <3>1. vaults'[v].total_assets = A - q
            BY <1>4, <2>3, WithdrawEffect
        <3>2. tokens'[Acc] >= tokens[Acc] - q
            <4> HIDE DEF q
            <4> QED
                BY <1>1, <2>1, <2>2, <2>3 DEF Transfer
        <3>3. tokens'[Acc] \in Nat
            <4> HIDE DEF q
            <4> QED
                BY <1>1, <2>1, <2>2, TransferTypes
        <3> HIDE DEF q
        <3> QED
            BY <1>1, <2>2, <3>1, <3>2, <3>3
    <2>4. CASE vault # v
        <3>1. vaults'[v] = vaults[v]
            BY <1>4, <2>4, WithdrawEffect
        <3> HIDE DEF q
        <3>2. VaultToken(vault) # Acc
            BY <2>4, AccountsDiffer
        <3>3. tokens'[Acc] >= tokens[Acc]
            BY <1>1, <1>2, <2>1, <2>2, <3>2
        <3>4. tokens'[Acc] \in Nat
            BY <1>1, <2>1, <2>2, TransferTypes
        <3> QED
            BY <1>1, <3>1, <3>3, <3>4
    <2> QED
        BY <2>3, <2>4
<1>5. CASE \E vault \in Vaults : CreateTradingVault(vault)
    BY <1>5 DEF CreateTradingVault
<1>6. CASE \E vault \in DOMAIN vaults, nav \in Navs : VaultUpdateNav(vault, nav)
    BY <1>6 DEF VaultUpdateNav
<1>7. ASSUME NEW user \in Depositors, NEW vault \in DOMAIN vaults, NEW amount \in Amounts,
             SplTransfer(user, vault, amount)
      PROVE  Backed
    <2>1. /\ Transfer(Wallet(user), VaultToken(vault), amount) /\ UNCHANGED vaults
          /\ amount \in Nat /\ Wallet(user) # Acc
          /\ Wallet(user) \in TokenAccounts /\ VaultToken(vault) \in TokenAccounts
        BY <1>7, AccountsDiffer, OpenAreAccounts, InputAssumption DEF SplTransfer, IInv
    <2>2. tokens'[Acc] >= tokens[Acc]
        BY <1>2, <2>1
    <2>3. tokens'[Acc] \in Nat
        BY <1>1, <2>1, TransferTypes
    <2> QED
        BY <1>1, <2>1, <2>2, <2>3
<1>8. CASE UNCHANGED vars
    BY <1>8 DEF vars
<1> QED
    BY <1>3, <1>4, <1>5, <1>6, <1>7, <1>8 DEF Next

\* Tokens and NAV move together in VaultDeposit and VaultWithdraw, whatever
\* token accounts the callers pass: only a report can promise what is not there.
THEOREM BackedStaysBacked == Spec => NavStaysBacked
<1>1. ASSUME IInv, [Next]_vars
      PROVE  \A v \in DOMAIN vaults :
                vaults[v].total_assets <= tokens[VaultToken(v)] =>
                    \/ vaults'[v].total_assets <= tokens'[VaultToken(v)]
                    \/ \E nav \in Navs : VaultUpdateNav(v, nav)
    BY <1>1, StepKeepsBacking
<1> QED
    BY <1>1, Invariant, PTL DEF Spec, NavStaysBacked

----------------------------------------------------------------------------
(* The cost basis of a record.                                              *)

\* Burning all shares takes all of the basis; burning some leaves some of it.
LEMMA BasisReduced ==
    ASSUME NEW burned \in Nat \ {0}, NEW basis \in 0 .. U64_MAX, NEW held \in Nat,
           burned <= held, U64_MAX \in Nat
    PROVE  LET rest == SaturatingSub(basis, CostBasisReduction(burned, basis, held))
           IN /\ held = burned => rest = 0
              /\ held # burned /\ basis # 0 => rest # 0
<1> DEFINE x == burned * basis
           cut == x \div held
<1>1. held \in Nat \ {0} /\ basis \in Nat /\ U64_MAX + 1 \in Nat \ {0} /\ x \in Nat
    BY ProductNat
<1>2. cut \in Nat
    <2> HIDE DEF x
    <2> QED
        BY <1>1, Division
<1>3. cut <= basis
    <2>1. x <= basis * held
        BY <1>1, ProductMonotone
    <2> HIDE DEF x
    <2> QED
        BY <1>1, <2>1, QuotientBound
<1>4. CostBasisReduction(burned, basis, held) = cut
    <2>1. CostBasisReduction(burned, basis, held) = cut % (U64_MAX + 1)
        BY DEF CostBasisReduction
    <2> HIDE DEF cut
    <2> QED
        BY <1>1, <1>2, <1>3, <2>1, ModSmaller
<1>5. SaturatingSub(basis, CostBasisReduction(burned, basis, held)) = basis - cut
    <2> HIDE DEF cut
    <2> QED
        BY <1>3, <1>4 DEF SaturatingSub
<1>6. ASSUME held = burned PROVE cut = basis
    <2>1. basis * held <= x
        BY <1>1, <1>6
    <2>2. basis <= cut
        <3> HIDE DEF x
        <3> QED
            BY <1>1, <2>1, QuotientAtLeast
    <2> HIDE DEF cut
    <2> QED
        BY <1>1, <1>2, <1>3, <2>2
<1>7. ASSUME held # burned, basis # 0 PROVE cut < basis
    <2>1. basis * held = x + basis * (held - burned)
        BY <1>1
    <2>2. basis * (held - burned) \in Nat \ {0}
        <3>1. held - burned \in Nat \ {0} /\ basis \in Nat \ {0}
            BY <1>1, <1>7
        <3>2. \A a, b \in Nat \ {0} : a * b \in Nat \ {0}
            OBVIOUS
        <3> QED
            BY <3>1, <3>2
    <2>3. x < basis * held
        <3> HIDE DEF x
        <3> QED
            BY <1>1, <2>1, <2>2
    <2> HIDE DEF x
    <2> QED
        BY <1>1, <2>3, QuotientBelow
<1> HIDE DEF cut
<1> QED
    BY <1>1, <1>2, <1>5, <1>6, <1>7

\* A step leaves a record alone, makes or adds to it, or burns shares of it.
LEMMA BasisStep == IInv /\ BasisFollowsShares /\ [Next]_vars => BasisFollowsShares'
<1> SUFFICES ASSUME IInv, BasisFollowsShares, [Next]_vars PROVE BasisFollowsShares'
    OBVIOUS
<1>1. ASSUME shares' = shares PROVE BasisFollowsShares'
    BY <1>1 DEF BasisFollowsShares
<1>2. ASSUME NEW depositor \in Depositors, NEW vault \in DOMAIN vaults,
             NEW vault_token \in OpenAccounts, NEW assets \in Amounts,
             VaultDeposit(depositor, vault, vault_token, assets)
      PROVE  BasisFollowsShares'
    <2> DEFINE r == <<vault, depositor>>
               n == IF r \in DOMAIN shares THEN shares[r].shares ELSE 0
               basis == IF r \in DOMAIN shares THEN shares[r].cost_basis ELSE 0
               minted == Minted(vault, assets)
    <2>1. minted \in Nat /\ assets \in Nat /\ n \in Nat /\ basis \in Nat
        BY <1>2, DepositEffect, Fields DEF IInv
    <2>2. /\ minted # 0 /\ assets # 0
          /\ shares' = [q \in DOMAIN shares \union {r} |->
                IF q = r THEN [shares |-> n + minted, cost_basis |-> basis + assets] ELSE shares[q]]
        BY <1>2 DEF VaultDeposit, Minted
    <2> HIDE DEF n, basis, minted, r
    <2>3. n + minted # 0 /\ basis + assets # 0
        BY <2>1, <2>2
    <2> QED
        BY <2>2, <2>3 DEF BasisFollowsShares
<1>3. ASSUME NEW owner \in Depositors, NEW vault \in DOMAIN vaults, NEW record \in DOMAIN shares,
             NEW vault_token \in OpenAccounts, NEW owner_token \in OpenAccounts, NEW burned \in Burns,
             VaultWithdraw(owner, vault, record, vault_token, owner_token, burned)
      PROVE  BasisFollowsShares'
    <2> DEFINE n == shares[record].shares
               basis == shares[record].cost_basis
               rest == SaturatingSub(basis, CostBasisReduction(burned, basis, n))
    <2>1. /\ burned \in Nat \ {0} /\ n \in Nat /\ basis \in 0 .. U64_MAX /\ U64_MAX \in Nat
          /\ burned <= n
        <3>1. n \in 0 .. U64_MAX /\ basis \in 0 .. U64_MAX /\ U64_MAX \in Nat
            BY Fields DEF IInv
        <3>2. burned # 0 /\ burned <= n
            BY <1>3, <3>1, InputAssumption DEF VaultWithdraw, Holds
        <3> QED
            BY <1>3, <3>1, <3>2, InputAssumption
    <2>2. n = 0 <=> basis = 0
        BY DEF BasisFollowsShares
    <2>3. shares' = [shares EXCEPT ![record] = [shares |-> n - burned, cost_basis |-> rest]]
        BY <1>3 DEF VaultWithdraw
    <2>4. (n = burned => rest = 0) /\ (n # burned /\ basis # 0 => rest # 0)
        <3> HIDE DEF n, basis
        <3> QED
            BY <2>1, BasisReduced
    <2> HIDE DEF n, basis, rest
    <2>5. n - burned = 0 <=> rest = 0
        BY <2>1, <2>2, <2>4
    <2> QED
        BY <2>3, <2>5 DEF BasisFollowsShares
<1> QED
    BY <1>1, <1>2, <1>3 DEF Next, CreateTradingVault, VaultUpdateNav, SplTransfer, vars

\* Through any deposits and partial withdrawals, at any NAV: a record without
\* shares has no cost basis, and shares never outlive all of theirs.
THEOREM BasisAlwaysFollows == Spec => []BasisFollowsShares
<1>1. Init => BasisFollowsShares
    BY DEF Init, BasisFollowsShares
<1> QED
    BY <1>1, BasisStep, Invariant, PTL DEF Spec

----------------------------------------------------------------------------
(* What a deposit is worth to the depositor.                                *)

\* Of T shares of a vault of A assets a depositor holds s, and pays a for m
\* more.  In exact arithmetic all shares rise alike, so that the others' part
\* does not shrink: the depositor gains at most a.
LEMMA GainAtMost ==
    ASSUME NEW T \in Nat \ {0}, NEW A \in Nat \ {0}, NEW a \in Nat, NEW m \in Nat, NEW s \in Nat,
           s <= T, A * m <= a * T
    PROVE  ((s + m) * (A + a)) \div (T + m) <= (s * A) \div T + a
<1> DEFINE value == (s * A) \div T
           after == (s + m) * (A + a)
           X == (A + a) * T
           Y == A * (T + m)
<1>1. /\ s * A \in Nat /\ after \in Nat /\ X \in Nat /\ Y \in Nat /\ T + m \in Nat \ {0}
      /\ T - s \in Nat
    BY ProductNat
<1>2. value \in Nat /\ s * A < (value + 1) * T
    BY <1>1, Division, RoundedByLessThanOne
<1> HIDE DEF value
<1>3. (T - s) * Y <= (T - s) * X
    <2>1. X >= Y
        BY PriceAfterDeposit
    <2> HIDE DEF X, Y
    <2> QED
        BY <1>1, <2>1, ProductMonotone
<1>4. after * T = (T + m) * X - (T - s) * X
    OBVIOUS
<1>5. (T + m) * X - (T - s) * Y = (T + m) * (a * T + s * A)
    OBVIOUS
<1>6. after * T <= (T + m) * (a * T + s * A)
    <2>1. (T + m) * X \in Int /\ (T - s) * X \in Int /\ (T - s) * Y \in Int
        <3> HIDE DEF X, Y
        <3> QED
            BY <1>1
    <2> HIDE DEF after, X, Y
    <2> QED
        BY <1>3, <1>4, <1>5, <2>1
<1>7. (T + m) * (a * T + s * A) < (T + m) * ((value + a + 1) * T)
    <2>1. (value + a + 1) * T = a * T + (value + 1) * T
        BY <1>2
    <2>2. a * T \in Nat /\ (value + 1) * T \in Nat
        BY <1>2, ProductNat
    <2>3. a * T + s * A < (value + a + 1) * T
        BY <1>1, <1>2, <2>1, <2>2
    <2>4. \A x, y \in Nat, n \in Nat \ {0} : x < y => n * x < n * y
        OBVIOUS
    <2>5. a * T + s * A \in Nat /\ (value + a + 1) * T \in Nat
        BY <1>1, <2>1, <2>2
    <2> DEFINE low == a * T + s * A
               high == (value + a + 1) * T
    <2>6. low \in Nat /\ high \in Nat /\ low < high
        BY <2>3, <2>5
    <2> HIDE DEF low, high
    <2>7. (T + m) * low < (T + m) * high
        BY <1>1, <2>4, <2>6
    <2> QED
        BY <2>7 DEF low, high
<1>8. after < (value + a + 1) * (T + m)
    <2> DEFINE bound == (value + a + 1) * (T + m)
    <2>1. bound * T = (T + m) * ((value + a + 1) * T)
        BY <1>2
    <2>2. bound \in Nat
        BY <1>1, <1>2, ProductNat
    <2>3. \A x, y \in Nat : x * T < y * T => x < y
        OBVIOUS
    <2>4. after * T < bound * T
        <3>1. /\ after * T \in Int /\ (T + m) * (a * T + s * A) \in Int
              /\ (T + m) * ((value + a + 1) * T) \in Int
            BY <1>1, <1>2
        <3> HIDE DEF after, bound
        <3> QED
            BY <1>6, <1>7, <2>1, <3>1
    <2> HIDE DEF after, bound
    <2> QED
        BY <1>1, <2>2, <2>3, <2>4 DEF bound
<1>9. after \div (T + m) < value + a + 1
    <2> HIDE DEF after
    <2> QED
        BY <1>1, <1>2, <1>8, QuotientBelow
<1>10. after \div (T + m) \in Nat
    <2> HIDE DEF after
    <2> QED
        BY <1>1, Division
<1> HIDE DEF after
<1> QED
    BY <1>2, <1>9, <1>10 DEF value, after

\* The payment is worth m shares and a part of one more, which is what the
\* depositor may lose to rounding.
LEMMA GainAtLeast ==
    ASSUME NEW T \in Nat \ {0}, NEW A \in Nat \ {0}, NEW a \in Nat, NEW m \in Nat, NEW s \in Nat,
           A * m <= a * T, a * T < (m + 1) * A
    PROVE  a - ((A \div T) + 1)
                <= ((s + m) * (A + a)) \div (T + m) - (s * A) \div T
<1> DEFINE value == (s * A) \div T
           price == (A \div T) + 1
           after == (s + m) * (A + a)
           X == (A + a) * T
           Y == A * (T + m)
           y == value + a - price
<1>1. /\ s * A \in Nat /\ after \in Nat /\ X \in Nat /\ Y \in Nat /\ T + m \in Nat \ {0}
      /\ a * T \in Nat /\ m * A \in Nat /\ s + m \in Nat
    BY ProductNat
<1>2. value \in Nat /\ T * value <= s * A
    BY <1>1, Division
<1>3. price \in Nat /\ A < price * T
    <2>1. A \div T \in Nat
        BY Division
    <2> QED
        BY <2>1, RoundedByLessThanOne
<1> HIDE DEF value, price
<1>4. y * T <= (s + m) * A
    <2>1. y * T = T * value + a * T - price * T
        BY <1>2, <1>3
    <2>2. (s + m) * A = s * A + m * A /\ (m + 1) * A = m * A + A
        OBVIOUS
    <2>3. T * value \in Nat /\ price * T \in Nat
        BY <1>2, <1>3, ProductNat
    <2> QED
        BY <1>1, <1>2, <1>3, <2>1, <2>2, <2>3
<1>5. y \in Int /\ y * T \in Int /\ (s + m) * A \in Int
    BY <1>1, <1>2, <1>3
<1>6. (y * T) * (T + m) <= ((s + m) * A) * (T + m)
    <2> DEFINE low == y * T
               high == (s + m) * A
    <2>1. low \in Int /\ high \in Int /\ low <= high /\ T + m \in Nat
        BY <1>1, <1>4, <1>5
    <2> HIDE DEF low, high
    <2>2. low * (T + m) <= high * (T + m)
        BY <2>1, ProductMonotone
    <2> QED
        BY <2>2 DEF low, high
<1>7. (s + m) * Y <= (s + m) * X
    <2>1. X >= Y
        BY PriceAfterDeposit
    <2> HIDE DEF X, Y
    <2> QED
        BY <1>1, <2>1, ProductMonotone
<1>8. ((s + m) * A) * (T + m) = (s + m) * Y /\ after * T = (s + m) * X
    OBVIOUS
<1> DEFINE bound == y * (T + m)
<1>9. (y * T) * (T + m) = bound * T
    BY <1>5
<1>10. bound \in Int
    BY <1>1, <1>5
<1>11. bound * T <= after * T
    <2>1. /\ bound * T \in Int /\ (s + m) * Y \in Int /\ (s + m) * X \in Int
        BY <1>1, <1>10
    <2> HIDE DEF bound, after, X, Y, y
    <2> QED
        BY <1>6, <1>7, <1>8, <1>9, <2>1
<1>12. bound <= after
    <2>1. \A b, c \in Int : b * T <= c * T => b <= c
        OBVIOUS
    <2> HIDE DEF bound, after
    <2> QED
        BY <1>1, <1>10, <1>11, <2>1
<1>13. y <= after \div (T + m)
    <2> HIDE DEF after, y
    <2> QED
        BY <1>1, <1>5, <1>12, QuotientAtLeast DEF bound
<1>14. after \div (T + m) \in Nat
    <2> HIDE DEF after
    <2> QED
        BY <1>1, Division
<1> HIDE DEF after
<1> QED
    BY <1>2, <1>3, <1>13, <1>14 DEF value, price, after

\* Whatever the NAV, the shares in issue and the depositor's own among them: a
\* deposit is worth no more than was paid, and no less but for at most the
\* price of one share.
THEOREM DepositIsFair == Spec => FairDeposit
<1>1. IInv /\ [Next]_vars =>
        [\A u \in Depositors, v \in DOMAIN vaults, a \in Amounts :
            LET old == vaults[v]
                gain == Value(<<v, u>>)' - (IF <<v, u>> \in DOMAIN shares THEN Value(<<v, u>>) ELSE 0)
                price == (old.total_assets \div old.total_shares) + 1
            IN VaultDeposit(u, v, VaultToken(v), a) /\ old.total_shares > 0 /\ old.total_assets > 0
                => a - price <= gain /\ gain <= a]_vars
    <2> SUFFICES ASSUME IInv, NEW u \in Depositors, NEW v \in DOMAIN vaults, NEW a \in Amounts,
                        VaultDeposit(u, v, VaultToken(v), a),
                        vaults[v].total_shares > 0, vaults[v].total_assets > 0
                 PROVE  LET gain == Value(<<v, u>>)'
                                - (IF <<v, u>> \in DOMAIN shares THEN Value(<<v, u>>) ELSE 0)
                        IN /\ a - ((vaults[v].total_assets \div vaults[v].total_shares) + 1) <= gain
                           /\ gain <= a
        OBVIOUS
    <2> DEFINE r == <<v, u>>
               T == vaults[v].total_shares
               A == vaults[v].total_assets
               s == IF r \in DOMAIN shares THEN shares[r].shares ELSE 0
               m == Minted(v, a)
               before == IF r \in DOMAIN shares THEN Value(r) ELSE 0
               after == Value(r)'
    <2>1. /\ T \in Nat \ {0} /\ A \in Nat \ {0} /\ a \in Nat /\ m \in Nat /\ A * m <= a * T
          /\ vaults'[v].total_shares = T + m /\ vaults'[v].total_assets = A + a
        <3>1. VaultToken(v) \in OpenAccounts
            BY DEF OpenAccounts
        <3>2. T \in Nat /\ A \in Nat
            BY Fields DEF IInv
        <3> QED
            BY <3>1, <3>2, DepositEffect
    <2>2. m = (a * T) \div A
        BY <2>1 DEF Minted, SharesForDeposit
    <2>3. a * T < (m + 1) * A
        <3>1. a * T \in Nat
            BY <2>1, ProductNat
        <3> HIDE DEF T, A, m
        <3> QED
            BY <2>1, <2>2, <3>1, RoundedByLessThanOne
    <2>4. s \in Nat /\ s <= T
        BY <2>1, Fields, HeldWithinTotal DEF IInv
    <2>5. before = (s * A) \div T
        <3>1. (0 * A) \div T = 0
            <4> HIDE DEF T, A
            <4>1. 0 * A = 0 /\ 0 \div T = 0
                BY <2>1
            <4> QED
                BY <4>1
        <3> QED
            BY <3>1 DEF Value, AssetsForWithdraw
    <2>6. shares'[r].shares = s + m /\ m # 0
        BY DEF VaultDeposit, Minted
    <2>7. s + m # 0
        <3> HIDE DEF s, m
        <3> QED
            BY <2>1, <2>4, <2>6
    <2>8. after = ((s + m) * (A + a)) \div (T + m)
        <3> HIDE DEF s, m, T, A
        <3> QED
            BY <2>1, <2>6, <2>7 DEF Value, AssetsForWithdraw
    <2> HIDE DEF s, m, T, A
    <2>9. /\ after <= before + a /\ a - ((A \div T) + 1) <= after - before
        <3>1. after <= before + a
            BY <2>1, <2>4, <2>5, <2>8, GainAtMost
        <3>2. a - ((A \div T) + 1) <= after - before
            BY <2>1, <2>3, <2>4, <2>5, <2>8, GainAtLeast
        <3> QED
            BY <3>1, <3>2
    <2>10. before \in Nat /\ after \in Nat
        <3>1. s * A \in Nat /\ (s + m) * (A + a) \in Nat /\ T + m \in Nat \ {0}
            BY <2>1, <2>4, ProductNat
        <3> QED
            BY <2>1, <2>5, <2>8, <3>1, Division
    <2> HIDE DEF before, after
    <2>11. after - before <= a
        BY <2>1, <2>9, <2>10
    <2> QED
        BY <2>9, <2>11 DEF before, after, T, A
<1> QED
    BY <1>1, Invariant, PTL DEF Spec, FairDeposit

----------------------------------------------------------------------------
(* Nobody is left behind.  The prover does not know ENABLED, so what it     *)
(* means is spelled out: there is a next state that the action leads to.    *)

\* VaultWithdraw as a relation between this state and a next one, in which the
\* variables have the values vaults2, shares2 and tokens2.
WithdrawTo(owner, vault, record, vault_token, owner_token, burned, vaults2, shares2, tokens2) ==
    LET v == vaults[vault]
        held == shares[record]
        returned == AssetsForWithdraw(burned, v.total_shares, v.total_assets)
    IN /\ vault \in DOMAIN vaults /\ record \in DOMAIN shares
       /\ burned # 0
       /\ VerifyVaultToken(vault_token, vault)
       /\ v.total_shares # 0
       /\ returned <= U64_MAX
       /\ VerifyShare(record, vault, owner)
       /\ Holds(held.shares, burned)
       /\ shares2 = [shares EXCEPT ![record] =
                [shares |-> held.shares - burned,
                 cost_basis |-> SaturatingSub(held.cost_basis,
                    CostBasisReduction(burned, held.cost_basis, held.shares))]]
       /\ vaults2 = [vaults EXCEPT ![vault] =
                [total_shares |-> (@.total_shares - burned) % (U64_MAX + 1),
                 total_assets |-> SaturatingSub(@.total_assets, returned)]]
       /\ \/ /\ returned > 0
             /\ vault_token = VaultToken(vault)
             /\ returned <= tokens[vault_token]
             /\ tokens2 = IF vault_token = owner_token THEN tokens
                          ELSE [tokens EXCEPT ![vault_token] = @ - returned, ![owner_token] = @ + returned]
          \/ /\ returned = 0
             /\ tokens2 = tokens

\* The relation is the action.
LEMMA WithdrawRelation ==
    ASSUME NEW owner, NEW vault, NEW record, NEW vault_token, NEW owner_token, NEW burned
    PROVE  VaultWithdraw(owner, vault, record, vault_token, owner_token, burned)
           <=> WithdrawTo(owner, vault, record, vault_token, owner_token, burned, vaults', shares', tokens')
BY ZenonT(30) DEF VaultWithdraw, WithdrawTo, Transfer

\* There is a next state in which r's owner has withdrawn every share of it.
CanLeave(r) ==
    \E vaults2, shares2, tokens2 :
        WithdrawTo(r[2], r[1], r, VaultToken(r[1]), Wallet(r[2]), shares[r].shares,
                   vaults2, shares2, tokens2)

\* What a record's shares are worth is at most what backs the vault, so a
\* withdrawal of them meets every condition of VaultWithdraw.
LEMMA BackedCanLeave ==
    ASSUME IInv, NEW r \in DOMAIN shares, shares[r].shares > 0,
           vaults[r[1]].total_assets <= tokens[VaultToken(r[1])]
    PROVE  CanLeave(r)
<1> DEFINE v == vaults[r[1]]
           n == shares[r].shares
           q == AssetsForWithdraw(n, v.total_shares, v.total_assets)
           tok == VaultToken(r[1])
<1>1. /\ r[1] \in DOMAIN vaults /\ r = <<r[1], r[2]>>
      /\ v.total_shares \in 0 .. U64_MAX /\ v.total_assets \in 0 .. U64_MAX
      /\ n \in Nat \ {0} /\ U64_MAX \in Nat
    BY Fields DEF IInv
<1>2. n <= v.total_shares
    BY HeldWithinTotal
<1>3. v.total_shares \in Nat \ {0} /\ v.total_assets \in Nat
    BY <1>1, <1>2
<1>4. q \in Nat /\ q <= v.total_assets
    <2> HIDE DEF v, n
    <2> QED
        BY <1>1, <1>2, <1>3, ReturnedAssets DEF q
<1>5. tokens[tok] \in Nat
    BY <1>1, OpenAreAccounts DEF IInv, TypeOK
<1>6. q <= U64_MAX /\ q <= tokens[tok]
    <2>1. v.total_assets <= U64_MAX /\ v.total_assets <= tokens[tok]
        BY <1>1
    <2> HIDE DEF q, v, tok
    <2> QED
        BY <1>1, <1>3, <1>4, <1>5, <2>1
<1> DEFINE shares2 == [shares EXCEPT ![r] =
                [shares |-> shares[r].shares - n,
                 cost_basis |-> SaturatingSub(shares[r].cost_basis,
                    CostBasisReduction(n, shares[r].cost_basis, shares[r].shares))]]
           vaults2 == [vaults EXCEPT ![r[1]] =
                [total_shares |-> (@.total_shares - n) % (U64_MAX + 1),
                 total_assets |-> SaturatingSub(@.total_assets, q)]]
           paid == IF tok = Wallet(r[2]) THEN tokens
                   ELSE [tokens EXCEPT ![tok] = @ - q, ![Wallet(r[2])] = @ + q]
           tokens2 == IF q > 0 THEN paid ELSE tokens
<1>7. \/ q > 0 /\ tok = VaultToken(r[1]) /\ q <= tokens[tok] /\ tokens2 = paid
      \/ q = 0 /\ tokens2 = tokens
    <2> HIDE DEF q, paid
    <2>1. CASE q > 0
        BY <2>1, <1>6
    <2>2. CASE q = 0
        BY <2>2
    <2> QED
        BY <1>4, <2>1, <2>2
<1>8. VerifyVaultToken(tok, r[1]) /\ VerifyShare(r, r[1], r[2]) /\ Holds(n, n)
    BY <1>1 DEF VerifyVaultToken, VerifyShare, Holds
<1>9. n # 0 /\ v.total_shares # 0
    BY <1>1, <1>3
<1>10. WithdrawTo(r[2], r[1], r, tok, Wallet(r[2]), n, vaults2, shares2, tokens2)
    BY <1>1, <1>6, <1>7, <1>8, <1>9, Zenon DEF WithdrawTo
<1> QED
    BY <1>10, Zenon DEF CanLeave

\* EveryoneCanLeave with ENABLED spelled out: every depositor of a vault whose
\* NAV is backed can leave with all shares, whatever the others did.
THEOREM NobodyLeftBehind ==
    Spec => [](\A r \in DOMAIN shares :
                    shares[r].shares > 0 /\ vaults[r[1]].total_assets <= tokens[VaultToken(r[1])]
                        => CanLeave(r))
<1>1. IInv => \A r \in DOMAIN shares :
                shares[r].shares > 0 /\ vaults[r[1]].total_assets <= tokens[VaultToken(r[1])]
                    => CanLeave(r)
    BY BackedCanLeave
<1> QED
    BY <1>1, Invariant, PTL

=============================================================================
