-------------------------------- MODULE OrderGate --------------------------------
(***************************************************************************)
(* The arithmetic that every oracle-gated placement shares: how old a      *)
(* price is, the band around it (crates/oracle) and the protocol fee       *)
(* (crates/fees).                                                          *)
(***************************************************************************)
EXTENDS Integers

CONSTANTS
    U64_MAX, BPS_DENOMINATOR,
    PROTOCOL_FEE_BPS, SANITY_BAND_BPS

ASSUME GateAssumption ==
    /\ U64_MAX \in Nat /\ BPS_DENOMINATOR \in Nat \ {0}
    /\ PROTOCOL_FEE_BPS \in Nat /\ SANITY_BAND_BPS \in Nat

\* The arithmetic of u64, as saturating_mul and saturating_add do it.
Saturated(n) == IF n > U64_MAX THEN U64_MAX ELSE n

\* sanity_band and within_band. The band cannot exceed the mark, so only the
\* product and the upper end can saturate.
InBand(price, mark) ==
    LET band == Saturated(mark * SANITY_BAND_BPS) \div BPS_DENOMINATOR
    IN mark - band <= price /\ price <= Saturated(mark + band)

\* check_fresh: an age below 0 counts as 0.
CheckFresh(publish_slot, now_slot, max_age) == now_slot - publish_slot <= max_age

Notional(price, size) == price * size

\* A u128 product, wrapping in a release build, and a result cast to u64.
ProtocolFee(notional) ==
    (((notional * PROTOCOL_FEE_BPS) % ((U64_MAX + 1) * (U64_MAX + 1))) \div BPS_DENOMINATOR)
        % (U64_MAX + 1)

=============================================================================
