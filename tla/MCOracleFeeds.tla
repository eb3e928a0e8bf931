---------------------------- MODULE MCOracleFeeds ----------------------------
(* OracleFeeds on a small instance: see MCOracleFeeds.cfg. *)
EXTENDS OracleFeeds, TLC

CONSTANTS alice, bob, perp, spot, acc, pyth, anyone, SOL, BTC

AliceFor == [m \in Markets |-> alice]

\* The genuine program for both versions, and another program pinned by mistake.
PinSets ==
    {[v1_price_account |-> acc, v1_program |-> pyth, v2_receiver |-> pyth, v2_feed_id |-> SOL],
     [v1_price_account |-> acc, v1_program |-> anyone, v2_receiver |-> pyth, v2_feed_id |-> BTC]}

Symmetry == Permutations(Markets)

=============================================================================
