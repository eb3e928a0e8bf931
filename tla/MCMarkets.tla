------------------------------ MODULE MCMarkets ------------------------------
(* Markets on a small instance: see MCMarkets.cfg. *)
EXTENDS Markets, TLC

CONSTANTS k1, k2, alice, bob, usdc, sol, pyth

Keys == (k1 :> alice) @@ (k2 :> bob)

=============================================================================
