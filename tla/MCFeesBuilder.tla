---------------------------- MODULE MCFeesBuilder ----------------------------
(* FeesBuilder on small instances: see MCFeesBuilder.cfg and FeesWidth.cfg. *)
EXTENDS FeesBuilder, TLC

CONSTANTS usdc, junk, perp, fake

\* Each market quotes in a mint of its own.
OwnMint == (perp :> usdc) @@ (fake :> junk)
OneMint == perp :> usdc

Symmetry == Permutations(Builders)

=============================================================================
