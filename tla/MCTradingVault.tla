----------------------------- MODULE MCTradingVault -----------------------------
(* TradingVault on small instances: see MCTradingVault.cfg.                 *)
EXTENDS TradingVault, TLC

\* Depositors are interchangeable, and so are vaults.
Symmetry == Permutations(Depositors) \union Permutations(Vaults)

=============================================================================
