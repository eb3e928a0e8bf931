----------------------------- MODULE MCFlatBook -----------------------------
(* FlatBook on a small book: see MCFlatBook.cfg and FlatBookTime.cfg. *)
EXTENDS FlatBook, TLC

\* The traders are interchangeable.
Symmetry == Permutations(Traders)

=============================================================================
