--------------------------------- MODULE Units ---------------------------------
(***************************************************************************)
(* Sums without recursion.  Units(f) lists, one by one, the units of an    *)
(* amount f[r] per owner r; their number is the sum of the amounts.  So    *)
(* "a total is the sum of its parts" can be stated with Cardinality, and   *)
(* proved with the facts about finite sets.                                *)
(***************************************************************************)
EXTENDS Integers, FiniteSets

\* Each unit with the owner it belongs to.
Units(f) == UNION {{r} \X (1 .. f[r]) : r \in DOMAIN f}

Total(f) == Cardinality(Units(f))

=============================================================================
