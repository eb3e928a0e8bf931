------------------------------- MODULE MCSlab -------------------------------
(* Slab on small pools and trees: see MCSlab.cfg.                           *)
EXTENDS Slab

=============================================================================
