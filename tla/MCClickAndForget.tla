-------------------------- MODULE MCClickAndForget --------------------------
(* A small instance of ClickAndForget.tla.                                *)
EXTENDS ClickAndForget, TLC

(* The rows differ only in name. *)
Symmetry == Permutations(Row)
=============================================================================
