---------------------------- MODULE MCClickAndDrop ----------------------------
(* A small instance of ClickAndDrop.tla.                                   *)
EXTENDS ClickAndDrop, TLC

CONSTANT o1

MCOrderOf == [c \in Cards |-> o1]

MCDestination == [c \in Cards |-> "home"]

MCSymmetry == Permutations(Workers) \cup Permutations(Imports)
===============================================================================
