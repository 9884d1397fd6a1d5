----------------------------- MODULE MCFulfillment -----------------------------
(* A small instance of Fulfillment.tla: one order, its cards all to the    *)
(* same contact, so that one that comes back holds the others.             *)
EXTENDS Fulfillment, TLC

CONSTANT o1

MCOrderOf == [c \in Cards |-> o1]

MCDestination == [c \in Cards |-> "home"]

\* Workers are interchangeable, and so are the cards.
MCSymmetry == Permutations(Workers) \cup Permutations(Cards)
===============================================================================
