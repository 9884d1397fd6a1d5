------------------------------- MODULE MCReturns -------------------------------
(* A small instance of Returns.tla.                                        *)
EXTENDS Returns, TLC

MCSymmetry == Permutations(Requests) \cup Permutations(Ordered) \cup Permutations(Cards \ Ordered)
===============================================================================
