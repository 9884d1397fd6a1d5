----------------------------- MODULE MCAutoTopUp -----------------------------
(* A small instance of AutoTopUp.tla.                                      *)
EXTENDS AutoTopUp

MCSetting == {[threshold |-> 1, amount |-> 1], [threshold |-> 2, amount |-> 2]}
===============================================================================
