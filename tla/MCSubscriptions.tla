---------------------------- MODULE MCSubscriptions ----------------------------
(* A small instance of Subscriptions.tla.                                  *)
EXTENDS Subscriptions
===============================================================================
