---------------------------- MODULE MCOrderPayment ----------------------------
(* Small instances of OrderPayment.tla.                                    *)
EXTENDS OrderPayment, TLC

CONSTANTS o1, o2, t1

\* The opening balance of 2 pays part of o1 and all of o2.
MCTotal == [o \in Orders |-> IF o = o1 THEN 3 ELSE 2]

MCTopUpAmount == [t \in TopUps |-> 2]

\* Workers and sessions are interchangeable.
MCSymmetry == Permutations(Workers) \cup Permutations(Sessions)
===============================================================================
