---------------------------- MODULE OrderLifecycle ----------------------------
(***************************************************************************)
(* What the order service promises about one card and the money for it,    *)
(* whatever happens inside: a card enters the print queue once, with the   *)
(* payment; an order that was abandoned or refunded never comes back; and  *)
(* closing an order takes back every card that is not yet in the post.     *)
(* OrderPayment.tla is the detailed specification that implements it.      *)
(***************************************************************************)
CONSTANT Orders

VARIABLES stage,        \* stage[o]: "unpaid", "paid" or "closed"
          card          \* card[o]: "none", "queue" (can be stopped), "posted"

vars == <<stage, card>>

TypeOK == /\ stage \in [Orders -> {"unpaid", "paid", "closed"}]
          /\ card \in [Orders -> {"none", "queue", "posted"}]

Init == /\ stage = [o \in Orders |-> "unpaid"]
        /\ card = [o \in Orders |-> "none"]

\* The money is in: the one moment a card is queued for printing.
Settle(o) == /\ stage[o] = "unpaid"
             /\ stage' = [stage EXCEPT ![o] = "paid"]
             /\ card' = [card EXCEPT ![o] = "queue"]

\* The buyer gives up an order nobody paid for.
Abandon(o) == /\ stage[o] = "unpaid"
              /\ stage' = [stage EXCEPT ![o] = "closed"]
              /\ UNCHANGED card

\* The card is handed to the carrier.
PostCard(o) == /\ stage[o] = "paid"
               /\ card[o] = "queue"
               /\ card' = [card EXCEPT ![o] = "posted"]
               /\ UNCHANGED stage

\* A paid order is cancelled; a card still in the queue is taken out of it.
Refund(o) == /\ stage[o] = "paid"
             /\ stage' = [stage EXCEPT ![o] = "closed"]
             /\ card' = [card EXCEPT ![o] = IF @ = "queue" THEN "none" ELSE @]

Next == \E o \in Orders : Settle(o) \/ Abandon(o) \/ PostCard(o) \/ Refund(o)

Spec == Init /\ [][Next]_vars
===============================================================================
