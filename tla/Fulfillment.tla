------------------------------ MODULE Fulfillment ------------------------------
(***************************************************************************)
(* From a paid order to cards in the post: fulfillment.service.ts, the     *)
(* release of batch-orders.service.ts (cancelAndRefund), and the returns   *)
(* that come back (returns.service.ts, markReturned).                      *)
(*                                                                         *)
(* An operator's transition of one card, a bulk run over many, a dispatch  *)
(* through Royal Mail, the delivery poll and the estimated-arrival sweep   *)
(* are all one transaction that applies applyTransition to each of its     *)
(* jobs in turn.  It runs at Read Committed: it sees its own writes and    *)
(* what others have committed, it holds the rows it has written until it   *)
(* ends, and whoever wants one of those rows waits.  tx[p] is such a       *)
(* transaction in progress; its writes reach job, line, occasion and order *)
(* when it commits.  A refund runs beside them in its own steps.           *)
(***************************************************************************)
EXTENDS Integers, FiniteSets

CONSTANTS Orders, Cards, Workers,
          OrderOf,        \* OrderOf[c]: the order card c is a line of
          Destination     \* Destination[c]: the contact and address it goes to

ASSUME FulfillmentAssumption == OrderOf \in [Cards -> Orders]

VARIABLES
  order,        \* status of each batch_orders row
  job,          \* status of each card's fulfillment_jobs row, "none" if deleted
  line,         \* status of each card's order_recipients row
  occasion,     \* status of the occasion the card is for
  returnCases,  \* cards with a return case
  tx,           \* the transaction each worker has open
  refund,       \* the refund of each order
  reported      \* cards reported by opsActivity.refundRacedFulfillment

vars == <<order, job, line, occasion, returnCases, tx, refund, reported>>
-------------------------------------------------------------------------------
OrderStatus == {"paid", "fulfilling", "completed", "cancelled"}
Refundable == {"paid", "fulfilling"}

Targets == {"printed", "posted", "delivered", "failed"}

JobStatus == {"none", "pending", "in_progress", "returned_to_sender"} \cup Targets

LineStatus == {"queued", "printed", "posted", "delivered", "returned_to_sender", "cancelled"}

OccasionStatus == {"queued", "printed", "posted", "delivered", "skipped"}

\* to: the target; todo: jobs still to visit; cards: jobs it has moved;
\* orders: order rows it has written; done: those it has completed.
Transaction == [to : Targets \cup {"none"}, todo : SUBSET Cards, cards : SUBSET Cards,
                orders : SUBSET Orders, done : SUBSET Orders]

NoTx == [to |-> "none", todo |-> {}, cards |-> {}, orders |-> {}, done |-> {}]

\* doomed: rows its DELETE has taken; raced: what it will report.
Refund == [step : {"none", "stripe", "claimed", "deleted", "report", "done"},
           doomed : SUBSET Cards, raced : SUBSET Cards]

NoRefund == [step |-> "none", doomed |-> {}, raced |-> {}]

TypeOK ==
  /\ order \in [Orders -> OrderStatus]
  /\ job \in [Cards -> JobStatus]
  /\ line \in [Cards -> LineStatus]
  /\ occasion \in [Cards -> OccasionStatus]
  /\ returnCases \subseteq Cards
  /\ tx \in [Workers -> Transaction]
  /\ refund \in [Orders -> Refund]
  /\ reported \subseteq Cards

\* As settleFulfillment leaves an order.
Init ==
  /\ order = [o \in Orders |-> "paid"]
  /\ job = [c \in Cards |-> "pending"]
  /\ line = [c \in Cards |-> "queued"]
  /\ occasion = [c \in Cards |-> "queued"]
  /\ returnCases = {}
  /\ tx = [p \in Workers |-> NoTx]
  /\ refund = [o \in Orders |-> NoRefund]
  /\ reported = {}
-------------------------------------------------------------------------------
CardsOf(o) == {c \in Cards : OrderOf[c] = o}

FromStatuses == [printed   |-> {"pending", "in_progress"},
                 posted    |-> {"printed"},
                 delivered |-> {"posted"},
                 failed    |-> {"pending", "in_progress", "printed", "posted"}]

\* A card goes where a card of the same contact has come back from.
Held(c) == \E d \in returnCases : Destination[d] = Destination[c]

\* Nobody else holds the lock of job c, or of order o's row.
JobFree(p, c) ==
  /\ \A q \in Workers \ {p} : c \notin tx[q].cards
  /\ c \notin refund[OrderOf[c]].doomed

OrderFree(p, o) ==
  /\ \A q \in Workers \ {p} : o \notin tx[q].orders
  /\ refund[o].step \notin {"claimed", "deleted"}

\* The line of card d as transaction p reads it.
LineSeenBy(p, d) ==
  IF d \in tx[p].cards /\ tx[p].to # "failed" THEN tx[p].to ELSE line[d]
-------------------------------------------------------------------------------
(* The operators' and the sweeps' transactions.                            *)

Claim(c) ==
  /\ job[c] = "pending"
  /\ \A q \in Workers : c \notin tx[q].cards
  /\ c \notin refund[OrderOf[c]].doomed
  /\ job' = [job EXCEPT ![c] = "in_progress"]
  /\ UNCHANGED <<order, line, occasion, returnCases, tx, refund, reported>>

Begin(p, cards, to) ==
  /\ tx[p] = NoTx
  /\ tx' = [tx EXCEPT ![p] = [NoTx EXCEPT !.to = to, !.todo = cards]]
  /\ UNCHANGED <<order, job, line, occasion, returnCases, refund, reported>>

\* One card or many, to a status an operator chose; a run that would print or
\* post a held card is refused as a whole.
BulkTransition(p, cards, to) ==
  /\ to \in {"printed", "posted"} => \A c \in cards : ~Held(c)
  /\ Begin(p, cards, to)

\* A Royal Mail shipment is bought for a printed card, which is then posted.
Dispatch(p, c) == job[c] = "printed" /\ ~Held(c) /\ Begin(p, {c}, "posted")

\* The carrier, or the estimate of the arrival sweep, says a posted card came.
RegisterDelivery(p, c) == job[c] = "posted" /\ Begin(p, {c}, "delivered")

\* A job in another status is left out.
Skip(p, c) ==
  /\ c \in tx[p].todo
  /\ JobFree(p, c)
  /\ job[c] \notin FromStatuses[tx[p].to]
  /\ tx' = [tx EXCEPT ![p].todo = @ \ {c}]
  /\ UNCHANGED <<order, job, line, occasion, returnCases, refund, reported>>

\* Mutant: the order is completed without counting the cards outstanding.
NothingElseOutstandingAssumed(p, c) == TRUE

NothingElseOutstanding(p, c) ==
  \A d \in CardsOf(OrderOf[c]) \ {c} : LineSeenBy(p, d) \in {"delivered", "cancelled"}

\* Mutant: the order's row is written whatever its status.
StartsOrderOfAnyStatus(p, c) == tx[p].to # "failed"

\* The first card printed takes a paid order to fulfilling.
StartsOrder(p, c) ==
  /\ tx[p].to # "failed"
  /\ order[OrderOf[c]] = "paid" /\ OrderOf[c] \notin tx[p].orders

FinishesOrder(p, c) ==
  LET o == OrderOf[c] IN
  /\ tx[p].to = "delivered"
  /\ NothingElseOutstanding(p, c)
  /\ order[o] = "fulfilling" \/ o \in tx[p].orders \/ StartsOrder(p, c)

\* applyTransition: the job, its line and its occasion, and the order's row
\* if it is to change; a row another transaction has written is waited for.
Apply(p, c) ==
  LET o == OrderOf[c]
      t == tx[p]
      written == IF StartsOrder(p, c) \/ FinishesOrder(p, c) THEN {o} ELSE {}
      finished == IF FinishesOrder(p, c) THEN {o} ELSE {}
  IN /\ c \in t.todo
     /\ JobFree(p, c)
     /\ job[c] \in FromStatuses[t.to]
     /\ written # {} => OrderFree(p, o)
     /\ tx' = [tx EXCEPT ![p] = [to |-> t.to, todo |-> t.todo \ {c}, cards |-> t.cards \cup {c},
                                orders |-> t.orders \cup written, done |-> t.done \cup finished]]
     /\ UNCHANGED <<order, job, line, occasion, returnCases, refund, reported>>

\* Mutant: a failed card's line and occasion follow its job.
CommitFailureToo(p) ==
  LET t == tx[p] IN
  /\ t.to # "none" /\ t.todo = {}
  /\ job' = [c \in Cards |-> IF c \in t.cards THEN t.to ELSE job[c]]
  /\ line' = [c \in Cards |-> IF c \in t.cards THEN t.to ELSE line[c]]
  /\ occasion' = [c \in Cards |-> IF c \in t.cards THEN t.to ELSE occasion[c]]
  /\ order' = [o \in Orders |-> IF o \in t.done THEN "completed"
                                ELSE IF o \in t.orders THEN "fulfilling" ELSE order[o]]
  /\ tx' = [tx EXCEPT ![p] = NoTx]
  /\ UNCHANGED <<returnCases, refund, reported>>

\* A failed card leaves its line and its occasion where they are.
Commit(p) ==
  LET t == tx[p]
      moved == IF t.to = "failed" THEN {} ELSE t.cards
  IN /\ t.to # "none" /\ t.todo = {}
     /\ job' = [c \in Cards |-> IF c \in t.cards THEN t.to ELSE job[c]]
     /\ line' = [c \in Cards |-> IF c \in moved THEN t.to ELSE line[c]]
     /\ occasion' = [c \in Cards |-> IF c \in moved THEN t.to ELSE occasion[c]]
     /\ order' = [o \in Orders |-> IF o \in t.done THEN "completed"
                                   ELSE IF o \in t.orders THEN "fulfilling" ELSE order[o]]
     /\ tx' = [tx EXCEPT ![p] = NoTx]
     /\ UNCHANGED <<returnCases, refund, reported>>

\* Nothing is written: a refusal, a crash, or Postgres ending a deadlock.
Abort(p) ==
  /\ tx[p] # NoTx
  /\ tx' = [tx EXCEPT ![p] = NoTx]
  /\ UNCHANGED <<order, job, line, occasion, returnCases, refund, reported>>

MarkReturned(c) ==
  /\ c \notin returnCases
  /\ job[c] \in {"posted", "delivered"}
  /\ \A q \in Workers : c \notin tx[q].cards
  /\ c \notin refund[OrderOf[c]].doomed
  /\ job' = [job EXCEPT ![c] = "returned_to_sender"]
  /\ line' = [line EXCEPT ![c] = "returned_to_sender"]
  /\ returnCases' = returnCases \cup {c}
  /\ UNCHANGED <<order, occasion, tx, refund, reported>>
-------------------------------------------------------------------------------
(* cancelAndRefund, from the check to the report.                          *)

Advance(o, r) == refund' = [refund EXCEPT ![o] = r]

\* The read: every card must still be waiting.  The call to Stripe follows.
RefundCheck(o) ==
  /\ refund[o].step = "none"
  /\ order[o] \in Refundable
  /\ \A c \in CardsOf(o) : job[c] \in {"none", "pending"}
  /\ Advance(o, [NoRefund EXCEPT !.step = "stripe"])
  /\ UNCHANGED <<order, job, line, occasion, returnCases, tx, reported>>

\* The release's transaction begins by taking the order's row.
RefundClaim(o) ==
  /\ refund[o].step = "stripe"
  /\ \A q \in Workers : o \notin tx[q].orders
  /\ IF order[o] \in Refundable
     THEN Advance(o, [NoRefund EXCEPT !.step = "claimed"])
     ELSE Advance(o, [NoRefund EXCEPT !.step = "done"])
  /\ UNCHANGED <<order, job, line, occasion, returnCases, tx, reported>>

\* Mutant: only the jobs still pending are deleted.
PendingOnly(o) == {c \in CardsOf(o) : job[c] = "pending"}

Stoppable(o) == {c \in CardsOf(o) : job[c] \notin {"none", "posted"}}

\* Mutant: the report is drawn up from the rows as they were read.
RefundDeleteReportingTheRead(o) ==
  /\ refund[o].step = "claimed"
  /\ \A q \in Workers : tx[q].cards \cap Stoppable(o) = {}
  /\ Advance(o, [step |-> "deleted", doomed |-> Stoppable(o), raced |-> {}])
  /\ UNCHANGED <<order, job, line, occasion, returnCases, tx, reported>>

\* One statement deletes what is not posted and says what it deleted, waiting
\* for any of those rows another transaction holds; then the survivors are read.
RefundDelete(o) ==
  LET stopped == Stoppable(o)
      survivors == {c \in CardsOf(o) : job[c] = "posted"}
  IN /\ refund[o].step = "claimed"
     /\ \A q \in Workers : tx[q].cards \cap stopped = {}
     /\ Advance(o, [step |-> "deleted", doomed |-> stopped,
                    raced |-> survivors \cup {c \in stopped : job[c] # "pending"}])
     /\ UNCHANGED <<order, job, line, occasion, returnCases, tx, reported>>

\* Mutant: every occasion of the order is skipped, also those served.
RefundCommitSkippingAll(o) ==
  /\ refund[o].step = "deleted"
  /\ \A q \in Workers : tx[q].cards \cap CardsOf(o) = {}
  /\ order' = [order EXCEPT ![o] = "cancelled"]
  /\ job' = [c \in Cards |-> IF c \in refund[o].doomed THEN "none" ELSE job[c]]
  /\ line' = [c \in Cards |-> IF c \in CardsOf(o) THEN "cancelled" ELSE line[c]]
  /\ occasion' = [c \in Cards |-> IF c \in CardsOf(o) THEN "skipped" ELSE occasion[c]]
  /\ Advance(o, [NoRefund EXCEPT !.step = "report", !.raced = refund[o].raced])
  /\ UNCHANGED <<returnCases, tx, reported>>

RefundCommit(o) ==
  /\ refund[o].step = "deleted"
  /\ \A q \in Workers : tx[q].cards \cap CardsOf(o) = {}
  /\ order' = [order EXCEPT ![o] = "cancelled"]
  /\ job' = [c \in Cards |-> IF c \in refund[o].doomed THEN "none" ELSE job[c]]
  /\ line' = [c \in Cards |-> IF c \in CardsOf(o) THEN "cancelled" ELSE line[c]]
  /\ occasion' = [c \in Cards |-> IF c \in CardsOf(o) /\ occasion[c] = "queued"
                                  THEN "skipped" ELSE occasion[c]]
  /\ Advance(o, [NoRefund EXCEPT !.step = "report", !.raced = refund[o].raced])
  /\ UNCHANGED <<returnCases, tx, reported>>

\* Postgres ends a deadlock with a transaction; the customer may try again.
RefundAbort(o) ==
  /\ refund[o].step \in {"claimed", "deleted"}
  /\ Advance(o, NoRefund)
  /\ UNCHANGED <<order, job, line, occasion, returnCases, tx, reported>>

RefundReport(o) ==
  /\ refund[o].step = "report"
  /\ reported' = reported \cup refund[o].raced
  /\ Advance(o, [NoRefund EXCEPT !.step = "done"])
  /\ UNCHANGED <<order, job, line, occasion, returnCases, tx>>
-------------------------------------------------------------------------------
Transition(p) ==
  \/ \E cards \in SUBSET Cards \ {{}}, to \in Targets : BulkTransition(p, cards, to)
  \/ \E c \in Cards : Dispatch(p, c) \/ RegisterDelivery(p, c) \/ Skip(p, c) \/ Apply(p, c)
  \/ Commit(p) \/ Abort(p)

Release(o) ==
  \/ RefundCheck(o) \/ RefundClaim(o) \/ RefundDelete(o) \/ RefundCommit(o)
  \/ RefundAbort(o) \/ RefundReport(o)

Next ==
  \/ \E p \in Workers : Transition(p)
  \/ \E c \in Cards : Claim(c) \/ MarkReturned(c)
  \/ \E o \in Orders : Release(o)

Spec == Init /\ [][Next]_vars
-------------------------------------------------------------------------------
(***************************************************************************)
(* Properties.                                                             *)
(***************************************************************************)

\* "The guard that counts": however a card moved while Stripe was refunding
\* the order, none is left on the way to the post once the order is cancelled.
RefundedCardsAreStopped ==
  \A c \in Cards : order[OrderOf[c]] = "cancelled" =>
    job[c] \notin {"pending", "in_progress", "printed"}

\* Whatever the order of the writes, a card of a refunded order that went into
\* print, or that escaped into the post, is reported to an operator.
RacedCardsAreReported ==
  \A c \in Cards :
    LET o == OrderOf[c] IN
    order[o] = "cancelled" /\ refund[o].step = "done" /\
      (job[c] # "none" \/ occasion[c] # "skipped") => c \in reported

\* An order is completed only when every one of its cards was delivered, also
\* when several transactions deliver its cards at once.
CompletedMeansDelivered ==
  \A c \in Cards : order[OrderOf[c]] = "completed" =>
    line[c] \in {"delivered", "returned_to_sender"}

\* A card moved by a transaction that began before the order was closed never
\* opens the order again.
ClosedOrdersStayClosed ==
  [][\A o \in Orders : order[o] \in {"completed", "cancelled"} => order'[o] = order[o]]_vars

\* Of a refunded order no occasion is left waiting for a card, and none is
\* skipped whose card escaped into the post; of any other order the occasion
\* says what the card's line says.
OccasionFollowsCard ==
  \A c \in Cards :
    IF order[OrderOf[c]] = "cancelled"
    THEN occasion[c] # "queued" /\ (occasion[c] = "skipped" => job[c] = "none")
    ELSE line[c] \in {occasion[c], "returned_to_sender"}
-------------------------------------------------------------------------------
(* What the repository says of the program and the code does not keep.     *)

\* fulfillment.service.ts: the order enters "completed" "once every
\* non-cancelled card is delivered".
DeliveredOrderCompletes ==
  \A o \in Orders :
    /\ order[o] = "fulfilling"
    /\ \A p \in Workers : tx[p].cards \cap CardsOf(o) = {}
    => \E c \in CardsOf(o) : line[c] # "delivered"
===============================================================================
