-------------------------- MODULE Fulfillment_proofs --------------------------
(***************************************************************************)
(* Theorems about Fulfillment.tla, for every set of orders, cards and      *)
(* workers.                                                                *)
(***************************************************************************)
EXTENDS Fulfillment, TLAPS

USE FulfillmentAssumption

LEMMA TypeInit == Init => TypeOK
BY DEF Init, TypeOK, OrderStatus, JobStatus, LineStatus, OccasionStatus, Transaction, NoTx,
       Refund, NoRefund, Targets

\* What a step does to one transaction or one refund keeps their types.
LEMMA TypeStep == TypeOK /\ [Next]_vars => TypeOK'
<1> SUFFICES ASSUME TypeOK, [Next]_vars PROVE TypeOK'
  OBVIOUS
<1>1. ASSUME NEW c \in Cards, Claim(c) PROVE TypeOK'
  BY <1>1 DEF Claim, TypeOK, JobStatus
<1>2. ASSUME NEW c \in Cards, MarkReturned(c) PROVE TypeOK'
  BY <1>2 DEF MarkReturned, TypeOK, JobStatus, LineStatus
<1>3. ASSUME NEW p \in Workers, NEW cards \in SUBSET Cards, NEW to \in Targets, Begin(p, cards, to)
      PROVE  TypeOK'
  <2>1. [NoTx EXCEPT !.to = to, !.todo = cards] \in Transaction
    BY DEF NoTx, Transaction
  <2> QED BY <1>3, <2>1 DEF Begin, TypeOK
<1>4. ASSUME NEW p \in Workers, NEW c \in Cards, Skip(p, c) PROVE TypeOK'
  <2>1. [tx[p] EXCEPT !.todo = @ \ {c}] \in Transaction
    BY DEF TypeOK, Transaction
  <2> QED BY <1>4, <2>1 DEF Skip, TypeOK
<1>5. ASSUME NEW p \in Workers, NEW c \in Cards, Apply(p, c) PROVE TypeOK'
  <2>1. tx' \in [Workers -> Transaction]
    BY <1>5 DEF Apply, TypeOK, Transaction
  <2> QED BY <1>5, <2>1 DEF Apply, TypeOK
<1>6. ASSUME NEW p \in Workers, Commit(p) PROVE TypeOK'
  <2>1. tx[p].to \in Targets /\ NoTx \in Transaction
    BY <1>6 DEF Commit, TypeOK, Transaction, NoTx
  <2>2. tx[p].to \in JobStatus
    BY <2>1 DEF JobStatus
  <2>3. tx[p].to # "failed" => tx[p].to \in LineStatus /\ tx[p].to \in OccasionStatus
    BY <2>1 DEF Targets, LineStatus, OccasionStatus
  <2>4. job' \in [Cards -> JobStatus]
    BY <1>6, <2>2 DEF Commit, TypeOK
  <2>5. line' \in [Cards -> LineStatus] /\ occasion' \in [Cards -> OccasionStatus]
    BY <1>6, <2>3 DEF Commit, TypeOK
  <2>6. order' \in [Orders -> OrderStatus]
    BY <1>6 DEF Commit, TypeOK, OrderStatus
  <2> QED BY <1>6, <2>1, <2>4, <2>5, <2>6 DEF Commit, TypeOK
<1>7. ASSUME NEW p \in Workers, Abort(p) PROVE TypeOK'
  BY <1>7 DEF Abort, TypeOK, NoTx, Transaction
<1>8. ASSUME NEW o \in Orders, Release(o) PROVE TypeOK'
  <2>1. ASSUME NEW r \in Refund, Advance(o, r),
               UNCHANGED <<order, job, line, occasion, returnCases, tx, reported>>
        PROVE  TypeOK'
    BY <2>1 DEF Advance, TypeOK
  <2>2. NoRefund \in Refund
    BY DEF NoRefund, Refund
  <2>3. CASE RefundCheck(o)
    <3>1. [NoRefund EXCEPT !.step = "stripe"] \in Refund
      BY DEF NoRefund, Refund
    <3> QED BY <2>1, <2>3, <3>1 DEF RefundCheck
  <2>4. CASE RefundClaim(o)
    <3>1. [NoRefund EXCEPT !.step = "claimed"] \in Refund /\ [NoRefund EXCEPT !.step = "done"] \in Refund
      BY DEF NoRefund, Refund
    <3> QED BY <2>1, <2>4, <3>1 DEF RefundClaim
  <2>5. CASE RefundDelete(o)
    <3>1. \A s, r \in SUBSET Cards : [step |-> "deleted", doomed |-> s, raced |-> r] \in Refund
      BY DEF Refund
    <3> QED BY <2>1, <2>5, <3>1 DEF RefundDelete, Stoppable, CardsOf
  <2>6. CASE RefundCommit(o)
    <3>1. [NoRefund EXCEPT !.step = "report", !.raced = refund[o].raced] \in Refund
      BY DEF NoRefund, Refund, TypeOK
    <3> QED BY <2>6, <3>1 DEF RefundCommit, Advance, TypeOK, OrderStatus, JobStatus, LineStatus,
                              OccasionStatus
  <2>7. CASE RefundAbort(o)
    BY <2>1, <2>2, <2>7 DEF RefundAbort
  <2>8. CASE RefundReport(o)
    <3>1. [NoRefund EXCEPT !.step = "done"] \in Refund /\ refund[o].raced \subseteq Cards
      BY DEF NoRefund, Refund, TypeOK
    <3> QED BY <2>8, <3>1 DEF RefundReport, Advance, TypeOK
  <2> QED BY <1>8, <2>3, <2>4, <2>5, <2>6, <2>7, <2>8 DEF Release
<1>9. CASE UNCHANGED vars
  BY <1>9 DEF vars, TypeOK
<1>10. ASSUME NEW p \in Workers, Transition(p) PROVE TypeOK'
  BY <1>3, <1>4, <1>5, <1>6, <1>7, <1>10 DEF Transition, BulkTransition, Dispatch, RegisterDelivery, Targets
<1> QED BY <1>1, <1>2, <1>8, <1>9, <1>10 DEF Next

\* The statuses of orders, jobs, lines and occasions stay among those the
\* schema declares, and what a transaction or a refund remembers stays a set
\* of rows that exist.
THEOREM TypeCorrect == Spec => []TypeOK
BY TypeInit, TypeStep, PTL DEF Spec

-------------------------------------------------------------------------------
(* The invariant.  None of the properties is inductive: each depends on    *)
(* who holds which row, and on what an open transaction or the refund has  *)
(* read still being so when it commits.                                    *)

Waiting == {"pending", "in_progress", "printed"}

Stopped(c) == job[c] = "none" /\ occasion[c] = "skipped"

\* A row is held by one transaction, or by the refund, at a time.
LockInv ==
  /\ \A p, q \in Workers : p # q => tx[p].cards \cap tx[q].cards = {} /\ tx[p].orders \cap tx[q].orders = {}
  /\ \A p \in Workers : \A c \in tx[p].cards : c \notin refund[OrderOf[c]].doomed
  /\ \A p \in Workers : \A o \in tx[p].orders : refund[o].step \notin {"claimed", "deleted"}

\* What transaction p found when it wrote a row is still so.
TxInv(p) ==
  /\ tx[p].todo # {} => tx[p].to \in Targets
  /\ \A c \in tx[p].cards : tx[p].to \in Targets /\ job[c] \in FromStatuses[tx[p].to]
  /\ tx[p].done \subseteq tx[p].orders
  /\ \A o \in tx[p].orders : order[o] \in Refundable
  /\ \A o \in tx[p].done : /\ tx[p].to = "delivered"
                           /\ \A c \in CardsOf(o) \ tx[p].cards :
                                line[c] \in {"delivered", "returned_to_sender"}

\* What the refund found, deleted and is going to report is still so.
RefundInv(c) ==
  LET r == refund[OrderOf[c]]
      status == order[OrderOf[c]]
  IN /\ status = "cancelled" => r.step \in {"report", "done"}
     /\ r.step = "deleted" => /\ c \notin r.raced => c \in r.doomed /\ occasion[c] = "queued"
                              /\ c \notin r.doomed => job[c] \notin Waiting /\ occasion[c] # "queued"
     /\ r.step = "report" /\ c \notin r.raced => Stopped(c)
     /\ r.step = "done" /\ status = "cancelled" /\ c \notin reported => Stopped(c)

\* The four statuses of a card agree.
CardInv(c) ==
  LET status == order[OrderOf[c]] IN
  /\ line[c] = "cancelled" => status = "cancelled"
  /\ line[c] = "delivered" => job[c] \in {"delivered", "returned_to_sender"}
  /\ line[c] = "returned_to_sender" => job[c] = "returned_to_sender"
  /\ status = "completed" => line[c] \in {"delivered", "returned_to_sender"}
  /\ status = "cancelled" => /\ job[c] \notin Waiting
                             /\ occasion[c] # "queued"
                             /\ occasion[c] = "skipped" => job[c] = "none"
  /\ status # "cancelled" => /\ job[c] # "none" /\ occasion[c] # "skipped"
                             /\ line[c] \in {occasion[c], "returned_to_sender"}
                             /\ job[c] = "posted" => occasion[c] = "posted"
                             /\ job[c] = "pending" => occasion[c] = "queued"

\* A refund claims an order still open, and deletes jobs of that order only.
OrdersOpen == \A o \in Orders : /\ refund[o].step \in {"claimed", "deleted"} => order[o] \in Refundable
                               /\ refund[o].doomed \subseteq CardsOf(o)

IInv == /\ TypeOK
        /\ LockInv
        /\ OrdersOpen
        /\ \A p \in Workers : TxInv(p)
        /\ \A c \in Cards : RefundInv(c)
        /\ \A c \in Cards : CardInv(c)

LEMMA InvInit == Init => IInv
<1> SUFFICES ASSUME Init PROVE IInv
  OBVIOUS
<1>1. TypeOK
  BY TypeInit
<1>2. LockInv /\ OrdersOpen
  BY DEF Init, LockInv, OrdersOpen, NoTx, NoRefund
<1>3. \A p \in Workers : TxInv(p)
  BY DEF Init, TxInv, NoTx
<1>4. ASSUME NEW c \in Cards PROVE RefundInv(c) /\ CardInv(c)
  BY DEF Init, RefundInv, CardInv, NoRefund, Stopped, Waiting
<1> QED BY <1>1, <1>2, <1>3, <1>4 DEF IInv

\* Where a card may be moved from.
LEMMA Sources ==
  /\ \A to \in Targets : FromStatuses[to] \subseteq {"pending", "in_progress", "printed", "posted"}
  /\ FromStatuses["printed"] = {"pending", "in_progress"}
  /\ FromStatuses["delivered"] = {"posted"}
  /\ FromStatuses["posted"] = {"printed"}
BY DEF FromStatuses, Targets

\* Orders and cards, as the invariant sees them, are left alone by a step that
\* changes transactions only.
LEMMA QuietStep ==
  ASSUME IInv, TypeOK', UNCHANGED <<order, job, line, occasion, refund, reported>>,
         LockInv', \A p \in Workers : TxInv(p)'
  PROVE  IInv'
<1>1. OrdersOpen'
  BY DEF IInv, OrdersOpen
<1>2. ASSUME NEW c \in Cards PROVE RefundInv(c)' /\ CardInv(c)'
  <2>1. RefundInv(c) /\ CardInv(c)
    BY DEF IInv
  <2> QED BY <2>1 DEF RefundInv, CardInv, Stopped
<1> QED BY <1>1, <1>2 DEF IInv

LEMMA ClaimStep ==
  ASSUME IInv, TypeOK', NEW c \in Cards, Claim(c)
  PROVE  IInv'
<1> USE DEF IInv
<1>1. LockInv' /\ OrdersOpen'
  BY DEF Claim, LockInv, OrdersOpen
<1>2. ASSUME NEW p \in Workers PROVE TxInv(p)'
  <2>1. TxInv(p) /\ c \notin tx[p].cards
    BY DEF Claim
  <2> QED BY <2>1 DEF Claim, TxInv, TypeOK
<1>3. ASSUME NEW d \in Cards PROVE RefundInv(d)' /\ CardInv(d)'
  <2>1. RefundInv(d) /\ CardInv(d) /\ OrderOf[d] \in Orders
    OBVIOUS
  <2>2. CASE d # c
    BY <2>1, <2>2 DEF Claim, RefundInv, CardInv, Stopped, TypeOK
  <2>3. CASE d = c
    BY <2>1, <2>3 DEF Claim, RefundInv, CardInv, Stopped, Waiting, TypeOK
  <2> QED BY <2>2, <2>3
<1> QED BY <1>1, <1>2, <1>3

LEMMA ReturnStep ==
  ASSUME IInv, TypeOK', NEW c \in Cards, MarkReturned(c)
  PROVE  IInv'
<1> USE DEF IInv
<1>1. LockInv' /\ OrdersOpen'
  BY DEF MarkReturned, LockInv, OrdersOpen
<1>2. ASSUME NEW p \in Workers PROVE TxInv(p)'
  <2>1. TxInv(p) /\ c \notin tx[p].cards
    BY DEF MarkReturned
  <2> QED BY <2>1 DEF MarkReturned, TxInv, TypeOK, CardsOf
<1>3. ASSUME NEW d \in Cards PROVE RefundInv(d)' /\ CardInv(d)'
  <2>1. RefundInv(d) /\ CardInv(d) /\ OrderOf[d] \in Orders
    OBVIOUS
  <2>2. CASE d # c
    BY <2>1, <2>2 DEF MarkReturned, RefundInv, CardInv, Stopped, TypeOK
  <2>3. CASE d = c
    BY <2>1, <2>3 DEF MarkReturned, RefundInv, CardInv, Stopped, Waiting, TypeOK
  <2> QED BY <2>2, <2>3
<1> QED BY <1>1, <1>2, <1>3

\* A transaction that begins or ends without effect holds nothing.
LEMMA EmptyHanded ==
  ASSUME IInv, TypeOK', NEW p \in Workers,
         NEW t, t.todo # {} => t.to \in Targets, t.cards = {}, t.orders = {}, t.done = {}, tx' = [tx EXCEPT ![p] = t],
         UNCHANGED <<order, job, line, occasion, refund, reported>>
  PROVE  IInv'
<1>1. /\ \A q \in Workers : q # p => tx'[q] = tx[q]
      /\ tx'[p] = t
  BY DEF IInv, TypeOK
<1>2. LockInv'
  BY <1>1 DEF IInv, LockInv
<1>3. ASSUME NEW q \in Workers PROVE TxInv(q)'
  <2>1. TxInv(q)
    BY DEF IInv
  <2> QED BY <1>1, <2>1 DEF TxInv
<1> QED BY <1>2, <1>3, QuietStep

LEMMA BeginStep ==
  ASSUME IInv, TypeOK', NEW p \in Workers, NEW cards, NEW to \in Targets, Begin(p, cards, to)
  PROVE  IInv'
<1>1. /\ [NoTx EXCEPT !.to = to, !.todo = cards].to = to
      /\ [NoTx EXCEPT !.to = to, !.todo = cards].cards = {}
      /\ [NoTx EXCEPT !.to = to, !.todo = cards].orders = {}
      /\ [NoTx EXCEPT !.to = to, !.todo = cards].done = {}
  BY DEF NoTx
<1> QED BY <1>1, EmptyHanded DEF Begin

LEMMA AbortStep ==
  ASSUME IInv, TypeOK', NEW p \in Workers, Abort(p)
  PROVE  IInv'
<1>1. NoTx.todo = {} /\ NoTx.cards = {} /\ NoTx.orders = {} /\ NoTx.done = {}
  BY DEF NoTx
<1> QED BY <1>1, EmptyHanded DEF Abort

LEMMA SkipStep ==
  ASSUME IInv, TypeOK', NEW p \in Workers, NEW c \in Cards, Skip(p, c)
  PROVE  IInv'
<1>1. \A q \in Workers : /\ tx'[q].to = tx[q].to /\ tx'[q].todo \subseteq tx[q].todo /\ tx'[q].cards = tx[q].cards
                         /\ tx'[q].orders = tx[q].orders /\ tx'[q].done = tx[q].done
  BY DEF Skip, IInv, TypeOK, Transaction
<1>2. UNCHANGED <<order, job, line, occasion, refund, reported>>
  BY DEF Skip
<1>3. LockInv'
  BY <1>1, <1>2 DEF IInv, LockInv
<1>4. ASSUME NEW q \in Workers PROVE TxInv(q)'
  <2>1. TxInv(q)
    BY DEF IInv
  <2> QED BY <1>1, <1>2, <2>1 DEF TxInv
<1> QED BY <1>2, <1>3, <1>4, QuietStep

\* The heart of a transition: the rows it writes are free, the order is open,
\* and an order it completes has no card outstanding.
LEMMA ApplyStep ==
  ASSUME IInv, TypeOK', NEW p \in Workers, NEW c \in Cards, Apply(p, c)
  PROVE  IInv'
<1> USE DEF IInv
<1>1. PICK o \in Orders : o = OrderOf[c]
  OBVIOUS
<1>2. PICK written \in SUBSET {o} : written = IF StartsOrder(p, c) \/ FinishesOrder(p, c) THEN {o} ELSE {}
  OBVIOUS
<1>3. PICK finished \in SUBSET {o} : finished = IF FinishesOrder(p, c) THEN {o} ELSE {}
  OBVIOUS
<1>4. /\ tx'[p].to = tx[p].to
      /\ tx'[p].todo \subseteq tx[p].todo
      /\ tx'[p].cards = tx[p].cards \cup {c}
      /\ tx'[p].orders = tx[p].orders \cup written
      /\ tx'[p].done = tx[p].done \cup finished
      /\ \A q \in Workers : q # p => tx'[q] = tx[q]
  BY <1>1, <1>2, <1>3 DEF Apply, TypeOK
<1>5. UNCHANGED <<order, job, line, occasion, refund, reported>>
  BY DEF Apply
<1>6. /\ \A q \in Workers : c \notin tx[q].cards \/ q = p
      /\ c \notin refund[o].doomed
      /\ tx[p].to \in Targets /\ job[c] \in FromStatuses[tx[p].to]
  <2>1. tx[p].to \in Targets
    BY DEF Apply, TxInv
  <2> QED BY <2>1, <1>1 DEF Apply, JobFree
<1>7. written # {} => /\ \A q \in Workers : o \notin tx[q].orders \/ q = p
                      /\ refund[o].step \notin {"claimed", "deleted"}
  BY <1>1, <1>2 DEF Apply, OrderFree
<1>8. LockInv'
  BY <1>1, <1>2, <1>4, <1>5, <1>6, <1>7 DEF LockInv
<1>9. written # {} => order[o] \in Refundable
  BY <1>1, <1>2 DEF StartsOrder, FinishesOrder, TxInv, Refundable
<1>10. finished # {} =>
         /\ tx[p].to = "delivered"
         /\ \A d \in CardsOf(o) \ tx'[p].cards : line[d] \in {"delivered", "returned_to_sender"}
  <2> SUFFICES ASSUME finished # {} PROVE /\ tx[p].to = "delivered"
         /\ \A d \in CardsOf(o) \ tx'[p].cards : line[d] \in {"delivered", "returned_to_sender"}
    OBVIOUS
  <2>1. FinishesOrder(p, c) /\ written # {}
    BY <1>2, <1>3
  <2>2. ASSUME NEW d \in CardsOf(o) \ tx'[p].cards
        PROVE  line[d] \in {"delivered", "returned_to_sender"}
    <3>1. d \in Cards /\ OrderOf[d] = o /\ d # c /\ d \notin tx[p].cards
      BY <1>4, <2>2 DEF CardsOf
    <3>2. line[d] \in {"delivered", "cancelled"}
      BY <1>1, <2>1, <3>1 DEF FinishesOrder, NothingElseOutstanding, LineSeenBy, CardsOf
    <3>3. line[d] # "cancelled"
      BY <1>9, <2>1, <3>1 DEF CardInv, Refundable
    <3> QED BY <3>2, <3>3
  <2> QED BY <2>1, <2>2 DEF FinishesOrder
<1>11. ASSUME NEW q \in Workers PROVE TxInv(q)'
  <2>1. TxInv(q)
    OBVIOUS
  <2>2. CASE q # p
    BY <1>4, <1>5, <2>1, <2>2 DEF TxInv
  <2>3. CASE q = p
    <3>1. \A d \in tx'[p].cards : tx'[p].to \in Targets /\ job'[d] \in FromStatuses[tx'[p].to]
      BY <1>4, <1>5, <1>6, <2>1, <2>3 DEF TxInv
    <3>2. tx'[p].done \subseteq tx'[p].orders
      BY <1>2, <1>3, <1>4, <2>1, <2>3 DEF TxInv
    <3>3. \A r \in tx'[p].orders : order'[r] \in Refundable
      BY <1>2, <1>4, <1>5, <1>9, <2>1, <2>3 DEF TxInv
    <3>4. ASSUME NEW r \in tx'[p].done
          PROVE  /\ tx'[p].to = "delivered"
                 /\ \A d \in CardsOf(r) \ tx'[p].cards : line'[d] \in {"delivered", "returned_to_sender"}
      BY <1>3, <1>4, <1>5, <1>10, <2>1, <2>3, <3>4 DEF TxInv
    <3>5. tx'[p].todo # {} => tx'[p].to \in Targets
      BY <1>4, <1>6
    <3> QED BY <2>3, <3>1, <3>2, <3>3, <3>4, <3>5 DEF TxInv, CardsOf
  <2> QED BY <2>2, <2>3
<1> QED BY <1>5, <1>8, <1>11, QuietStep

LEMMA CommitStep ==
  ASSUME IInv, TypeOK', NEW p \in Workers, Commit(p)
  PROVE  IInv'
<1> USE DEF IInv
<1>1. /\ tx'[p].todo = {} /\ tx'[p].cards = {} /\ tx'[p].orders = {} /\ tx'[p].done = {}
      /\ \A q \in Workers : q # p => tx'[q] = tx[q]
      /\ refund' = refund /\ reported' = reported
  BY DEF Commit, TypeOK, NoTx
<1>2. LockInv'
  BY <1>1 DEF LockInv
\* The rows the transaction had written, and no others, change.
<1>3. \A o \in Orders : o \notin tx[p].orders => order'[o] = order[o]
  BY DEF Commit, TypeOK, TxInv
<1>4. \A o \in tx[p].orders : /\ order[o] \in Refundable
                             /\ order'[o] = IF o \in tx[p].done THEN "completed" ELSE "fulfilling"
  BY DEF Commit, TypeOK, TxInv, Transaction
<1>5. \A c \in Cards : c \notin tx[p].cards =>
         job'[c] = job[c] /\ line'[c] = line[c] /\ occasion'[c] = occasion[c]
  BY DEF Commit, TypeOK
<1>6. ASSUME NEW c \in tx[p].cards
      PROVE  /\ job'[c] = tx[p].to
             /\ tx[p].to # "failed" => line'[c] = tx[p].to /\ occasion'[c] = tx[p].to
             /\ tx[p].to = "failed" => line'[c] = line[c] /\ occasion'[c] = occasion[c]
             /\ tx[p].to \in Targets /\ job[c] \in FromStatuses[tx[p].to]
             /\ c \in Cards /\ c \notin refund[OrderOf[c]].doomed
  BY DEF Commit, TypeOK, TxInv, Transaction, LockInv
<1>7. OrdersOpen'
  BY <1>1, <1>3 DEF OrdersOpen, LockInv
<1>8. ASSUME NEW q \in Workers PROVE TxInv(q)'
  <2>1. CASE q = p
    BY <1>1, <2>1 DEF TxInv
  <2>2. CASE q # p
    <3>1. /\ tx'[q] = tx[q] /\ TxInv(q)
          /\ \A c \in tx[q].cards : c \notin tx[p].cards
          /\ \A o \in tx[q].orders : o \notin tx[p].orders
      BY <1>1, <2>2 DEF LockInv
    <3>2. tx[q].cards \subseteq Cards /\ tx[q].orders \subseteq Orders
      BY DEF TypeOK, Transaction
    <3>3. \A d \in Cards : line[d] \in {"delivered", "returned_to_sender"} => line'[d] = line[d]
      BY <1>5, <1>6, Sources DEF CardInv
    <3> QED BY <1>3, <1>5, <3>1, <3>2, <3>3 DEF TxInv, CardsOf
  <2> QED BY <2>1, <2>2
<1>9. ASSUME NEW c \in Cards PROVE RefundInv(c)'
  <2>1. RefundInv(c) /\ CardInv(c) /\ OrderOf[c] \in Orders
    OBVIOUS
  <2>2. order'[OrderOf[c]] = "cancelled" <=> order[OrderOf[c]] = "cancelled"
    BY <1>3, <1>4, <2>1 DEF Refundable
  <2>3. CASE c \notin tx[p].cards
    BY <1>1, <1>5, <2>1, <2>2, <2>3 DEF RefundInv, Stopped
  <2>4. CASE c \in tx[p].cards
    <3>1. job[c] # "none"
      BY <1>6, <2>4, Sources
    <3>2. /\ job[c] \notin Waiting => job'[c] \notin Waiting
          /\ occasion[c] # "queued" => occasion'[c] # "queued"
      BY <1>6, <2>4, Sources DEF Waiting, Targets
    <3> QED BY <1>1, <1>6, <2>1, <2>2, <2>4, <3>1, <3>2 DEF RefundInv, Stopped
  <2> QED BY <2>3, <2>4
<1>10. ASSUME NEW c \in Cards PROVE CardInv(c)'
  <2>1. CardInv(c) /\ OrderOf[c] \in Orders
    OBVIOUS
  <2>2. order'[OrderOf[c]] = "cancelled" <=> order[OrderOf[c]] = "cancelled"
    BY <1>3, <1>4, <2>1 DEF Refundable
  \* The order is completed by its last delivery.
  <2>3. order'[OrderOf[c]] = "completed" => line'[c] \in {"delivered", "returned_to_sender"}
    <3>1. CASE OrderOf[c] \in tx[p].done
      BY <1>5, <1>6, <3>1 DEF TxInv, CardsOf
    <3>2. CASE OrderOf[c] \notin tx[p].done
      <4>1. order'[OrderOf[c]] = "completed" => order[OrderOf[c]] = "completed"
        BY <1>3, <1>4, <2>1, <3>2
      <4> QED BY <1>5, <1>6, <2>1, <4>1, Sources DEF CardInv
    <3> QED BY <3>1, <3>2
  <2>4. CASE c \notin tx[p].cards
    BY <1>5, <2>1, <2>2, <2>3, <2>4 DEF CardInv
  <2>5. CASE c \in tx[p].cards
    <3>1. job[c] \notin {"none", "delivered", "returned_to_sender"}
      BY <1>6, <2>5, Sources
    <3>2. CASE tx[p].to = "failed"
      BY <1>6, <2>1, <2>2, <2>3, <2>5, <3>1, <3>2 DEF CardInv, Waiting
    <3>3. CASE tx[p].to # "failed"
      <4>1. order[OrderOf[c]] = "cancelled" => job'[c] \notin Waiting
        BY <1>6, <2>1, <2>5, <3>3, Sources DEF CardInv, Waiting, Targets
      <4> QED BY <1>6, <2>1, <2>2, <2>3, <2>5, <3>1, <3>3, <4>1 DEF CardInv, Targets
    <3> QED BY <3>2, <3>3
  <2> QED BY <2>4, <2>5
<1> QED BY <1>2, <1>7, <1>8, <1>9, <1>10

-------------------------------------------------------------------------------
(* The refund.                                                             *)

\* A step of a refund that only moves it on.
LEMMA AdvanceStep ==
  ASSUME IInv, TypeOK', NEW o \in Orders, NEW r, Advance(o, r),
         UNCHANGED <<order, job, line, occasion, tx>>, reported \subseteq reported',
         r.step \in {"claimed", "deleted"} => /\ order[o] \in Refundable
                                             /\ \A p \in Workers : o \notin tx[p].orders,
         r.doomed \subseteq CardsOf(o), \A p \in Workers : tx[p].cards \cap r.doomed = {},
         \A c \in CardsOf(o) : RefundInv(c)'
  PROVE  IInv'
<1> USE DEF IInv
<1>1. refund'[o] = r /\ \A u \in Orders : u # o => refund'[u] = refund[u]
  BY DEF Advance, TypeOK
<1>2. LockInv'
  <2>1. \A p \in Workers : tx[p].cards \subseteq Cards /\ tx[p].orders \subseteq Orders
    BY DEF TypeOK, Transaction
  <2> QED BY <1>1, <2>1 DEF LockInv
<1>3. OrdersOpen'
  BY <1>1 DEF OrdersOpen
<1>4. ASSUME NEW p \in Workers PROVE TxInv(p)'
  <2>1. TxInv(p)
    OBVIOUS
  <2> QED BY <2>1 DEF TxInv, CardsOf
<1>5. ASSUME NEW c \in Cards PROVE RefundInv(c)' /\ CardInv(c)'
  <2>1. RefundInv(c) /\ CardInv(c) /\ OrderOf[c] \in Orders
    OBVIOUS
  <2>2. CardInv(c)'
    BY <2>1 DEF CardInv
  <2>3. CASE OrderOf[c] # o
    BY <1>1, <2>1, <2>2, <2>3 DEF RefundInv, Stopped
  <2>4. CASE OrderOf[c] = o
    BY <2>2, <2>4 DEF CardsOf
  <2> QED BY <2>3, <2>4
<1> QED BY <1>2, <1>3, <1>4, <1>5

LEMMA RefundCheckStep ==
  ASSUME IInv, TypeOK', NEW o \in Orders, RefundCheck(o)
  PROVE  IInv'
<1>1. PICK r : r = [NoRefund EXCEPT !.step = "stripe"]
  OBVIOUS
<1>2. r.step = "stripe" /\ r.doomed = {}
  BY <1>1 DEF NoRefund
<1>3. ASSUME NEW c \in CardsOf(o) PROVE RefundInv(c)'
  <2>1. refund'[OrderOf[c]] = r /\ order[OrderOf[c]] \in Refundable /\ order' = order
    BY <1>1 DEF RefundCheck, Advance, IInv, TypeOK, CardsOf
  <2> QED BY <1>2, <2>1 DEF RefundInv, Refundable
<1> QED BY <1>1, <1>2, <1>3, AdvanceStep DEF RefundCheck

LEMMA RefundClaimStep ==
  ASSUME IInv, TypeOK', NEW o \in Orders, RefundClaim(o)
  PROVE  IInv'
<1>1. PICK r : r = IF order[o] \in Refundable THEN [NoRefund EXCEPT !.step = "claimed"]
                   ELSE [NoRefund EXCEPT !.step = "done"]
  OBVIOUS
<1>2. /\ r.step = IF order[o] \in Refundable THEN "claimed" ELSE "done"
      /\ r.doomed = {}
  BY <1>1 DEF NoRefund
<1>3. Advance(o, r)
  BY <1>1 DEF RefundClaim
<1>4. ASSUME NEW c \in CardsOf(o) PROVE RefundInv(c)'
  <2>1. c \in Cards /\ OrderOf[c] = o /\ RefundInv(c)
    BY DEF CardsOf, IInv
  <2>2. refund[o].step = "stripe" /\ refund'[o] = r /\ order' = order
    BY <1>3 DEF RefundClaim, Advance, IInv, TypeOK
  <2>3. order[o] # "cancelled"
    BY <2>1, <2>2 DEF RefundInv
  <2> QED BY <1>2, <2>1, <2>2, <2>3 DEF RefundInv
<1> QED BY <1>2, <1>3, <1>4, AdvanceStep DEF RefundClaim

\* What the DELETE leaves was posted or is gone; what it does not report was
\* still waiting.
LEMMA RefundDeleteStep ==
  ASSUME IInv, TypeOK', NEW o \in Orders, RefundDelete(o)
  PROVE  IInv'
<1>1. PICK r : /\ Advance(o, r) /\ r.step = "deleted" /\ r.doomed = Stoppable(o)
               /\ \A c \in CardsOf(o) : c \notin r.raced =>
                    job[c] # "posted" /\ (c \in Stoppable(o) => job[c] = "pending")
  BY DEF RefundDelete
<1>2. order[o] \in Refundable /\ refund[o].step = "claimed" /\ refund'[o] = r
  BY <1>1 DEF RefundDelete, Advance, IInv, TypeOK, OrdersOpen
<1>3. \A p \in Workers : o \notin tx[p].orders
  BY <1>2 DEF IInv, LockInv
<1>4. ASSUME NEW c \in CardsOf(o) PROVE RefundInv(c)'
  <2>1. c \in Cards /\ OrderOf[c] = o /\ CardInv(c) /\ order[o] # "cancelled"
    BY <1>2 DEF CardsOf, IInv, Refundable
  <2>2. UNCHANGED <<order, job, occasion>>
    BY DEF RefundDelete
  <2>3. c \notin r.doomed => job[c] = "posted" /\ occasion[c] = "posted"
    BY <1>1, <2>1 DEF Stoppable, CardInv, CardsOf
  <2>4. c \notin r.raced => c \in r.doomed /\ occasion[c] = "queued"
    BY <1>1, <2>1, <2>3 DEF CardInv
  <2> QED BY <1>1, <1>2, <2>1, <2>2, <2>3, <2>4 DEF RefundInv, Waiting
<1>5. r.doomed \subseteq CardsOf(o) /\ \A p \in Workers : tx[p].cards \cap r.doomed = {}
  BY <1>1 DEF RefundDelete, Stoppable
<1>6. UNCHANGED <<order, job, line, occasion, tx>> /\ reported \subseteq reported'
  BY DEF RefundDelete
<1> QED BY <1>1, <1>2, <1>3, <1>4, <1>5, <1>6, AdvanceStep

LEMMA RefundAbortStep ==
  ASSUME IInv, TypeOK', NEW o \in Orders, RefundAbort(o)
  PROVE  IInv'
<1>1. NoRefund.step = "none" /\ NoRefund.doomed = {}
  BY DEF NoRefund
<1>2. ASSUME NEW c \in CardsOf(o) PROVE RefundInv(c)'
  <2>1. c \in Cards /\ OrderOf[c] = o /\ RefundInv(c)
    BY DEF CardsOf, IInv
  <2>2. refund'[o] = NoRefund /\ order' = order /\ order[o] # "cancelled"
    BY <2>1 DEF RefundAbort, Advance, IInv, TypeOK, RefundInv
  <2> QED BY <1>1, <2>1, <2>2 DEF RefundInv
<1> QED BY <1>1, <1>2, AdvanceStep DEF RefundAbort

LEMMA RefundReportStep ==
  ASSUME IInv, TypeOK', NEW o \in Orders, RefundReport(o)
  PROVE  IInv'
<1>1. PICK r : r = [NoRefund EXCEPT !.step = "done"]
  OBVIOUS
<1>2. r.step = "done" /\ r.doomed = {} /\ Advance(o, r)
  BY <1>1 DEF NoRefund, RefundReport
<1>3. ASSUME NEW c \in CardsOf(o) PROVE RefundInv(c)'
  <2>1. c \in Cards /\ OrderOf[c] = o /\ RefundInv(c)
    BY DEF CardsOf, IInv
  <2>2. refund[o].step = "report" /\ refund'[o] = r /\ reported' = reported \cup refund[o].raced
    BY <1>2 DEF RefundReport, Advance, IInv, TypeOK
  <2>3. UNCHANGED <<order, job, occasion>>
    BY DEF RefundReport
  <2> QED BY <1>2, <2>1, <2>2, <2>3 DEF RefundInv, Stopped
<1> QED BY <1>2, <1>3, AdvanceStep DEF RefundReport

\* The release commits: what it had found is still so, since it holds the rows.
LEMMA RefundCommitStep ==
  ASSUME IInv, TypeOK', NEW o \in Orders, RefundCommit(o)
  PROVE  IInv'
<1> USE DEF IInv
<1>1. PICK r : r = [NoRefund EXCEPT !.step = "report", !.raced = refund[o].raced]
  OBVIOUS
<1>2. r.step = "report" /\ r.doomed = {} /\ r.raced = refund[o].raced
  BY <1>1 DEF NoRefund
<1>3. /\ refund[o].step = "deleted" /\ refund'[o] = r /\ order'[o] = "cancelled"
      /\ \A u \in Orders : u # o => refund'[u] = refund[u] /\ order'[u] = order[u]
      /\ tx' = tx /\ reported' = reported
      /\ \A p \in Workers : tx[p].cards \cap CardsOf(o) = {}
  BY <1>1 DEF RefundCommit, Advance, TypeOK
<1>4. order[o] \in Refundable /\ \A p \in Workers : o \notin tx[p].orders
  BY <1>3 DEF OrdersOpen, LockInv
<1>5. LockInv'
  <2>1. \A p \in Workers : tx[p].cards \subseteq Cards /\ tx[p].orders \subseteq Orders
    BY DEF TypeOK, Transaction
  <2> QED BY <1>2, <1>3, <1>4, <2>1 DEF LockInv
<1>6. OrdersOpen'
  BY <1>2, <1>3 DEF OrdersOpen
\* Cards of other orders are left alone.
<1>7. ASSUME NEW c \in Cards, OrderOf[c] # o
      PROVE  job'[c] = job[c] /\ line'[c] = line[c] /\ occasion'[c] = occasion[c]
  <2>1. c \notin CardsOf(o)
    BY <1>7 DEF CardsOf
  <2>2. c \notin refund[o].doomed
    BY <1>7, <1>3 DEF OrdersOpen, CardsOf
  <2> QED BY <2>1, <2>2 DEF RefundCommit, TypeOK
<1>8. ASSUME NEW p \in Workers PROVE TxInv(p)'
  <2>1. TxInv(p) /\ tx[p].cards \subseteq Cards /\ tx[p].orders \subseteq Orders
    BY DEF TypeOK, Transaction
  <2>2. \A c \in tx[p].cards : OrderOf[c] # o
    BY <1>3, <2>1 DEF CardsOf
  <2> QED BY <1>3, <1>4, <1>7, <2>1, <2>2 DEF TxInv, CardsOf
<1>9. ASSUME NEW c \in Cards PROVE RefundInv(c)' /\ CardInv(c)'
  <2>1. RefundInv(c) /\ CardInv(c) /\ OrderOf[c] \in Orders
    OBVIOUS
  <2>2. CASE OrderOf[c] # o
    BY <1>3, <1>7, <2>1, <2>2 DEF RefundInv, CardInv, Stopped
  <2>3. CASE OrderOf[c] = o
    <3>1. /\ job'[c] = IF c \in refund[o].doomed THEN "none" ELSE job[c]
          /\ line'[c] = "cancelled"
          /\ occasion'[c] = IF occasion[c] = "queued" THEN "skipped" ELSE occasion[c]
      BY <2>3 DEF RefundCommit, CardsOf, TypeOK
    <3>2. order[o] # "cancelled" /\ occasion[c] # "skipped"
      BY <1>4, <2>1, <2>3 DEF Refundable, CardInv
    <3>3. /\ c \notin refund[o].raced => c \in refund[o].doomed /\ occasion[c] = "queued"
          /\ c \notin refund[o].doomed => job[c] \notin Waiting /\ occasion[c] # "queued"
      BY <1>3, <2>1, <2>3 DEF RefundInv
    <3>4. RefundInv(c)'
      BY <1>2, <1>3, <2>3, <3>1, <3>3 DEF RefundInv, Stopped
    <3>5. CardInv(c)'
      BY <1>3, <2>3, <3>1, <3>2, <3>3 DEF CardInv, Waiting
    <3> QED BY <3>4, <3>5
  <2> QED BY <2>2, <2>3
<1> QED BY <1>5, <1>6, <1>8, <1>9

-------------------------------------------------------------------------------
LEMMA InvStep == IInv /\ [Next]_vars => IInv'
<1> SUFFICES ASSUME IInv, [Next]_vars PROVE IInv'
  OBVIOUS
<1>1. TypeOK'
  BY TypeStep DEF IInv
<1>2. ASSUME NEW p \in Workers, Transition(p) PROVE IInv'
  BY <1>1, <1>2, BeginStep, SkipStep, ApplyStep, CommitStep, AbortStep
     DEF Transition, BulkTransition, Dispatch, RegisterDelivery, Targets
<1>3. ASSUME NEW c \in Cards, Claim(c) \/ MarkReturned(c) PROVE IInv'
  BY <1>1, <1>3, ClaimStep, ReturnStep
<1>4. ASSUME NEW o \in Orders, Release(o) PROVE IInv'
  BY <1>1, <1>4, RefundCheckStep, RefundClaimStep, RefundDeleteStep, RefundCommitStep,
     RefundAbortStep, RefundReportStep DEF Release
<1>5. CASE UNCHANGED vars
  BY <1>5 DEF vars, IInv, TypeOK, LockInv, OrdersOpen, TxInv, RefundInv, CardInv, Stopped, CardsOf
<1> QED BY <1>2, <1>3, <1>4, <1>5 DEF Next

\* The rows a transaction or a refund holds stay as it found them, and the
\* statuses of a card, its line, its occasion and its order agree.
THEOREM Invariant == Spec => []IInv
BY InvInit, InvStep, PTL DEF Spec

\* A refund's DELETE stops every card not yet posted, whatever moved them while
\* Stripe was refunding: fulfillment_jobs of a cancelled order are never left
\* pending, in_progress or printed.
THEOREM RefundStopsCards == Spec => []RefundedCardsAreStopped
<1>1. IInv => RefundedCardsAreStopped
  BY DEF IInv, CardInv, RefundedCardsAreStopped, Waiting
<1> QED BY Invariant, <1>1, PTL

\* Every card of a refunded order that went into print or escaped into the
\* post is named to an operator by refundRacedFulfillment.
THEOREM RacesAreReported == Spec => []RacedCardsAreReported
<1>1. IInv => RacedCardsAreReported
  BY DEF IInv, RefundInv, RacedCardsAreReported, Stopped
<1> QED BY Invariant, <1>1, PTL

\* applyTransition completes an order only when each of its cards was
\* delivered, however many transactions deliver them.
THEOREM CompletionIsDelivery == Spec => []CompletedMeansDelivered
<1>1. IInv => CompletedMeansDelivered
  BY DEF IInv, CardInv, CompletedMeansDelivered
<1> QED BY Invariant, <1>1, PTL

\* A refund skips exactly the occasions whose card it stopped before print.
THEOREM OccasionsFollow == Spec => []OccasionFollowsCard
<1>1. IInv => OccasionFollowsCard
  BY DEF IInv, CardInv, OccasionFollowsCard
<1> QED BY Invariant, <1>1, PTL

\* No transaction, begun before an order was completed or cancelled, opens it
\* again.
THEOREM ClosedForGood == Spec => ClosedOrdersStayClosed
<1>1. IInv /\ [Next]_vars =>
        [\A o \in Orders : order[o] \in {"completed", "cancelled"} => order'[o] = order[o]]_vars
  <2> SUFFICES ASSUME IInv, Next, NEW o \in Orders, order[o] \in {"completed", "cancelled"}
               PROVE  order'[o] = order[o]
    OBVIOUS
  <2>1. ASSUME NEW p \in Workers, Commit(p) PROVE order'[o] = order[o]
    BY <2>1 DEF Commit, IInv, TypeOK, TxInv, Refundable
  <2>2. ASSUME NEW u \in Orders, RefundCommit(u) PROVE order'[o] = order[o]
    BY <2>2 DEF RefundCommit, IInv, TypeOK, OrdersOpen, Refundable
  <2>3. ASSUME NEW p \in Workers, Transition(p) PROVE order'[o] = order[o]
    BY <2>1, <2>3 DEF Transition, BulkTransition, Dispatch, RegisterDelivery, Begin, Skip, Apply, Abort
  <2>4. ASSUME NEW u \in Orders, Release(u) PROVE order'[o] = order[o]
    BY <2>2, <2>4 DEF Release, RefundCheck, RefundClaim, RefundDelete, RefundAbort, RefundReport
  <2> QED BY <2>3, <2>4 DEF Next, Claim, MarkReturned
<1> QED BY Invariant, <1>1, PTL DEF Spec, ClosedOrdersStayClosed
===============================================================================
