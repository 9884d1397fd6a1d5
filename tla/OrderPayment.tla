----------------------------- MODULE OrderPayment -----------------------------
(***************************************************************************)
(* How an order of one wallet's account is paid, abandoned, cancelled and  *)
(* refunded: batch-orders.service.ts (checkout, cancel, cancelAndRefund    *)
(* and their helpers), webhooks.service.ts (the Checkout Session events),  *)
(* wallet.service.ts (payOrder, the top-up credit).                        *)
(*                                                                         *)
(* A worker is one request in flight in the API server: a customer's call  *)
(* or the delivery of a webhook.  One database transaction, or one call to *)
(* Stripe, is one step; between two steps of a worker anything else may    *)
(* happen, and with MayCrash the worker may go no further (the process     *)
(* dies, or the next transaction gives up with a 503).  Stripe delivers    *)
(* the event of a finished session any number of times and in any order.   *)
(*                                                                         *)
(* Amounts are minor units.  An order carries one card: what several cards *)
(* add is in Fulfillment.tla.                                              *)
(***************************************************************************)
EXTENDS WalletDraw, FiniteSets

CONSTANTS Orders, Sessions, Workers, TopUps,
          Total,            \* Total[o]: the order's totalMinor
          TopUpAmount,      \* TopUpAmount[t]: what a top-up session credits
          InitialBalance,
          Requests,         \* what customers ask for in this instance
          MayCrash,
          None

ASSUME OrderPaymentAssumption ==
  /\ Total \in [Orders -> Nat]
  /\ TopUpAmount \in [TopUps -> Nat]
  /\ InitialBalance \in Nat
  /\ Requests \subseteq {"checkout", "resume", "payOrder", "cancel", "refund"}
  /\ MayCrash \in BOOLEAN
  /\ None \notin Sessions \cup Orders \cup {"wallet"}
  /\ "wallet" \notin Sessions

VARIABLES
  row,          \* the batch_orders row of each order
  job,          \* the fulfillment_jobs row of the order's card
  balance,      \* the sum of the account's ledger entries
  walletPaid,   \* what the entries naming an order have taken from the wallet
  creditedBack, \* orders with a ledger entry "refund:<id>:wallet"
  toppedUp,     \* top-up sessions with a ledger entry "topup:<session>"
  stripe,       \* Stripe's Checkout Sessions
  stripeRefund, \* the payment intent refunded under the key "refund:<id>"
  flagged,      \* sessions whose payment was reported to an operator
  settledBy,    \* what paid the order: "wallet" or a session (history)
  req,          \* the request each worker is serving
  fresh         \* workers whose order row is unchanged since they read it

ledger == <<balance, walletPaid, creditedBack, toppedUp>>
vars == <<row, job, ledger, stripe, stripeRefund, flagged, settledBy, req, fresh>>
-------------------------------------------------------------------------------
Unpaid == {"draft", "pending_payment"}
Refundable == {"paid", "fulfilling"}
Settled == {"paid", "fulfilling", "completed"}
OrderStatus == Unpaid \cup Settled \cup {"cancelled"}

\* The session's intent is named by the session that created it.
OrderRow == [status : OrderStatus, method : {None, "wallet", "card"},
             applied : Int, session : Sessions \cup {None},
             intent : Sessions \cup {None}]

JobStatus == {"none", "pending", "in_progress", "printed", "posted", "delivered"}

\* "created": it exists, and its URL has not reached the buyer;
\* "processing": completed with a payment that clears later.
SessionState == {"unused", "created", "open", "processing", "paid", "failed", "expired"}

Dead == {"failed", "expired"}

Step == {"idle", "payFromWallet", "reserve", "claimResume", "createSession",
         "recordSession", "expireOld", "handBackMoney", "handBackDraft",
         "cancelClaim", "releaseAfterEvent", "refundCard", "releaseOrder",
         "creditWallet", "refundWallet"}

\* What a request remembers between its steps.  applied: the reservation as
\* the request knows it; session: the session or intent it is working on;
\* old: the session a resume replaces; fromDraft: it claimed a draft.
Request == [step : Step, order : Orders \cup {None}, applied : Int,
            session : Sessions \cup {None}, old : Sessions \cup {None},
            fromDraft : BOOLEAN]

NoRequest == [step |-> "idle", order |-> None, applied |-> 0, session |-> None,
              old |-> None, fromDraft |-> FALSE]

TypeOK ==
  /\ row \in [Orders -> OrderRow]
  /\ job \in [Orders -> JobStatus]
  /\ balance \in Int
  /\ walletPaid \in [Orders -> Int]
  /\ creditedBack \subseteq Orders
  /\ toppedUp \subseteq TopUps
  /\ stripe \in [Sessions -> [state : SessionState, order : Orders \cup {None},
                              amount : Int]]
  /\ stripeRefund \in [Orders -> Sessions \cup {None}]
  /\ flagged \subseteq Sessions
  /\ settledBy \in [Orders -> Sessions \cup {None, "wallet"}]
  /\ req \in [Workers -> Request]
  /\ fresh \subseteq Workers

Init ==
  /\ row = [o \in Orders |-> [status |-> "draft", method |-> None, applied |-> 0,
                              session |-> None, intent |-> None]]
  /\ job = [o \in Orders |-> "none"]
  /\ balance = InitialBalance
  /\ walletPaid = [o \in Orders |-> 0]
  /\ creditedBack = {}
  /\ toppedUp = {}
  /\ stripe = [s \in Sessions |-> [state |-> "unused", order |-> None, amount |-> 0]]
  /\ stripeRefund = [o \in Orders |-> None]
  /\ flagged = {}
  /\ settledBy = [o \in Orders |-> None]
  /\ req = [p \in Workers |-> NoRequest]
  /\ fresh = {}
-------------------------------------------------------------------------------
(* Pieces the transactions share.                                          *)

Idle(p) == req[p].step = "idle"

At(p, step) == req[p].step = step

Goto(p, step) == req' = [req EXCEPT ![p].step = step]

Done(p) == req' = [req EXCEPT ![p] = NoRequest]

\* A write of order o's row; it moves updatedAt, so snapshots of it go stale.
Write(o, r) == /\ row' = [row EXCEPT ![o] = r]
               /\ fresh' = {q \in fresh : req[q].order # o}

\* One ledger entry naming order o; a positive amount goes to the customer.
Entry(o, amount) == /\ balance' = balance + amount
                    /\ walletPaid' = [walletPaid EXCEPT ![o] = @ - amount]

\* settleFulfillment: the card is queued for printing, once.
Settle(o, by) == /\ job' = [job EXCEPT ![o] = IF @ = "none" THEN "pending" ELSE @]
                 /\ settledBy' = [settledBy EXCEPT ![o] = by]

\* Mutant: the release forgets to ask whether the order is still unpaid.
ReleaseReservationOfAnyOrder(o) ==
  IF row[o].applied > 0
  THEN /\ Write(o, [row[o] EXCEPT !.applied = 0])
       /\ Entry(o, row[o].applied)
  ELSE UNCHANGED <<row, fresh, balance, walletPaid>>

\* releaseWalletReservation: only an unpaid order's reservation goes back.
ReleaseReservation(o) ==
  IF row[o].status \in Unpaid /\ row[o].applied > 0
  THEN /\ Write(o, [row[o] EXCEPT !.applied = 0])
       /\ Entry(o, row[o].applied)
  ELSE UNCHANGED <<row, fresh, balance, walletPaid>>

\* Mutant: the balance is not compared with the total.
WalletCoversAnyDraft(o) == row[o].status = "draft"

\* debitAndSettleOrder: the whole total from the wallet, for a draft.
WalletCovers(o) == row[o].status = "draft" /\ balance >= Total[o]

PayByWallet(o) ==
  /\ Write(o, [row[o] EXCEPT !.status = "paid", !.method = "wallet"])
  /\ Entry(o, -Total[o])
  /\ Settle(o, "wallet")

\* Mutant: only jobs still pending are deleted.
ReleasePendingCards(o) == job' = [job EXCEPT ![o] = IF @ = "pending" THEN "none" ELSE @]

\* releaseRecipientsAndOccasions: every job that is not posted is deleted.
ReleaseCards(o) == job' = [job EXCEPT ![o] = IF @ = "posted" THEN @ ELSE "none"]
-------------------------------------------------------------------------------
(* checkout                                                                *)

CheckoutRead(p, o) ==
  /\ Idle(p) /\ "checkout" \in Requests
  /\ row[o].status = "draft"
  /\ req' = [req EXCEPT ![p] = [NoRequest EXCEPT !.step = "payFromWallet", !.order = o]]
  /\ UNCHANGED <<row, job, ledger, stripe, stripeRefund, flagged, settledBy, fresh>>

ResumeRead(p, o) ==
  /\ Idle(p) /\ "resume" \in Requests
  /\ row[o].status = "pending_payment"
  /\ req' = [req EXCEPT ![p] = [NoRequest EXCEPT !.step = "claimResume", !.order = o,
                                                 !.applied = row[o].applied,
                                                 !.old = row[o].session]]
  /\ fresh' = fresh \cup {p}
  /\ UNCHANGED <<row, job, ledger, stripe, stripeRefund, flagged, settledBy>>

PayFromWallet(p) ==
  LET o == req[p].order IN
  /\ At(p, "payFromWallet")
  /\ IF WalletCovers(o)
     THEN PayByWallet(o) /\ Done(p)
     ELSE /\ Goto(p, "reserve")
          /\ UNCHANGED <<row, fresh, balance, walletPaid, job, settledBy>>
  /\ UNCHANGED <<creditedBack, toppedUp, stripe, stripeRefund, flagged>>

Reserve(p) ==
  LET o == req[p].order
      draw == CheckoutDraw(balance, Total[o])
  IN /\ At(p, "reserve")
     /\ IF row[o].status = "draft"
        THEN /\ Write(o, [row[o] EXCEPT !.status = "pending_payment", !.applied = draw])
             /\ Entry(o, -draw)
             /\ req' = [req EXCEPT ![p].step = "createSession", ![p].applied = draw,
                                   ![p].fromDraft = TRUE]
        ELSE Done(p) /\ UNCHANGED <<row, fresh, balance, walletPaid>>
     /\ UNCHANGED <<creditedBack, toppedUp, job, stripe, stripeRefund, flagged, settledBy>>

\* The compare-and-swap on updatedAt; the loser of it is refused.
ClaimResume(p) ==
  LET o == req[p].order IN
  /\ At(p, "claimResume")
  /\ IF p \in fresh /\ row[o].status = "pending_payment"
     THEN Write(o, row[o]) /\ Goto(p, "createSession")
     ELSE Done(p) /\ fresh' = fresh \ {p} /\ UNCHANGED row
  /\ UNCHANGED <<job, ledger, stripe, stripeRefund, flagged, settledBy>>

\* Stripe refuses an amount under its minimum.
CreateSession(p, s) ==
  LET amount == Total[req[p].order] - req[p].applied IN
  /\ At(p, "createSession")
  /\ stripe[s].state = "unused"
  /\ amount >= MinCharge
  /\ stripe' = [stripe EXCEPT ![s] = [state |-> "created", order |-> req[p].order,
                                      amount |-> amount]]
  /\ req' = [req EXCEPT ![p].step = "recordSession", ![p].session = s]
  /\ UNCHANGED <<row, job, ledger, stripeRefund, flagged, settledBy, fresh>>

\* Mutant: the draft is handed back with the wallet's money still taken.
CreateSessionFailsKeepingTheDraw(p) ==
  /\ At(p, "createSession")
  /\ IF req[p].fromDraft THEN Goto(p, "handBackDraft") ELSE Done(p)
  /\ UNCHANGED <<row, job, ledger, stripe, stripeRefund, flagged, settledBy, fresh>>

\* The call fails: a claimed draft is handed back, a resume stays pending.
CreateSessionFails(p) ==
  /\ At(p, "createSession")
  /\ IF req[p].fromDraft THEN Goto(p, "handBackMoney") ELSE Done(p)
  /\ UNCHANGED <<row, job, ledger, stripe, stripeRefund, flagged, settledBy, fresh>>

HandBackMoney(p) ==
  /\ At(p, "handBackMoney")
  /\ ReleaseReservation(req[p].order)
  /\ Goto(p, "handBackDraft")
  /\ UNCHANGED <<creditedBack, toppedUp, job, stripe, stripeRefund, flagged, settledBy>>

HandBackDraft(p) ==
  LET o == req[p].order IN
  /\ At(p, "handBackDraft")
  /\ IF row[o].status = "pending_payment"
     THEN Write(o, [row[o] EXCEPT !.status = "draft"])
     ELSE UNCHANGED <<row, fresh>>
  /\ Done(p)
  /\ UNCHANGED <<job, ledger, stripe, stripeRefund, flagged, settledBy>>

\* The row is updated by id alone.  Stripe may or may not name the payment
\* intent of a session it has just created.  Without a session to replace,
\* the URL goes to the buyer.
RecordSession(p) ==
  LET o == req[p].order
      s == req[p].session
  IN /\ At(p, "recordSession")
     /\ \E intent \in {s, None} :
          Write(o, [row[o] EXCEPT !.method = "card", !.session = s, !.intent = intent])
     /\ IF req[p].old = None
        THEN Done(p) /\ stripe' = [stripe EXCEPT ![s].state =
                                     IF @ = "created" THEN "open" ELSE @]
        ELSE Goto(p, "expireOld") /\ UNCHANGED stripe
     /\ UNCHANGED <<job, ledger, stripeRefund, flagged, settledBy>>

\* Stripe is asked to stop the session a resume replaced.  Whatever the call
\* answers, the new URL goes to the buyer: if it failed, or the old session is
\* past stopping, the old one stays as it is beside the new one.
ExpireOld(p) ==
  LET s == req[p].session
      old == req[p].old
  IN /\ At(p, "expireOld")
     /\ \E stopped \in SUBSET {old} :
          stripe' = [t \in Sessions |->
            IF t \in stopped /\ stripe[t].state \in {"created", "open"}
            THEN [stripe[t] EXCEPT !.state = "expired"]
            ELSE IF t = s /\ stripe[t].state = "created"
            THEN [stripe[t] EXCEPT !.state = "open"]
            ELSE stripe[t]]
     /\ Done(p)
     /\ UNCHANGED <<row, job, ledger, stripeRefund, flagged, settledBy, fresh>>
-------------------------------------------------------------------------------
(* payOrder, and the credit of a paid top-up session                       *)

PayOrder(o) ==
  /\ "payOrder" \in Requests
  /\ WalletCovers(o)
  /\ PayByWallet(o)
  /\ UNCHANGED <<creditedBack, toppedUp, stripe, stripeRefund, flagged, req>>

ApplyTopup(t) ==
  /\ t \notin toppedUp
  /\ balance' = balance + TopUpAmount[t]
  /\ toppedUp' = toppedUp \cup {t}
  /\ UNCHANGED <<row, job, walletPaid, creditedBack, stripe, stripeRefund, flagged,
                 settledBy, req, fresh>>
-------------------------------------------------------------------------------
(* cancel: the reservation is released before the status is claimed        *)

CancelRelease(p, o) ==
  /\ Idle(p) /\ "cancel" \in Requests
  /\ row[o].status # "cancelled"
  /\ ReleaseReservation(o)
  /\ req' = [req EXCEPT ![p] = [NoRequest EXCEPT
               !.step = "cancelClaim", !.order = o,
               !.applied = IF row[o].status \in Unpaid THEN row[o].applied ELSE 0]]
  /\ UNCHANGED <<creditedBack, toppedUp, job, stripe, stripeRefund, flagged, settledBy>>

CancelClaim(p) ==
  LET o == req[p].order IN
  /\ At(p, "cancelClaim")
  /\ IF row[o].status \in Unpaid
     THEN Write(o, [row[o] EXCEPT !.status = "cancelled"])
     ELSE UNCHANGED <<row, fresh>>
  /\ Done(p)
  /\ UNCHANGED <<job, ledger, stripe, stripeRefund, flagged, settledBy>>
-------------------------------------------------------------------------------
(* The webhooks.  A delivery that changes nothing is a stuttering step.    *)

\* Mutant: a session that completed but has not cleared settles the order.
PaymentSettlesUncleared(s) ==
  LET o == stripe[s].order IN
  /\ stripe[s].state \in {"processing", "paid"}
  /\ row[o].status = "pending_payment"
  /\ Write(o, [row[o] EXCEPT !.status = "paid", !.session = s])
  /\ Settle(o, s)
  /\ UNCHANGED <<ledger, stripe, stripeRefund, flagged, req>>

PaymentSettles(s) ==
  LET o == stripe[s].order IN
  /\ stripe[s].state = "paid"
  /\ row[o].status = "pending_payment"
  /\ Write(o, [row[o] EXCEPT !.status = "paid", !.session = s])
  /\ Settle(o, s)
  /\ UNCHANGED <<ledger, stripe, stripeRefund, flagged, req>>


\* The payment that paid the order, delivered again.
IsRedelivery(s) == LET o == stripe[s].order
                   IN row[o].status = "paid" /\ row[o].session = s

\* Money this system did not fulfil against: an operator is told.
PaymentAnomaly(s) ==
  /\ stripe[s].state = "paid"
  /\ row[stripe[s].order].status # "pending_payment"
  /\ ~IsRedelivery(s)
  /\ flagged' = flagged \cup {s}
  /\ UNCHANGED <<row, job, ledger, stripe, stripeRefund, settledBy, req, fresh>>

\* Mutant: any session of the order may release it.
ReleasableByAny(s) == row[stripe[s].order].status = "pending_payment"

\* releasableBySession: the order waits on this session, or on none it knows.
ReleasableBy(s) == LET o == stripe[s].order
                   IN row[o].status = "pending_payment" /\ row[o].session \in {None, s}

\* Mutant: async_payment_failed is not handled.
FlipToDraftOnExpiry(p, s) ==
  LET o == stripe[s].order IN
  /\ Idle(p)
  /\ stripe[s].state = "expired"
  /\ ReleasableBy(s)
  /\ Write(o, [row[o] EXCEPT !.status = "draft"])
  /\ req' = [req EXCEPT ![p] = [NoRequest EXCEPT !.step = "releaseAfterEvent", !.order = o]]
  /\ UNCHANGED <<job, ledger, stripe, stripeRefund, flagged, settledBy>>

\* checkout.session.expired and async_payment_failed: back to draft first ...
FlipToDraft(p, s) ==
  LET o == stripe[s].order IN
  /\ Idle(p)
  /\ stripe[s].state \in Dead
  /\ ReleasableBy(s)
  /\ Write(o, [row[o] EXCEPT !.status = "draft"])
  /\ req' = [req EXCEPT ![p] = [NoRequest EXCEPT !.step = "releaseAfterEvent", !.order = o]]
  /\ UNCHANGED <<job, ledger, stripe, stripeRefund, flagged, settledBy>>

\* ... and the reservation in a transaction of its own.
ReleaseAfterEvent(p) ==
  /\ At(p, "releaseAfterEvent")
  /\ ReleaseReservation(req[p].order)
  /\ Done(p)
  /\ UNCHANGED <<creditedBack, toppedUp, job, stripe, stripeRefund, flagged, settledBy>>
-------------------------------------------------------------------------------
(* cancelAndRefund                                                         *)

\* The read: which refund this will be is decided here.
RefundRead(p, o) ==
  LET r == row[o] IN
  /\ Idle(p) /\ "refund" \in Requests
  /\ r.status \in Refundable
  /\ job[o] \in {"none", "pending"}
  /\ r.method = "wallet" \/ r.intent # None
  /\ req' = [req EXCEPT ![p] = [NoRequest EXCEPT
               !.step = IF r.method = "wallet" THEN "refundWallet" ELSE "refundCard",
               !.order = o, !.applied = r.applied,
               !.session = IF r.method = "wallet" THEN None ELSE r.intent]]
  /\ UNCHANGED <<row, job, ledger, stripe, stripeRefund, flagged, settledBy, fresh>>

\* One refund per idempotency key, and only of an intent that was paid.
RefundCard(p) ==
  LET o == req[p].order
      intent == req[p].session
  IN /\ At(p, "refundCard")
     /\ IF stripe[intent].state = "paid" /\ stripeRefund[o] \in {None, intent}
        THEN /\ stripeRefund' = [stripeRefund EXCEPT ![o] = intent]
             /\ Goto(p, "releaseOrder")
        ELSE Done(p) /\ UNCHANGED stripeRefund
     /\ UNCHANGED <<row, job, ledger, stripe, flagged, settledBy, fresh>>

\* Mutant: the wallet's part of a split order is forgotten.
ReleaseOrderAsIfCardOnly(p) ==
  LET o == req[p].order IN
  /\ At(p, "releaseOrder")
  /\ IF row[o].status \in Refundable
     THEN Write(o, [row[o] EXCEPT !.status = "cancelled"]) /\ ReleaseCards(o)
     ELSE UNCHANGED <<row, fresh, job>>
  /\ Done(p)
  /\ UNCHANGED <<ledger, stripe, stripeRefund, flagged, settledBy>>

ReleaseOrder(p) ==
  LET o == req[p].order IN
  /\ At(p, "releaseOrder")
  /\ IF row[o].status \in Refundable
     THEN Write(o, [row[o] EXCEPT !.status = "cancelled"]) /\ ReleaseCards(o)
     ELSE UNCHANGED <<row, fresh, job>>
  /\ IF req[p].applied > 0 THEN Goto(p, "creditWallet") ELSE Done(p)
  /\ UNCHANGED <<ledger, stripe, stripeRefund, flagged, settledBy>>

\* Idempotent on the ledger reference "refund:<id>:wallet".
CreditWalletPortion(p) ==
  LET o == req[p].order IN
  /\ At(p, "creditWallet")
  /\ IF o \notin creditedBack
     THEN Entry(o, req[p].applied) /\ creditedBack' = creditedBack \cup {o}
     ELSE UNCHANGED <<balance, walletPaid, creditedBack>>
  /\ Done(p)
  /\ UNCHANGED <<row, job, toppedUp, stripe, stripeRefund, flagged, settledBy, fresh>>

RefundWallet(p) ==
  LET o == req[p].order IN
  /\ At(p, "refundWallet")
  /\ IF row[o].status \in Refundable
     THEN /\ Write(o, [row[o] EXCEPT !.status = "cancelled"])
          /\ Entry(o, Total[o])
          /\ ReleaseCards(o)
     ELSE UNCHANGED <<row, fresh, balance, walletPaid, job>>
  /\ Done(p)
  /\ UNCHANGED <<creditedBack, toppedUp, stripe, stripeRefund, flagged, settledBy>>
-------------------------------------------------------------------------------
(* The print queue (fulfillment.service.ts), for the one card.             *)

CardSteps == {<<"pending", "in_progress">>, <<"pending", "printed">>,
              <<"in_progress", "printed">>, <<"printed", "posted">>,
              <<"posted", "delivered">>}

\* Mutant: the order's status follows the card's.
OrderAfterCopiesCard(status, jobStatus) ==
  IF jobStatus = "delivered" THEN "completed" ELSE jobStatus

OrderAfter(status, jobStatus) ==
  IF jobStatus \in {"printed", "posted"} /\ status = "paid" THEN "fulfilling"
  ELSE IF jobStatus = "delivered" /\ status \in {"paid", "fulfilling"} THEN "completed"
  ELSE status

MoveCard(o) ==
  /\ \E to \in JobStatus :
       /\ <<job[o], to>> \in CardSteps
       /\ job' = [job EXCEPT ![o] = to]
       /\ LET status == OrderAfter(row[o].status, to) IN
          IF status = row[o].status
          THEN UNCHANGED <<row, fresh>>
          ELSE Write(o, [row[o] EXCEPT !.status = status])
  /\ UNCHANGED <<ledger, stripe, stripeRefund, flagged, settledBy, req>>
-------------------------------------------------------------------------------
(* The buyer's bank and Stripe's own clock.                                *)

SessionSteps == {<<"open", "paid">>, <<"open", "processing">>, <<"processing", "paid">>,
                 <<"processing", "failed">>, <<"created", "expired">>,
                 <<"open", "expired">>}

SessionMoves(s) ==
  /\ \E to \in SessionState :
       /\ <<stripe[s].state, to>> \in SessionSteps
       /\ stripe' = [stripe EXCEPT ![s].state = to]
  /\ UNCHANGED <<row, job, ledger, stripeRefund, flagged, settledBy, req, fresh>>

\* The worker goes no further: a crash, or a transaction that gave up.
Crash(p) ==
  /\ MayCrash
  /\ ~Idle(p)
  /\ Done(p)
  /\ fresh' = fresh \ {p}
  /\ UNCHANGED <<row, job, ledger, stripe, stripeRefund, flagged, settledBy>>
-------------------------------------------------------------------------------
\* What a worker does on its own once a request is under way.
Continue(p) ==
  \/ PayFromWallet(p) \/ Reserve(p) \/ ClaimResume(p)
  \/ (\E s \in Sessions : CreateSession(p, s)) \/ CreateSessionFails(p)
  \/ HandBackMoney(p) \/ HandBackDraft(p) \/ RecordSession(p) \/ ExpireOld(p)
  \/ CancelClaim(p) \/ ReleaseAfterEvent(p)
  \/ RefundCard(p) \/ ReleaseOrder(p) \/ CreditWalletPortion(p) \/ RefundWallet(p)

Receive(p) ==
  \/ \E o \in Orders : CheckoutRead(p, o) \/ ResumeRead(p, o) \/ CancelRelease(p, o)
                       \/ RefundRead(p, o)
  \/ \E s \in Sessions : FlipToDraft(p, s)

Next ==
  \/ \E p \in Workers : Receive(p) \/ Continue(p) \/ Crash(p)
  \/ \E o \in Orders : PayOrder(o) \/ MoveCard(o)
  \/ \E t \in TopUps : ApplyTopup(t)
  \/ \E s \in Sessions : PaymentSettles(s) \/ PaymentAnomaly(s) \/ SessionMoves(s)

Spec == Init /\ [][Next]_vars

\* Handlers run on; a webhook Stripe keeps redelivering is served in the end.
\* (The completion's handler is one transaction, enabled until it has run.)
FairSpec == /\ Spec
            /\ \A p \in Workers : WF_vars(Continue(p))
            /\ \A s \in Sessions : /\ SF_vars(\E p \in Workers : FlipToDraft(p, s))
                                   /\ WF_vars(PaymentSettles(s) \/ PaymentAnomaly(s))
-------------------------------------------------------------------------------
(***************************************************************************)
(* Properties.                                                             *)
(***************************************************************************)

\* The account never owes the platform: whatever reservations, wallet
\* payments and refunds overlap, no debit exceeds the balance it was sized on.
WalletNeverOverdrawn == balance >= 0

\* No order ever gives back more than it took: releases, wallet refunds and
\* credits of the wallet's half of a split refund, retried or racing, never
\* turn the ledger entries naming an order into a gift.
NeverOverCredited == \A o \in Orders : walletPaid[o] >= 0

\* A reservation always leaves the card something Stripe will take, also
\* when the wallet was topped up after checkout decided it does not cover.
CardChargeAboveMinimum ==
  \A o \in Orders : row[o].applied <= MostTheWalletMayTake(Total[o])

\* The order service keeps the promise of OrderLifecycle.tla: settled once,
\* abandoned or refunded for good, no card left queued on a closed order.
StageOf == [o \in Orders |-> IF row[o].status \in Unpaid THEN "unpaid"
                             ELSE IF row[o].status \in Settled THEN "paid" ELSE "closed"]

CardOf == [o \in Orders |-> IF job[o] = "none" THEN "none"
                            ELSE IF job[o] \in {"posted", "delivered"} THEN "posted"
                            ELSE "queue"]

Lifecycle == INSTANCE OrderLifecycle WITH stage <- StageOf, card <- CardOf

LifecycleKept == Lifecycle!Spec

CardPaid(o) == LET s == settledBy[o]
               IN IF s \in Sessions /\ stripe[s].state = "paid" THEN stripe[s].amount ELSE 0

\* An order settled by the wallet, or by a session opened for what its
\* reservation leaves, is covered by money the ledger and Stripe really hold,
\* and stays covered until Stripe has refunded it.
PaidAsReserved ==
  \A o \in Orders :
    /\ row[o].status \in Settled /\ stripeRefund[o] = None
    /\ settledBy[o] \in Sessions =>
         stripe[settledBy[o]].amount = Total[o] - row[o].applied
    => walletPaid[o] + CardPaid(o) >= Total[o]

-------------------------------------------------------------------------------
(* Properties that hold while nothing crashes and the requests on one order *)
(* do not overlap; those on different orders, the payment from the wallet,  *)
(* the print queue, the bank and Stripe's clock go their own way.           *)

RequestsDoNotOverlap ==
  \A p, q \in Workers : req[p].order = req[q].order /\ req[p].order # None => p = q

\* The wallet's share of an unpaid order is exactly what its row records as
\* reserved, so releasing the reservation releases all of the money.
LedgerMatchesReservation ==
  \A o \in Orders : row[o].status \in Unpaid => walletPaid[o] = row[o].applied

Refunding(o) == \E p \in Workers : /\ req[p].order = o
                                   /\ req[p].step \in {"releaseOrder", "creditWallet"}

\* What RefundReturnsEverything cannot ask for: a session that a resume could not
\* stop is paid as well (an operator is told), or the wallet paid for a draft
\* whose reservation an expiry had yet to release.
PaidOnce(o) ==
  /\ \A s \in Sessions : stripe[s].order = o /\ stripe[s].state = "paid" => s = settledBy[o]
  /\ settledBy[o] = "wallet" => row[o].applied = 0

\* An order that was paid once is cancelled only with all of the money given
\* back: the wallet's part to the wallet, the card's part through Stripe.
RefundReturnsEverything ==
  \A o \in Orders :
    row[o].status = "cancelled" /\ settledBy[o] # None /\ PaidOnce(o) /\ ~Refunding(o) =>
      /\ walletPaid[o] = 0
      /\ settledBy[o] \in Sessions => stripeRefund[o] = settledBy[o]

\* While the session the order waits on can still be paid, the order stays
\* able to take the payment: no older session's expiry sends it back to draft.
LiveSessionKeepsOrder ==
  \A o \in Orders :
    LET s == row[o].session IN
    s # None /\ row[o].status \in Unpaid =>
      (stripe[s].state \in {"open", "processing", "paid"} => row[o].status = "pending_payment")

\* A payment that neither settled its order nor reached an operator, and is not
\* one the paid order names as its own (SecondPaymentIsNoRedelivery, below).
Unanswered(s, o) ==
  /\ stripe[s].state = "paid" /\ stripe[s].order = o
  /\ settledBy[o] # s
  /\ s \notin flagged
  /\ ~(row[o].status = "paid" /\ row[o].session = s)


\* An abandoned checkout gives everything back: once the session an order
\* waits on is dead, the order returns to draft with nothing reserved, is
\* resumed on a fresh session, or is paid.
AbandonedCheckoutReleases ==
  \A o \in Orders :
    (/\ row[o].status = "pending_payment"
     /\ \E s \in Sessions : row[o].session = s /\ stripe[s].state \in Dead) ~>
      \/ row[o].status = "draft" /\ row[o].applied = 0
      \/ row[o].status \notin Unpaid
      \/ \E s \in Sessions : row[o].session = s /\ stripe[s].state \notin Dead

-------------------------------------------------------------------------------
(* What the repository says of the program and the code does not keep.     *)

\* batch-orders.service.ts, of releaseWalletReservation: "Every abandon path
\* calls this, and missing one would quietly keep a customer's money."
WalletPaysOnce ==
  \A o \in Orders :
    settledBy[o] = "wallet" /\ row[o].status \in Settled => walletPaid[o] = Total[o]

\* ADR 0226 and batch-orders.service.ts: a resume stops the session it replaces.
OnePayableSession ==
  \A o \in Orders :
    (\A p \in Workers : req[p].order # o) =>
      Cardinality({s \in Sessions : stripe[s].order = o /\ stripe[s].state = "open"}) <= 1

\* webhooks.service.ts, of an order already paid by a different session: "That
\* second case used to be read as a plain redelivery and recorded nowhere at all."
SecondPaymentIsNoRedelivery ==
  \A s \in Sessions :
    stripe[s].state = "paid" /\ IsRedelivery(s) => settledBy[stripe[s].order] = s

\* batch-orders.service.ts: "a cancel that is about to 409 changes no money."
RefusedCancelChangesNoMoney ==
  \A p \in Workers :
    At(p, "cancelClaim") /\ row[req[p].order].status \notin Unpaid => req[p].applied = 0

\* webhooks.service.ts: "a second delivery of the same event must be a safe
\* no-op": no operator is asked to refund the payment that paid the order.
RedeliveryRaisesNoAlarm ==
  \A s \in flagged : settledBy[stripe[s].order] # s

\* ADR 0169: the reservation is taken at checkout so that the balance cannot
\* move before the payment settles, "leaving an order genuinely underpaid".
PaidInFull ==
  \A o \in Orders :
    row[o].status \in Settled /\ stripeRefund[o] = None =>
      walletPaid[o] + CardPaid(o) >= Total[o]
===============================================================================
