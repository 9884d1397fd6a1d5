------------------------- MODULE OrderPayment_proofs -------------------------
(***************************************************************************)
(* Theorems about OrderPayment.tla, for every set of orders, sessions,     *)
(* workers and top-ups and every amount; the last section, that it         *)
(* implements OrderLifecycle.tla.                                          *)
(***************************************************************************)
EXTENDS OrderPayment, FiniteSetTheorems, TLAPS

\* A busy worker serves an order, and a used session belongs to one.
Serving == \A p \in Workers : req[p].step # "idle" => req[p].order \in Orders

SessionsOfOrders == \A s \in Sessions : stripe[s].state # "unused" => stripe[s].order \in Orders

TypeInv == TypeOK /\ Serving /\ SessionsOfOrders

USE OrderPaymentAssumption, MinChargeAssumption

-------------------------------------------------------------------------------
(* The arithmetic of the draw.                                             *)

LEMMA DrawType ==
  ASSUME NEW b \in Int, NEW t \in Nat
  PROVE  /\ CheckoutDraw(b, t) \in Nat
         /\ CheckoutDraw(b, t) <= MostTheWalletMayTake(t)
         /\ CheckoutDraw(b, t) > 0 => CheckoutDraw(b, t) <= b
         /\ MostTheWalletMayTake(t) \in Nat
PROOF
<1>1. MostTheWalletMayTake(t) \in Nat /\ MostTheWalletMayTake(t) <= t
  BY DEF MostTheWalletMayTake, Larger
<1>2. MostTheWalletMayTake(t) >= t - MinCharge
  BY DEF MostTheWalletMayTake, Larger
<1>3. CASE b <= 0
  BY <1>1, <1>3 DEF CheckoutDraw, WalletDrawFor, Smaller
<1>4. CASE b > 0 /\ b >= t
  BY <1>1, <1>4 DEF CheckoutDraw, WalletDrawFor, Smaller
<1>5. CASE b > 0 /\ b < t /\ t - b >= MinCharge
  BY <1>1, <1>5 DEF CheckoutDraw, WalletDrawFor, Smaller
<1>6. CASE b > 0 /\ b < t /\ ~(t - b >= MinCharge)
  <2>1. MostTheWalletMayTake(t) <= b
    BY <1>6 DEF MostTheWalletMayTake, Larger
  <2>2. WalletDrawFor(b, t) = MostTheWalletMayTake(t)
    BY <1>6 DEF WalletDrawFor
  <2> QED BY <1>1, <2>1, <2>2 DEF CheckoutDraw, Smaller
<1> QED BY <1>3, <1>4, <1>5, <1>6

-------------------------------------------------------------------------------
(* Types.                                                                  *)

LEMMA TypeInit == Init => TypeInv
BY DEF Init, TypeInv, TypeOK, Serving, SessionsOfOrders, OrderRow, OrderStatus, Unpaid, JobStatus,
       SessionState, Request, NoRequest, Step

\* The names of statuses and steps the actions use are among the declared ones.
LEMMA Names ==
  /\ {"draft", "pending_payment", "paid", "fulfilling", "completed", "cancelled"} \subseteq OrderStatus
  /\ Unpaid \subseteq OrderStatus /\ Refundable \subseteq OrderStatus
  /\ {"none", "pending", "posted"} \subseteq JobStatus
  /\ {"unused", "created", "open", "paid", "expired"} \subseteq SessionState
  /\ {"idle", "payFromWallet", "reserve", "claimResume", "createSession", "recordSession",
      "expireOld", "handBackMoney", "handBackDraft", "cancelClaim", "releaseAfterEvent",
      "refundCard", "releaseOrder", "creditWallet", "refundWallet"} \subseteq Step
  /\ "unused" \notin {"created", "open", "paid", "expired"}
BY DEF OrderStatus, Unpaid, Settled, Refundable, JobStatus, SessionState, Step

LEMMA WriteType ==
  ASSUME TypeOK, NEW o \in Orders, NEW r \in OrderRow, Write(o, r)
  PROVE  row' \in [Orders -> OrderRow] /\ fresh' \subseteq Workers
BY DEF TypeOK, Write

LEMMA EntryType ==
  ASSUME TypeOK, NEW o \in Orders, NEW amount \in Int, Entry(o, amount)
  PROVE  balance' \in Int /\ walletPaid' \in [Orders -> Int]
BY DEF TypeOK, Entry

LEMMA RowUpdates ==
  ASSUME NEW r \in OrderRow
  PROVE  /\ \A st \in OrderStatus : [r EXCEPT !.status = st] \in OrderRow
         /\ \A a \in Int : [r EXCEPT !.applied = a] \in OrderRow
         /\ \A st \in OrderStatus, a \in Int :
              [r EXCEPT !.status = st, !.applied = a] \in OrderRow
         /\ \A st \in OrderStatus, s \in Sessions :
              [r EXCEPT !.status = st, !.session = s] \in OrderRow
         /\ \A st \in OrderStatus :
              [r EXCEPT !.status = st, !.method = "wallet"] \in OrderRow
         /\ \A s \in Sessions \cup {None}, i \in Sessions \cup {None} :
              [r EXCEPT !.method = "card", !.session = s, !.intent = i] \in OrderRow
BY DEF OrderRow

\* A worker that moves on keeps the order it serves; a new one has one.
LEMMA RequestUpdates ==
  ASSUME TypeOK, Serving, NEW p \in Workers
  PROVE  /\ Done(p) => req' \in [Workers -> Request] /\ Serving'
         /\ \A st \in Step : Goto(p, st) /\ ~Idle(p) => req' \in [Workers -> Request] /\ Serving'
         /\ \A r \in Request : req' = [req EXCEPT ![p] = r] /\ r.order \in Orders
              => req' \in [Workers -> Request] /\ Serving'
<1>1. NoRequest \in Request /\ NoRequest.step = "idle"
  BY Names DEF NoRequest, Request
<1>2. req \in [Workers -> Request]
  BY DEF TypeOK
<1>3. Done(p) => req' \in [Workers -> Request] /\ Serving'
  BY <1>1, <1>2 DEF Done, Serving
<1>4. ASSUME NEW st \in Step, Goto(p, st), ~Idle(p)
      PROVE  req' \in [Workers -> Request] /\ Serving'
  <2>1. [req[p] EXCEPT !.step = st] \in Request /\ [req[p] EXCEPT !.step = st].order = req[p].order
    BY <1>2 DEF Request
  <2>2. req' = [req EXCEPT ![p] = [req[p] EXCEPT !.step = st]]
    BY <1>4 DEF Goto
  <2> QED BY <1>2, <1>4, <2>1, <2>2 DEF Serving, Idle
<1>5. ASSUME NEW r \in Request, req' = [req EXCEPT ![p] = r], r.order \in Orders
      PROVE  req' \in [Workers -> Request] /\ Serving'
  BY <1>2, <1>5 DEF Serving
<1> QED BY <1>3, <1>4, <1>5

LEMMA ReleaseType ==
  ASSUME TypeOK, NEW o \in Orders, ReleaseReservation(o)
  PROVE  /\ row' \in [Orders -> OrderRow] /\ fresh' \subseteq Workers
         /\ balance' \in Int /\ walletPaid' \in [Orders -> Int]
<1>1. row[o] \in OrderRow /\ row[o].applied \in Int
  BY DEF TypeOK, OrderRow
<1>2. CASE row[o].status \in Unpaid /\ row[o].applied > 0
  <2>1. [row[o] EXCEPT !.applied = 0] \in OrderRow
    BY <1>1 DEF OrderRow
  <2>2. row' \in [Orders -> OrderRow] /\ fresh' \subseteq Workers
    BY <1>2, <2>1, WriteType DEF ReleaseReservation
  <2> QED BY <1>1, <1>2, <2>2, EntryType DEF ReleaseReservation
<1>3. CASE ~(row[o].status \in Unpaid /\ row[o].applied > 0)
  BY <1>3 DEF ReleaseReservation, TypeOK
<1> QED BY <1>2, <1>3

LEMMA PayByWalletType ==
  ASSUME TypeOK, NEW o \in Orders, PayByWallet(o)
  PROVE  /\ row' \in [Orders -> OrderRow] /\ fresh' \subseteq Workers
         /\ balance' \in Int /\ walletPaid' \in [Orders -> Int]
         /\ job' \in [Orders -> JobStatus]
         /\ settledBy' \in [Orders -> Sessions \cup {None, "wallet"}]
<1>1. row[o] \in OrderRow /\ -Total[o] \in Int
  BY DEF TypeOK
<1>2. row' \in [Orders -> OrderRow] /\ fresh' \subseteq Workers
  BY <1>1, WriteType, RowUpdates, Names DEF PayByWallet
<1>3. balance' \in Int /\ walletPaid' \in [Orders -> Int]
  BY <1>1, EntryType DEF PayByWallet
<1>4. job' \in [Orders -> JobStatus] /\ settledBy' \in [Orders -> Sessions \cup {None, "wallet"}]
  BY Names DEF PayByWallet, Settle, TypeOK
<1> QED BY <1>2, <1>3, <1>4

LEMMA TypeStep == TypeInv /\ [Next]_vars => TypeInv'
PROOF
<1> SUFFICES ASSUME TypeInv, [Next]_vars PROVE TypeInv'
  OBVIOUS
<1> USE DEF TypeInv, ledger
<1>a. /\ row \in [Orders -> OrderRow] /\ job \in [Orders -> JobStatus]
      /\ balance \in Int /\ walletPaid \in [Orders -> Int]
      /\ req \in [Workers -> Request]
      /\ stripe \in [Sessions -> [state : SessionState, order : Orders \cup {None},
                                  amount : Int]]
      /\ \A p \in Workers : ~Idle(p) => req[p].order \in Orders
  BY DEF TypeOK, Serving, Idle
<1>c. /\ NoRequest \in Request
      /\ {"payFromWallet", "claimResume", "cancelClaim", "refundWallet", "refundCard",
          "releaseAfterEvent"} \subseteq Step
  BY Names DEF NoRequest, Request
<1>1. ASSUME NEW p \in Workers, PayFromWallet(p) PROVE TypeInv'
  <2>1. ~Idle(p) /\ req[p].order \in Orders
    BY <1>1, <1>a DEF PayFromWallet, At, Idle
  <2>2. CASE WalletCovers(req[p].order)
    BY <1>1, <2>1, <2>2, PayByWalletType, RequestUpdates
    DEF PayFromWallet, TypeOK, SessionsOfOrders
  <2>3. CASE ~WalletCovers(req[p].order)
    BY <1>1, <2>1, <2>3, RequestUpdates, Names DEF PayFromWallet, TypeOK, SessionsOfOrders
  <2> QED BY <2>2, <2>3
<1>2. ASSUME NEW p \in Workers, Reserve(p) PROVE TypeInv'
  <2> DEFINE o == req[p].order
             draw == CheckoutDraw(balance, Total[o])
  <2>1. ~Idle(p) /\ o \in Orders
    BY <1>2, <1>a DEF Reserve, At, Idle
  <2>2. draw \in Int
    <3>1. Total[o] \in Nat /\ balance \in Int
      BY <1>a, <2>1
    <3>2. draw \in Nat
      BY <3>1, DrawType, Zenon
    <3> QED BY <3>2
  <2>3. CASE row[o].status = "draft"
    <3>1. row' \in [Orders -> OrderRow] /\ fresh' \subseteq Workers
      BY <1>2, <1>a, <2>1, <2>2, <2>3, WriteType, RowUpdates, Names DEF Reserve
    <3>2. balance' \in Int /\ walletPaid' \in [Orders -> Int]
      BY <1>2, <2>1, <2>2, <2>3, EntryType DEF Reserve
    <3>3. req' \in [Workers -> Request] /\ Serving'
      <4>1. req' = [req EXCEPT ![p] = [req[p] EXCEPT !.step = "createSession",
                                        !.applied = draw, !.fromDraft = TRUE]]
        BY <1>2, <2>3 DEF Reserve
      <4>2. [req[p] EXCEPT !.step = "createSession", !.applied = draw, !.fromDraft = TRUE]
              \in Request
        <5>1. req[p] \in Request /\ "createSession" \in Step /\ TRUE \in BOOLEAN
          BY <1>a, Names
        <5> HIDE DEF draw
        <5> QED BY <2>2, <5>1 DEF Request
      <4>3. [req[p] EXCEPT !.step = "createSession", !.applied = draw, !.fromDraft = TRUE].order
              \in Orders
        BY <1>a, <2>1 DEF Request
      <4> HIDE DEF draw
      <4> QED BY <4>1, <4>2, <4>3, RequestUpdates
    <3> QED BY <1>2, <2>3, <3>1, <3>2, <3>3 DEF Reserve, TypeOK, SessionsOfOrders
  <2>4. CASE row[o].status # "draft"
    BY <1>2, <2>4, RequestUpdates DEF Reserve, TypeOK, SessionsOfOrders
  <2> QED BY <2>3, <2>4
<1>3. ASSUME NEW p \in Workers, ClaimResume(p) PROVE TypeInv'
  <2>1. ~Idle(p) /\ req[p].order \in Orders /\ row[req[p].order] \in OrderRow
    BY <1>3, <1>a DEF ClaimResume, At, Idle
  <2>2. CASE p \in fresh /\ row[req[p].order].status = "pending_payment"
    BY <1>3, <2>1, <2>2, WriteType, RequestUpdates, Names
    DEF ClaimResume, TypeOK, SessionsOfOrders
  <2>3. CASE ~(p \in fresh /\ row[req[p].order].status = "pending_payment")
    BY <1>3, <2>3, RequestUpdates DEF ClaimResume, TypeOK, SessionsOfOrders
  <2> QED BY <2>2, <2>3
<1>4. ASSUME NEW p \in Workers, NEW s \in Sessions, CreateSession(p, s) PROVE TypeInv'
  <2> DEFINE o == req[p].order
             amount == Total[o] - req[p].applied
             used == [state |-> "created", order |-> o, amount |-> amount]
             r == [req[p] EXCEPT !.step = "recordSession", !.session = s]
  <2>1. ~Idle(p) /\ o \in Orders
    BY <1>4, <1>a DEF CreateSession, At, Idle
  <2>2. req[p] \in Request /\ amount \in Int
    BY <1>a, <2>1 DEF Request
  <2>3. r \in Request /\ r.order \in Orders
    BY <2>1, <2>2, Names DEF Request
  <2>4. req' = [req EXCEPT ![p] = r] /\ stripe' = [stripe EXCEPT ![s] = used]
    BY <1>4 DEF CreateSession
  <2>5. req' \in [Workers -> Request] /\ Serving'
    BY <2>3, <2>4, RequestUpdates
  <2>6. used \in [state : SessionState, order : Orders \cup {None}, amount : Int]
    BY <2>1, <2>2, Names
  <2>7. /\ stripe' \in [Sessions -> [state : SessionState, order : Orders \cup {None},
                                     amount : Int]]
        /\ SessionsOfOrders'
    BY <1>a, <2>1, <2>4, <2>6 DEF SessionsOfOrders
  <2> QED BY <1>4, <2>5, <2>7 DEF CreateSession, TypeOK
<1>5. ASSUME NEW p \in Workers, CreateSessionFails(p) PROVE TypeInv'
  <2>1. ~Idle(p)
    BY <1>5 DEF CreateSessionFails, At, Idle
  <2> QED BY <1>5, <2>1, RequestUpdates, Names DEF CreateSessionFails, TypeOK, SessionsOfOrders
<1>6. ASSUME NEW p \in Workers, HandBackMoney(p) PROVE TypeInv'
  <2>1. ~Idle(p) /\ req[p].order \in Orders
    BY <1>6, <1>a DEF HandBackMoney, At, Idle
  <2> QED BY <1>6, <2>1, ReleaseType, RequestUpdates, Names
          DEF HandBackMoney, TypeOK, SessionsOfOrders
<1>7. ASSUME NEW p \in Workers, HandBackDraft(p) PROVE TypeInv'
  <2>1. ~Idle(p) /\ req[p].order \in Orders /\ row[req[p].order] \in OrderRow
    BY <1>7, <1>a DEF HandBackDraft, At, Idle
  <2>2. row' \in [Orders -> OrderRow] /\ fresh' \subseteq Workers
    BY <1>7, <1>a, <2>1, WriteType, RowUpdates, Names DEF HandBackDraft, TypeOK
  <2> QED BY <1>7, <2>2, RequestUpdates DEF HandBackDraft, TypeOK, SessionsOfOrders
<1>8. ASSUME NEW p \in Workers, RecordSession(p) PROVE TypeInv'
  <2>1. /\ ~Idle(p) /\ req[p].order \in Orders /\ row[req[p].order] \in OrderRow
        /\ req[p].session \in Sessions \cup {None}
    BY <1>8, <1>a DEF RecordSession, At, Idle, Request
  <2>2. row' \in [Orders -> OrderRow] /\ fresh' \subseteq Workers
    <3>1. PICK intent \in {req[p].session, None} :
            Write(req[p].order, [row[req[p].order] EXCEPT !.method = "card",
                                  !.session = req[p].session, !.intent = intent])
      BY <1>8 DEF RecordSession
    <3> QED BY <2>1, <3>1, WriteType, RowUpdates
  <2>3. req' \in [Workers -> Request] /\ Serving'
    BY <1>8, <2>1, RequestUpdates, Names DEF RecordSession
  <2>4. /\ stripe' \in [Sessions -> [state : SessionState, order : Orders \cup {None},
                                     amount : Int]]
        /\ SessionsOfOrders'
    BY <1>8, <1>a, Names DEF RecordSession, SessionsOfOrders
  <2> QED BY <1>8, <2>2, <2>3, <2>4 DEF RecordSession, TypeOK
<1>9. ASSUME NEW p \in Workers, ExpireOld(p) PROVE TypeInv'
  <2>1. \A t \in Sessions :
          \/ stripe'[t] = stripe[t]
          \/ stripe[t].state # "unused" /\ stripe'[t] = [stripe[t] EXCEPT !.state = "expired"]
          \/ stripe[t].state # "unused" /\ stripe'[t] = [stripe[t] EXCEPT !.state = "open"]
    BY <1>9, Names DEF ExpireOld
  <2>2. /\ stripe' \in [Sessions -> [state : SessionState, order : Orders \cup {None},
                                     amount : Int]]
        /\ SessionsOfOrders'
    <3>1. DOMAIN stripe' = Sessions /\ stripe' = [t \in Sessions |-> stripe'[t]]
      BY <1>9 DEF ExpireOld
    <3>2. ASSUME NEW t \in Sessions
          PROVE  /\ stripe'[t] \in [state : SessionState, order : Orders \cup {None},
                                    amount : Int]
                 /\ stripe'[t].state # "unused" => stripe'[t].order \in Orders
      <4>1. /\ stripe[t] \in [state : SessionState, order : Orders \cup {None}, amount : Int]
            /\ stripe[t].state # "unused" => stripe[t].order \in Orders
        BY <1>a DEF SessionsOfOrders
      <4> QED BY <2>1, <4>1, Names
    <3> QED BY <3>1, <3>2 DEF SessionsOfOrders
  <2> QED BY <1>9, <2>2, RequestUpdates DEF ExpireOld, TypeOK
<1>10. ASSUME NEW p \in Workers, CancelClaim(p) PROVE TypeInv'
  <2>1. ~Idle(p) /\ req[p].order \in Orders /\ row[req[p].order] \in OrderRow
    BY <1>10, <1>a DEF CancelClaim, At, Idle
  <2>2. row' \in [Orders -> OrderRow] /\ fresh' \subseteq Workers
    BY <1>10, <1>a, <2>1, WriteType, RowUpdates, Names DEF CancelClaim, TypeOK
  <2> QED BY <1>10, <2>2, RequestUpdates DEF CancelClaim, TypeOK, SessionsOfOrders
<1>11. ASSUME NEW p \in Workers, ReleaseAfterEvent(p) PROVE TypeInv'
  <2>1. ~Idle(p) /\ req[p].order \in Orders
    BY <1>11, <1>a DEF ReleaseAfterEvent, At, Idle
  <2> QED BY <1>11, <2>1, ReleaseType, RequestUpdates
          DEF ReleaseAfterEvent, TypeOK, SessionsOfOrders
<1>12. ASSUME NEW p \in Workers, RefundCard(p) PROVE TypeInv'
  <2>1. ~Idle(p) /\ req[p].session \in Sessions \cup {None}
    BY <1>12, <1>a DEF RefundCard, At, Idle, Request
  <2>2. stripeRefund' \in [Orders -> Sessions \cup {None}]
    BY <1>12, <2>1 DEF RefundCard, TypeOK
  <2>3. req' \in [Workers -> Request] /\ Serving'
    BY <1>12, <2>1, RequestUpdates, Names DEF RefundCard
  <2> QED BY <1>12, <2>2, <2>3 DEF RefundCard, TypeOK, SessionsOfOrders
<1>13. ASSUME NEW p \in Workers, ReleaseOrder(p) PROVE TypeInv'
  <2>1. ~Idle(p) /\ req[p].order \in Orders /\ row[req[p].order] \in OrderRow
    BY <1>13, <1>a DEF ReleaseOrder, At, Idle
  <2>2. row' \in [Orders -> OrderRow] /\ fresh' \subseteq Workers
    BY <1>13, <1>a, <2>1, WriteType, RowUpdates, Names DEF ReleaseOrder, TypeOK
  <2>3. job' \in [Orders -> JobStatus]
    BY <1>13, <1>a, <2>1, Names DEF ReleaseOrder, ReleaseCards
  <2>4. req' \in [Workers -> Request] /\ Serving'
    BY <1>13, <2>1, RequestUpdates, Names DEF ReleaseOrder
  <2> QED BY <1>13, <2>2, <2>3, <2>4 DEF ReleaseOrder, TypeOK, SessionsOfOrders
<1>14. ASSUME NEW p \in Workers, CreditWalletPortion(p) PROVE TypeInv'
  <2>1. ~Idle(p) /\ req[p].order \in Orders /\ req[p].applied \in Int
    BY <1>14, <1>a DEF CreditWalletPortion, At, Idle, Request
  <2>2. balance' \in Int /\ walletPaid' \in [Orders -> Int] /\ creditedBack' \subseteq Orders
    BY <1>14, <1>a, <2>1, EntryType DEF CreditWalletPortion, TypeOK
  <2> QED BY <1>14, <2>2, RequestUpdates DEF CreditWalletPortion, TypeOK, SessionsOfOrders
<1>15. ASSUME NEW p \in Workers, RefundWallet(p) PROVE TypeInv'
  <2>1. ~Idle(p) /\ req[p].order \in Orders /\ row[req[p].order] \in OrderRow
    BY <1>15, <1>a DEF RefundWallet, At, Idle
  <2>2. row' \in [Orders -> OrderRow] /\ fresh' \subseteq Workers
    BY <1>15, <1>a, <2>1, WriteType, RowUpdates, Names DEF RefundWallet, TypeOK
  <2>3. balance' \in Int /\ walletPaid' \in [Orders -> Int]
    BY <1>15, <1>a, <2>1, EntryType DEF RefundWallet
  <2>4. job' \in [Orders -> JobStatus]
    BY <1>15, <1>a, <2>1, Names DEF RefundWallet, ReleaseCards
  <2> QED BY <1>15, <2>2, <2>3, <2>4, RequestUpdates DEF RefundWallet, TypeOK, SessionsOfOrders
<1>16. ASSUME NEW p \in Workers, NEW o \in Orders, CheckoutRead(p, o) PROVE TypeInv'
  <2>1. [NoRequest EXCEPT !.step = "payFromWallet", !.order = o] \in Request
    BY <1>c DEF Request
  <2>2. req' \in [Workers -> Request] /\ Serving'
    BY <1>16, <2>1, RequestUpdates DEF CheckoutRead, NoRequest
  <2> QED BY <1>16, <2>2 DEF CheckoutRead, TypeOK, SessionsOfOrders
<1>17. ASSUME NEW p \in Workers, NEW o \in Orders, ResumeRead(p, o) PROVE TypeInv'
  <2> DEFINE r == [NoRequest EXCEPT !.step = "claimResume", !.order = o,
                                   !.applied = row[o].applied, !.old = row[o].session]
  <2>1. r \in Request /\ r.order \in Orders
    <3>1. /\ row[o].applied \in Int /\ row[o].session \in Sessions \cup {None}
          /\ row[o].intent \in Sessions \cup {None}
      BY <1>a DEF OrderRow
    <3> QED BY <1>c, <3>1 DEF Request
  <2>2. req' = [req EXCEPT ![p] = r]
    BY <1>17 DEF ResumeRead
  <2>3. req' \in [Workers -> Request] /\ Serving'
    BY <2>1, <2>2, RequestUpdates
  <2> QED BY <1>17, <2>3 DEF ResumeRead, TypeOK, SessionsOfOrders
<1>18. ASSUME NEW p \in Workers, NEW o \in Orders, CancelRelease(p, o) PROVE TypeInv'
  <2> DEFINE held == IF row[o].status \in Unpaid THEN row[o].applied ELSE 0
             r == [NoRequest EXCEPT !.step = "cancelClaim", !.order = o, !.applied = held]
  <2>1. r \in Request /\ r.order \in Orders
    <3>1. held \in Int
      BY <1>a DEF OrderRow
    <3> HIDE DEF held
    <3> QED BY <1>c, <3>1 DEF Request
  <2>2. req' = [req EXCEPT ![p] = r]
    BY <1>18 DEF CancelRelease
  <2>3. req' \in [Workers -> Request] /\ Serving'
    BY <2>1, <2>2, RequestUpdates
  <2> QED BY <1>18, <2>3, ReleaseType DEF CancelRelease, TypeOK, SessionsOfOrders
<1>19. ASSUME NEW p \in Workers, NEW o \in Orders, RefundRead(p, o) PROVE TypeInv'
  <2> DEFINE r == [NoRequest EXCEPT
                    !.step = IF row[o].method = "wallet" THEN "refundWallet" ELSE "refundCard",
                    !.order = o, !.applied = row[o].applied,
                    !.session = IF row[o].method = "wallet" THEN None ELSE row[o].intent]
  <2>1. r \in Request /\ r.order \in Orders
    <3>1. /\ row[o].applied \in Int /\ row[o].session \in Sessions \cup {None}
          /\ row[o].intent \in Sessions \cup {None}
      BY <1>a DEF OrderRow
    <3> QED BY <1>c, <3>1 DEF Request
  <2>2. req' = [req EXCEPT ![p] = r]
    BY <1>19 DEF RefundRead
  <2>3. req' \in [Workers -> Request] /\ Serving'
    BY <2>1, <2>2, RequestUpdates
  <2> QED BY <1>19, <2>3 DEF RefundRead, TypeOK, SessionsOfOrders
<1>20. ASSUME NEW p \in Workers, NEW s \in Sessions, FlipToDraft(p, s) PROVE TypeInv'
  <2> DEFINE o == stripe[s].order
  <2>1. o \in Orders /\ row[o] \in OrderRow
    BY <1>20, <1>a DEF FlipToDraft, Dead, SessionsOfOrders
  <2>2. row' \in [Orders -> OrderRow] /\ fresh' \subseteq Workers
    BY <1>20, <1>a, <2>1, WriteType, RowUpdates, Names DEF FlipToDraft, TypeOK
  <2>3. [NoRequest EXCEPT !.step = "releaseAfterEvent", !.order = o] \in Request
    BY <1>c, <2>1 DEF Request
  <2>4. req' \in [Workers -> Request] /\ Serving'
    BY <1>20, <2>1, <2>3, RequestUpdates DEF FlipToDraft, NoRequest
  <2> QED BY <1>20, <2>2, <2>4 DEF FlipToDraft, TypeOK, SessionsOfOrders
<1>21. ASSUME NEW p \in Workers, Crash(p) PROVE TypeInv'
  BY <1>21, RequestUpdates DEF Crash, TypeOK, SessionsOfOrders
<1>22. ASSUME NEW o \in Orders, PayOrder(o) PROVE TypeInv'
  BY <1>22, PayByWalletType DEF PayOrder, TypeOK, Serving, SessionsOfOrders
<1>23. ASSUME NEW o \in Orders, MoveCard(o) PROVE TypeInv'
  <2>1. row[o] \in OrderRow /\ row[o].status \in OrderStatus
    BY <1>a DEF OrderRow
  <2>2. \A to \in JobStatus : OrderAfter(row[o].status, to) \in OrderStatus
    BY <2>1, Names DEF OrderAfter
  <2>3. row' \in [Orders -> OrderRow] /\ fresh' \subseteq Workers /\ job' \in [Orders -> JobStatus]
    <3>1. PICK to \in JobStatus :
            /\ job' = [job EXCEPT ![o] = to]
            /\ LET status == OrderAfter(row[o].status, to) IN
               IF status = row[o].status
               THEN UNCHANGED <<row, fresh>>
               ELSE Write(o, [row[o] EXCEPT !.status = status])
      BY <1>23 DEF MoveCard
    <3> QED BY <1>a, <2>1, <2>2, <3>1, WriteType, RowUpdates DEF TypeOK
  <2> QED BY <1>23, <2>3 DEF MoveCard, TypeOK, Serving, SessionsOfOrders
<1>24. ASSUME NEW t \in TopUps, ApplyTopup(t) PROVE TypeInv'
  BY <1>24, <1>a DEF ApplyTopup, TypeOK, Serving, SessionsOfOrders
<1>25. ASSUME NEW s \in Sessions, PaymentSettles(s) PROVE TypeInv'
  <2> DEFINE o == stripe[s].order
  <2>1. o \in Orders /\ row[o] \in OrderRow
    BY <1>25, <1>a DEF PaymentSettles, SessionsOfOrders
  <2>2. row' \in [Orders -> OrderRow] /\ fresh' \subseteq Workers
    BY <1>25, <1>a, <2>1, WriteType, RowUpdates, Names DEF PaymentSettles, TypeOK
  <2>3. /\ job' \in [Orders -> JobStatus]
        /\ settledBy' \in [Orders -> Sessions \cup {None, "wallet"}]
    BY <1>25, <2>1, Names DEF PaymentSettles, Settle, TypeOK
  <2> QED BY <1>25, <2>2, <2>3 DEF PaymentSettles, TypeOK, Serving, SessionsOfOrders
<1>26. ASSUME NEW s \in Sessions, PaymentAnomaly(s) PROVE TypeInv'
  BY <1>26 DEF PaymentAnomaly, TypeOK, Serving, SessionsOfOrders
<1>27. ASSUME NEW s \in Sessions, SessionMoves(s) PROVE TypeInv'
  <2>1. /\ stripe[s].state # "unused"
        /\ \E to \in SessionState : stripe' = [stripe EXCEPT ![s].state = to]
    BY <1>27 DEF SessionMoves, SessionSteps
  <2>2. /\ stripe' \in [Sessions -> [state : SessionState, order : Orders \cup {None},
                                     amount : Int]]
        /\ SessionsOfOrders'
    BY <1>a, <2>1 DEF SessionsOfOrders
  <2> QED BY <1>27, <2>2 DEF SessionMoves, TypeOK, Serving
<1>28. ASSUME UNCHANGED vars PROVE TypeInv'
  BY <1>28 DEF vars, TypeOK, Serving, SessionsOfOrders
<1> QED
  BY <1>1, <1>2, <1>3, <1>4, <1>5, <1>6, <1>7, <1>8, <1>9, <1>10, <1>11, <1>12, <1>13, <1>14, <1>15, <1>16, <1>17, <1>18, <1>19, <1>20, <1>21, <1>22, <1>23, <1>24, <1>25, <1>26, <1>27, <1>28 DEF Next, Receive, Continue

\* Every reachable state is well typed: in particular an order's status is
\* never set to something a job's status could be but an order's could not.
THEOREM TypeCorrect == Spec => []TypeOK
<1>1. TypeInv => TypeOK
  BY DEF TypeInv
<1> QED BY TypeInit, TypeStep, <1>1, PTL DEF Spec

-------------------------------------------------------------------------------
(* Money.  The three properties are not inductive as they stand: that a    *)
(* refund never gives back too much depends on what the ledger still owes  *)
(* the order (Owed), on the recorded method and the settlement agreeing,   *)
(* and on the snapshot a refund took still being that of the row.          *)

\* What the customer may still get back from the wallet for order o.
Owed(o) == (IF settledBy[o] = "wallet" /\ row[o].status \in Settled THEN Total[o] ELSE 0)
           + (IF o \in creditedBack THEN 0 ELSE row[o].applied)

OrderMoney(o) ==
  /\ row[o].applied >= 0
  /\ row[o].applied <= MostTheWalletMayTake(Total[o])
  /\ walletPaid[o] >= Owed(o)
  /\ row[o].method = "wallet" => settledBy[o] = "wallet"
  /\ settledBy[o] = "wallet" => row[o].status \notin Unpaid
  /\ o \in creditedBack => row[o].status \notin Unpaid

\* A refund under way is one of a settled order whose reservation stands.
RequestMoney(p) ==
  LET o == req[p].order IN
  /\ req[p].step = "refundWallet" => settledBy[o] = "wallet"
  /\ req[p].step \in {"refundCard", "releaseOrder", "creditWallet"} =>
       row[o].status \notin Unpaid /\ req[p].applied = row[o].applied
  /\ req[p].step = "creditWallet" => req[p].applied > 0

MoneyInv == /\ balance >= 0
            /\ \A o \in Orders : OrderMoney(o)
            /\ \A p \in Workers : RequestMoney(p)

IInv == TypeInv /\ MoneyInv

LEMMA MoneyInit == Init => MoneyInv
<1> SUFFICES ASSUME Init PROVE MoneyInv
  OBVIOUS
<1>1. \A o \in Orders : Total[o] \in Nat /\ MostTheWalletMayTake(Total[o]) \in Nat
  BY DEF MostTheWalletMayTake, Larger
<1>2. ASSUME NEW o \in Orders PROVE OrderMoney(o)
  <2>1. /\ row[o].applied = 0 /\ row[o].status = "draft" /\ row[o].method = None
        /\ walletPaid[o] = 0 /\ settledBy[o] = None /\ creditedBack = {}
    BY DEF Init
  <2>2. Owed(o) = 0
    BY <2>1 DEF Owed, Settled
  <2>3. None # "wallet"
    OBVIOUS
  <2> QED BY <1>1, <2>1, <2>2, <2>3 DEF OrderMoney
<1>3. \A p \in Workers : RequestMoney(p)
  BY DEF Init, RequestMoney, NoRequest
<1> QED BY <1>2, <1>3 DEF Init, MoneyInv

\* Only order o's money moves, and o's row keeps what refunds rely on.
OnlyMoneyOf(o) ==
  \A x \in Orders \ {o} :
    /\ row'[x] = row[x] /\ walletPaid'[x] = walletPaid[x]
    /\ settledBy'[x] = settledBy[x] /\ (x \in creditedBack' <=> x \in creditedBack)

SteadyForRefunds(o) ==
  /\ row[o].status \notin Unpaid => /\ row'[o].status \notin Unpaid
                                    /\ row'[o].applied = row[o].applied
  /\ settledBy[o] = "wallet" => settledBy'[o] = "wallet"

LEMMA OrderStep ==
  ASSUME IInv, NEW o \in Orders, balance' >= 0, OnlyMoneyOf(o), SteadyForRefunds(o),
         OrderMoney(o)',
         \A q \in Workers : req'[q] = req[q] \/ RequestMoney(q)'
  PROVE  MoneyInv'
<1>1. ASSUME NEW x \in Orders PROVE OrderMoney(x)'
  <2>1. CASE x = o
    BY <2>1
  <2>2. CASE x # o
    BY <2>2 DEF OnlyMoneyOf, OrderMoney, Owed, IInv, MoneyInv
  <2> QED BY <2>1, <2>2
<1>2. ASSUME NEW q \in Workers PROVE RequestMoney(q)'
  <2>1. CASE RequestMoney(q)'
    BY <2>1
  <2>2. CASE req'[q] = req[q]
    <3>1. RequestMoney(q) /\ (req[q].step # "idle" => req[q].order \in Orders)
      BY DEF IInv, MoneyInv, TypeInv, Serving
    <3>2. CASE req[q].order = o
      BY <2>2, <3>1, <3>2 DEF RequestMoney, SteadyForRefunds
    <3>3. CASE req[q].order # o
      BY <2>2, <3>1, <3>3 DEF RequestMoney, OnlyMoneyOf
    <3> QED BY <3>2, <3>3
  <2> QED BY <2>1, <2>2
<1> QED BY <1>1, <1>2 DEF MoneyInv

LEMMA QuietStep ==
  ASSUME IInv, UNCHANGED <<row, balance, walletPaid, creditedBack, settledBy>>,
         \A q \in Workers : req'[q] = req[q] \/ RequestMoney(q)'
  PROVE  MoneyInv'
<1>1. \A o \in Orders : OrderMoney(o)'
  BY DEF IInv, MoneyInv, OrderMoney, Owed
<1>2. \A q \in Workers : RequestMoney(q)'
  BY DEF IInv, MoneyInv, RequestMoney
<1> QED BY <1>1, <1>2 DEF IInv, MoneyInv

\* A worker that ends or moves to a step outside the refunds owes nothing.
LEMMA PlainRequest ==
  ASSUME TypeOK, NEW p \in Workers
  PROVE  /\ Done(p) => \A q \in Workers : req'[q] = req[q] \/ RequestMoney(q)'
         /\ \A r \in Request :
              /\ req' = [req EXCEPT ![p] = r]
              /\ r.step \notin {"refundWallet", "refundCard", "releaseOrder", "creditWallet"}
              => \A q \in Workers : req'[q] = req[q] \/ RequestMoney(q)'
         /\ \A st \in Step :
              /\ Goto(p, st)
              /\ st \notin {"refundWallet", "refundCard", "releaseOrder", "creditWallet"}
              => \A q \in Workers : req'[q] = req[q] \/ RequestMoney(q)'
<1>1. req \in [Workers -> Request]
  BY DEF TypeOK
<1>2. \A q \in Workers :
        req'[q].step \notin {"refundWallet", "refundCard", "releaseOrder", "creditWallet"}
          => RequestMoney(q)'
  BY DEF RequestMoney
<1>3. Done(p) => \A q \in Workers : req'[q] = req[q] \/ RequestMoney(q)'
  BY <1>1, <1>2 DEF Done, NoRequest
<1>4. ASSUME NEW r \in Request, req' = [req EXCEPT ![p] = r],
             r.step \notin {"refundWallet", "refundCard", "releaseOrder", "creditWallet"}
      PROVE  \A q \in Workers : req'[q] = req[q] \/ RequestMoney(q)'
  BY <1>1, <1>2, <1>4
<1>5. ASSUME NEW st \in Step, Goto(p, st),
             st \notin {"refundWallet", "refundCard", "releaseOrder", "creditWallet"}
      PROVE  \A q \in Workers : req'[q] = req[q] \/ RequestMoney(q)'
  <2>1. req'[p].step = st
    BY <1>1, <1>5 DEF Goto, Request
  <2> QED BY <1>1, <1>2, <1>5, <2>1 DEF Goto
<1> QED BY <1>3, <1>4, <1>5

LEMMA WriteEffect ==
  ASSUME TypeOK, NEW o \in Orders, NEW r, Write(o, r)
  PROVE  row'[o] = r /\ \A x \in Orders \ {o} : row'[x] = row[x]
BY DEF TypeOK, Write

LEMMA EntryEffect ==
  ASSUME TypeOK, NEW o \in Orders, NEW amount \in Int, Entry(o, amount)
  PROVE  /\ balance' = balance + amount
         /\ walletPaid'[o] = walletPaid[o] - amount
         /\ \A x \in Orders \ {o} : walletPaid'[x] = walletPaid[x]
BY DEF TypeOK, Entry

\* The facts about one order the actions below compute with.
LEMMA OrderFacts ==
  ASSUME IInv, NEW o \in Orders
  PROVE  /\ row[o] \in OrderRow /\ row[o].applied \in Int /\ walletPaid[o] \in Int
         /\ balance \in Int /\ balance >= 0 /\ Total[o] \in Nat
         /\ MostTheWalletMayTake(Total[o]) \in Nat
         /\ OrderMoney(o)
         /\ walletPaid[o] >= 0
<1>1. /\ row[o] \in OrderRow /\ row[o].applied \in Int /\ walletPaid[o] \in Int
      /\ balance \in Int /\ balance >= 0 /\ Total[o] \in Nat
  BY DEF IInv, TypeInv, TypeOK, MoneyInv, OrderRow
<1>2. MostTheWalletMayTake(Total[o]) \in Nat
  BY <1>1 DEF MostTheWalletMayTake, Larger
<1>3. OrderMoney(o)
  BY DEF IInv, MoneyInv
<1>4. walletPaid[o] >= 0
  BY <1>1, <1>3 DEF OrderMoney, Owed
<1> QED BY <1>1, <1>2, <1>3, <1>4

LEMMA ReleaseMoney ==
  ASSUME IInv, NEW o \in Orders, ReleaseReservation(o),
         UNCHANGED <<creditedBack, settledBy>>
  PROVE  balance' >= 0 /\ OnlyMoneyOf(o) /\ SteadyForRefunds(o) /\ OrderMoney(o)'
<1> USE OrderFacts
<1>1. TypeOK
  BY DEF IInv, TypeInv
<1>2. CASE row[o].status \in Unpaid /\ row[o].applied > 0
  <2>1. /\ row'[o] = [row[o] EXCEPT !.applied = 0]
        /\ \A x \in Orders \ {o} : row'[x] = row[x]
    BY <1>1, <1>2, WriteEffect DEF ReleaseReservation
  <2>2. /\ balance' = balance + row[o].applied
        /\ walletPaid'[o] = walletPaid[o] - row[o].applied
        /\ \A x \in Orders \ {o} : walletPaid'[x] = walletPaid[x]
    BY <1>1, <1>2, EntryEffect DEF ReleaseReservation
  <2>3. /\ row'[o].applied = 0 /\ row'[o].status = row[o].status
        /\ row'[o].method = row[o].method
    BY <2>1 DEF OrderRow
  <2>4. OrderMoney(o)'
    BY <1>2, <2>2, <2>3 DEF OrderMoney, Owed
  <2> QED BY <1>2, <2>1, <2>2, <2>3, <2>4 DEF OnlyMoneyOf, SteadyForRefunds
<1>3. CASE ~(row[o].status \in Unpaid /\ row[o].applied > 0)
  BY <1>3 DEF ReleaseReservation, OnlyMoneyOf, SteadyForRefunds, OrderMoney, Owed
<1> QED BY <1>2, <1>3

LEMMA PayByWalletMoney ==
  ASSUME IInv, NEW o \in Orders, WalletCovers(o), PayByWallet(o), UNCHANGED creditedBack
  PROVE  balance' >= 0 /\ OnlyMoneyOf(o) /\ SteadyForRefunds(o) /\ OrderMoney(o)'
<1> USE OrderFacts
<1>1. TypeOK
  BY DEF IInv, TypeInv
<1>2. /\ row'[o] = [row[o] EXCEPT !.status = "paid", !.method = "wallet"]
      /\ \A x \in Orders \ {o} : row'[x] = row[x]
  BY <1>1, WriteEffect DEF PayByWallet
<1>3. /\ balance' = balance - Total[o]
      /\ walletPaid'[o] = walletPaid[o] + Total[o]
      /\ \A x \in Orders \ {o} : walletPaid'[x] = walletPaid[x]
  BY <1>1, EntryEffect DEF PayByWallet
<1>4. /\ settledBy'[o] = "wallet"
      /\ \A x \in Orders \ {o} : settledBy'[x] = settledBy[x]
  BY <1>1 DEF PayByWallet, Settle, TypeOK
<1>5. /\ row'[o].applied = row[o].applied /\ row'[o].status = "paid"
      /\ row'[o].method = "wallet"
  BY <1>2 DEF OrderRow
<1>6. row[o].status = "draft" /\ balance >= Total[o] /\ o \notin creditedBack
  BY DEF WalletCovers, OrderMoney, Unpaid
<1>7. OrderMoney(o)'
  BY <1>3, <1>4, <1>5, <1>6 DEF OrderMoney, Owed, Unpaid, Settled
<1> QED BY <1>2, <1>3, <1>4, <1>6, <1>7 DEF OnlyMoneyOf, SteadyForRefunds, Unpaid

\* A write of the status alone that keeps a settled or closed order so.
LEMMA StatusMoney ==
  ASSUME IInv, NEW o \in Orders, NEW st \in OrderStatus,
         Write(o, [row[o] EXCEPT !.status = st]),
         UNCHANGED <<walletPaid, creditedBack, settledBy, balance>>,
         row[o].status \notin Unpaid => st \notin Unpaid,
         st \in Settled => row[o].status \in Settled
  PROVE  balance' >= 0 /\ OnlyMoneyOf(o) /\ SteadyForRefunds(o) /\ OrderMoney(o)'
<1> USE OrderFacts
<1>1. TypeOK
  BY DEF IInv, TypeInv
<1>2. /\ row'[o] = [row[o] EXCEPT !.status = st]
      /\ \A x \in Orders \ {o} : row'[x] = row[x]
  BY <1>1, WriteEffect
<1>3. /\ row'[o].applied = row[o].applied /\ row'[o].status = st
      /\ row'[o].method = row[o].method
  BY <1>2 DEF OrderRow
<1>4. OrderMoney(o)'
  BY <1>3 DEF OrderMoney, Owed
<1> QED BY <1>2, <1>3, <1>4 DEF OnlyMoneyOf, SteadyForRefunds

LEMMA SameMoney ==
  ASSUME IInv, NEW o \in Orders,
         UNCHANGED <<row, balance, walletPaid, creditedBack, settledBy>>
  PROVE  balance' >= 0 /\ OnlyMoneyOf(o) /\ SteadyForRefunds(o) /\ OrderMoney(o)'
BY OrderFacts DEF OnlyMoneyOf, SteadyForRefunds, OrderMoney, Owed

LEMMA MoneyStep == IInv /\ [Next]_vars => MoneyInv'
PROOF
<1> SUFFICES ASSUME IInv, [Next]_vars PROVE MoneyInv'
  OBVIOUS
<1>a. TypeOK /\ Serving /\ SessionsOfOrders
  BY DEF IInv, TypeInv
<1>b. /\ \A p \in Workers : ~Idle(p) => req[p].order \in Orders
      /\ req \in [Workers -> Request]
  BY <1>a DEF Serving, Idle, TypeOK
<1> USE DEF ledger
<1>1. ASSUME NEW p \in Workers, PayFromWallet(p) PROVE MoneyInv'
  <2>1. req[p].order \in Orders
    BY <1>1, <1>b DEF PayFromWallet, At, Idle
  <2>2. CASE WalletCovers(req[p].order)
    <3>1. \A q \in Workers : req'[q] = req[q] \/ RequestMoney(q)'
      BY <1>1, <1>a, <2>2, PlainRequest DEF PayFromWallet
    <3>2. PayByWallet(req[p].order) /\ UNCHANGED creditedBack
      BY <1>1, <2>2 DEF PayFromWallet
    <3> QED BY <2>1, <2>2, <3>1, <3>2, PayByWalletMoney, OrderStep
  <2>3. CASE ~WalletCovers(req[p].order)
    <3>1. \A q \in Workers : req'[q] = req[q] \/ RequestMoney(q)'
      BY <1>1, <1>a, <2>3, PlainRequest, Names DEF PayFromWallet
    <3> QED BY <1>1, <2>3, <3>1, QuietStep DEF PayFromWallet
  <2> QED BY <2>2, <2>3
<1>2. ASSUME NEW p \in Workers, Reserve(p) PROVE MoneyInv'
  <2>1. PICK o \in Orders : req[p].order = o
    BY <1>2, <1>b DEF Reserve, At, Idle
  <2> DEFINE draw == CheckoutDraw(balance, Total[o])
  <2>2. CASE row[o].status = "draft"
    <3>1. /\ draw \in Nat /\ draw <= MostTheWalletMayTake(Total[o])
          /\ draw > 0 => draw <= balance
      <4>1. balance \in Int /\ Total[o] \in Nat
        BY <2>1, OrderFacts
      <4> QED BY <4>1, DrawType, Zenon
    <3>2. /\ Write(o, [row[o] EXCEPT !.status = "pending_payment", !.applied = draw])
          /\ Entry(o, -draw) /\ UNCHANGED <<creditedBack, settledBy>>
          /\ req' = [req EXCEPT ![p] = [req[p] EXCEPT !.step = "createSession",
                                          !.applied = draw, !.fromDraft = TRUE]]
      BY <1>2, <2>1, <2>2 DEF Reserve
    <3> HIDE DEF draw
    <3>3. /\ row'[o] = [row[o] EXCEPT !.status = "pending_payment", !.applied = draw]
          /\ \A x \in Orders \ {o} : row'[x] = row[x]
      BY <1>a, <2>1, <3>2, WriteEffect
    <3>4. -draw \in Int
      BY <3>1
    <3>5. /\ balance' = balance - draw
          /\ walletPaid'[o] = walletPaid[o] + draw
          /\ \A x \in Orders \ {o} : walletPaid'[x] = walletPaid[x]
      BY <1>a, <2>1, <3>1, <3>2, <3>4, EntryEffect, OrderFacts
    <3>6. /\ row'[o].applied = draw /\ row'[o].status = "pending_payment"
          /\ row'[o].method = row[o].method
      BY <2>1, <3>3, OrderFacts DEF OrderRow
    <3>7. balance' >= 0
      BY <2>1, <3>1, <3>5, OrderFacts
    <3>8. OrderMoney(o)'
      BY <2>1, <2>2, <3>1, <3>2, <3>5, <3>6, OrderFacts
      DEF OrderMoney, Owed, Unpaid, Settled
    <3>9. OnlyMoneyOf(o) /\ SteadyForRefunds(o)
      BY <2>2, <3>2, <3>3, <3>5 DEF OnlyMoneyOf, SteadyForRefunds, Unpaid
    <3>10. \A q \in Workers : req'[q] = req[q] \/ RequestMoney(q)'
      <4>1. req'[p].step = "createSession" /\ \A q \in Workers \ {p} : req'[q] = req[q]
        BY <1>b, <3>2 DEF Request
      <4> QED BY <4>1 DEF RequestMoney
    <3> QED BY <2>1, <3>7, <3>8, <3>9, <3>10, OrderStep
  <2>3. CASE row[o].status # "draft"
    <3>1. \A q \in Workers : req'[q] = req[q] \/ RequestMoney(q)'
      BY <1>2, <2>1, <1>a, <2>3, PlainRequest DEF Reserve
    <3> QED BY <1>2, <2>1, <2>3, <3>1, QuietStep DEF Reserve
  <2> QED BY <2>2, <2>3
<1>3. ASSUME NEW p \in Workers, ClaimResume(p) PROVE MoneyInv'
  <2>1. PICK o \in Orders : req[p].order = o
    BY <1>3, <1>b DEF ClaimResume, At, Idle
  <2>2. \A q \in Workers : req'[q] = req[q] \/ RequestMoney(q)'
    BY <1>3, <2>1, <1>a, PlainRequest, Names DEF ClaimResume
  <2>3. row' = row
    BY <1>3, <1>a, <2>1 DEF ClaimResume, Write, TypeOK
  <2> QED BY <1>3, <2>1, <2>2, <2>3, QuietStep DEF ClaimResume
<1>4. ASSUME NEW p \in Workers, NEW s \in Sessions, CreateSession(p, s) PROVE MoneyInv'
  <2>1. req'[p].step = "recordSession" /\ \A q \in Workers \ {p} : req'[q] = req[q]
    BY <1>4, <1>b DEF CreateSession, Request
  <2>2. \A q \in Workers : req'[q] = req[q] \/ RequestMoney(q)'
    BY <2>1 DEF RequestMoney
  <2> QED BY <1>4, <2>2, QuietStep DEF CreateSession
<1>5. ASSUME NEW p \in Workers, CreateSessionFails(p) PROVE MoneyInv'
  <2>1. \A q \in Workers : req'[q] = req[q] \/ RequestMoney(q)'
    BY <1>5, <1>a, PlainRequest, Names DEF CreateSessionFails
  <2> QED BY <1>5, <2>1, QuietStep DEF CreateSessionFails
<1>6. ASSUME NEW p \in Workers, ExpireOld(p) PROVE MoneyInv'
  <2>1. \A q \in Workers : req'[q] = req[q] \/ RequestMoney(q)'
    BY <1>6, <1>a, PlainRequest, Names DEF ExpireOld
  <2> QED BY <1>6, <2>1, QuietStep DEF ExpireOld
<1>7. ASSUME NEW p \in Workers, HandBackMoney(p) PROVE MoneyInv'
  <2>1. req[p].order \in Orders
    BY <1>7, <1>b DEF HandBackMoney, At, Idle
  <2>2. \A q \in Workers : req'[q] = req[q] \/ RequestMoney(q)'
    BY <1>7, <1>a, PlainRequest, Names DEF HandBackMoney
  <2>3. ReleaseReservation(req[p].order) /\ UNCHANGED <<creditedBack, settledBy>>
    BY <1>7 DEF HandBackMoney
  <2> QED BY <2>1, <2>2, <2>3, ReleaseMoney, OrderStep
<1>8. ASSUME NEW p \in Workers, ReleaseAfterEvent(p) PROVE MoneyInv'
  <2>1. req[p].order \in Orders
    BY <1>8, <1>b DEF ReleaseAfterEvent, At, Idle
  <2>2. \A q \in Workers : req'[q] = req[q] \/ RequestMoney(q)'
    BY <1>8, <1>a, PlainRequest, Names DEF ReleaseAfterEvent
  <2>3. ReleaseReservation(req[p].order) /\ UNCHANGED <<creditedBack, settledBy>>
    BY <1>8 DEF ReleaseAfterEvent
  <2> QED BY <2>1, <2>2, <2>3, ReleaseMoney, OrderStep
<1>9. ASSUME NEW p \in Workers, HandBackDraft(p) PROVE MoneyInv'
  <2>1. PICK o \in Orders : req[p].order = o
    BY <1>9, <1>b DEF HandBackDraft, At, Idle
  <2>2. \A q \in Workers : req'[q] = req[q] \/ RequestMoney(q)'
    BY <1>9, <2>1, <1>a, PlainRequest DEF HandBackDraft
  <2>3. CASE row[o].status = "pending_payment"
    <3>1. /\ Write(o, [row[o] EXCEPT !.status = "draft"])
          /\ UNCHANGED <<walletPaid, creditedBack, settledBy, balance>>
      BY <1>9, <2>1, <2>3 DEF HandBackDraft
    <3>2. /\ row[o].status \in Unpaid /\ "draft" \in OrderStatus
          /\ "draft" \notin Settled
      BY <2>3, Names DEF Unpaid, Settled
    <3> QED BY <2>1, <2>2, <3>1, <3>2, StatusMoney, OrderStep
  <2>4. CASE ~(row[o].status = "pending_payment")
    BY <1>9, <2>1, <2>2, <2>4, QuietStep DEF HandBackDraft
  <2> QED BY <2>3, <2>4
<1>10. ASSUME NEW p \in Workers, CancelClaim(p) PROVE MoneyInv'
  <2>1. PICK o \in Orders : req[p].order = o
    BY <1>10, <1>b DEF CancelClaim, At, Idle
  <2>2. \A q \in Workers : req'[q] = req[q] \/ RequestMoney(q)'
    BY <1>10, <2>1, <1>a, PlainRequest DEF CancelClaim
  <2>3. CASE row[o].status \in Unpaid
    <3>1. /\ Write(o, [row[o] EXCEPT !.status = "cancelled"])
          /\ UNCHANGED <<walletPaid, creditedBack, settledBy, balance>>
      BY <1>10, <2>1, <2>3 DEF CancelClaim
    <3>2. /\ row[o].status \in Unpaid /\ "cancelled" \in OrderStatus
          /\ "cancelled" \notin Settled
      BY <2>3, Names DEF Unpaid, Settled
    <3> QED BY <2>1, <2>2, <3>1, <3>2, StatusMoney, OrderStep
  <2>4. CASE ~(row[o].status \in Unpaid)
    BY <1>10, <2>1, <2>2, <2>4, QuietStep DEF CancelClaim
  <2> QED BY <2>3, <2>4
<1>11. ASSUME NEW p \in Workers, RecordSession(p) PROVE MoneyInv'
  <2>1. PICK o \in Orders : req[p].order = o
    BY <1>11, <1>b DEF RecordSession, At, Idle
  <2>2. \A q \in Workers : req'[q] = req[q] \/ RequestMoney(q)'
    BY <1>11, <2>1, <1>a, PlainRequest, Names DEF RecordSession
  <2>3. PICK intent \in {req[p].session, None} :
          Write(o, [row[o] EXCEPT !.method = "card", !.session = req[p].session,
                                  !.intent = intent])
    BY <1>11, <2>1 DEF RecordSession
  <2>4. /\ row'[o].status = row[o].status /\ row'[o].applied = row[o].applied
        /\ row'[o].method = "card"
        /\ \A x \in Orders \ {o} : row'[x] = row[x]
    <3>1. /\ row'[o] = [row[o] EXCEPT !.method = "card", !.session = req[p].session,
                                    !.intent = intent]
          /\ \A x \in Orders \ {o} : row'[x] = row[x]
      BY <1>a, <2>3, WriteEffect
    <3>2. row[o] \in OrderRow
      BY OrderFacts
    <3> QED BY <3>1, <3>2 DEF OrderRow
  <2>5. UNCHANGED <<balance, walletPaid, creditedBack, settledBy>>
    BY <1>11, <2>1 DEF RecordSession
  <2>6. OrderMoney(o)' /\ OnlyMoneyOf(o) /\ SteadyForRefunds(o) /\ balance' >= 0
    BY <2>1, <2>4, <2>5, OrderFacts DEF OrderMoney, Owed, OnlyMoneyOf, SteadyForRefunds
  <2> QED BY <2>1, <2>2, <2>6, OrderStep
<1>12. ASSUME NEW p \in Workers, RefundCard(p) PROVE MoneyInv'
  <2>1. /\ \A q \in Workers \ {p} : req'[q] = req[q]
        /\ \/ Done(p)
           \/ /\ req'[p].step = "releaseOrder" /\ req'[p].order = req[p].order
              /\ req'[p].applied = req[p].applied
    <3>1. Done(p) \/ req' = [req EXCEPT ![p].step = "releaseOrder"]
      BY <1>12 DEF RefundCard, Goto
    <3>2. CASE Done(p)
      BY <1>b, <3>2 DEF Done
    <3>3. CASE req' = [req EXCEPT ![p].step = "releaseOrder"]
      BY <1>b, <3>3 DEF Request
    <3> QED BY <3>1, <3>2, <3>3
  <2>2. RequestMoney(p) /\ req[p].step = "refundCard"
    BY <1>12 DEF IInv, MoneyInv, RefundCard, At
  <2>3. UNCHANGED row
    BY <1>12 DEF RefundCard
  <2>4. \A q \in Workers : req'[q] = req[q] \/ RequestMoney(q)'
    <3>1. CASE Done(p)
      BY <1>a, <3>1, PlainRequest
    <3>2. CASE ~Done(p)
      BY <2>1, <2>2, <2>3, <3>2 DEF RequestMoney
    <3> QED BY <3>1, <3>2
  <2> QED BY <1>12, <2>4, QuietStep DEF RefundCard
<1>13. ASSUME NEW p \in Workers, ReleaseOrder(p) PROVE MoneyInv'
  <2>1. PICK o \in Orders : req[p].order = o
    BY <1>13, <1>b DEF ReleaseOrder, At, Idle
  <2>2. RequestMoney(p) /\ req[p].step = "releaseOrder" /\ req[p] \in Request
    BY <1>13, <2>1, <1>b DEF IInv, MoneyInv, ReleaseOrder, At
  <2>3. UNCHANGED <<walletPaid, creditedBack, settledBy, balance>>
    BY <1>13, <2>1 DEF ReleaseOrder
  <2>4. balance' >= 0 /\ OnlyMoneyOf(o) /\ SteadyForRefunds(o) /\ OrderMoney(o)'
    <3>1. CASE row[o].status \in Refundable
      <4>1. /\ Write(o, [row[o] EXCEPT !.status = "cancelled"])
            /\ "cancelled" \in OrderStatus \ (Unpaid \cup Settled)
        BY <1>13, <2>1, <3>1, Names DEF ReleaseOrder, Unpaid, Settled
      <4> QED BY <2>1, <2>3, <4>1, StatusMoney
    <3>2. CASE row[o].status \notin Refundable
      <4>1. UNCHANGED row
        BY <1>13, <2>1, <3>2 DEF ReleaseOrder
      <4> QED BY <2>1, <2>3, <4>1, SameMoney
    <3> QED BY <3>1, <3>2
  <2>5. \A q \in Workers : req'[q] = req[q] \/ RequestMoney(q)'
    <3>1. CASE req[p].applied > 0
      <4>1. /\ req'[p].step = "creditWallet" /\ req'[p].order = o
            /\ req'[p].applied = req[p].applied
            /\ \A q \in Workers \ {p} : req'[q] = req[q]
        <5>1. req' = [req EXCEPT ![p].step = "creditWallet"]
          BY <1>13, <3>1 DEF ReleaseOrder, Goto
        <5> QED BY <1>b, <2>1, <5>1 DEF Request
      <4>2. row'[o].status \notin Unpaid /\ row'[o].applied = row[o].applied
        BY <2>1, <2>2, <2>4 DEF RequestMoney, SteadyForRefunds
      <4>3. req[p].applied = row[o].applied
        BY <2>1, <2>2 DEF RequestMoney
      <4>4. RequestMoney(p)'
        BY <3>1, <4>1, <4>2, <4>3 DEF RequestMoney
      <4> QED BY <4>1, <4>4
    <3>2. CASE ~(req[p].applied > 0)
      BY <1>13, <2>1, <1>a, <3>2, PlainRequest DEF ReleaseOrder
    <3> QED BY <3>1, <3>2
  <2> QED BY <2>1, <2>4, <2>5, OrderStep
<1>14. ASSUME NEW p \in Workers, CreditWalletPortion(p) PROVE MoneyInv'
  <2>1. PICK o \in Orders : req[p].order = o
    BY <1>14, <1>b DEF CreditWalletPortion, At, Idle
  <2>2. /\ row[o].status \notin Unpaid /\ req[p].applied = row[o].applied
        /\ req[p].applied > 0
    BY <1>14, <2>1 DEF IInv, MoneyInv, RequestMoney, CreditWalletPortion, At
  <2>3. \A q \in Workers : req'[q] = req[q] \/ RequestMoney(q)'
    BY <1>14, <2>1, <1>a, PlainRequest DEF CreditWalletPortion
  <2>4. UNCHANGED <<row, settledBy>>
    BY <1>14, <2>1 DEF CreditWalletPortion
  <2>5. CASE o \notin creditedBack
    <3>1. /\ balance' = balance + row[o].applied
          /\ walletPaid'[o] = walletPaid[o] - row[o].applied
          /\ \A x \in Orders \ {o} : walletPaid'[x] = walletPaid[x]
          /\ creditedBack' = creditedBack \cup {o}
      BY <1>14, <1>a, <2>1, <2>2, <2>5, EntryEffect, OrderFacts DEF CreditWalletPortion
    <3>2. OrderMoney(o)' /\ balance' >= 0
      BY <2>1, <2>2, <2>4, <2>5, <3>1, OrderFacts DEF OrderMoney, Owed
    <3>3. OnlyMoneyOf(o) /\ SteadyForRefunds(o)
      BY <2>4, <3>1 DEF OnlyMoneyOf, SteadyForRefunds
    <3> QED BY <2>1, <2>3, <3>2, <3>3, OrderStep
  <2>6. CASE o \in creditedBack
    BY <1>14, <2>1, <2>3, <2>6, QuietStep DEF CreditWalletPortion
  <2> QED BY <2>5, <2>6
<1>15. ASSUME NEW p \in Workers, RefundWallet(p) PROVE MoneyInv'
  <2>1. PICK o \in Orders : req[p].order = o
    BY <1>15, <1>b DEF RefundWallet, At, Idle
  <2>2. settledBy[o] = "wallet"
    BY <1>15, <2>1 DEF IInv, MoneyInv, RequestMoney, RefundWallet, At
  <2>3. \A q \in Workers : req'[q] = req[q] \/ RequestMoney(q)'
    BY <1>15, <2>1, <1>a, PlainRequest DEF RefundWallet
  <2>4. CASE row[o].status \in Refundable
    <3>1. /\ row'[o].status = "cancelled" /\ row'[o].applied = row[o].applied
          /\ row'[o].method = row[o].method
          /\ \A x \in Orders \ {o} : row'[x] = row[x]
      BY <1>15, <1>a, <2>1, <2>4, WriteEffect, OrderFacts DEF RefundWallet, OrderRow
    <3>2. /\ balance' = balance + Total[o]
          /\ walletPaid'[o] = walletPaid[o] - Total[o]
          /\ \A x \in Orders \ {o} : walletPaid'[x] = walletPaid[x]
          /\ UNCHANGED <<creditedBack, settledBy>>
      BY <1>15, <1>a, <2>1, <2>4, EntryEffect, OrderFacts DEF RefundWallet
    <3>3. OrderMoney(o)' /\ balance' >= 0
      BY <2>1, <2>2, <2>4, <3>1, <3>2, OrderFacts
      DEF OrderMoney, Owed, Unpaid, Settled, Refundable
    <3>4. OnlyMoneyOf(o) /\ SteadyForRefunds(o)
      BY <3>1, <3>2 DEF OnlyMoneyOf, SteadyForRefunds, Unpaid
    <3> QED BY <2>1, <2>3, <3>3, <3>4, OrderStep
  <2>5. CASE row[o].status \notin Refundable
    BY <1>15, <2>1, <2>3, <2>5, QuietStep DEF RefundWallet
  <2> QED BY <2>4, <2>5
<1>16. ASSUME NEW p \in Workers, NEW o \in Orders, CheckoutRead(p, o) PROVE MoneyInv'
  <2>1. req'[p].step = "payFromWallet" /\ \A q \in Workers \ {p} : req'[q] = req[q]
    BY <1>16, <1>b DEF CheckoutRead, NoRequest
  <2> QED BY <1>16, <2>1, QuietStep DEF CheckoutRead, RequestMoney
<1>17. ASSUME NEW p \in Workers, NEW o \in Orders, ResumeRead(p, o) PROVE MoneyInv'
  <2>1. req'[p].step = "claimResume" /\ \A q \in Workers \ {p} : req'[q] = req[q]
    BY <1>17, <1>b DEF ResumeRead, NoRequest
  <2> QED BY <1>17, <2>1, QuietStep DEF ResumeRead, RequestMoney
<1>18. ASSUME NEW p \in Workers, NEW o \in Orders, CancelRelease(p, o) PROVE MoneyInv'
  <2>1. req'[p].step = "cancelClaim" /\ \A q \in Workers \ {p} : req'[q] = req[q]
    BY <1>18, <1>b DEF CancelRelease, NoRequest
  <2>2. \A q \in Workers : req'[q] = req[q] \/ RequestMoney(q)'
    BY <2>1 DEF RequestMoney
  <2>3. ReleaseReservation(o) /\ UNCHANGED <<creditedBack, settledBy>>
    BY <1>18 DEF CancelRelease
  <2> QED BY <2>2, <2>3, ReleaseMoney, OrderStep
<1>19. ASSUME NEW p \in Workers, NEW o \in Orders, RefundRead(p, o) PROVE MoneyInv'
  <2>1. /\ req'[p].step = IF row[o].method = "wallet" THEN "refundWallet" ELSE "refundCard"
        /\ req'[p].order = o /\ req'[p].applied = row[o].applied
        /\ \A q \in Workers \ {p} : req'[q] = req[q]
    BY <1>19, <1>b DEF RefundRead, NoRequest
  <2>2. UNCHANGED <<row, settledBy>> /\ row[o].status \notin Unpaid
    BY <1>19 DEF RefundRead, Refundable, Unpaid
  <2>3. RequestMoney(p)'
    BY <2>1, <2>2, OrderFacts DEF RequestMoney, OrderMoney
  <2> QED BY <1>19, <2>1, <2>3, QuietStep DEF RefundRead
<1>20. ASSUME NEW p \in Workers, NEW s \in Sessions, FlipToDraft(p, s) PROVE MoneyInv'
  <2>1. PICK o \in Orders : stripe[s].order = o
    BY <1>20, <1>a DEF FlipToDraft, Dead, SessionsOfOrders
  <2>2. req'[p].step = "releaseAfterEvent" /\ \A q \in Workers \ {p} : req'[q] = req[q]
    BY <1>20, <2>1, <1>b DEF FlipToDraft, NoRequest
  <2>3. \A q \in Workers : req'[q] = req[q] \/ RequestMoney(q)'
    BY <2>2 DEF RequestMoney
  <2>4. /\ Write(o, [row[o] EXCEPT !.status = "draft"])
        /\ row[o].status \in Unpaid
        /\ UNCHANGED <<walletPaid, creditedBack, settledBy, balance>>
    BY <1>20, <2>1 DEF FlipToDraft, ReleasableBy, Unpaid
  <2>5. "draft" \in OrderStatus /\ "draft" \notin Settled
    BY Names DEF Settled
  <2> QED BY <2>1, <2>3, <2>4, <2>5, StatusMoney, OrderStep
<1>21. ASSUME NEW p \in Workers, Crash(p) PROVE MoneyInv'
  BY <1>21, <1>a, PlainRequest, QuietStep DEF Crash
<1>22. ASSUME NEW o \in Orders, PayOrder(o) PROVE MoneyInv'
  BY <1>22, PayByWalletMoney, OrderStep DEF PayOrder
<1>23. ASSUME NEW o \in Orders, MoveCard(o) PROVE MoneyInv'
  <2>1. PICK to \in JobStatus :
          LET status == OrderAfter(row[o].status, to) IN
          IF status = row[o].status
          THEN UNCHANGED <<row, fresh>>
          ELSE Write(o, [row[o] EXCEPT !.status = status])
    BY <1>23 DEF MoveCard
  <2> DEFINE status == OrderAfter(row[o].status, to)
  <2>2. UNCHANGED <<walletPaid, creditedBack, settledBy, balance, req>>
    BY <1>23 DEF MoveCard
  <2>3. CASE status = row[o].status
    BY <2>1, <2>2, <2>3, QuietStep
  <2>4. CASE status # row[o].status
    <3>1. /\ status \in {"fulfilling", "completed"}
          /\ row[o].status \in Settled
      BY <2>4 DEF OrderAfter, Settled
    <3>2. status \in OrderStatus \ Unpaid
      BY <3>1 DEF OrderStatus, Settled, Unpaid
    <3>3. Write(o, [row[o] EXCEPT !.status = status])
      BY <2>1, <2>4
    <3> HIDE DEF status
    <3> QED BY <2>2, <3>1, <3>2, <3>3, StatusMoney, OrderStep
  <2> QED BY <2>3, <2>4
<1>24. ASSUME NEW t \in TopUps, ApplyTopup(t) PROVE MoneyInv'
  <2>1. TopUpAmount[t] \in Nat /\ balance \in Int /\ balance >= 0
    BY <1>a DEF IInv, MoneyInv, TypeOK
  <2>2. balance' >= 0
    BY <1>24, <2>1 DEF ApplyTopup
  <2>3. UNCHANGED <<row, walletPaid, creditedBack, settledBy, req>>
    BY <1>24 DEF ApplyTopup
  <2> QED BY <2>2, <2>3 DEF IInv, MoneyInv, OrderMoney, Owed, RequestMoney
<1>25. ASSUME NEW s \in Sessions, PaymentSettles(s) PROVE MoneyInv'
  <2>1. PICK o \in Orders : stripe[s].order = o /\ row[o].status = "pending_payment"
    BY <1>25, <1>a DEF PaymentSettles, SessionsOfOrders
  <2>2. /\ row'[o].status = "paid" /\ row'[o].applied = row[o].applied
        /\ row'[o].method = row[o].method
        /\ \A x \in Orders \ {o} : row'[x] = row[x]
    <3>1. /\ row'[o] = [row[o] EXCEPT !.status = "paid", !.session = s]
          /\ \A x \in Orders \ {o} : row'[x] = row[x]
      BY <1>25, <1>a, <2>1, WriteEffect DEF PaymentSettles
    <3>2. row[o] \in OrderRow
      BY OrderFacts
    <3> QED BY <3>1, <3>2 DEF OrderRow
  <2>3. /\ settledBy'[o] = s
        /\ \A x \in Orders \ {o} : settledBy'[x] = settledBy[x]
        /\ UNCHANGED <<balance, walletPaid, creditedBack, req>>
    BY <1>25, <1>a, <2>1 DEF PaymentSettles, Settle, TypeOK
  <2>4. s # "wallet" /\ row[o].status \in Unpaid
    BY <2>1 DEF Unpaid
  <2>5. OrderMoney(o)' /\ balance' >= 0
    BY <2>1, <2>2, <2>3, <2>4, OrderFacts DEF OrderMoney, Owed, Unpaid
  <2>6. OnlyMoneyOf(o) /\ SteadyForRefunds(o)
    <3>1. settledBy[o] # "wallet"
      BY <2>1, <2>4, OrderFacts DEF OrderMoney
    <3> QED BY <2>2, <2>3, <2>4, <3>1 DEF OnlyMoneyOf, SteadyForRefunds
  <2> QED BY <2>1, <2>3, <2>5, <2>6, OrderStep
<1>26. ASSUME NEW s \in Sessions, PaymentAnomaly(s) PROVE MoneyInv'
  BY <1>26, QuietStep DEF PaymentAnomaly
<1>27. ASSUME NEW s \in Sessions, SessionMoves(s) PROVE MoneyInv'
  BY <1>27, QuietStep DEF SessionMoves
<1>28. ASSUME UNCHANGED vars PROVE MoneyInv'
  BY <1>28, QuietStep DEF vars
<1> QED
  BY <1>1, <1>2, <1>3, <1>4, <1>5, <1>6, <1>7, <1>8, <1>9, <1>10, <1>11, <1>12, <1>13, <1>14, <1>15, <1>16, <1>17, <1>18, <1>19, <1>20, <1>21, <1>22, <1>23, <1>24, <1>25, <1>26, <1>27, <1>28 DEF Next, Receive, Continue

\* However requests and webhooks overlap, the ledger covers what each order
\* may still get back, and what a refund read of its order is still so.
THEOREM Invariant == Spec => []IInv
<1>1. Init => IInv
  BY TypeInit, MoneyInit DEF IInv
<1>2. IInv /\ [Next]_vars => IInv'
  BY TypeStep, MoneyStep DEF IInv
<1> QED BY <1>1, <1>2, PTL DEF Spec

\* No interleaving of reservations, wallet payments, releases and refunds
\* takes an account below zero.
THEOREM NeverOverdrawn == Spec => []WalletNeverOverdrawn
<1>1. IInv => WalletNeverOverdrawn
  BY DEF IInv, MoneyInv, WalletNeverOverdrawn
<1> QED BY <1>1, Invariant, PTL

\* The ledger entries of an order never give back more than they took, with
\* any number of cancels, webhooks and refunds retried or racing.
THEOREM NoGift == Spec => []NeverOverCredited
<1>1. IInv => NeverOverCredited
  BY OrderFacts DEF NeverOverCredited
<1> QED BY <1>1, Invariant, PTL

\* The wallet never takes so much of an order that Stripe would refuse the rest.
THEOREM CardStaysChargeable == Spec => []CardChargeAboveMinimum
<1>1. IInv => CardChargeAboveMinimum
  BY DEF IInv, MoneyInv, OrderMoney, CardChargeAboveMinimum
<1> QED BY <1>1, Invariant, PTL

-------------------------------------------------------------------------------
(* What an order settled by a payment holds.  That the money covers it is   *)
(* not inductive either: it rests on the settlement naming a session that  *)
(* is and stays paid, and on Stripe's refund preceding every credit of the *)
(* wallet's half and every cancellation of an order a session settled.     *)

OrderSettled(o) ==
  /\ row[o].status \in Settled => settledBy[o] # None
  /\ row[o].status \in Unpaid => settledBy[o] = None
  /\ settledBy[o] \in Sessions => stripe[settledBy[o]].state = "paid"
  /\ o \in creditedBack => stripeRefund[o] # None
  /\ row[o].status = "cancelled" /\ settledBy[o] \in Sessions => stripeRefund[o] # None

\* A refund by card names a session; past it, the order has Stripe's refund.
RequestSettled(p) ==
  /\ req[p].step = "refundCard" => req[p].session \in Sessions
  /\ req[p].step \in {"releaseOrder", "creditWallet"} => stripeRefund[req[p].order] # None

SettledInv == /\ \A o \in Orders : OrderSettled(o)
              /\ \A p \in Workers : RequestSettled(p)

\* The order stays unpaid, or settled, or has the status it had.
StaysSettled(o) ==
  \/ row'[o].status = row[o].status
  \/ {row'[o].status, row[o].status} \subseteq Unpaid
  \/ {row'[o].status, row[o].status} \subseteq Settled

\* What Stripe has taken or refunded, it has for good.
StripeKeeps ==
  /\ \A s \in Sessions : stripe[s].state = "paid" => stripe'[s].state = "paid"
  /\ \A o \in Orders : stripeRefund[o] # None => stripeRefund'[o] = stripeRefund[o]

LEMMA StagesApart ==
  /\ Settled \cap Unpaid = {} /\ "cancelled" \notin Settled \cup Unpaid
  /\ "draft" \in Unpaid /\ "pending_payment" \in Unpaid
  /\ Refundable \subseteq Settled /\ "paid" \in Refundable
BY DEF Settled, Unpaid, Refundable

\* A step that disturbs the settlement of order o alone.
LEMMA SettledStep ==
  ASSUME IInv, SettledInv, NEW o \in Orders, OrderSettled(o)', StripeKeeps,
         \A x \in Orders \ {o} : /\ StaysSettled(x) /\ settledBy'[x] = settledBy[x]
                                 /\ x \in creditedBack' => x \in creditedBack,
         \A q \in Workers : req'[q] = req[q] \/ RequestSettled(q)'
  PROVE  SettledInv'
<1>1. ASSUME NEW x \in Orders PROVE OrderSettled(x)'
  <2>1. CASE x = o
    BY <2>1
  <2>2. CASE x # o
    <3>1. OrderSettled(x) /\ StaysSettled(x) /\ settledBy'[x] = settledBy[x]
      BY <2>2 DEF SettledInv
    <3>2. /\ row'[x].status \in Settled <=> row[x].status \in Settled
          /\ row'[x].status \in Unpaid <=> row[x].status \in Unpaid
          /\ row'[x].status = "cancelled" <=> row[x].status = "cancelled"
      BY <3>1, StagesApart DEF StaysSettled
    <3> QED BY <2>2, <3>1, <3>2 DEF OrderSettled, StripeKeeps
  <2> QED BY <2>1, <2>2
<1>2. ASSUME NEW q \in Workers PROVE RequestSettled(q)'
  <2>1. CASE RequestSettled(q)'
    BY <2>1
  <2>2. CASE req'[q] = req[q]
    <3>1. RequestSettled(q) /\ (req[q].step # "idle" => req[q].order \in Orders)
      BY DEF SettledInv, IInv, TypeInv, Serving
    <3> QED BY <2>2, <3>1 DEF RequestSettled, StripeKeeps
  <2> QED BY <2>1, <2>2
<1> QED BY <1>1, <1>2 DEF SettledInv

LEMMA QuietSettled ==
  ASSUME IInv, SettledInv, \A x \in Orders : StaysSettled(x), StripeKeeps,
         UNCHANGED <<settledBy, creditedBack>>,
         \A q \in Workers : req'[q] = req[q] \/ RequestSettled(q)'
  PROVE  SettledInv'
<1>1. ASSUME NEW x \in Orders PROVE OrderSettled(x)'
  <2>1. OrderSettled(x) /\ StaysSettled(x)
    BY DEF SettledInv
  <2>2. /\ row'[x].status \in Settled <=> row[x].status \in Settled
        /\ row'[x].status \in Unpaid <=> row[x].status \in Unpaid
        /\ row'[x].status = "cancelled" <=> row[x].status = "cancelled"
    BY <2>1, StagesApart DEF StaysSettled
  <2> QED BY <2>1, <2>2 DEF OrderSettled, StripeKeeps
<1>2. ASSUME NEW q \in Workers PROVE RequestSettled(q)'
  <2>1. RequestSettled(q) /\ (req[q].step # "idle" => req[q].order \in Orders)
    BY DEF SettledInv, IInv, TypeInv, Serving
  <2> QED BY <2>1 DEF RequestSettled, StripeKeeps
<1> QED BY <1>1, <1>2 DEF SettledInv

\* A request outside the refund of a card claims nothing of Stripe.
LEMMA PlainSettled ==
  ASSUME TypeOK, NEW p \in Workers
  PROVE  /\ Done(p) => \A q \in Workers : req'[q] = req[q] \/ RequestSettled(q)'
         /\ \A r \in Request :
              /\ req' = [req EXCEPT ![p] = r]
              /\ r.step \notin {"refundCard", "releaseOrder", "creditWallet"}
              => \A q \in Workers : req'[q] = req[q] \/ RequestSettled(q)'
         /\ \A st \in Step :
              /\ Goto(p, st)
              /\ st \notin {"refundCard", "releaseOrder", "creditWallet"}
              => \A q \in Workers : req'[q] = req[q] \/ RequestSettled(q)'
<1>1. req \in [Workers -> Request]
  BY DEF TypeOK
<1>2. \A q \in Workers :
        req'[q].step \notin {"refundCard", "releaseOrder", "creditWallet"} => RequestSettled(q)'
  BY DEF RequestSettled
<1>3. Done(p) => \A q \in Workers : req'[q] = req[q] \/ RequestSettled(q)'
  BY <1>1, <1>2 DEF Done, NoRequest
<1>4. ASSUME NEW r \in Request, req' = [req EXCEPT ![p] = r],
             r.step \notin {"refundCard", "releaseOrder", "creditWallet"}
      PROVE  \A q \in Workers : req'[q] = req[q] \/ RequestSettled(q)'
  BY <1>1, <1>2, <1>4
<1>5. ASSUME NEW st \in Step, Goto(p, st), st \notin {"refundCard", "releaseOrder", "creditWallet"}
      PROVE  \A q \in Workers : req'[q] = req[q] \/ RequestSettled(q)'
  <2>1. req'[p].step = st
    BY <1>1, <1>5 DEF Goto, Request
  <2> QED BY <1>1, <1>2, <1>5, <2>1 DEF Goto
<1> QED BY <1>3, <1>4, <1>5

\* A write of one row under which every order stays settled, or unpaid.
LEMMA WriteStays ==
  ASSUME TypeOK, NEW o \in Orders, NEW r, Write(o, r),
         r.status = row[o].status \/ {r.status, row[o].status} \subseteq Unpaid
  PROVE  \A x \in Orders : StaysSettled(x)
BY WriteEffect DEF StaysSettled

LEMMA ReleaseStays ==
  ASSUME TypeOK, NEW o \in Orders, ReleaseReservation(o)
  PROVE  \A x \in Orders : StaysSettled(x)
<1>1. CASE row[o].status \in Unpaid /\ row[o].applied > 0
  <2>1. PICK r : r = [row[o] EXCEPT !.applied = 0]
    OBVIOUS
  <2>2. Write(o, r) /\ r.status = row[o].status
    BY <1>1, <2>1 DEF ReleaseReservation, TypeOK, OrderRow
  <2> QED BY <2>2, WriteStays
<1>2. CASE ~(row[o].status \in Unpaid /\ row[o].applied > 0)
  BY <1>2 DEF ReleaseReservation, StaysSettled
<1> QED BY <1>1, <1>2

LEMMA PayByWalletSettles ==
  ASSUME IInv, SettledInv, NEW o \in Orders, WalletCovers(o), PayByWallet(o),
         UNCHANGED <<creditedBack, stripe, stripeRefund>>,
         \A q \in Workers : req'[q] = req[q] \/ RequestSettled(q)'
  PROVE  SettledInv'
<1>1. TypeOK /\ OrderSettled(o)
  BY DEF IInv, TypeInv, SettledInv
<1>2. row'[o].status = "paid" /\ \A x \in Orders \ {o} : row'[x] = row[x]
  <2>1. /\ row'[o] = [row[o] EXCEPT !.status = "paid", !.method = "wallet"]
        /\ \A x \in Orders \ {o} : row'[x] = row[x]
    BY <1>1, WriteEffect DEF PayByWallet
  <2> QED BY <2>1, OrderFacts DEF OrderRow
<1>3. settledBy'[o] = "wallet" /\ \A x \in Orders \ {o} : settledBy'[x] = settledBy[x]
  BY <1>1 DEF PayByWallet, Settle, TypeOK
<1>4. OrderSettled(o)'
  BY <1>1, <1>2, <1>3, StagesApart DEF OrderSettled
<1>5. /\ StripeKeeps
      /\ \A x \in Orders \ {o} : StaysSettled(x) /\ settledBy'[x] = settledBy[x]
  BY <1>2, <1>3 DEF StripeKeeps, StaysSettled
<1> QED BY <1>4, <1>5, SettledStep

\* A settled or unpaid order closed by a request that leaves Stripe alone.
LEMMA CloseSettled ==
  ASSUME IInv, SettledInv, NEW o \in Orders,
         Write(o, [row[o] EXCEPT !.status = "cancelled"]),
         settledBy[o] \in Sessions => stripeRefund[o] # None,
         UNCHANGED <<creditedBack, settledBy, stripe, stripeRefund>>,
         \A q \in Workers : req'[q] = req[q] \/ RequestSettled(q)'
  PROVE  SettledInv'
<1>1. TypeOK /\ OrderSettled(o)
  BY DEF IInv, TypeInv, SettledInv
<1>2. row'[o].status = "cancelled" /\ \A x \in Orders \ {o} : row'[x] = row[x]
  <2>1. /\ row'[o] = [row[o] EXCEPT !.status = "cancelled"]
        /\ \A x \in Orders \ {o} : row'[x] = row[x]
    BY <1>1, WriteEffect
  <2> QED BY <2>1, OrderFacts DEF OrderRow
<1>3. OrderSettled(o)'
  BY <1>1, <1>2, StagesApart DEF OrderSettled
<1>4. StripeKeeps /\ \A x \in Orders \ {o} : StaysSettled(x)
  BY <1>2 DEF StripeKeeps, StaysSettled
<1> QED BY <1>3, <1>4, SettledStep

LEMMA SettledInit == Init => SettledInv
<1> SUFFICES ASSUME Init PROVE SettledInv
  OBVIOUS
<1>1. ASSUME NEW o \in Orders PROVE OrderSettled(o)
  <2>1. row[o].status = "draft" /\ settledBy[o] = None /\ creditedBack = {}
    BY DEF Init
  <2> QED BY <2>1, StagesApart DEF OrderSettled
<1>2. \A p \in Workers : RequestSettled(p)
  BY DEF Init, RequestSettled, NoRequest
<1> QED BY <1>1, <1>2 DEF SettledInv

LEMMA SettledNext == IInv /\ SettledInv /\ [Next]_vars => SettledInv'
<1> SUFFICES ASSUME IInv, SettledInv, [Next]_vars PROVE SettledInv'
  OBVIOUS
<1>a. TypeOK /\ SessionsOfOrders
  BY DEF IInv, TypeInv
<1>b. /\ \A p \in Workers : ~Idle(p) => req[p].order \in Orders
      /\ req \in [Workers -> Request]
      /\ \A o \in Orders : row[o] \in OrderRow /\ OrderSettled(o)
  BY DEF IInv, TypeInv, Serving, Idle, TypeOK, SettledInv
<1>c. stripe' = stripe /\ stripeRefund' = stripeRefund => StripeKeeps
  BY DEF StripeKeeps
<1>d. row' = row => \A x \in Orders : StaysSettled(x)
  BY DEF StaysSettled
<1> USE DEF ledger
<1>1. ASSUME NEW p \in Workers, PayFromWallet(p) PROVE SettledInv'
  <2>1. req[p].order \in Orders
    BY <1>1, <1>b DEF PayFromWallet, At, Idle
  <2>2. \A q \in Workers : req'[q] = req[q] \/ RequestSettled(q)'
    BY <1>1, <1>a, PlainSettled, Names DEF PayFromWallet
  <2>3. CASE WalletCovers(req[p].order)
    BY <1>1, <2>1, <2>2, <2>3, PayByWalletSettles DEF PayFromWallet
  <2>4. CASE ~WalletCovers(req[p].order)
    BY <1>1, <1>c, <1>d, <2>2, <2>4, QuietSettled DEF PayFromWallet
  <2> QED BY <2>3, <2>4
<1>2. ASSUME NEW p \in Workers, Reserve(p) PROVE SettledInv'
  <2>1. PICK o \in Orders : req[p].order = o
    BY <1>2, <1>b DEF Reserve, At, Idle
  <2>2. PICK draw : draw = CheckoutDraw(balance, Total[o])
    OBVIOUS
  <2>3. CASE row[o].status = "draft"
    <3>1. PICK r : r = [row[o] EXCEPT !.status = "pending_payment", !.applied = draw]
      OBVIOUS
    <3>2. Write(o, r) /\ r.status = "pending_payment"
      BY <1>2, <1>b, <2>1, <2>2, <2>3, <3>1 DEF Reserve, OrderRow
    <3>3. \A x \in Orders : StaysSettled(x)
      BY <1>a, <2>3, <3>2, WriteStays, StagesApart
    <3>4. req'[p].step = "createSession" /\ \A q \in Workers \ {p} : req'[q] = req[q]
      BY <1>2, <1>b, <2>1, <2>3 DEF Reserve, Request
    <3>5. \A q \in Workers : req'[q] = req[q] \/ RequestSettled(q)'
      BY <3>4 DEF RequestSettled
    <3> QED BY <1>2, <1>c, <3>3, <3>5, QuietSettled DEF Reserve
  <2>4. CASE row[o].status # "draft"
    <3>1. row' = row /\ Done(p)
      BY <1>2, <2>1, <2>4 DEF Reserve
    <3>2. \A q \in Workers : req'[q] = req[q] \/ RequestSettled(q)'
      BY <1>a, <3>1, PlainSettled
    <3> QED BY <1>2, <1>c, <1>d, <3>1, <3>2, QuietSettled DEF Reserve
  <2> QED BY <2>3, <2>4
<1>3. ASSUME NEW p \in Workers, ClaimResume(p) PROVE SettledInv'
  <2>1. PICK o \in Orders : req[p].order = o
    BY <1>3, <1>b DEF ClaimResume, At, Idle
  <2>2. row' = row
    BY <1>3, <1>a, <2>1 DEF ClaimResume, Write, TypeOK
  <2>3. \A q \in Workers : req'[q] = req[q] \/ RequestSettled(q)'
    BY <1>3, <2>1, <1>a, PlainSettled, Names DEF ClaimResume
  <2> QED BY <1>3, <1>c, <1>d, <2>2, <2>3, QuietSettled DEF ClaimResume
<1>4. ASSUME NEW p \in Workers, NEW s \in Sessions, CreateSession(p, s) PROVE SettledInv'
  <2>1. req'[p].step = "recordSession" /\ \A q \in Workers \ {p} : req'[q] = req[q]
    BY <1>4, <1>b DEF CreateSession, Request
  <2>2. \A q \in Workers : req'[q] = req[q] \/ RequestSettled(q)'
    BY <2>1 DEF RequestSettled
  <2>3. StripeKeeps
    BY <1>4, <1>a DEF CreateSession, StripeKeeps, TypeOK
  <2> QED BY <1>4, <1>d, <2>2, <2>3, QuietSettled DEF CreateSession
<1>5. ASSUME NEW p \in Workers, CreateSessionFails(p) PROVE SettledInv'
  <2>1. \A q \in Workers : req'[q] = req[q] \/ RequestSettled(q)'
    BY <1>5, <1>a, PlainSettled, Names DEF CreateSessionFails
  <2> QED BY <1>5, <1>c, <1>d, <2>1, QuietSettled DEF CreateSessionFails
<1>6. ASSUME NEW p \in Workers, ExpireOld(p) PROVE SettledInv'
  <2>1. \A q \in Workers : req'[q] = req[q] \/ RequestSettled(q)'
    BY <1>6, <1>a, PlainSettled DEF ExpireOld
  <2>2. StripeKeeps
    BY <1>6 DEF ExpireOld, StripeKeeps
  <2> QED BY <1>6, <1>d, <2>1, <2>2, QuietSettled DEF ExpireOld
<1>7. ASSUME NEW p \in Workers, HandBackMoney(p) \/ ReleaseAfterEvent(p) PROVE SettledInv'
  <2>1. req[p].order \in Orders
    BY <1>7, <1>b DEF HandBackMoney, ReleaseAfterEvent, At, Idle
  <2>2. \A q \in Workers : req'[q] = req[q] \/ RequestSettled(q)'
    BY <1>7, <1>a, PlainSettled, Names DEF HandBackMoney, ReleaseAfterEvent
  <2>3. \A x \in Orders : StaysSettled(x)
    BY <1>7, <1>a, <2>1, ReleaseStays DEF HandBackMoney, ReleaseAfterEvent
  <2> QED BY <1>7, <1>c, <2>2, <2>3, QuietSettled DEF HandBackMoney, ReleaseAfterEvent
<1>8. ASSUME NEW p \in Workers, HandBackDraft(p) PROVE SettledInv'
  <2>1. PICK o \in Orders : req[p].order = o
    BY <1>8, <1>b DEF HandBackDraft, At, Idle
  <2>2. \A x \in Orders : StaysSettled(x)
    <3>1. CASE row[o].status = "pending_payment"
      <4>1. PICK r : r = [row[o] EXCEPT !.status = "draft"]
        OBVIOUS
      <4>2. Write(o, r) /\ r.status = "draft"
        BY <1>8, <1>b, <2>1, <3>1, <4>1 DEF HandBackDraft, OrderRow
      <4> QED BY <1>a, <3>1, <4>2, WriteStays, StagesApart
    <3>2. CASE row[o].status # "pending_payment"
      BY <1>8, <1>d, <2>1, <3>2 DEF HandBackDraft
    <3> QED BY <3>1, <3>2
  <2>3. \A q \in Workers : req'[q] = req[q] \/ RequestSettled(q)'
    BY <1>8, <1>a, PlainSettled DEF HandBackDraft
  <2> QED BY <1>8, <1>c, <2>2, <2>3, QuietSettled DEF HandBackDraft
<1>9. ASSUME NEW p \in Workers, RecordSession(p) PROVE SettledInv'
  <2>1. PICK o \in Orders : req[p].order = o
    BY <1>9, <1>b DEF RecordSession, At, Idle
  <2>2. PICK r : Write(o, r) /\ r.status = row[o].status
    <3>1. PICK i \in {req[p].session, None} :
            Write(o, [row[o] EXCEPT !.method = "card", !.session = req[p].session,
                                    !.intent = i])
      BY <1>9, <2>1 DEF RecordSession
    <3>2. PICK r : r = [row[o] EXCEPT !.method = "card", !.session = req[p].session,
                                      !.intent = i]
      OBVIOUS
    <3>3. Write(o, r) /\ r.status = row[o].status
      BY <1>b, <3>1, <3>2 DEF OrderRow
    <3> QED BY <3>3
  <2>3. \A x \in Orders : StaysSettled(x)
    BY <1>a, <2>2, WriteStays
  <2>4. \A q \in Workers : req'[q] = req[q] \/ RequestSettled(q)'
    BY <1>9, <1>a, PlainSettled, Names DEF RecordSession
  <2>5. StripeKeeps
    BY <1>9, <1>a DEF RecordSession, StripeKeeps, TypeOK
  <2> QED BY <1>9, <2>3, <2>4, <2>5, QuietSettled DEF RecordSession
<1>10. ASSUME NEW p \in Workers, CancelClaim(p) PROVE SettledInv'
  <2>1. PICK o \in Orders : req[p].order = o
    BY <1>10, <1>b DEF CancelClaim, At, Idle
  <2>2. \A q \in Workers : req'[q] = req[q] \/ RequestSettled(q)'
    BY <1>10, <1>a, PlainSettled DEF CancelClaim
  <2>3. CASE row[o].status \in Unpaid
    <3>1. settledBy[o] \notin Sessions
      BY <1>b, <2>3 DEF OrderSettled
    <3> QED BY <1>10, <2>1, <2>2, <2>3, <3>1, CloseSettled DEF CancelClaim
  <2>4. CASE row[o].status \notin Unpaid
    BY <1>10, <1>c, <1>d, <2>1, <2>2, <2>4, QuietSettled DEF CancelClaim
  <2> QED BY <2>3, <2>4
<1>11. ASSUME NEW p \in Workers, RefundCard(p) PROVE SettledInv'
  <2>1. PICK o \in Orders : req[p].order = o
    BY <1>11, <1>b DEF RefundCard, At, Idle
  <2>2. req[p].session \in Sessions
    BY <1>11 DEF SettledInv, RequestSettled, RefundCard, At
  <2>3. CASE Done(p) /\ stripeRefund' = stripeRefund
    <3>1. \A q \in Workers : req'[q] = req[q] \/ RequestSettled(q)'
      BY <1>a, <2>3, PlainSettled
    <3> QED BY <1>11, <1>c, <1>d, <2>3, <3>1, QuietSettled DEF RefundCard
  <2>4. CASE /\ stripeRefund[o] \in {None, req[p].session}
             /\ stripeRefund' = [stripeRefund EXCEPT ![o] = req[p].session]
             /\ Goto(p, "releaseOrder")
    <3>1. /\ stripeRefund'[o] = req[p].session
          /\ \A x \in Orders \ {o} : stripeRefund'[x] = stripeRefund[x]
      BY <1>a, <2>4 DEF TypeOK
    <3>2. StripeKeeps
      BY <1>11, <2>1, <2>4, <3>1 DEF StripeKeeps, RefundCard
    <3>3. /\ req'[p].order = o /\ req'[p].step = "releaseOrder"
          /\ \A q \in Workers \ {p} : req'[q] = req[q]
      BY <1>b, <2>1, <2>4 DEF Goto, Request
    <3>4. RequestSettled(p)'
      BY <2>2, <3>1, <3>3 DEF RequestSettled
    <3>5. \A q \in Workers : req'[q] = req[q] \/ RequestSettled(q)'
      BY <3>3, <3>4
    <3> QED BY <1>11, <1>d, <3>2, <3>5, QuietSettled DEF RefundCard
  <2> QED BY <1>11, <2>1, <2>3, <2>4 DEF RefundCard
<1>12. ASSUME NEW p \in Workers, ReleaseOrder(p) PROVE SettledInv'
  <2>1. PICK o \in Orders : req[p].order = o
    BY <1>12, <1>b DEF ReleaseOrder, At, Idle
  <2>2. stripeRefund[o] # None
    BY <1>12, <2>1 DEF SettledInv, RequestSettled, ReleaseOrder, At
  <2>3. \A q \in Workers : req'[q] = req[q] \/ RequestSettled(q)'
    <3>1. CASE Done(p)
      BY <1>a, <3>1, PlainSettled
    <3>2. CASE Goto(p, "creditWallet")
      <4>1. /\ req'[p].order = o /\ req'[p].step = "creditWallet"
            /\ \A q \in Workers \ {p} : req'[q] = req[q]
        BY <1>b, <2>1, <3>2 DEF Goto, Request
      <4>2. stripeRefund' = stripeRefund
        BY <1>12 DEF ReleaseOrder
      <4> QED BY <2>2, <4>1, <4>2 DEF RequestSettled
    <3> QED BY <1>12, <3>1, <3>2 DEF ReleaseOrder
  <2>4. CASE row[o].status \in Refundable
    BY <1>12, <2>1, <2>2, <2>3, <2>4, CloseSettled DEF ReleaseOrder
  <2>5. CASE row[o].status \notin Refundable
    BY <1>12, <1>c, <1>d, <2>1, <2>3, <2>5, QuietSettled DEF ReleaseOrder
  <2> QED BY <2>4, <2>5
<1>13. ASSUME NEW p \in Workers, CreditWalletPortion(p) PROVE SettledInv'
  <2>1. PICK o \in Orders : req[p].order = o
    BY <1>13, <1>b DEF CreditWalletPortion, At, Idle
  <2>2. stripeRefund[o] # None
    BY <1>13, <2>1 DEF SettledInv, RequestSettled, CreditWalletPortion, At
  <2>3. \A q \in Workers : req'[q] = req[q] \/ RequestSettled(q)'
    BY <1>13, <1>a, PlainSettled DEF CreditWalletPortion
  <2>4. UNCHANGED <<row, settledBy, stripe, stripeRefund>> /\ creditedBack' \subseteq creditedBack \cup {o}
    BY <1>13, <2>1 DEF CreditWalletPortion
  <2>5. OrderSettled(o)'
    BY <1>b, <2>2, <2>4 DEF OrderSettled
  <2> QED BY <1>c, <1>d, <2>3, <2>4, <2>5, SettledStep
<1>14. ASSUME NEW p \in Workers, RefundWallet(p) PROVE SettledInv'
  <2>1. PICK o \in Orders : req[p].order = o
    BY <1>14, <1>b DEF RefundWallet, At, Idle
  <2>2. settledBy[o] \notin Sessions
    BY <1>14, <2>1 DEF IInv, MoneyInv, RequestMoney, RefundWallet, At
  <2>3. \A q \in Workers : req'[q] = req[q] \/ RequestSettled(q)'
    BY <1>14, <1>a, PlainSettled DEF RefundWallet
  <2>4. CASE row[o].status \in Refundable
    BY <1>14, <2>1, <2>2, <2>3, <2>4, CloseSettled DEF RefundWallet
  <2>5. CASE row[o].status \notin Refundable
    BY <1>14, <1>c, <1>d, <2>1, <2>3, <2>5, QuietSettled DEF RefundWallet
  <2> QED BY <2>4, <2>5
<1>15. ASSUME NEW p \in Workers, NEW o \in Orders, CheckoutRead(p, o) \/ ResumeRead(p, o)
       PROVE  SettledInv'
  <2>1. /\ req'[p].step \in {"payFromWallet", "claimResume"}
        /\ \A q \in Workers \ {p} : req'[q] = req[q]
    <3>1. CASE CheckoutRead(p, o)
      BY <3>1, <1>b DEF CheckoutRead, NoRequest
    <3>2. CASE ResumeRead(p, o)
      BY <3>2, <1>b DEF ResumeRead, NoRequest
    <3> QED BY <1>15, <3>1, <3>2
  <2>2. \A q \in Workers : req'[q] = req[q] \/ RequestSettled(q)'
    BY <2>1 DEF RequestSettled
  <2> QED BY <1>15, <1>c, <1>d, <2>2, QuietSettled DEF CheckoutRead, ResumeRead
<1>16. ASSUME NEW p \in Workers, NEW o \in Orders, CancelRelease(p, o) PROVE SettledInv'
  <2>1. req'[p].step = "cancelClaim" /\ \A q \in Workers \ {p} : req'[q] = req[q]
    BY <1>16, <1>b DEF CancelRelease, NoRequest
  <2>2. \A q \in Workers : req'[q] = req[q] \/ RequestSettled(q)'
    BY <2>1 DEF RequestSettled
  <2>3. \A x \in Orders : StaysSettled(x)
    BY <1>16, <1>a, ReleaseStays DEF CancelRelease
  <2> QED BY <1>16, <1>c, <2>2, <2>3, QuietSettled DEF CancelRelease
<1>17. ASSUME NEW p \in Workers, NEW o \in Orders, RefundRead(p, o) PROVE SettledInv'
  <2>1. /\ req'[p].step = IF row[o].method = "wallet" THEN "refundWallet" ELSE "refundCard"
        /\ req'[p].session = IF row[o].method = "wallet" THEN None ELSE row[o].intent
        /\ \A q \in Workers \ {p} : req'[q] = req[q]
    BY <1>17, <1>b DEF RefundRead, NoRequest
  <2>2. row[o].method = "wallet" \/ row[o].intent \in Sessions
    BY <1>17, <1>b DEF RefundRead, OrderRow
  <2>3. RequestSettled(p)'
    BY <2>1, <2>2 DEF RequestSettled
  <2> QED BY <1>17, <1>c, <1>d, <2>1, <2>3, QuietSettled DEF RefundRead
<1>18. ASSUME NEW p \in Workers, NEW s \in Sessions, FlipToDraft(p, s) PROVE SettledInv'
  <2>1. PICK o \in Orders : stripe[s].order = o
    BY <1>18, <1>a DEF FlipToDraft, Dead, SessionsOfOrders
  <2>2. req'[p].step = "releaseAfterEvent" /\ \A q \in Workers \ {p} : req'[q] = req[q]
    BY <1>18, <1>b DEF FlipToDraft, NoRequest
  <2>3. \A q \in Workers : req'[q] = req[q] \/ RequestSettled(q)'
    BY <2>2 DEF RequestSettled
  <2>4. PICK r : r = [row[o] EXCEPT !.status = "draft"]
    OBVIOUS
  <2>5. Write(o, r) /\ r.status = "draft" /\ row[o].status = "pending_payment"
    BY <1>18, <1>b, <2>1, <2>4 DEF FlipToDraft, ReleasableBy, OrderRow
  <2>6. \A x \in Orders : StaysSettled(x)
    BY <1>a, <2>5, WriteStays, StagesApart
  <2> QED BY <1>18, <1>c, <2>3, <2>6, QuietSettled DEF FlipToDraft
<1>19. ASSUME NEW p \in Workers, Crash(p) PROVE SettledInv'
  BY <1>19, <1>a, <1>c, <1>d, PlainSettled, QuietSettled DEF Crash
<1>20. ASSUME NEW o \in Orders, PayOrder(o) PROVE SettledInv'
  BY <1>20, PayByWalletSettles DEF PayOrder
<1>21. ASSUME NEW o \in Orders, MoveCard(o) PROVE SettledInv'
  <2>1. PICK to \in JobStatus :
          LET status == OrderAfter(row[o].status, to) IN
          IF status = row[o].status
          THEN UNCHANGED <<row, fresh>>
          ELSE Write(o, [row[o] EXCEPT !.status = status])
    BY <1>21 DEF MoveCard
  <2>2. PICK status : status = OrderAfter(row[o].status, to)
    OBVIOUS
  <2>3. \A x \in Orders : StaysSettled(x)
    <3>1. CASE status = row[o].status
      BY <1>d, <2>1, <2>2, <3>1
    <3>2. CASE status # row[o].status
      <4>1. {status, row[o].status} \subseteq Settled
        BY <2>2, <3>2 DEF OrderAfter, Settled
      <4>2. Write(o, [row[o] EXCEPT !.status = status])
        BY <2>1, <2>2, <3>2
      <4>3. row'[o].status = status /\ \A x \in Orders \ {o} : row'[x] = row[x]
        BY <1>a, <1>b, <4>2, WriteEffect DEF OrderRow
      <4> QED BY <4>1, <4>3 DEF StaysSettled
    <3> QED BY <3>1, <3>2
  <2> QED BY <1>21, <1>c, <2>3, QuietSettled DEF MoveCard
<1>22. ASSUME NEW t \in TopUps, ApplyTopup(t) PROVE SettledInv'
  BY <1>22, <1>c, <1>d, QuietSettled DEF ApplyTopup
<1>23. ASSUME NEW s \in Sessions, PaymentSettles(s) PROVE SettledInv'
  <2>1. PICK o \in Orders : stripe[s].order = o /\ row[o].status = "pending_payment"
    BY <1>23, <1>a DEF PaymentSettles, SessionsOfOrders
  <2>2. row'[o].status = "paid" /\ \A x \in Orders \ {o} : row'[x] = row[x]
    <3>1. /\ row'[o] = [row[o] EXCEPT !.status = "paid", !.session = s]
          /\ \A x \in Orders \ {o} : row'[x] = row[x]
      BY <1>23, <1>a, <2>1, WriteEffect DEF PaymentSettles
    <3> QED BY <1>b, <3>1 DEF OrderRow
  <2>3. settledBy'[o] = s /\ \A x \in Orders \ {o} : settledBy'[x] = settledBy[x]
    BY <1>23, <1>a, <2>1 DEF PaymentSettles, Settle, TypeOK
  <2>4. UNCHANGED <<creditedBack, stripe, stripeRefund, req>> /\ stripe[s].state = "paid"
    BY <1>23 DEF PaymentSettles
  <2>5. OrderSettled(o)'
    <3>1. s # None
      OBVIOUS
    <3> QED BY <1>b, <2>2, <2>3, <2>4, <3>1, StagesApart DEF OrderSettled
  <2>6. \A x \in Orders \ {o} : StaysSettled(x)
    BY <2>2 DEF StaysSettled
  <2> QED BY <1>c, <2>3, <2>4, <2>5, <2>6, SettledStep
<1>24. ASSUME NEW s \in Sessions, PaymentAnomaly(s) PROVE SettledInv'
  BY <1>24, <1>c, <1>d, QuietSettled DEF PaymentAnomaly
<1>25. ASSUME NEW s \in Sessions, SessionMoves(s) PROVE SettledInv'
  <2>1. StripeKeeps
    BY <1>25, <1>a DEF SessionMoves, SessionSteps, StripeKeeps, TypeOK
  <2> QED BY <1>25, <1>d, <2>1, QuietSettled DEF SessionMoves
<1>26. ASSUME UNCHANGED vars PROVE SettledInv'
  BY <1>26, <1>c, <1>d, QuietSettled DEF vars
<1> QED
  BY <1>1, <1>2, <1>3, <1>4, <1>5, <1>6, <1>7, <1>8, <1>9, <1>10, <1>11, <1>12, <1>13, <1>14, <1>15, <1>16, <1>17, <1>18, <1>19, <1>20, <1>21, <1>22, <1>23, <1>24, <1>25, <1>26 DEF Next, Receive, Continue

\* However requests, crashes and webhooks overlap, a settlement names money
\* that is there, and is undone only behind Stripe's refund.
THEOREM SettlementsStand == Spec => [](IInv /\ SettledInv)
<1>1. Init => IInv /\ SettledInv
  BY TypeInit, MoneyInit, SettledInit DEF IInv
<1>2. IInv /\ SettledInv /\ [Next]_vars => IInv' /\ SettledInv'
  BY TypeStep, MoneyStep, SettledNext DEF IInv
<1> QED BY <1>1, <1>2, PTL DEF Spec

\* An order settled by the wallet, or by a session opened for what its
\* reservation leaves, is covered by money held, with any overlap and any crash.
THEOREM CoveredByMoneyHeld == Spec => []PaidAsReserved
<1>1. ASSUME IInv, SettledInv, NEW o \in Orders,
             row[o].status \in Settled, stripeRefund[o] = None,
             settledBy[o] \in Sessions =>
               stripe[settledBy[o]].amount = Total[o] - row[o].applied
      PROVE  walletPaid[o] + CardPaid(o) >= Total[o]
  <2>1. /\ settledBy[o] # None /\ o \notin creditedBack
        /\ settledBy[o] \in Sessions => stripe[settledBy[o]].state = "paid"
    BY <1>1 DEF SettledInv, OrderSettled
  <2>2. settledBy[o] = "wallet" \/ settledBy[o] \in Sessions
    BY <1>1, <2>1 DEF IInv, TypeInv, TypeOK
  <2>3. CASE settledBy[o] = "wallet"
    <3>1. walletPaid[o] >= Total[o] + row[o].applied /\ CardPaid(o) = 0
      BY <1>1, <2>1, <2>3, OrderFacts DEF OrderMoney, Owed, CardPaid
    <3> QED BY <1>1, <3>1, OrderFacts DEF OrderMoney
  <2>4. CASE settledBy[o] \in Sessions
    <3>1. walletPaid[o] >= row[o].applied /\ CardPaid(o) = Total[o] - row[o].applied
      BY <1>1, <2>1, <2>4, OrderFacts DEF OrderMoney, Owed, CardPaid
    <3> QED BY <1>1, <3>1, OrderFacts
  <2> QED BY <2>2, <2>3, <2>4
<1>2. IInv /\ SettledInv => PaidAsReserved
  BY <1>1 DEF PaidAsReserved
<1> QED BY <1>2, SettlementsStand, PTL

-------------------------------------------------------------------------------
(* The page an order waits on, while the requests on one order do not       *)
(* overlap; a crash may end any of them.  A draft's page can no longer be   *)
(* paid; what a request at work on the order has to keep for that is here.  *)

\* The session the row names, if any, can no longer be paid.
Stopped(o) == row[o].session # None => stripe[row[o].session].state \in Dead

DraftIsStopped(o) == row[o].status = "draft" => Stopped(o)

RequestLive(p) ==
  LET o == req[p].order
      at == req[p].step
  IN /\ at \in {"createSession", "recordSession"} => row[o].status # "draft"
     /\ at = "claimResume" => ~req[p].fromDraft
     /\ at \in {"handBackMoney", "handBackDraft"} \/ (at = "createSession" /\ req[p].fromDraft) =>
          (row[o].status \in Unpaid => Stopped(o))

LiveInv == /\ \A o \in Orders : DraftIsStopped(o)
           /\ \A p \in Workers : req[p].order \in Orders => RequestLive(p)

\* The order becomes no draft, and while it is unpaid it waits on the same page.
KeepsPage(o) ==
  /\ row'[o].status = "draft" => row[o].status = "draft"
  /\ row'[o].status \in Unpaid => row[o].status \in Unpaid /\ row'[o].session = row[o].session

DeadStayDead == \A s \in Sessions : stripe[s].state \in Dead => stripe'[s].state \in Dead

LEMMA LiveStep ==
  ASSUME TypeOK, LiveInv, DeadStayDead,
         \A x \in Orders :
           \/ KeepsPage(x)
           \/ /\ DraftIsStopped(x)'
              /\ \A q \in Workers : req'[q].order = x => RequestLive(q)',
         \A q \in Workers : req'[q] = req[q] \/ (req'[q].order \in Orders => RequestLive(q)')
  PROVE  LiveInv'
<1>1. ASSUME NEW x \in Orders, KeepsPage(x)
      PROVE  /\ row'[x].status \in Unpaid /\ Stopped(x) => Stopped(x)'
             /\ DraftIsStopped(x)'
  <2>1. row'[x].status \in Unpaid /\ Stopped(x) => Stopped(x)'
    <3>1. row[x].session \in Sessions \cup {None}
      BY DEF TypeOK, OrderRow
    <3> QED BY <1>1, <3>1 DEF KeepsPage, Stopped, DeadStayDead
  <2>2. row'[x].status = "draft" => row'[x].status \in Unpaid
    BY StagesApart
  <2> QED BY <1>1, <2>1, <2>2 DEF LiveInv, DraftIsStopped, KeepsPage
<1>2. ASSUME NEW x \in Orders PROVE DraftIsStopped(x)'
  BY <1>1, <1>2
<1>3. ASSUME NEW q \in Workers, req'[q].order \in Orders PROVE RequestLive(q)'
  <2>1. CASE req'[q] = req[q] /\ KeepsPage(req[q].order)
    <3>1. RequestLive(q) /\ req[q].order \in Orders
      BY <1>3, <2>1 DEF LiveInv
    <3> QED BY <1>1, <2>1, <3>1 DEF RequestLive, KeepsPage
  <2> QED BY <1>3, <2>1
<1> QED BY <1>2, <1>3 DEF LiveInv

\* How a request changes when its worker ends it or goes on.
LEMMA Moved ==
  ASSUME TypeOK, NEW p \in Workers
  PROVE  /\ Done(p) => /\ req'[p].order = None /\ req'[p].step = "idle"
                       /\ \A q \in Workers \ {p} : req'[q] = req[q]
         /\ \A st : Goto(p, st) =>
              /\ req'[p].step = st /\ req'[p].order = req[p].order
              /\ req'[p].applied = req[p].applied /\ req'[p].session = req[p].session
              /\ req'[p].old = req[p].old /\ req'[p].fromDraft = req[p].fromDraft
              /\ \A q \in Workers \ {p} : req'[q] = req[q]
<1>1. req \in [Workers -> Request]
  BY DEF TypeOK
<1> QED BY <1>1 DEF Done, NoRequest, Goto, Request

\* The request at work on an order is alone in it, before and after its step.
LEMMA AtWorkAlone ==
  ASSUME TypeInv, LiveInv, RequestsDoNotOverlap, NEW p \in Workers, ~Idle(p)
  PROVE  /\ req[p] \in Request /\ req[p].order \in Orders /\ RequestLive(p)
         /\ \A q \in Workers : req[q].order = req[p].order => q = p
<1>1. req[p] \in Request /\ req[p].order \in Orders /\ None \notin Orders
  BY DEF TypeInv, TypeOK, Serving, Idle
<1> QED BY <1>1 DEF LiveInv, RequestsDoNotOverlap

\* A write of an order's status, other than to draft.
LEMMA StatusKeepsPages ==
  ASSUME TypeOK, NEW o \in Orders, NEW st \in OrderStatus \ {"draft"},
         row[o].status \in Unpaid \/ st \notin Unpaid,
         Write(o, [row[o] EXCEPT !.status = st])
  PROVE  \A x \in Orders : KeepsPage(x)
<1>1. /\ row'[o] = [row[o] EXCEPT !.status = st]
      /\ \A x \in Orders \ {o} : row'[x] = row[x]
  BY WriteEffect
<1>2. row'[o].status = st /\ row'[o].session = row[o].session
  BY <1>1 DEF TypeOK, OrderRow
<1> QED BY <1>1, <1>2 DEF KeepsPage

LEMMA ReleaseKeepsPages ==
  ASSUME TypeOK, NEW o \in Orders, ReleaseReservation(o)
  PROVE  \A x \in Orders : /\ row'[x].status = row[x].status
                           /\ row'[x].session = row[x].session
<1>1. CASE row[o].status \in Unpaid /\ row[o].applied > 0
  <2>1. /\ row'[o] = [row[o] EXCEPT !.applied = 0]
        /\ \A x \in Orders \ {o} : row'[x] = row[x]
    BY <1>1, WriteEffect DEF ReleaseReservation
  <2> QED BY <2>1 DEF TypeOK, OrderRow
<1>2. CASE ~(row[o].status \in Unpaid /\ row[o].applied > 0)
  BY <1>2 DEF ReleaseReservation
<1> QED BY <1>1, <1>2

LEMMA WalletKeepsPages ==
  ASSUME TypeOK, NEW o \in Orders, PayByWallet(o)
  PROVE  \A x \in Orders : KeepsPage(x)
<1>1. /\ row'[o] = [row[o] EXCEPT !.status = "paid", !.method = "wallet"]
      /\ \A x \in Orders \ {o} : row'[x] = row[x]
  BY WriteEffect DEF PayByWallet
<1>2. row'[o].status = "paid"
  BY <1>1 DEF TypeOK, OrderRow
<1>3. KeepsPage(o)
  BY <1>2 DEF KeepsPage, Unpaid
<1>4. \A x \in Orders \ {o} : KeepsPage(x)
  BY <1>1 DEF KeepsPage
<1> QED BY <1>3, <1>4

LEMMA LiveInit == Init => LiveInv
BY DEF Init, LiveInv, DraftIsStopped, Stopped, RequestLive, NoRequest

LEMMA LiveNext ==
  ASSUME TypeInv, LiveInv, RequestsDoNotOverlap, RequestsDoNotOverlap', [Next]_vars
  PROVE  LiveInv'
<1>a. TypeOK /\ None \notin Orders
  BY DEF TypeInv
<1>b. /\ \A p \in Workers : Done(p) =>
           /\ req'[p].order = None /\ \A q \in Workers \ {p} : req'[q] = req[q]
      /\ \A p \in Workers : \A st : Goto(p, st) =>
           /\ req'[p].step = st /\ req'[p].order = req[p].order
           /\ req'[p].fromDraft = req[p].fromDraft
           /\ \A q \in Workers \ {p} : req'[q] = req[q]
  BY <1>a, Moved
<1>c. row' = row => \A x \in Orders : KeepsPage(x)
  BY DEF KeepsPage
<1>d. stripe' = stripe => DeadStayDead
  BY DEF DeadStayDead
<1>1. ASSUME NEW p \in Workers, NEW o \in Orders, CheckoutRead(p, o) PROVE LiveInv'
  <2>1. /\ UNCHANGED <<row, stripe>>
        /\ req'[p].step = "payFromWallet" /\ \A q \in Workers \ {p} : req'[q] = req[q]
    BY <1>1, <1>a DEF CheckoutRead, NoRequest, TypeOK
  <2>2. RequestLive(p)'
    BY <2>1 DEF RequestLive
  <2> QED BY <1>a, <1>c, <1>d, <2>1, <2>2, LiveStep
<1>2. ASSUME NEW p \in Workers, NEW o \in Orders, ResumeRead(p, o) PROVE LiveInv'
  <2>1. /\ UNCHANGED <<row, stripe>>
        /\ req'[p].step = "claimResume" /\ ~req'[p].fromDraft
        /\ \A q \in Workers \ {p} : req'[q] = req[q]
    BY <1>2, <1>a DEF ResumeRead, NoRequest, TypeOK
  <2>2. RequestLive(p)'
    BY <2>1 DEF RequestLive
  <2> QED BY <1>a, <1>c, <1>d, <2>1, <2>2, LiveStep
<1>3. ASSUME NEW p \in Workers, PayFromWallet(p) PROVE LiveInv'
  <2>1. req[p].order \in Orders /\ stripe' = stripe
    BY <1>3, AtWorkAlone DEF PayFromWallet, At, Idle
  <2>2. CASE WalletCovers(req[p].order)
    <3>1. PayByWallet(req[p].order) /\ Done(p)
      BY <1>3, <2>2 DEF PayFromWallet
    <3>2. \A x \in Orders : KeepsPage(x)
      BY <1>a, <2>1, <3>1, WalletKeepsPages
    <3> QED BY <1>a, <1>b, <1>d, <2>1, <3>1, <3>2, LiveStep
  <2>3. CASE ~WalletCovers(req[p].order)
    <3>1. Goto(p, "reserve") /\ row' = row
      BY <1>3, <2>3 DEF PayFromWallet
    <3>2. RequestLive(p)'
      BY <1>b, <3>1 DEF RequestLive
    <3> QED BY <1>a, <1>b, <1>c, <1>d, <2>1, <3>1, <3>2, LiveStep
  <2> QED BY <2>2, <2>3
<1>4. ASSUME NEW p \in Workers, Reserve(p) PROVE LiveInv'
  <2>1. PICK o \in Orders : o = req[p].order /\ stripe' = stripe
    BY <1>4, AtWorkAlone DEF Reserve, At, Idle
  <2> DEFINE draw == CheckoutDraw(balance, Total[o])
  <2>2. CASE row[o].status = "draft"
    <3>1. /\ Write(o, [row[o] EXCEPT !.status = "pending_payment", !.applied = draw])
          /\ req' = [req EXCEPT ![p].step = "createSession", ![p].applied = draw,
                                ![p].fromDraft = TRUE]
      BY <1>4, <2>1, <2>2 DEF Reserve
    <3>2. /\ row'[o] = [row[o] EXCEPT !.status = "pending_payment", !.applied = draw]
          /\ \A x \in Orders \ {o} : row'[x] = row[x]
      BY <1>a, <2>1, <3>1, WriteEffect
    <3>3. row'[o].status = "pending_payment" /\ row'[o].session = row[o].session
      BY <1>a, <2>1, <3>2 DEF TypeOK, OrderRow
    <3>4. /\ req'[p].step = "createSession" /\ req'[p].order = o
          /\ \A q \in Workers \ {p} : req'[q] = req[q]
      BY <1>a, <2>1, <3>1 DEF TypeOK, Request
    <3>5. \A x \in Orders : KeepsPage(x)
      BY <2>2, <3>2, <3>3, StagesApart DEF KeepsPage
    <3>6. Stopped(o)'
      BY <2>1, <2>2, <3>3 DEF LiveInv, DraftIsStopped, Stopped
    <3>7. RequestLive(p)'
      BY <3>3, <3>4, <3>6 DEF RequestLive
    <3> QED BY <1>a, <1>d, <2>1, <3>4, <3>5, <3>7, LiveStep
  <2>3. CASE row[o].status # "draft"
    <3>1. Done(p) /\ row' = row
      BY <1>4, <2>1, <2>3 DEF Reserve
    <3> QED BY <1>a, <1>b, <1>c, <1>d, <2>1, <3>1, LiveStep
  <2> QED BY <2>2, <2>3
<1>5. ASSUME NEW p \in Workers, ClaimResume(p) PROVE LiveInv'
  <2> DEFINE o == req[p].order
  <2>1. o \in Orders /\ ~req[p].fromDraft /\ stripe' = stripe
    BY <1>5, AtWorkAlone DEF ClaimResume, At, Idle, RequestLive
  <2>2. CASE p \in fresh /\ row[o].status = "pending_payment"
    <3>1. Write(o, row[o]) /\ Goto(p, "createSession")
      BY <1>5, <2>2 DEF ClaimResume
    <3>2. \A x \in Orders : row'[x] = row[x]
      BY <1>a, <2>1, <3>1, WriteEffect
    <3>3. \A x \in Orders : KeepsPage(x)
      BY <3>2 DEF KeepsPage
    <3>4. RequestLive(p)'
      BY <1>b, <2>1, <2>2, <3>1, <3>2 DEF RequestLive
    <3> QED BY <1>a, <1>b, <1>d, <2>1, <3>1, <3>3, <3>4, LiveStep
  <2>3. CASE ~(p \in fresh /\ row[o].status = "pending_payment")
    <3>1. Done(p) /\ row' = row
      BY <1>5, <2>3 DEF ClaimResume
    <3> QED BY <1>a, <1>b, <1>c, <1>d, <2>1, <3>1, LiveStep
  <2> QED BY <2>2, <2>3
<1>6. ASSUME NEW p \in Workers, NEW s \in Sessions, CreateSession(p, s) PROVE LiveInv'
  <2>1. /\ row' = row /\ stripe[s].state = "unused"
        /\ \A t \in Sessions \ {s} : stripe'[t] = stripe[t]
    BY <1>6, <1>a DEF CreateSession, TypeOK
  <2>2. DeadStayDead
    BY <2>1 DEF DeadStayDead, Dead
  <2>3. /\ req'[p].step = "recordSession" /\ req'[p].order = req[p].order
        /\ \A q \in Workers \ {p} : req'[q] = req[q]
    BY <1>6, <1>a DEF CreateSession, TypeOK, Request
  <2>4. RequestLive(p) /\ At(p, "createSession")
    BY <1>6, AtWorkAlone DEF CreateSession, At, Idle
  <2>5. RequestLive(p)'
    BY <2>1, <2>3, <2>4 DEF RequestLive, At
  <2> QED BY <1>a, <1>c, <2>1, <2>2, <2>3, <2>5, LiveStep
<1>7. ASSUME NEW p \in Workers, CreateSessionFails(p) PROVE LiveInv'
  <2>1. UNCHANGED <<row, stripe>> /\ At(p, "createSession") /\ RequestLive(p)
    BY <1>7, AtWorkAlone DEF CreateSessionFails, At, Idle
  <2>2. CASE req[p].fromDraft
    <3>1. Goto(p, "handBackMoney")
      BY <1>7, <2>2 DEF CreateSessionFails
    <3>2. RequestLive(p)'
      BY <1>b, <2>1, <2>2, <3>1 DEF RequestLive, At, Stopped
    <3> QED BY <1>a, <1>b, <1>c, <1>d, <2>1, <3>1, <3>2, LiveStep
  <2>3. CASE ~req[p].fromDraft
    <3>1. Done(p)
      BY <1>7, <2>3 DEF CreateSessionFails
    <3> QED BY <1>a, <1>b, <1>c, <1>d, <2>1, <3>1, LiveStep
  <2> QED BY <2>2, <2>3
<1>8. ASSUME NEW p \in Workers, HandBackMoney(p) PROVE LiveInv'
  <2>1. /\ req[p].order \in Orders /\ RequestLive(p) /\ stripe' = stripe
        /\ At(p, "handBackMoney") /\ Goto(p, "handBackDraft")
    BY <1>8, AtWorkAlone DEF HandBackMoney, At, Idle
  <2>2. \A x \in Orders : row'[x].status = row[x].status /\ row'[x].session = row[x].session
    BY <1>8, <1>a, <2>1, ReleaseKeepsPages DEF HandBackMoney
  <2>3. RequestLive(p)'
    BY <1>b, <2>1, <2>2 DEF RequestLive, At, Stopped
  <2>4. \A x \in Orders : KeepsPage(x)
    BY <2>2 DEF KeepsPage
  <2> QED BY <1>a, <1>b, <1>d, <2>1, <2>3, <2>4, LiveStep
<1>9. ASSUME NEW p \in Workers, HandBackDraft(p) PROVE LiveInv'
  <2>1. PICK o \in Orders :
        /\ o = req[p].order /\ RequestLive(p) /\ stripe' = stripe
        /\ At(p, "handBackDraft") /\ Done(p)
        /\ \A q \in Workers : req[q].order = o => q = p
    BY <1>9, AtWorkAlone DEF HandBackDraft, At, Idle
  <2>2. CASE row[o].status = "pending_payment"
    <3>1. /\ row'[o] = [row[o] EXCEPT !.status = "draft"]
          /\ \A x \in Orders \ {o} : row'[x] = row[x]
      BY <1>9, <1>a, <2>1, <2>2, WriteEffect DEF HandBackDraft
    <3>2. row'[o].session = row[o].session
      BY <1>a, <2>1, <3>1 DEF TypeOK, OrderRow
    <3>3. Stopped(o)'
      BY <2>1, <2>2, <3>2 DEF RequestLive, At, Stopped, Unpaid
    <3>4. \A q \in Workers : req'[q].order # o
      BY <1>a, <1>b, <2>1
    <3>5. \A x \in Orders \ {o} : KeepsPage(x)
      BY <3>1 DEF KeepsPage
    <3>6. DraftIsStopped(o)'
      BY <3>3 DEF DraftIsStopped
    <3> QED BY <1>a, <1>b, <1>d, <2>1, <3>4, <3>5, <3>6, LiveStep
  <2>3. CASE row[o].status # "pending_payment"
    <3>1. row' = row
      BY <1>9, <2>1, <2>3 DEF HandBackDraft
    <3> QED BY <1>a, <1>b, <1>c, <1>d, <2>1, <3>1, LiveStep
  <2> QED BY <2>2, <2>3
<1>10. ASSUME NEW p \in Workers, RecordSession(p) PROVE LiveInv'
  <2> DEFINE s == req[p].session
  <2>1. PICK o \in Orders :
        /\ o = req[p].order /\ row[o].status # "draft" /\ At(p, "recordSession")
        /\ \A q \in Workers : req[q].order = o => q = p
    BY <1>10, AtWorkAlone DEF RecordSession, At, Idle, RequestLive
  <2>2. PICK intent \in {s, None} :
          Write(o, [row[o] EXCEPT !.method = "card", !.session = s, !.intent = intent])
    BY <1>10, <2>1 DEF RecordSession
  <2>3. /\ row'[o] = [row[o] EXCEPT !.method = "card", !.session = s, !.intent = intent]
        /\ \A x \in Orders \ {o} : row'[x] = row[x]
    BY <1>a, <2>1, <2>2, WriteEffect
  <2>4. row'[o].status # "draft"
    BY <1>a, <2>1, <2>3 DEF TypeOK, OrderRow
  <2>5. DeadStayDead
    BY <1>10, <1>a, <1>d DEF RecordSession, DeadStayDead, Dead, TypeOK
  <2>6. /\ Done(p) \/ Goto(p, "expireOld")
        /\ req'[p].order \in Orders => RequestLive(p)'
        /\ \A q \in Workers \ {p} : req'[q] = req[q]
    <3>1. Done(p) \/ Goto(p, "expireOld")
      BY <1>10 DEF RecordSession
    <3> QED BY <1>a, <1>b, <3>1 DEF RequestLive
  <2>7. /\ DraftIsStopped(o)'
        /\ \A q \in Workers : req'[q].order = o => RequestLive(q)'
    BY <2>1, <2>4, <2>6 DEF DraftIsStopped
  <2>8. \A x \in Orders \ {o} : KeepsPage(x)
    BY <2>3 DEF KeepsPage
  <2> QED BY <1>a, <2>5, <2>6, <2>7, <2>8, LiveStep
<1>11. ASSUME NEW p \in Workers, ExpireOld(p) PROVE LiveInv'
  <2>1. row' = row /\ Done(p)
    BY <1>11 DEF ExpireOld
  <2>2. DeadStayDead
    BY <1>11, <1>a DEF ExpireOld, DeadStayDead, Dead, TypeOK
  <2> QED BY <1>a, <1>b, <1>c, <2>1, <2>2, LiveStep
<1>12. ASSUME NEW p \in Workers, NEW o \in Orders, CancelRelease(p, o) PROVE LiveInv'
  <2>1. /\ stripe' = stripe
        /\ req'[p].step = "cancelClaim" /\ \A q \in Workers \ {p} : req'[q] = req[q]
    BY <1>12, <1>a DEF CancelRelease, NoRequest, TypeOK
  <2>2. \A x \in Orders : KeepsPage(x)
    BY <1>12, <1>a, ReleaseKeepsPages DEF CancelRelease, KeepsPage
  <2>3. RequestLive(p)'
    BY <2>1 DEF RequestLive
  <2> QED BY <1>a, <1>d, <2>1, <2>2, <2>3, LiveStep
\* What closes an order takes its page with it.
<1>13. ASSUME NEW p \in Workers, NEW o \in Orders,
              Write(o, [row[o] EXCEPT !.status = "cancelled"]) \/ row' = row,
              stripe' = stripe, Done(p) \/ (\E st \in {"creditWallet"} : Goto(p, st))
       PROVE  LiveInv'
  <2>1. \A x \in Orders : KeepsPage(x)
    <3>1. "cancelled" \in OrderStatus \ {"draft"} /\ "cancelled" \notin Unpaid
      BY Names, StagesApart
    <3> QED BY <1>13, <1>a, <1>c, <3>1, StatusKeepsPages
  <2>2. /\ \A q \in Workers \ {p} : req'[q] = req[q]
        /\ req'[p].order \in Orders => RequestLive(p)'
    BY <1>13, <1>a, <1>b DEF RequestLive
  <2> QED BY <1>13, <1>a, <1>d, <2>1, <2>2, LiveStep
<1>14. ASSUME NEW p \in Workers, CancelClaim(p) PROVE LiveInv'
  BY <1>13, <1>14, AtWorkAlone DEF CancelClaim, At, Idle
<1>15. ASSUME NEW p \in Workers, ReleaseOrder(p) PROVE LiveInv'
  BY <1>13, <1>15, AtWorkAlone DEF ReleaseOrder, At, Idle
<1>16. ASSUME NEW p \in Workers, RefundWallet(p) PROVE LiveInv'
  BY <1>13, <1>16, AtWorkAlone DEF RefundWallet, At, Idle
<1>17. ASSUME NEW p \in Workers, CreditWalletPortion(p) PROVE LiveInv'
  BY <1>13, <1>17, AtWorkAlone DEF CreditWalletPortion, At, Idle
<1>18. ASSUME NEW p \in Workers, NEW s \in Sessions, FlipToDraft(p, s) PROVE LiveInv'
  <2> DEFINE o == stripe[s].order
  <2>1. o \in Orders /\ stripe' = stripe
    BY <1>18 DEF FlipToDraft, Dead, TypeInv, SessionsOfOrders
  <2>2. /\ row'[o] = [row[o] EXCEPT !.status = "draft"]
        /\ \A x \in Orders \ {o} : row'[x] = row[x]
    BY <1>18, <1>a, <2>1, WriteEffect DEF FlipToDraft
  <2>3. row'[o].session = row[o].session
    BY <1>a, <2>1, <2>2 DEF TypeOK, OrderRow
  <2>4. DraftIsStopped(o)'
    BY <1>18, <2>1, <2>3 DEF FlipToDraft, ReleasableBy, DraftIsStopped, Stopped
  <2>5. /\ req'[p].step = "releaseAfterEvent" /\ req'[p].order = o
        /\ \A q \in Workers \ {p} : req'[q] = req[q]
    BY <1>18, <1>a DEF FlipToDraft, NoRequest, TypeOK
  <2>6. RequestLive(p)'
    BY <2>5 DEF RequestLive
  <2>7. \A q \in Workers : req'[q].order = o => RequestLive(q)'
    BY <1>a, <2>1, <2>5, <2>6 DEF RequestsDoNotOverlap
  <2>8. \A x \in Orders \ {o} : KeepsPage(x)
    BY <2>2 DEF KeepsPage
  <2> QED BY <1>a, <1>d, <2>1, <2>4, <2>5, <2>6, <2>7, <2>8, LiveStep
<1>19. ASSUME NEW p \in Workers, ReleaseAfterEvent(p) PROVE LiveInv'
  <2>1. req[p].order \in Orders /\ Done(p) /\ stripe' = stripe
    BY <1>19, AtWorkAlone DEF ReleaseAfterEvent, At, Idle
  <2>2. \A x \in Orders : KeepsPage(x)
    BY <1>19, <1>a, <2>1, ReleaseKeepsPages DEF ReleaseAfterEvent, KeepsPage
  <2> QED BY <1>a, <1>b, <1>d, <2>1, <2>2, LiveStep
<1>20. ASSUME NEW p \in Workers, NEW o \in Orders, RefundRead(p, o) PROVE LiveInv'
  <2>1. /\ UNCHANGED <<row, stripe>>
        /\ req'[p].step \in {"refundWallet", "refundCard"}
        /\ \A q \in Workers \ {p} : req'[q] = req[q]
    BY <1>20, <1>a DEF RefundRead, NoRequest, TypeOK
  <2>2. RequestLive(p)'
    BY <2>1 DEF RequestLive
  <2> QED BY <1>a, <1>c, <1>d, <2>1, <2>2, LiveStep
<1>21. ASSUME NEW p \in Workers, RefundCard(p) PROVE LiveInv'
  <2>1. UNCHANGED <<row, stripe>> /\ (Done(p) \/ Goto(p, "releaseOrder"))
    BY <1>21 DEF RefundCard
  <2>2. /\ \A q \in Workers \ {p} : req'[q] = req[q]
        /\ req'[p].order \in Orders => RequestLive(p)'
    BY <1>a, <1>b, <2>1 DEF RequestLive
  <2> QED BY <1>a, <1>c, <1>d, <2>1, <2>2, LiveStep
<1>22. ASSUME NEW p \in Workers, Crash(p) PROVE LiveInv'
  <2>1. UNCHANGED <<row, stripe>> /\ Done(p)
    BY <1>22 DEF Crash
  <2> QED BY <1>a, <1>b, <1>c, <1>d, <2>1, LiveStep
<1>23. ASSUME NEW o \in Orders, PayOrder(o) PROVE LiveInv'
  <2>1. UNCHANGED <<stripe, req>> /\ PayByWallet(o)
    BY <1>23 DEF PayOrder
  <2> QED BY <1>a, <1>d, <2>1, WalletKeepsPages, LiveStep
<1>24. ASSUME NEW o \in Orders, MoveCard(o) PROVE LiveInv'
  <2>1. UNCHANGED <<stripe, req>>
    BY <1>24 DEF MoveCard
  <2>2. PICK to \in JobStatus :
          IF OrderAfter(row[o].status, to) = row[o].status
          THEN row' = row
          ELSE Write(o, [row[o] EXCEPT !.status = OrderAfter(row[o].status, to)])
    BY <1>24 DEF MoveCard
  <2>3. CASE OrderAfter(row[o].status, to) = row[o].status
    BY <1>a, <1>c, <1>d, <2>1, <2>2, <2>3, LiveStep
  <2>4. CASE OrderAfter(row[o].status, to) # row[o].status
    <3>1. PICK st : st = OrderAfter(row[o].status, to)
      OBVIOUS
    <3>2. st \in {"fulfilling", "completed"}
      BY <2>4, <3>1 DEF OrderAfter
    <3>3. st \in OrderStatus \ {"draft"} /\ st \notin Unpaid
      BY <3>2 DEF OrderStatus, Settled, Unpaid
    <3>4. \A x \in Orders : KeepsPage(x)
      BY <1>a, <2>2, <2>4, <3>1, <3>3, StatusKeepsPages
    <3> QED BY <1>a, <1>d, <2>1, <3>4, LiveStep
  <2> QED BY <2>3, <2>4
<1>25. ASSUME NEW s \in Sessions, PaymentSettles(s) PROVE LiveInv'
  <2> DEFINE o == stripe[s].order
  <2>1. UNCHANGED <<stripe, req>> /\ o \in Orders
    BY <1>25 DEF PaymentSettles, TypeInv, SessionsOfOrders
  <2>2. /\ row'[o] = [row[o] EXCEPT !.status = "paid", !.session = s]
        /\ \A x \in Orders \ {o} : row'[x] = row[x]
    BY <1>25, <1>a, <2>1, WriteEffect DEF PaymentSettles
  <2>3. row'[o].status = "paid"
    BY <1>a, <2>1, <2>2 DEF TypeOK, OrderRow
  <2>4. \A x \in Orders : KeepsPage(x)
    BY <2>2, <2>3, StagesApart DEF KeepsPage
  <2> QED BY <1>a, <1>d, <2>1, <2>4, LiveStep
<1>26. ASSUME NEW s \in Sessions, SessionMoves(s) PROVE LiveInv'
  <2>1. UNCHANGED <<row, req>>
    BY <1>26 DEF SessionMoves
  <2>2. DeadStayDead
    BY <1>26, <1>a DEF SessionMoves, SessionSteps, DeadStayDead, Dead, TypeOK
  <2> QED BY <1>a, <1>c, <2>1, <2>2, LiveStep
<1>27. ASSUME UNCHANGED <<row, stripe, req>> PROVE LiveInv'
  BY <1>27, <1>a, <1>c, <1>d, LiveStep
<1>28. ASSUME NEW t \in TopUps, ApplyTopup(t) PROVE LiveInv'
  BY <1>27, <1>28 DEF ApplyTopup
<1>29. ASSUME NEW s \in Sessions, PaymentAnomaly(s) PROVE LiveInv'
  BY <1>27, <1>29 DEF PaymentAnomaly
<1>30. ASSUME UNCHANGED vars PROVE LiveInv'
  BY <1>27, <1>30 DEF vars
<1> QED
  BY <1>1, <1>2, <1>3, <1>4, <1>5, <1>6, <1>7, <1>8, <1>9, <1>10, <1>11, <1>12, <1>14, <1>15, <1>16, <1>17, <1>18, <1>19, <1>20, <1>21, <1>22, <1>23, <1>24, <1>25, <1>26, <1>28, <1>29, <1>30 DEF Next, Receive, Continue

\* While the requests on one order do not overlap, crashes or not, an order whose
\* page can still be paid is never sent back to draft, where its payment would
\* find no order waiting: however late the events of older pages come.
THEOREM LivePageFindsItsOrder == Spec /\ []RequestsDoNotOverlap => []LiveSessionKeepsOrder
<1>1. Init => TypeInv /\ LiveInv
  BY TypeInit, LiveInit
<1>2. /\ TypeInv /\ LiveInv /\ RequestsDoNotOverlap /\ RequestsDoNotOverlap' /\ [Next]_vars
      => TypeInv' /\ LiveInv'
  BY TypeStep, LiveNext
<1>3. LiveInv => LiveSessionKeepsOrder
  BY DEF LiveInv, DraftIsStopped, Stopped, Dead, LiveSessionKeepsOrder, Unpaid
<1> QED BY <1>1, <1>2, <1>3, PTL DEF Spec

-------------------------------------------------------------------------------
(* What holds while nothing crashes and the requests on one order do not    *)
(* overlap: the ledger is exact, the sessions of an order are the ones its *)
(* row and its request know of, and a refund pays back all that is owed.   *)
(* Requests on other orders, payments from the wallet, cards, the bank and *)
(* Stripe's clock may still come between any two steps of a request.       *)

\* Idle workers serve no order, and an unused session is no order's.
Unclaimed == /\ \A p \in Workers : Idle(p) => req[p].order = None
             /\ \A s \in Sessions : stripe[s].state = "unused" => stripe[s].order = None

SessionOf(s, o) == s \in Sessions /\ stripe[s].order = o

\* A draft reserves nothing; what a session paid and a refund closed has been
\* given back.
Released(o) == row[o].status = "draft" => row[o].applied = 0

Returned(o) == row[o].status = "cancelled" /\ settledBy[o] \in Sessions =>
                 row[o].applied = 0 \/ o \in creditedBack

\* What holds of an order whatever request is at work on it.
OrderAlone(o) ==
  /\ walletPaid[o] = Owed(o)
  /\ settledBy[o] = "wallet" => row[o].method = "wallet"
  /\ row[o].session # None => SessionOf(row[o].session, o)
  /\ row[o].intent # None => SessionOf(row[o].intent, o)
  /\ stripeRefund[o] # None => /\ SessionOf(stripeRefund[o], o)
                               /\ stripe[stripeRefund[o]].state = "paid"

\* What holds between requests ...
AtRest(o) == Released(o) /\ Returned(o)

\* ... and, while one is at work, all of it but what that step has yet to do.
RequestAlone(p) ==
  LET o == req[p].order
      at == req[p].step
  IN /\ at # "releaseAfterEvent" => Released(o)
     /\ at # "creditWallet" => Returned(o)
     /\ at \in {"payFromWallet", "reserve", "claimResume", "createSession",
               "recordSession", "expireOld"} =>
          (req[p].old # None => SessionOf(req[p].old, o))
     /\ at \in {"createSession", "recordSession"} => settledBy[o] # "wallet"
     /\ at = "handBackDraft" => (row[o].status \in Unpaid => row[o].applied = 0)
     /\ at \in {"recordSession", "expireOld", "refundCard"} => SessionOf(req[p].session, o)
     /\ at \in {"refundCard", "releaseOrder", "creditWallet"} => settledBy[o] # "wallet"

AloneInv ==
  /\ Unclaimed
  /\ \A o \in Orders : OrderAlone(o)
  /\ \A o \in Orders : (\A p \in Workers : req[p].order # o) => AtRest(o)
  /\ \A p \in Workers : req[p].order \in Orders => RequestAlone(p)

\* All of it, and the theorems' hypothesis on the requests.
Known == IInv /\ SettledInv /\ LiveInv /\ AloneInv /\ RequestsDoNotOverlap

\* The step touches the row, the money and the settlement of no other order,
\* and the sessions of no other order.
OnlyRowOf(o) ==
  \A x \in Orders \ {o} :
    /\ row'[x] = row[x] /\ walletPaid'[x] = walletPaid[x]
    /\ settledBy'[x] = settledBy[x] /\ stripeRefund'[x] = stripeRefund[x]
    /\ x \in creditedBack' <=> x \in creditedBack

OnlySessionsOf(o) ==
  \A s \in Sessions :
    \/ stripe'[s] = stripe[s]
    \/ /\ stripe[s].order \in {o, None} /\ stripe'[s].order = o
       /\ stripe'[s].state # "unused"

\* What is known of order x survives a step that is another order's.
LEMMA OthersAlone ==
  ASSUME Known, NEW o \in Orders, OnlyRowOf(o), OnlySessionsOf(o), NEW x \in Orders, x # o
  PROVE  /\ OrderAlone(x)'
         /\ AtRest(x) => AtRest(x)'
         /\ \A q \in Workers :
              req'[q] = req[q] /\ req[q].order = x /\ RequestAlone(q) => RequestAlone(q)'
<1>1. /\ row'[x] = row[x] /\ walletPaid'[x] = walletPaid[x] /\ settledBy'[x] = settledBy[x]
      /\ stripeRefund'[x] = stripeRefund[x] /\ (x \in creditedBack' <=> x \in creditedBack)
  BY DEF OnlyRowOf
<1>2. \A s \in Sessions : stripe[s].order = x => stripe'[s] = stripe[s]
  BY DEF OnlySessionsOf
<1>3. OrderAlone(x)
  BY DEF Known, AloneInv
<1>4. \A s : SessionOf(s, x) => SessionOf(s, x)' /\ stripe'[s] = stripe[s]
  BY <1>1, <1>2, <1>3 DEF SessionOf, OrderAlone
<1>5. Owed(x)' = Owed(x)
  BY <1>1 DEF Owed
<1>6. OrderAlone(x)'
  BY <1>1, <1>2, <1>3, <1>4, <1>5 DEF OrderAlone
<1>7. /\ Released(x) => Released(x)'
      /\ Returned(x) => Returned(x)'
  BY <1>1 DEF Released, Returned
<1>8. ASSUME NEW q \in Workers, req'[q] = req[q], req[q].order = x, RequestAlone(q)
      PROVE  RequestAlone(q)'
  BY <1>1, <1>2, <1>4, <1>7, <1>8 DEF RequestAlone
<1> QED BY <1>6, <1>7, <1>8 DEF AtRest

\* A step of worker p, the only one at work on order o before or after it.
LEMMA WorkerAlone ==
  ASSUME Known, RequestsDoNotOverlap', NEW o \in Orders, NEW p \in Workers,
         OnlyRowOf(o), OnlySessionsOf(o),
         \A q \in Workers \ {p} : req'[q] = req[q],
         req[p].order \in {o, None}, req'[p].order \in {o, None},
         req[p].order = o \/ req'[p].order = o,
         req'[p].step = "idle" => req'[p].order = None,
         OrderAlone(o)',
         IF req'[p].order = o THEN RequestAlone(p)' ELSE AtRest(o)'
  PROVE  AloneInv'
<1>1. None \notin Orders
  OBVIOUS
<1>2. \A q \in Workers \ {p} : req'[q].order # o
  BY <1>1 DEF Known, RequestsDoNotOverlap
<1>3. Unclaimed'
  BY DEF Known, AloneInv, Unclaimed, Idle, OnlySessionsOf
<1>4. ASSUME NEW x \in Orders PROVE OrderAlone(x)'
  BY <1>4, OthersAlone
<1>5. ASSUME NEW x \in Orders, \A q \in Workers : req'[q].order # x PROVE AtRest(x)'
  <2>1. CASE x = o
    BY <1>5, <2>1
  <2>2. CASE x # o
    <3>1. \A q \in Workers : req[q].order # x
      BY <1>1, <1>5, <2>2
    <3> QED BY <2>2, <3>1, OthersAlone DEF Known, AloneInv
  <2> QED BY <2>1, <2>2
<1>6. ASSUME NEW q \in Workers, req'[q].order \in Orders PROVE RequestAlone(q)'
  <2>1. CASE q = p
    BY <1>1, <1>6, <2>1
  <2>2. CASE q # p
    <3>1. req'[q] = req[q] /\ req[q].order \in Orders \ {o} /\ RequestAlone(q)
      BY <1>2, <1>6, <2>2 DEF Known, AloneInv
    <3> QED BY <3>1, OthersAlone
  <2> QED BY <2>1, <2>2
<1> QED BY <1>3, <1>4, <1>5, <1>6 DEF AloneInv

\* A step on order o that is no request's.
LEMMA OutsideAlone ==
  ASSUME Known, NEW o \in Orders, OnlyRowOf(o), OnlySessionsOf(o), req' = req,
         OrderAlone(o)', AtRest(o) => AtRest(o)',
         \A q \in Workers : req[q].order = o /\ RequestAlone(q) => RequestAlone(q)'
  PROVE  AloneInv'
<1>1. Unclaimed'
  BY DEF Known, AloneInv, Unclaimed, Idle, OnlySessionsOf
<1>2. ASSUME NEW x \in Orders PROVE OrderAlone(x)'
  BY <1>2, OthersAlone
<1>3. ASSUME NEW x \in Orders, \A q \in Workers : req'[q].order # x PROVE AtRest(x)'
  <2>1. AtRest(x)
    BY <1>3 DEF Known, AloneInv
  <2> QED BY <2>1, OthersAlone
<1>4. ASSUME NEW q \in Workers, req'[q].order \in Orders PROVE RequestAlone(q)'
  <2>1. RequestAlone(q)
    BY <1>4 DEF Known, AloneInv
  <2> QED BY <1>4, <2>1, OthersAlone
<1> QED BY <1>1, <1>2, <1>3, <1>4 DEF AloneInv

\* The request at work on an order, and none when one is about to begin.
LEMMA AtWork ==
  ASSUME Known, NEW p \in Workers, ~Idle(p)
  PROVE  /\ req[p] \in Request /\ req[p].order \in Orders
         /\ RequestAlone(p) /\ OrderAlone(req[p].order)
         /\ RequestLive(p) /\ DraftIsStopped(req[p].order)
         /\ RequestMoney(p) /\ RequestSettled(p) /\ OrderSettled(req[p].order)
<1>1. req[p] \in Request /\ req[p].order \in Orders
  BY DEF Known, IInv, TypeInv, TypeOK, Serving, Idle
<1> QED BY <1>1 DEF Known, AloneInv, IInv, MoneyInv, SettledInv, LiveInv

LEMMA Beginning ==
  ASSUME Known, RequestsDoNotOverlap', NEW p \in Workers, Idle(p), NEW o \in Orders,
         req'[p].order = o, \A q \in Workers \ {p} : req'[q] = req[q]
  PROVE  AtRest(o) /\ OrderAlone(o) /\ OrderSettled(o) /\ req[p].order = None
<1>1. None \notin Orders /\ req[p].order = None
  BY DEF Known, AloneInv, Unclaimed
<1>2. \A q \in Workers : req[q].order # o
  BY <1>1 DEF RequestsDoNotOverlap
<1> QED BY <1>1, <1>2 DEF Known, AloneInv, SettledInv

\* A step that only moves one order's request along.
LEMMA OnlyRequestMoves ==
  ASSUME Known, RequestsDoNotOverlap', NEW o \in Orders, NEW p \in Workers,
         UNCHANGED <<row, walletPaid, creditedBack, stripe, stripeRefund, settledBy>>,
         \A q \in Workers \ {p} : req'[q] = req[q],
         req[p].order \in {o, None}, req'[p].order \in {o, None},
         req[p].order = o \/ req'[p].order = o,
         req'[p].step = "idle" => req'[p].order = None,
         IF req'[p].order = o THEN RequestAlone(p)' ELSE AtRest(o)
  PROVE  AloneInv'
<1>1. OnlyRowOf(o) /\ OnlySessionsOf(o)
  BY DEF OnlyRowOf, OnlySessionsOf
<1>2. OrderAlone(o)' /\ (AtRest(o) => AtRest(o)')
  BY DEF Known, AloneInv, OrderAlone, Owed, SessionOf, AtRest, Released,
         Returned
<1> QED BY <1>1, <1>2, WorkerAlone

\* A release leaves no reservation on an unpaid order, and the ledger exact.
LEMMA ReleaseAlone ==
  ASSUME Known, NEW o \in Orders, ReleaseReservation(o),
         UNCHANGED <<creditedBack, stripe, stripeRefund, settledBy>>
  PROVE  /\ OnlyRowOf(o) /\ OnlySessionsOf(o) /\ OrderAlone(o)'
         /\ row[o].status \in Unpaid => row'[o].applied = 0
         /\ row[o].status \notin Unpaid => row'[o].applied = row[o].applied
         /\ row'[o].status = row[o].status /\ row'[o].session = row[o].session
<1>1. IInv /\ TypeOK /\ OrderAlone(o) /\ OrderMoney(o) /\ OrderSettled(o)
  BY DEF Known, IInv, TypeInv, AloneInv, MoneyInv, SettledInv
<1>2. OnlySessionsOf(o)
  BY DEF OnlySessionsOf
<1>3. CASE row[o].status \in Unpaid /\ row[o].applied > 0
  <2>1. /\ row'[o] = [row[o] EXCEPT !.applied = 0]
        /\ \A x \in Orders \ {o} : row'[x] = row[x]
    BY <1>1, <1>3, WriteEffect DEF ReleaseReservation
  <2>2. /\ walletPaid'[o] = walletPaid[o] - row[o].applied
        /\ \A x \in Orders \ {o} : walletPaid'[x] = walletPaid[x]
    BY <1>1, <1>3, EntryEffect, OrderFacts DEF ReleaseReservation
  <2>3. /\ row'[o].applied = 0 /\ row'[o].status = row[o].status
        /\ row'[o].method = row[o].method /\ row'[o].session = row[o].session
        /\ row'[o].intent = row[o].intent
    BY <1>1, <2>1, OrderFacts DEF OrderRow
  <2>4. walletPaid'[o] = Owed(o)'
    <3>1. o \notin creditedBack /\ settledBy[o] # "wallet"
      BY <1>1, <1>3 DEF OrderMoney, OrderSettled
    <3> QED BY <1>1, <2>2, <2>3, <3>1, OrderFacts DEF OrderAlone, Owed
  <2>5. OrderAlone(o)'
    BY <1>1, <2>3, <2>4 DEF OrderAlone, SessionOf
  <2>6. OnlyRowOf(o)
    BY <2>1, <2>2 DEF OnlyRowOf
  <2> QED BY <1>2, <1>3, <2>3, <2>5, <2>6
<1>4. CASE ~(row[o].status \in Unpaid /\ row[o].applied > 0)
  <2>1. UNCHANGED <<row, walletPaid>>
    BY <1>4 DEF ReleaseReservation
  <2>2. OnlyRowOf(o) /\ OrderAlone(o)'
    BY <1>1, <2>1 DEF OnlyRowOf, OrderAlone, Owed, SessionOf
  <2>3. row[o].status \in Unpaid => row[o].applied = 0
    BY <1>1, <1>4, OrderFacts DEF OrderMoney
  <2> QED BY <1>2, <2>1, <2>2, <2>3
<1> QED BY <1>3, <1>4

LEMMA PayByWalletAlone ==
  ASSUME Known, NEW o \in Orders, WalletCovers(o), PayByWallet(o),
         UNCHANGED <<creditedBack, stripe, stripeRefund>>
  PROVE  /\ OnlyRowOf(o) /\ OnlySessionsOf(o) /\ OrderAlone(o)'
         /\ row'[o].status = "paid" /\ row'[o].session = row[o].session
<1>1. IInv /\ TypeOK /\ OrderAlone(o) /\ OrderMoney(o) /\ OrderSettled(o)
  BY DEF Known, IInv, TypeInv, AloneInv, MoneyInv, SettledInv
<1>2. /\ row'[o] = [row[o] EXCEPT !.status = "paid", !.method = "wallet"]
      /\ \A x \in Orders \ {o} : row'[x] = row[x]
  BY <1>1, WriteEffect DEF PayByWallet
<1>3. /\ walletPaid'[o] = walletPaid[o] + Total[o]
      /\ \A x \in Orders \ {o} : walletPaid'[x] = walletPaid[x]
  <2>1. -Total[o] \in Int /\ walletPaid[o] \in Int /\ Total[o] \in Int
    BY <1>1, OrderFacts
  <2> QED BY <1>1, <2>1, EntryEffect DEF PayByWallet
<1>4. settledBy'[o] = "wallet" /\ \A x \in Orders \ {o} : settledBy'[x] = settledBy[x]
  BY <1>1 DEF PayByWallet, Settle, TypeOK
<1>5. /\ row'[o].status = "paid" /\ row'[o].method = "wallet"
      /\ row'[o].applied = row[o].applied /\ row'[o].session = row[o].session
      /\ row'[o].intent = row[o].intent
  BY <1>1, <1>2, OrderFacts DEF OrderRow
<1>6. walletPaid'[o] = Owed(o)'
  <2>1. settledBy[o] # "wallet"
    BY <1>1, StagesApart DEF WalletCovers, OrderSettled
  <2> QED BY <1>1, <1>3, <1>4, <1>5, <2>1, OrderFacts, StagesApart DEF OrderAlone, Owed
<1>7. OrderAlone(o)'
  BY <1>1, <1>5, <1>6 DEF OrderAlone, SessionOf
<1>8. OnlyRowOf(o) /\ OnlySessionsOf(o)
  BY <1>2, <1>3, <1>4 DEF OnlyRowOf, OnlySessionsOf
<1> QED BY <1>5, <1>7, <1>8

\* A write of the status alone; money moves only as the status demands.
LEMMA StatusAlone ==
  ASSUME Known, NEW o \in Orders, NEW st \in OrderStatus,
         Write(o, [row[o] EXCEPT !.status = st]),
         UNCHANGED <<creditedBack, stripe, stripeRefund, settledBy>>,
         \A x \in Orders \ {o} : walletPaid'[x] = walletPaid[x],
         walletPaid'[o] = walletPaid[o]
           - (IF settledBy[o] = "wallet" /\ row[o].status \in Settled /\ st \notin Settled
              THEN Total[o] ELSE 0),
         st \in Settled => row[o].status \in Settled
  PROVE  /\ OnlyRowOf(o) /\ OnlySessionsOf(o) /\ OrderAlone(o)'
         /\ row'[o].status = st /\ row'[o].applied = row[o].applied
         /\ row'[o].session = row[o].session
<1>1. IInv /\ TypeOK /\ OrderAlone(o)
  BY DEF Known, IInv, TypeInv, AloneInv
<1>2. /\ row'[o] = [row[o] EXCEPT !.status = st]
      /\ \A x \in Orders \ {o} : row'[x] = row[x]
  BY <1>1, WriteEffect
<1>3. /\ row'[o].status = st /\ row'[o].method = row[o].method
      /\ row'[o].applied = row[o].applied /\ row'[o].session = row[o].session
      /\ row'[o].intent = row[o].intent
  BY <1>1, <1>2, OrderFacts DEF OrderRow
<1>4. walletPaid'[o] = Owed(o)'
  BY <1>1, <1>3, OrderFacts DEF OrderAlone, Owed
<1>5. OrderAlone(o)'
  BY <1>1, <1>3, <1>4 DEF OrderAlone, SessionOf
<1>6. OnlyRowOf(o) /\ OnlySessionsOf(o)
  BY <1>2 DEF OnlyRowOf, OnlySessionsOf
<1> QED BY <1>3, <1>5, <1>6

LEMMA AloneInit == Init => AloneInv
<1> SUFFICES ASSUME Init PROVE AloneInv
  OBVIOUS
<1>1. Unclaimed
  BY DEF Init, Unclaimed, NoRequest
<1>2. ASSUME NEW o \in Orders PROVE OrderAlone(o) /\ AtRest(o)
  <2>1. /\ row[o].status = "draft" /\ row[o].applied = 0 /\ row[o].session = None
        /\ row[o].intent = None /\ walletPaid[o] = 0 /\ settledBy[o] = None
        /\ stripeRefund[o] = None /\ creditedBack = {}
        /\ \A s \in Sessions : stripe[s].state = "unused"
    BY DEF Init
  <2>2. Owed(o) = 0
    BY <2>1, StagesApart DEF Owed
  <2> QED BY <2>1, <2>2 DEF OrderAlone, AtRest, Released, Returned
<1>3. ASSUME NEW p \in Workers PROVE req[p].order \notin Orders
  BY DEF Init, NoRequest
<1> QED BY <1>1, <1>2, <1>3 DEF AloneInv

LEMMA AloneNext ==
  ASSUME ~MayCrash, Known, IInv', RequestsDoNotOverlap', [Next]_vars
  PROVE  AloneInv'
<1>a. /\ TypeOK /\ SessionsOfOrders /\ req \in [Workers -> Request]
      /\ None \notin Orders /\ None \notin Sessions
      /\ \A x \in Orders : /\ OrderAlone(x) /\ OrderMoney(x) /\ OrderSettled(x)
                           /\ DraftIsStopped(x)
  BY DEF Known, IInv, TypeInv, TypeOK, AloneInv, MoneyInv, SettledInv, LiveInv
<1>b. \A x \in Orders : /\ row[x] \in OrderRow /\ row[x].applied \in Int /\ row[x].applied >= 0
                        /\ walletPaid[x] \in Int /\ Total[x] \in Nat
  BY OrderFacts DEF Known, OrderMoney
<1>c. stripe' = stripe => \A x \in Orders : OnlySessionsOf(x)
  BY DEF OnlySessionsOf
<1> USE DEF ledger
<1>1. ASSUME NEW p \in Workers, PayFromWallet(p) PROVE AloneInv'
  <2>1. ~Idle(p) /\ req[p].step = "payFromWallet"
    BY <1>1 DEF PayFromWallet, At, Idle
  <2>2. PICK o \in Orders : req[p].order = o /\ RequestAlone(p)
    BY <2>1, AtWork
  <2>3. CASE WalletCovers(o)
    <3>1. PayByWallet(o) /\ UNCHANGED <<creditedBack, stripe, stripeRefund>> /\ Done(p)
      BY <1>1, <2>2, <2>3 DEF PayFromWallet
    <3>2. OnlyRowOf(o) /\ OnlySessionsOf(o) /\ OrderAlone(o)' /\ row'[o].status = "paid"
      BY <2>3, <3>1, PayByWalletAlone
    <3>3. AtRest(o)'
      BY <3>2, StagesApart DEF AtRest, Released, Returned
    <3> QED BY <1>a, <2>2, <3>1, <3>2, <3>3, Moved, WorkerAlone
  <2>4. CASE ~WalletCovers(o)
    <3>1. /\ Goto(p, "reserve")
          /\ UNCHANGED <<row, walletPaid, creditedBack, stripe, stripeRefund, settledBy>>
      BY <1>1, <2>2, <2>4 DEF PayFromWallet
    <3>2. /\ req'[p].step = "reserve" /\ req'[p].order = o /\ req'[p].old = req[p].old
          /\ \A q \in Workers \ {p} : req'[q] = req[q]
      BY <1>a, <2>2, <3>1, Moved
    <3>3. RequestAlone(p)'
      BY <2>1, <2>2, <3>1, <3>2 DEF RequestAlone, Released, Returned, SessionOf
    <3> QED BY <2>2, <3>1, <3>2, <3>3, OnlyRequestMoves
  <2> QED BY <2>3, <2>4
<1>2. ASSUME NEW p \in Workers, Reserve(p) PROVE AloneInv'
  <2>1. ~Idle(p) /\ req[p].step = "reserve"
    BY <1>2 DEF Reserve, At, Idle
  <2>2. PICK o \in Orders : req[p].order = o /\ RequestAlone(p)
    BY <2>1, AtWork
  <2>3. CASE row[o].status = "draft"
    <3>1. PICK draw \in Int :
            /\ Write(o, [row[o] EXCEPT !.status = "pending_payment", !.applied = draw])
            /\ Entry(o, -draw) /\ UNCHANGED <<creditedBack, stripe, stripeRefund, settledBy>>
            /\ req' = [req EXCEPT ![p].step = "createSession", ![p].applied = draw,
                                  ![p].fromDraft = TRUE]
      <4>1. CheckoutDraw(balance, Total[o]) \in Int
        <5>1. balance \in Int /\ Total[o] \in Nat
          BY <1>a, <1>b DEF TypeOK
        <5>2. CheckoutDraw(balance, Total[o]) \in Nat
          BY <5>1, DrawType, Zenon
        <5> QED BY <5>2
      <4> QED BY <1>2, <2>2, <2>3, <4>1 DEF Reserve
    <3>2. /\ row'[o] = [row[o] EXCEPT !.status = "pending_payment", !.applied = draw]
          /\ \A x \in Orders \ {o} : row'[x] = row[x]
      BY <1>a, <3>1, WriteEffect
    <3>3. /\ row'[o].status = "pending_payment" /\ row'[o].applied = draw
          /\ row'[o].method = row[o].method /\ row'[o].session = row[o].session
          /\ row'[o].intent = row[o].intent
      BY <1>b, <3>2 DEF OrderRow
    <3>4. /\ walletPaid'[o] = walletPaid[o] + draw
          /\ \A x \in Orders \ {o} : walletPaid'[x] = walletPaid[x]
      <4>1. -draw \in Int
        OBVIOUS
      <4> QED BY <1>a, <1>b, <3>1, <4>1, EntryEffect
    <3>5. settledBy[o] = None /\ o \notin creditedBack /\ row[o].applied = 0 /\ Stopped(o)
      <4>1. Released(o)
        BY <2>1, <2>2 DEF RequestAlone
      <4> QED BY <1>a, <2>3, <4>1, StagesApart
          DEF OrderSettled, OrderMoney, OrderAlone, Released, DraftIsStopped
    <3>6. walletPaid'[o] = Owed(o)'
      BY <1>a, <3>1, <3>3, <3>4, <3>5 DEF OrderAlone, Owed
    <3>7. OrderAlone(o)'
      BY <1>a, <3>1, <3>3, <3>6 DEF OrderAlone, SessionOf
    <3>8. /\ req'[p].step = "createSession" /\ req'[p].order = o /\ req'[p].old = req[p].old
          /\ \A q \in Workers \ {p} : req'[q] = req[q]
      BY <1>a, <2>2, <3>1 DEF Request
    <3>10. RequestAlone(p)'
      BY <1>a, <2>1, <2>2, <3>1, <3>3, <3>5, <3>8
      DEF RequestAlone, Released, Returned, SessionOf
    <3>11. OnlyRowOf(o) /\ OnlySessionsOf(o)
      BY <1>c, <3>1, <3>2, <3>4 DEF OnlyRowOf
    <3> QED BY <2>2, <3>7, <3>8, <3>10, <3>11, WorkerAlone
  <2>4. CASE row[o].status # "draft"
    <3>1. /\ Done(p)
          /\ UNCHANGED <<row, walletPaid, creditedBack, stripe, stripeRefund, settledBy>>
      BY <1>2, <2>2, <2>4 DEF Reserve
    <3>2. AtRest(o)
      BY <2>1, <2>2 DEF RequestAlone, AtRest
    <3> QED BY <1>a, <2>2, <3>1, <3>2, Moved, OnlyRequestMoves
  <2> QED BY <2>3, <2>4
<1>3. ASSUME NEW p \in Workers, ClaimResume(p) PROVE AloneInv'
  <2>1. ~Idle(p) /\ req[p].step = "claimResume"
    BY <1>3 DEF ClaimResume, At, Idle
  <2>2. PICK o \in Orders : req[p].order = o /\ RequestAlone(p)
    BY <2>1, AtWork
  <2>3. UNCHANGED <<row, walletPaid, creditedBack, stripe, stripeRefund, settledBy>>
    BY <1>3, <1>a, <2>2 DEF ClaimResume, Write, TypeOK
  <2>4. AtRest(o)
    BY <2>1, <2>2 DEF RequestAlone, AtRest
  <2>5. CASE Done(p)
    BY <1>a, <2>2, <2>3, <2>4, <2>5, Moved, OnlyRequestMoves
  <2>6. CASE Goto(p, "createSession") /\ row[o].status = "pending_payment"
    <3>1. /\ req'[p].step = "createSession" /\ req'[p].order = o
          /\ req'[p].old = req[p].old /\ req'[p].fromDraft = req[p].fromDraft
          /\ \A q \in Workers \ {p} : req'[q] = req[q]
      BY <1>a, <2>2, <2>6, Moved
    <3>2. settledBy[o] # "wallet"
      BY <1>a, <2>6, StagesApart DEF OrderSettled
    <3>3. RequestAlone(p)'
      BY <2>1, <2>2, <2>3, <2>6, <3>1, <3>2
      DEF RequestAlone, Released, Returned, SessionOf
    <3> QED BY <2>2, <2>3, <3>1, <3>3, OnlyRequestMoves
  <2> QED BY <1>3, <2>2, <2>5, <2>6 DEF ClaimResume
<1>4. ASSUME NEW p \in Workers, NEW s \in Sessions, CreateSession(p, s) PROVE AloneInv'
  <2>1. ~Idle(p) /\ req[p].step = "createSession"
    BY <1>4 DEF CreateSession, At, Idle
  <2>2. PICK o \in Orders : req[p].order = o /\ RequestAlone(p)
    BY <2>1, AtWork
  <2>3. stripe[s].order = None /\ stripe[s].state = "unused"
    BY <1>4 DEF CreateSession, Known, AloneInv, Unclaimed
  <2>4. /\ stripe'[s].state = "created" /\ stripe'[s].order = o
        /\ \A t \in Sessions \ {s} : stripe'[t] = stripe[t]
        /\ UNCHANGED <<row, walletPaid, creditedBack, stripeRefund, settledBy>>
    BY <1>4, <1>a, <2>2 DEF CreateSession, TypeOK
  <2>5. /\ \A t : SessionOf(t, o) => SessionOf(t, o)' /\ stripe'[t] = stripe[t]
        /\ SessionOf(s, o)'
    BY <1>a, <2>3, <2>4 DEF SessionOf
  <2>6. OrderAlone(o)'
    BY <1>a, <2>4, <2>5 DEF OrderAlone, Owed
  <2>7. OnlyRowOf(o) /\ OnlySessionsOf(o)
    BY <2>3, <2>4 DEF OnlyRowOf, OnlySessionsOf
  <2>8. /\ req'[p].step = "recordSession" /\ req'[p].order = o /\ req'[p].session = s
        /\ req'[p].old = req[p].old /\ \A q \in Workers \ {p} : req'[q] = req[q]
    BY <1>4, <1>a, <2>2 DEF CreateSession, Request
  <2>9. RequestAlone(p)'
    BY <2>1, <2>2, <2>4, <2>5, <2>8 DEF RequestAlone, Released, Returned
  <2> QED BY <2>2, <2>6, <2>7, <2>8, <2>9, WorkerAlone
<1>5. ASSUME NEW p \in Workers, CreateSessionFails(p) PROVE AloneInv'
  <2>1. ~Idle(p) /\ req[p].step = "createSession"
    BY <1>5 DEF CreateSessionFails, At, Idle
  <2>2. PICK o \in Orders : req[p].order = o /\ RequestAlone(p)
    BY <2>1, AtWork
  <2>3. UNCHANGED <<row, walletPaid, creditedBack, stripe, stripeRefund, settledBy>>
    BY <1>5 DEF CreateSessionFails
  <2>4. CASE ~req[p].fromDraft
    <3>1. AtRest(o) /\ Done(p)
      BY <1>5, <2>1, <2>2, <2>4 DEF CreateSessionFails, RequestAlone, AtRest
    <3> QED BY <1>a, <2>2, <2>3, <3>1, Moved, OnlyRequestMoves
  <2>5. CASE req[p].fromDraft
    <3>1. /\ req'[p].step = "handBackMoney" /\ req'[p].order = o
          /\ \A q \in Workers \ {p} : req'[q] = req[q]
      BY <1>5, <1>a, <2>2, <2>5, Moved DEF CreateSessionFails
    <3>2. RequestAlone(p)'
      BY <2>1, <2>2, <2>3, <2>5, <3>1
      DEF RequestAlone, Released, Returned, SessionOf
    <3> QED BY <2>2, <2>3, <3>1, <3>2, OnlyRequestMoves
  <2> QED BY <2>4, <2>5
<1>6. ASSUME NEW p \in Workers, HandBackMoney(p) PROVE AloneInv'
  <2>1. ~Idle(p) /\ req[p].step = "handBackMoney"
    BY <1>6 DEF HandBackMoney, At, Idle
  <2>2. PICK o \in Orders : req[p].order = o /\ RequestAlone(p)
    BY <2>1, AtWork
  <2>3. /\ ReleaseReservation(o) /\ Goto(p, "handBackDraft")
        /\ UNCHANGED <<creditedBack, stripe, stripeRefund, settledBy>>
    BY <1>6, <2>2 DEF HandBackMoney
  <2>4. /\ OnlyRowOf(o) /\ OnlySessionsOf(o) /\ OrderAlone(o)'
        /\ row[o].status \in Unpaid => row'[o].applied = 0
        /\ row[o].status \notin Unpaid => row'[o].applied = row[o].applied
        /\ row'[o].status = row[o].status /\ row'[o].session = row[o].session
    BY <2>3, ReleaseAlone
  <2>5. /\ req'[p].step = "handBackDraft" /\ req'[p].order = o
        /\ \A q \in Workers \ {p} : req'[q] = req[q]
    BY <1>a, <2>2, <2>3, Moved
  <2>6. RequestAlone(p)'
    BY <2>1, <2>2, <2>3, <2>4, <2>5, StagesApart
    DEF RequestAlone, Released, Returned, SessionOf
  <2> QED BY <2>2, <2>4, <2>5, <2>6, WorkerAlone
<1>7. ASSUME NEW p \in Workers, HandBackDraft(p) PROVE AloneInv'
  <2>1. ~Idle(p) /\ req[p].step = "handBackDraft"
    BY <1>7 DEF HandBackDraft, At, Idle
  <2>2. PICK o \in Orders : req[p].order = o /\ RequestAlone(p) /\ RequestLive(p)
    BY <2>1, AtWork
  <2>3. /\ Done(p)
        /\ UNCHANGED <<walletPaid, creditedBack, stripe, stripeRefund, settledBy>>
    BY <1>7 DEF HandBackDraft
  <2>4. CASE row[o].status = "pending_payment"
    <3>1. Write(o, [row[o] EXCEPT !.status = "draft"])
      BY <1>7, <2>2, <2>4 DEF HandBackDraft
    <3>2. row[o].applied = 0 /\ Stopped(o)
      BY <2>1, <2>2, <2>4, StagesApart DEF RequestAlone, RequestLive
    <3>3. walletPaid'[o] = walletPaid[o]
             - (IF settledBy[o] = "wallet" /\ row[o].status \in Settled /\ "draft" \notin Settled
                THEN Total[o] ELSE 0)
      BY <1>b, <2>3, <2>4, StagesApart
    <3>4. /\ OnlyRowOf(o) /\ OnlySessionsOf(o) /\ OrderAlone(o)'
          /\ row'[o].status = "draft" /\ row'[o].applied = row[o].applied
          /\ row'[o].session = row[o].session
      <4>1. "draft" \in OrderStatus /\ "draft" \notin Settled
        BY Names, StagesApart
      <4> QED BY <2>3, <3>1, <3>2, <3>3, <4>1, StatusAlone
    <3>5. AtRest(o)'
      BY <2>3, <2>4, <3>2, <3>4, StagesApart DEF AtRest, Released, Returned
    <3> QED BY <1>a, <2>2, <2>3, <3>4, <3>5, Moved, WorkerAlone
  <2>5. CASE row[o].status # "pending_payment"
    <3>1. row' = row /\ AtRest(o)
      BY <1>7, <2>1, <2>2, <2>5 DEF HandBackDraft, RequestAlone, AtRest
    <3> QED BY <1>a, <2>2, <2>3, <3>1, Moved, OnlyRequestMoves
  <2> QED BY <2>4, <2>5
<1>8. ASSUME NEW p \in Workers, RecordSession(p) PROVE AloneInv'
  <2>1. ~Idle(p) /\ req[p].step = "recordSession"
    BY <1>8 DEF RecordSession, At, Idle
  <2>2. PICK o \in Orders : req[p].order = o /\ RequestAlone(p) /\ RequestLive(p)
    BY <2>1, AtWork
  <2>3. PICK s \in Sessions : req[p].session = s /\ stripe[s].order = o
    BY <2>1, <2>2 DEF RequestAlone, SessionOf
  <2>4. PICK i \in {s, None} :
          Write(o, [row[o] EXCEPT !.method = "card", !.session = s, !.intent = i])
    BY <1>8, <2>2, <2>3 DEF RecordSession
  <2>5. UNCHANGED <<walletPaid, creditedBack, stripeRefund, settledBy>>
    BY <1>8 DEF RecordSession
  <2>6. /\ row'[o] = [row[o] EXCEPT !.method = "card", !.session = s, !.intent = i]
        /\ \A x \in Orders \ {o} : row'[x] = row[x]
    BY <1>a, <2>4, WriteEffect
  <2>7. /\ row'[o].status = row[o].status /\ row'[o].applied = row[o].applied
        /\ row'[o].session = s /\ row'[o].intent = i
    BY <1>b, <2>6 DEF OrderRow
  <2>8. /\ req[p].old # None => SessionOf(req[p].old, o)
        /\ row[o].status # "draft" /\ settledBy[o] # "wallet"
        /\ Released(o) /\ Returned(o)
    BY <2>1, <2>2 DEF RequestAlone, RequestLive
  <2>9. walletPaid'[o] = Owed(o)'
    BY <1>a, <2>5, <2>7 DEF OrderAlone, Owed
  <2>10. OnlyRowOf(o)
    BY <2>5, <2>6 DEF OnlyRowOf
  <2>11. Released(o)' /\ Returned(o)'
    BY <2>5, <2>7, <2>8 DEF Released, Returned
  <2>12. CASE req[p].old = None
    <3>1. /\ Done(p)
          /\ stripe' = [stripe EXCEPT ![s].state = IF @ = "created" THEN "open" ELSE @]
      BY <1>8, <2>3, <2>12 DEF RecordSession
    <3>3. /\ \A t \in Sessions \ {s} : stripe'[t] = stripe[t]
          /\ stripe'[s].order = stripe[s].order
          /\ stripe'[s].state = IF stripe[s].state = "created" THEN "open" ELSE stripe[s].state
      BY <1>a, <3>1 DEF TypeOK
    <3>4. /\ \A t : SessionOf(t, o) => /\ SessionOf(t, o)'
                                       /\ stripe[t].state = "paid" => stripe'[t].state = "paid"
          /\ SessionOf(s, o)'
      BY <2>3, <3>3 DEF SessionOf
    <3>5. OrderAlone(o)'
      BY <1>a, <2>5, <2>7, <2>8, <2>9, <3>4 DEF OrderAlone
    <3>6. OnlySessionsOf(o)
      <4>1. stripe[s].state # "unused"
        BY <1>a, <2>3 DEF Known, AloneInv, Unclaimed
      <4> QED BY <2>3, <3>3, <4>1 DEF OnlySessionsOf
    <3>7. AtRest(o)'
      BY <2>11 DEF AtRest
    <3> QED BY <1>a, <2>2, <2>10, <3>1, <3>5, <3>6, <3>7, Moved, WorkerAlone
  <2>13. CASE req[p].old # None
    <3>1. Goto(p, "expireOld") /\ stripe' = stripe
      BY <1>8, <2>3, <2>13 DEF RecordSession
    <3>2. OrderAlone(o)'
      BY <1>a, <2>3, <2>5, <2>7, <2>8, <2>9, <3>1 DEF OrderAlone, SessionOf
    <3>3. /\ req'[p].step = "expireOld" /\ req'[p].order = o /\ req'[p].session = s
          /\ req'[p].old = req[p].old /\ \A q \in Workers \ {p} : req'[q] = req[q]
      BY <1>a, <2>2, <2>3, <3>1, Moved
    <3>4. RequestAlone(p)'
      BY <2>3, <2>5, <2>7, <2>8, <2>11, <3>1, <3>3 DEF RequestAlone, SessionOf
    <3> QED BY <1>c, <2>2, <2>10, <3>1, <3>2, <3>3, <3>4, WorkerAlone
  <2> QED BY <2>12, <2>13
<1>9. ASSUME NEW p \in Workers, ExpireOld(p) PROVE AloneInv'
  <2>1. ~Idle(p) /\ req[p].step = "expireOld"
    BY <1>9 DEF ExpireOld, At, Idle
  <2>2. PICK o \in Orders : req[p].order = o /\ RequestAlone(p)
    BY <2>1, AtWork
  <2>3. PICK s \in Sessions : req[p].session = s /\ stripe[s].order = o
    BY <2>1, <2>2 DEF RequestAlone, SessionOf
  <2>4. Released(o) /\ Returned(o)
    BY <2>1, <2>2 DEF RequestAlone
  <2>5. /\ Done(p)
        /\ UNCHANGED <<row, walletPaid, creditedBack, stripeRefund, settledBy>>
    BY <1>9 DEF ExpireOld
  <2>6. \A t \in Sessions :
          \/ /\ t = req[p].old /\ stripe[t].state \in {"created", "open"}
             /\ stripe'[t] = [stripe[t] EXCEPT !.state = "expired"]
          \/ /\ t = s /\ stripe[t].state = "created"
             /\ stripe'[t] = [stripe[t] EXCEPT !.state = "open"]
          \/ stripe'[t] = stripe[t]
    BY <1>9, <2>3 DEF ExpireOld
  <2>7. \A t \in Sessions : stripe[t] \in [state : SessionState, order : Orders \cup {None},
                                            amount : Int]
    BY <1>a DEF TypeOK
  <2>8. \A t \in Sessions :
          /\ stripe'[t].order = stripe[t].order
          /\ stripe'[t] # stripe[t] => stripe[t].order = o /\ stripe'[t].state # "unused"
    <3>1. \A t \in Sessions : t = req[p].old => stripe[t].order = o
      BY <1>a, <2>1, <2>2 DEF RequestAlone, SessionOf
    <3>2. ASSUME NEW t \in Sessions
          PROVE  /\ stripe'[t].order = stripe[t].order
                 /\ stripe'[t] # stripe[t] => stripe[t].order = o /\ stripe'[t].state # "unused"
      <4>1. CASE stripe'[t] = stripe[t]
        BY <4>1
      <4>2. CASE t = req[p].old /\ stripe'[t] = [stripe[t] EXCEPT !.state = "expired"]
        BY <2>7, <3>1, <4>2
      <4>3. CASE t = s /\ stripe'[t] = [stripe[t] EXCEPT !.state = "open"]
        BY <2>3, <2>7, <4>3
      <4> QED BY <2>6, <4>1, <4>2, <4>3
    <3> QED BY <3>2
  <2>10. \A t \in Sessions : stripe[t].state \in Dead \cup {"paid"} => stripe'[t] = stripe[t]
    BY <2>6 DEF Dead
  <2>11. \A t : SessionOf(t, o) =>
             /\ SessionOf(t, o)'
             /\ stripe[t].state \in Dead \cup {"paid"} => stripe'[t].state = stripe[t].state
    BY <2>8, <2>10 DEF SessionOf
  <2>12. OrderAlone(o)'
    BY <1>a, <2>5, <2>11 DEF OrderAlone, Owed
  <2>13. OnlyRowOf(o) /\ OnlySessionsOf(o)
    BY <2>5, <2>8 DEF OnlyRowOf, OnlySessionsOf
  <2>14. AtRest(o)'
    BY <2>4, <2>5 DEF AtRest, Released, Returned
  <2> QED BY <1>a, <2>2, <2>5, <2>12, <2>13, <2>14, Moved, WorkerAlone
<1>10. ASSUME NEW p \in Workers, ReleaseAfterEvent(p) PROVE AloneInv'
  <2>1. ~Idle(p) /\ req[p].step = "releaseAfterEvent"
    BY <1>10 DEF ReleaseAfterEvent, At, Idle
  <2>2. PICK o \in Orders : req[p].order = o /\ RequestAlone(p)
    BY <2>1, AtWork
  <2>3. /\ ReleaseReservation(o) /\ Done(p)
        /\ UNCHANGED <<creditedBack, stripe, stripeRefund, settledBy>>
    BY <1>10, <2>2 DEF ReleaseAfterEvent
  <2>4. /\ OnlyRowOf(o) /\ OnlySessionsOf(o) /\ OrderAlone(o)'
        /\ row[o].status \in Unpaid => row'[o].applied = 0
        /\ row[o].status \notin Unpaid => row'[o].applied = row[o].applied
        /\ row'[o].status = row[o].status /\ row'[o].session = row[o].session
    BY <2>3, ReleaseAlone
  <2>5. AtRest(o)'
    BY <2>1, <2>2, <2>3, <2>4, StagesApart
    DEF RequestAlone, AtRest, Released, Returned
  <2> QED BY <1>a, <2>2, <2>3, <2>4, <2>5, Moved, WorkerAlone
<1>11. ASSUME NEW p \in Workers, CancelClaim(p) PROVE AloneInv'
  <2>1. ~Idle(p) /\ req[p].step = "cancelClaim"
    BY <1>11 DEF CancelClaim, At, Idle
  <2>2. PICK o \in Orders : req[p].order = o /\ RequestAlone(p)
    BY <2>1, AtWork
  <2>3. /\ Done(p)
        /\ UNCHANGED <<walletPaid, creditedBack, stripe, stripeRefund, settledBy>>
    BY <1>11 DEF CancelClaim
  <2>4. CASE row[o].status \in Unpaid
    <3>1. Write(o, [row[o] EXCEPT !.status = "cancelled"])
      BY <1>11, <2>2, <2>4 DEF CancelClaim
    <3>2. walletPaid'[o] = walletPaid[o]
             - (IF settledBy[o] = "wallet" /\ row[o].status \in Settled /\ "cancelled" \notin Settled
                THEN Total[o] ELSE 0)
      BY <1>b, <2>3, <2>4, StagesApart
    <3>3. /\ OnlyRowOf(o) /\ OnlySessionsOf(o) /\ OrderAlone(o)'
          /\ row'[o].status = "cancelled"
      <4>1. "cancelled" \in OrderStatus /\ "cancelled" \notin Settled
        BY Names, StagesApart
      <4> QED BY <2>3, <3>1, <3>2, <4>1, StatusAlone
    <3>4. AtRest(o)'
      BY <1>a, <2>3, <2>4, <3>3, StagesApart DEF AtRest, Released, Returned, OrderSettled
    <3> QED BY <1>a, <2>2, <2>3, <3>3, <3>4, Moved, WorkerAlone
  <2>5. CASE row[o].status \notin Unpaid
    <3>1. row' = row /\ AtRest(o)
      BY <1>11, <2>1, <2>2, <2>5 DEF CancelClaim, RequestAlone, AtRest
    <3> QED BY <1>a, <2>2, <2>3, <3>1, Moved, OnlyRequestMoves
  <2> QED BY <2>4, <2>5
<1>12. ASSUME NEW p \in Workers, RefundCard(p) PROVE AloneInv'
  <2>1. ~Idle(p) /\ req[p].step = "refundCard"
    BY <1>12 DEF RefundCard, At, Idle
  <2>2. PICK o \in Orders : req[p].order = o /\ RequestAlone(p)
    BY <2>1, AtWork
  <2>3. UNCHANGED <<row, walletPaid, creditedBack, stripe, settledBy>>
    BY <1>12 DEF RefundCard
  <2>4. CASE Done(p) /\ stripeRefund' = stripeRefund
    <3>1. AtRest(o)
      BY <2>1, <2>2 DEF RequestAlone, AtRest
    <3> QED BY <1>a, <2>2, <2>3, <2>4, <3>1, Moved, OnlyRequestMoves
  <2>5. CASE /\ stripe[req[p].session].state = "paid"
             /\ stripeRefund' = [stripeRefund EXCEPT ![o] = req[p].session]
             /\ Goto(p, "releaseOrder")
    <3>1. SessionOf(req[p].session, o)
      BY <2>1, <2>2 DEF RequestAlone
    <3>2. /\ stripeRefund'[o] = req[p].session
          /\ \A x \in Orders \ {o} : stripeRefund'[x] = stripeRefund[x]
      BY <1>a, <2>5 DEF TypeOK
    <3>3. OrderAlone(o)'
      BY <1>a, <2>3, <2>5, <3>1, <3>2 DEF OrderAlone, Owed, SessionOf
    <3>4. /\ req'[p].step = "releaseOrder" /\ req'[p].order = o
          /\ \A q \in Workers \ {p} : req'[q] = req[q]
      BY <1>a, <2>2, <2>5, Moved
    <3>5. RequestAlone(p)'
      BY <2>1, <2>2, <2>3, <3>4 DEF RequestAlone, Released, Returned
    <3>6. OnlyRowOf(o)
      BY <2>3, <3>2 DEF OnlyRowOf
    <3> QED BY <1>c, <2>2, <2>3, <3>3, <3>4, <3>5, <3>6, WorkerAlone
  <2> QED BY <1>12, <2>2, <2>4, <2>5 DEF RefundCard
<1>13. ASSUME NEW p \in Workers, ReleaseOrder(p) PROVE AloneInv'
  <2>1. ~Idle(p) /\ req[p].step = "releaseOrder"
    BY <1>13 DEF ReleaseOrder, At, Idle
  <2>2. PICK o \in Orders : req[p].order = o /\ RequestAlone(p) /\ RequestMoney(p)
    BY <2>1, AtWork
  <2>3. UNCHANGED <<walletPaid, creditedBack, stripe, stripeRefund, settledBy>>
    BY <1>13 DEF ReleaseOrder
  <2>4. /\ settledBy[o] # "wallet" /\ req[p].applied = row[o].applied
        /\ Released(o) /\ Returned(o)
    BY <2>1, <2>2 DEF RequestAlone, RequestMoney
  <2>5. /\ OnlyRowOf(o) /\ OrderAlone(o)' /\ Released(o)'
        /\ row'[o].applied = row[o].applied
    <3>1. CASE row[o].status \in Refundable
      <4>1. Write(o, [row[o] EXCEPT !.status = "cancelled"])
        BY <1>13, <2>2, <3>1 DEF ReleaseOrder
      <4>2. /\ OnlyRowOf(o) /\ OrderAlone(o)' /\ row'[o].status = "cancelled"
            /\ row'[o].applied = row[o].applied
        <5>1. "cancelled" \in OrderStatus /\ "cancelled" \notin Settled
          BY Names, StagesApart
        <5>2. walletPaid'[o] = walletPaid[o]
             - (IF settledBy[o] = "wallet" /\ row[o].status \in Settled /\ "cancelled" \notin Settled
                THEN Total[o] ELSE 0)
          BY <1>b, <2>3, <2>4
        <5> QED BY <2>3, <4>1, <5>1, <5>2, StatusAlone
      <4> QED BY <4>2, StagesApart DEF Released
    <3>2. CASE row[o].status \notin Refundable
      <4>1. row' = row
        BY <1>13, <2>2, <3>2 DEF ReleaseOrder
      <4> QED BY <1>a, <2>3, <2>4, <4>1
          DEF OnlyRowOf, OrderAlone, Owed, SessionOf, Released
    <3> QED BY <3>1, <3>2
  <2>6. CASE req[p].applied > 0
    <3>1. /\ req'[p].step = "creditWallet" /\ req'[p].order = o
          /\ \A q \in Workers \ {p} : req'[q] = req[q]
      BY <1>13, <1>a, <2>2, <2>6, Moved DEF ReleaseOrder
    <3>2. RequestAlone(p)'
      BY <2>3, <2>4, <2>5, <3>1 DEF RequestAlone
    <3> QED BY <1>c, <2>2, <2>3, <2>5, <3>1, <3>2, WorkerAlone
  <2>7. CASE ~(req[p].applied > 0)
    <3>1. Done(p)
      BY <1>13, <2>7 DEF ReleaseOrder
    <3>2. AtRest(o)'
      BY <1>b, <2>4, <2>5, <2>7 DEF AtRest, Returned
    <3> QED BY <1>a, <1>c, <2>2, <2>3, <2>5, <3>1, <3>2, Moved, WorkerAlone
  <2> QED BY <2>6, <2>7
<1>14. ASSUME NEW p \in Workers, CreditWalletPortion(p) PROVE AloneInv'
  <2>1. ~Idle(p) /\ req[p].step = "creditWallet"
    BY <1>14 DEF CreditWalletPortion, At, Idle
  <2>2. PICK o \in Orders : req[p].order = o /\ RequestAlone(p) /\ RequestMoney(p)
    BY <2>1, AtWork
  <2>3. UNCHANGED <<row, stripe, stripeRefund, settledBy>> /\ Done(p)
    BY <1>14 DEF CreditWalletPortion
  <2>4. /\ settledBy[o] # "wallet" /\ req[p].applied = row[o].applied
        /\ Released(o)
    BY <2>1, <2>2 DEF RequestAlone, RequestMoney
  <2>5. /\ OnlyRowOf(o) /\ o \in creditedBack' /\ walletPaid'[o] = Owed(o)'
    <3>1. CASE o \notin creditedBack
      <4>1. /\ walletPaid'[o] = walletPaid[o] - row[o].applied
            /\ \A x \in Orders \ {o} : walletPaid'[x] = walletPaid[x]
            /\ creditedBack' = creditedBack \cup {o}
        BY <1>14, <1>a, <1>b, <2>2, <2>4, <3>1, EntryEffect DEF CreditWalletPortion
      <4>2. walletPaid[o] = row[o].applied
        BY <1>a, <1>b, <2>4, <3>1 DEF OrderAlone, Owed
      <4> QED BY <1>b, <2>3, <2>4, <4>1, <4>2 DEF OnlyRowOf, Owed
    <3>2. CASE o \in creditedBack
      <4>1. UNCHANGED <<walletPaid, creditedBack>>
        BY <1>14, <2>2, <3>2 DEF CreditWalletPortion
      <4> QED BY <1>a, <2>3, <3>2, <4>1 DEF OnlyRowOf, OrderAlone, Owed
    <3> QED BY <3>1, <3>2
  <2>6. OrderAlone(o)'
    BY <1>a, <2>3, <2>5 DEF OrderAlone, SessionOf
  <2>7. AtRest(o)'
    BY <2>3, <2>4, <2>5 DEF AtRest, Released, Returned
  <2> QED BY <1>a, <1>c, <2>2, <2>3, <2>5, <2>6, <2>7, Moved, WorkerAlone
<1>15. ASSUME NEW p \in Workers, RefundWallet(p) PROVE AloneInv'
  <2>1. ~Idle(p) /\ req[p].step = "refundWallet"
    BY <1>15 DEF RefundWallet, At, Idle
  <2>2. PICK o \in Orders : req[p].order = o /\ RequestAlone(p) /\ RequestMoney(p)
    BY <2>1, AtWork
  <2>3. UNCHANGED <<creditedBack, stripe, stripeRefund, settledBy>> /\ Done(p)
    BY <1>15 DEF RefundWallet
  <2>4. settledBy[o] = "wallet"
    BY <2>1, <2>2 DEF RequestMoney
  <2>5. CASE row[o].status \in Refundable
    <3>1. /\ Write(o, [row[o] EXCEPT !.status = "cancelled"])
          /\ walletPaid'[o] = walletPaid[o] - Total[o]
          /\ \A x \in Orders \ {o} : walletPaid'[x] = walletPaid[x]
      BY <1>15, <1>a, <1>b, <2>2, <2>5, EntryEffect DEF RefundWallet
    <3>2. "cancelled" \in OrderStatus /\ "cancelled" \notin Settled /\ row[o].status \in Settled
      BY <2>5, Names, StagesApart
    <3>3. walletPaid'[o] = walletPaid[o]
             - (IF settledBy[o] = "wallet" /\ row[o].status \in Settled /\ "cancelled" \notin Settled
                THEN Total[o] ELSE 0)
      BY <2>4, <3>1, <3>2
    <3>4. /\ OnlyRowOf(o) /\ OnlySessionsOf(o) /\ OrderAlone(o)'
          /\ row'[o].status = "cancelled"
      BY <2>3, <3>1, <3>2, <3>3, StatusAlone
    <3>5. AtRest(o)'
      BY <2>3, <2>4, <3>4, StagesApart DEF AtRest, Released, Returned
    <3> QED BY <1>a, <2>2, <2>3, <3>4, <3>5, Moved, WorkerAlone
  <2>6. CASE row[o].status \notin Refundable
    <3>1. UNCHANGED <<row, walletPaid>> /\ AtRest(o)
      BY <1>15, <2>1, <2>2, <2>6 DEF RefundWallet, RequestAlone, AtRest
    <3> QED BY <1>a, <2>2, <2>3, <3>1, Moved, OnlyRequestMoves
  <2> QED BY <2>5, <2>6
<1>16. ASSUME NEW p \in Workers, NEW o \in Orders, CheckoutRead(p, o) PROVE AloneInv'
  <2>1. /\ Idle(p)
        /\ UNCHANGED <<row, walletPaid, creditedBack, stripe, stripeRefund, settledBy>>
    BY <1>16 DEF CheckoutRead
  <2>2. /\ req'[p].step = "payFromWallet" /\ req'[p].order = o /\ req'[p].old = None
        /\ \A q \in Workers \ {p} : req'[q] = req[q]
    BY <1>16, <1>a DEF CheckoutRead, NoRequest
  <2>3. AtRest(o) /\ req[p].order = None
    BY <2>1, <2>2, Beginning
  <2>4. RequestAlone(p)'
    BY <2>1, <2>2, <2>3 DEF RequestAlone, AtRest, Released, Returned
  <2> QED BY <2>1, <2>2, <2>3, <2>4, OnlyRequestMoves
<1>17. ASSUME NEW p \in Workers, NEW o \in Orders, ResumeRead(p, o) PROVE AloneInv'
  <2>1. /\ Idle(p) /\ row[o].status = "pending_payment"
        /\ UNCHANGED <<row, walletPaid, creditedBack, stripe, stripeRefund, settledBy>>
    BY <1>17 DEF ResumeRead
  <2>2. /\ req'[p].step = "claimResume" /\ req'[p].order = o /\ req'[p].old = row[o].session
        /\ req'[p].fromDraft = FALSE /\ \A q \in Workers \ {p} : req'[q] = req[q]
    BY <1>17, <1>a DEF ResumeRead, NoRequest
  <2>3. AtRest(o) /\ req[p].order = None
    BY <2>1, <2>2, Beginning
  <2>4. row[o].session # None => SessionOf(row[o].session, o)
    BY <1>a, <2>1, <2>3, StagesApart DEF AtRest, OrderAlone
  <2>5. RequestAlone(p)'
    BY <2>1, <2>2, <2>3, <2>4
    DEF RequestAlone, AtRest, Released, Returned, SessionOf
  <2> QED BY <2>1, <2>2, <2>3, <2>5, OnlyRequestMoves
<1>18. ASSUME NEW p \in Workers, NEW o \in Orders, CancelRelease(p, o) PROVE AloneInv'
  <2>1. /\ Idle(p) /\ ReleaseReservation(o)
        /\ UNCHANGED <<creditedBack, stripe, stripeRefund, settledBy>>
    BY <1>18 DEF CancelRelease
  <2>2. /\ req'[p].step = "cancelClaim" /\ req'[p].order = o
        /\ \A q \in Workers \ {p} : req'[q] = req[q]
    BY <1>18, <1>a DEF CancelRelease, NoRequest
  <2>3. AtRest(o) /\ req[p].order = None
    BY <2>1, <2>2, Beginning
  <2>4. /\ OnlyRowOf(o) /\ OnlySessionsOf(o) /\ OrderAlone(o)'
        /\ row[o].status \in Unpaid => row'[o].applied = 0
        /\ row[o].status \notin Unpaid => row'[o].applied = row[o].applied
        /\ row'[o].status = row[o].status /\ row'[o].session = row[o].session
    BY <2>1, ReleaseAlone
  <2>5. RequestAlone(p)'
    BY <2>1, <2>2, <2>3, <2>4, StagesApart
    DEF RequestAlone, AtRest, Released, Returned
  <2> QED BY <2>2, <2>3, <2>4, <2>5, WorkerAlone
<1>19. ASSUME NEW p \in Workers, NEW o \in Orders, RefundRead(p, o) PROVE AloneInv'
  <2>1. /\ Idle(p) /\ (row[o].method = "wallet" \/ row[o].intent # None)
        /\ UNCHANGED <<row, walletPaid, creditedBack, stripe, stripeRefund, settledBy>>
    BY <1>19 DEF RefundRead
  <2>2. /\ req'[p].step = IF row[o].method = "wallet" THEN "refundWallet" ELSE "refundCard"
        /\ req'[p].session = IF row[o].method = "wallet" THEN None ELSE row[o].intent
        /\ req'[p].order = o /\ \A q \in Workers \ {p} : req'[q] = req[q]
    BY <1>19, <1>a DEF RefundRead, NoRequest
  <2>3. AtRest(o) /\ req[p].order = None
    BY <2>1, <2>2, Beginning
  <2>4. row[o].method # "wallet" => settledBy[o] # "wallet" /\ SessionOf(row[o].intent, o)
    BY <1>a, <2>1 DEF OrderAlone
  <2>5. RequestAlone(p)'
    BY <2>1, <2>2, <2>3, <2>4
    DEF RequestAlone, AtRest, Released, Returned, SessionOf
  <2> QED BY <2>1, <2>2, <2>3, <2>5, OnlyRequestMoves
<1>20. ASSUME NEW p \in Workers, NEW s \in Sessions, FlipToDraft(p, s) PROVE AloneInv'
  <2>1. PICK o \in Orders : stripe[s].order = o
    BY <1>20, <1>a DEF FlipToDraft, Dead, SessionsOfOrders
  <2>2. /\ Idle(p) /\ Write(o, [row[o] EXCEPT !.status = "draft"])
        /\ row[o].status = "pending_payment"
        /\ UNCHANGED <<walletPaid, creditedBack, stripe, stripeRefund, settledBy>>
    BY <1>20, <2>1 DEF FlipToDraft, ReleasableBy
  <2>3. /\ req'[p].step = "releaseAfterEvent" /\ req'[p].order = o
        /\ \A q \in Workers \ {p} : req'[q] = req[q]
    BY <1>20, <1>a, <2>1 DEF FlipToDraft, NoRequest
  <2>4. AtRest(o) /\ req[p].order = None
    BY <2>2, <2>3, Beginning
  <2>5. walletPaid'[o] = walletPaid[o]
           - (IF settledBy[o] = "wallet" /\ row[o].status \in Settled /\ "draft" \notin Settled
              THEN Total[o] ELSE 0)
    BY <1>b, <2>2, StagesApart
  <2>6. /\ OnlyRowOf(o) /\ OnlySessionsOf(o) /\ OrderAlone(o)'
        /\ row'[o].status = "draft" /\ row'[o].session = row[o].session
    <3>1. "draft" \in OrderStatus /\ "draft" \notin Settled
      BY Names, StagesApart
    <3> QED BY <2>2, <2>5, <3>1, StatusAlone
  <2>7. RequestAlone(p)'
    BY <2>2, <2>3, <2>4, <2>6, StagesApart DEF RequestAlone, AtRest, Returned
  <2> QED BY <2>3, <2>4, <2>6, <2>7, WorkerAlone
<1>21. ASSUME NEW o \in Orders, PayOrder(o) PROVE AloneInv'
  <2>1. /\ WalletCovers(o) /\ PayByWallet(o)
        /\ UNCHANGED <<creditedBack, stripe, stripeRefund, req>>
    BY <1>21 DEF PayOrder
  <2>2. OnlyRowOf(o) /\ OnlySessionsOf(o) /\ OrderAlone(o)' /\ row'[o].status = "paid"
    BY <2>1, PayByWalletAlone
  <2>3. AtRest(o)'
    BY <2>2, StagesApart DEF AtRest, Released, Returned
  <2>4. ASSUME NEW q \in Workers, req[q].order = o, RequestAlone(q) PROVE RequestAlone(q)'
    <3>1. req[q].step \notin {"createSession", "recordSession"}
      <4>1. RequestLive(q)
        BY <2>4 DEF Known, LiveInv
      <4> QED BY <2>1, <2>4, <4>1 DEF RequestLive, WalletCovers
    <3>2. req[q].step \notin {"refundCard", "releaseOrder", "creditWallet"}
      BY <2>1, <2>4, StagesApart DEF Known, IInv, MoneyInv, RequestMoney, WalletCovers
    <3> QED BY <2>1, <2>2, <2>3, <2>4, <3>1, <3>2, StagesApart
        DEF RequestAlone, AtRest, SessionOf
  <2> QED BY <2>1, <2>2, <2>3, <2>4, OutsideAlone
<1>22. ASSUME NEW o \in Orders, MoveCard(o) PROVE AloneInv'
  <2>1. UNCHANGED <<walletPaid, creditedBack, stripe, stripeRefund, settledBy, req>>
    BY <1>22 DEF MoveCard
  <2>2. PICK to \in JobStatus :
          LET status == OrderAfter(row[o].status, to) IN
          IF status = row[o].status
          THEN UNCHANGED <<row, fresh>>
          ELSE Write(o, [row[o] EXCEPT !.status = status])
    BY <1>22 DEF MoveCard
  <2>3. PICK status : status = OrderAfter(row[o].status, to)
    OBVIOUS
  <2>4. CASE status = row[o].status
    <3>1. row' = row
      BY <2>2, <2>3, <2>4
    <3> QED BY <1>a, <1>c, <2>1, <3>1, OutsideAlone
        DEF OnlyRowOf, OrderAlone, Owed, AtRest, RequestAlone, SessionOf,
            Released, Returned
  <2>5. CASE status # row[o].status
    <3>1. status \in Settled /\ row[o].status \in Settled /\ status \in OrderStatus
      BY <2>3, <2>5 DEF OrderAfter, Settled, OrderStatus
    <3>2. Write(o, [row[o] EXCEPT !.status = status])
      BY <2>2, <2>3, <2>5
    <3>3. walletPaid'[o] = walletPaid[o]
             - (IF settledBy[o] = "wallet" /\ row[o].status \in Settled /\ status \notin Settled
                THEN Total[o] ELSE 0)
      BY <1>b, <2>1, <3>1
    <3>4. /\ OnlyRowOf(o) /\ OnlySessionsOf(o) /\ OrderAlone(o)' /\ row'[o].status = status
      BY <2>1, <3>1, <3>2, <3>3, StagesApart, StatusAlone
    <3>5. AtRest(o)'
      BY <3>1, <3>4, StagesApart DEF AtRest, Released, Returned
    <3>6. ASSUME NEW q \in Workers, req[q].order = o, RequestAlone(q) PROVE RequestAlone(q)'
      BY <2>1, <3>1, <3>4, <3>5, <3>6, StagesApart DEF RequestAlone, AtRest, SessionOf
    <3> QED BY <2>1, <3>4, <3>5, <3>6, OutsideAlone
  <2> QED BY <2>4, <2>5
<1>23. ASSUME NEW s \in Sessions, PaymentSettles(s) PROVE AloneInv'
  <2>1. PICK o \in Orders : stripe[s].order = o /\ row[o].status = "pending_payment"
    BY <1>23, <1>a DEF PaymentSettles, SessionsOfOrders
  <2>2. UNCHANGED <<walletPaid, creditedBack, stripe, stripeRefund, req>>
    BY <1>23 DEF PaymentSettles
  <2>3. /\ row'[o] = [row[o] EXCEPT !.status = "paid", !.session = s]
        /\ \A x \in Orders \ {o} : row'[x] = row[x]
    BY <1>23, <1>a, <2>1, WriteEffect DEF PaymentSettles
  <2>4. /\ row'[o].status = "paid" /\ row'[o].session = s /\ row'[o].applied = row[o].applied
        /\ row'[o].intent = row[o].intent /\ row'[o].method = row[o].method
    BY <1>b, <2>3 DEF OrderRow
  <2>5. settledBy'[o] = s /\ \A x \in Orders \ {o} : settledBy'[x] = settledBy[x]
    BY <1>23, <1>a, <2>1 DEF PaymentSettles, Settle, TypeOK
  <2>6. s # "wallet" /\ settledBy[o] # "wallet"
    BY <1>a, <2>1, StagesApart DEF OrderSettled
  <2>7. walletPaid'[o] = Owed(o)'
    BY <1>a, <2>2, <2>4, <2>5, <2>6 DEF OrderAlone, Owed
  <2>8. OrderAlone(o)'
    BY <1>a, <2>1, <2>2, <2>4, <2>5, <2>6, <2>7 DEF OrderAlone, SessionOf
  <2>9. OnlyRowOf(o)
    BY <2>2, <2>3, <2>5 DEF OnlyRowOf
  <2>10. AtRest(o)'
    BY <2>4, StagesApart DEF AtRest, Released, Returned
  <2>11. ASSUME NEW q \in Workers, req[q].order = o, RequestAlone(q) PROVE RequestAlone(q)'
    BY <2>2, <2>4, <2>5, <2>6, <2>10, <2>11, StagesApart
    DEF RequestAlone, AtRest, SessionOf
  <2> QED BY <1>c, <2>2, <2>8, <2>9, <2>10, <2>11, OutsideAlone
<1>24. ASSUME NEW s \in Sessions, SessionMoves(s) PROVE AloneInv'
  <2>1. /\ UNCHANGED <<row, walletPaid, creditedBack, stripeRefund, settledBy, req>>
        /\ stripe[s].state \notin {"unused", "paid"} \cup Dead
        /\ \E to \in SessionState \ {"open", "unused"} : stripe' = [stripe EXCEPT ![s].state = to]
    BY <1>24 DEF SessionMoves, SessionSteps, Dead
  <2>2. PICK o \in Orders : stripe[s].order = o
    BY <1>a, <2>1 DEF SessionsOfOrders
  <2>3. /\ stripe'[s].order = o /\ stripe'[s].state \notin {"open", "unused"}
        /\ \A t \in Sessions \ {s} : stripe'[t] = stripe[t]
    BY <1>a, <2>1, <2>2 DEF TypeOK
  <2>4. /\ \A t : SessionOf(t, o) =>
             /\ SessionOf(t, o)'
             /\ stripe[t].state \in Dead \cup {"paid"} => stripe'[t].state = stripe[t].state
    BY <2>1, <2>2, <2>3 DEF SessionOf
  <2>5. OrderAlone(o)'
    BY <1>a, <2>1, <2>4 DEF OrderAlone, Owed
  <2>6. OnlyRowOf(o) /\ OnlySessionsOf(o)
    BY <2>1, <2>2, <2>3 DEF OnlyRowOf, OnlySessionsOf
  <2>7. /\ Released(o) => Released(o)'
        /\ Returned(o) => Returned(o)'
    BY <2>1, <2>4 DEF Released, Returned
  <2>8. ASSUME NEW q \in Workers, req[q].order = o, RequestAlone(q) PROVE RequestAlone(q)'
    BY <2>1, <2>4, <2>7, <2>8 DEF RequestAlone
  <2>9. AtRest(o) => AtRest(o)'
    BY <2>7 DEF AtRest
  <2> QED BY <2>1, <2>5, <2>6, <2>8, <2>9, OutsideAlone
<1>25. ASSUME UNCHANGED <<row, walletPaid, creditedBack, stripe, stripeRefund, settledBy, req>>
       PROVE  AloneInv'
  BY <1>25 DEF Known, AloneInv, Unclaimed, Idle, OrderAlone, Owed, AtRest, RequestAlone, SessionOf, Released, Returned
<1>26. ASSUME NEW t \in TopUps, ApplyTopup(t) PROVE AloneInv'
  BY <1>25, <1>26 DEF ApplyTopup
<1>27. ASSUME NEW s \in Sessions, PaymentAnomaly(s) PROVE AloneInv'
  BY <1>25, <1>27 DEF PaymentAnomaly
<1>28. ASSUME UNCHANGED vars PROVE AloneInv'
  BY <1>25, <1>28 DEF vars
<1>29. ASSUME NEW p \in Workers, Crash(p) PROVE FALSE
  BY <1>29 DEF Crash
<1> QED
  BY <1>1, <1>2, <1>3, <1>4, <1>5, <1>6, <1>7, <1>8, <1>9, <1>10, <1>11, <1>12, <1>13, <1>14, <1>15, <1>16, <1>17, <1>18, <1>19, <1>20, <1>21, <1>22, <1>23, <1>24, <1>26, <1>27, <1>28, <1>29 DEF Next, Receive, Continue

LEMMA KnownAlone ==
  ASSUME ~MayCrash
  PROVE  Spec /\ []RequestsDoNotOverlap => []Known
<1>1. Init /\ RequestsDoNotOverlap => Known
  BY TypeInit, MoneyInit, SettledInit, LiveInit, AloneInit DEF Known, IInv
<1>2. Known /\ RequestsDoNotOverlap' /\ [Next]_vars => Known'
  <2> SUFFICES ASSUME Known, RequestsDoNotOverlap', [Next]_vars PROVE Known'
    OBVIOUS
  <2>1. IInv' /\ SettledInv' /\ LiveInv'
    BY TypeStep, MoneyStep, SettledNext, LiveNext DEF Known, IInv
  <2> QED BY <2>1, AloneNext DEF Known
<1> QED BY <1>1, <1>2, PTL DEF Spec

LEMMA KnownLedger ==
  ASSUME Known
  PROVE  LedgerMatchesReservation
<1> SUFFICES ASSUME NEW o \in Orders, row[o].status \in Unpaid
             PROVE  walletPaid[o] = row[o].applied
  BY DEF LedgerMatchesReservation
<1>1. OrderAlone(o) /\ OrderMoney(o) /\ OrderSettled(o)
  BY DEF Known, IInv, MoneyInv, SettledInv, AloneInv
<1>2. o \notin creditedBack /\ settledBy[o] # "wallet"
  BY <1>1 DEF OrderMoney, OrderSettled
<1>3. row[o].applied \in Int
  BY OrderFacts DEF Known
<1> QED BY <1>1, <1>2, <1>3 DEF OrderAlone, Owed

\* While nothing crashes and the requests on one order do not overlap, the
\* wallet's share of an unpaid order is what its row says is reserved.
THEOREM LedgerExact ==
  ASSUME ~MayCrash
  PROVE  Spec /\ []RequestsDoNotOverlap => []LedgerMatchesReservation
BY KnownLedger, KnownAlone, PTL

LEMMA KnownRefund ==
  ASSUME Known
  PROVE  RefundReturnsEverything
<1> SUFFICES ASSUME NEW o \in Orders, row[o].status = "cancelled", settledBy[o] # None,
                    PaidOnce(o), ~Refunding(o)
             PROVE  walletPaid[o] = 0 /\ (settledBy[o] \in Sessions => stripeRefund[o] = settledBy[o])
  BY DEF RefundReturnsEverything
<1>1. OrderAlone(o) /\ OrderSettled(o)
  BY DEF Known, SettledInv, AloneInv
<1>2. settledBy[o] = "wallet" \/ settledBy[o] \in Sessions
  BY DEF Known, IInv, TypeInv, TypeOK
<1>3. Returned(o)
  <2>1. CASE \A p \in Workers : req[p].order # o
    BY <2>1 DEF Known, AloneInv, AtRest
  <2>2. CASE \E p \in Workers : req[p].order = o
    <3>1. PICK p \in Workers : req[p].order = o
      BY <2>2
    <3>2. req[p].step # "creditWallet" /\ RequestAlone(p)
      BY <3>1 DEF Refunding, Known, AloneInv
    <3> QED BY <3>1, <3>2 DEF RequestAlone
  <2> QED BY <2>1, <2>2
<1>4. walletPaid[o] = IF o \in creditedBack THEN 0 ELSE row[o].applied
  <2>1. row[o].applied \in Int
    BY OrderFacts DEF Known
  <2> QED BY <1>1, <2>1, StagesApart DEF OrderAlone, Owed
<1>5. walletPaid[o] = 0
  BY <1>2, <1>3, <1>4 DEF PaidOnce, Returned
<1>6. settledBy[o] \in Sessions => stripeRefund[o] = settledBy[o]
  BY <1>1 DEF OrderAlone, OrderSettled, PaidOnce, SessionOf
<1> QED BY <1>5, <1>6

\* Under the same conditions an order that was paid once is refunded whole,
\* its wallet part to the wallet and its card part by Stripe.
THEOREM RefundedWhole ==
  ASSUME ~MayCrash
  PROVE  Spec /\ []RequestsDoNotOverlap => []RefundReturnsEverything
BY KnownRefund, KnownAlone, PTL

-------------------------------------------------------------------------------
(* How many pages of an order can be paid.  A resume asks Stripe to stop the *)
(* page it replaces; if that call fails, both stay.  While Stripe stops what *)
(* it is asked to stop, there is one.                                       *)

ReplacedIsStopped ==
  \A p \in Workers : ExpireOld(p) =>
    \A s \in Sessions : s = req[p].old => stripe'[s].state # "open"

Open(s, o) == stripe[s].order = o /\ stripe[s].state = "open"

OnePage(o) == \A s, t \in Sessions : Open(s, o) /\ Open(t, o) => s = t

\* The row of an unpaid order names the page that can be paid, unless a resume
\* has yet to stop the old one.
Named(o) == row[o].status \in Unpaid => \A s \in Sessions : Open(s, o) => row[o].session = s

RequestPages(p) ==
  LET o == req[p].order
      at == req[p].step
  IN /\ at \in {"payFromWallet", "reserve"} => req[p].old = None
     /\ at \in {"claimResume", "createSession", "recordSession", "expireOld"} =>
          \A s \in Sessions : Open(s, o) => s = req[p].old
     /\ at = "expireOld" => (row[o].status \in Unpaid => row[o].session = req[p].session)

Replacing(o) == \E p \in Workers : req[p].order = o /\ req[p].step = "expireOld"

PagesInv == /\ \A o \in Orders : OnePage(o) /\ (Named(o) \/ Replacing(o))
            /\ \A p \in Workers : req[p].order \in Orders => RequestPages(p)

\* The step opens no page, and an order unpaid after it waits on the same page.
NoNewPage == \A s \in Sessions : stripe'[s].state = "open" => stripe'[s] = stripe[s]

SamePage(o) ==
  row'[o].status \in Unpaid => row[o].status \in Unpaid /\ row'[o].session = row[o].session

LEMMA PagesStep ==
  ASSUME PagesInv, NoNewPage, \A x \in Orders : SamePage(x),
         \A q \in Workers : \/ req'[q] = req[q]
                            \/ /\ req[q].step # "expireOld"
                               /\ req'[q].order \in Orders => RequestPages(q)'
  PROVE  PagesInv'
<1>1. \A s \in Sessions, x \in Orders : Open(s, x)' => Open(s, x)
  BY DEF NoNewPage, Open
<1>2. ASSUME NEW x \in Orders PROVE OnePage(x)' /\ (Named(x)' \/ Replacing(x)')
  <2>1. OnePage(x)'
    BY <1>1, <1>2 DEF PagesInv, OnePage
  <2>2. CASE Named(x)
    BY <1>1, <1>2, <2>1, <2>2 DEF Named, SamePage
  <2>3. CASE Replacing(x)
    BY <2>1, <2>3 DEF Replacing
  <2> QED BY <1>2, <2>2, <2>3 DEF PagesInv
<1>3. ASSUME NEW q \in Workers, req'[q].order \in Orders PROVE RequestPages(q)'
  <2>1. CASE req'[q] = req[q]
    <3>1. RequestPages(q) /\ req[q].order \in Orders
      BY <1>3, <2>1 DEF PagesInv
    <3> QED BY <1>1, <2>1, <3>1 DEF RequestPages, SamePage
  <2> QED BY <1>3, <2>1
<1> QED BY <1>2, <1>3 DEF PagesInv

\* A step of a resume on its own order: other orders keep their pages.
LEMMA PagesAlone ==
  ASSUME PagesInv, NEW p \in Workers, NEW o \in Orders, NEW s \in Sessions,
         stripe[s].order = o, req[p].order = o,
         \A x \in Orders \ {o} : row'[x] = row[x],
         \A t \in Sessions : stripe'[t].order = stripe[t].order,
         \A t \in Sessions : stripe'[t].state = "open" /\ t # s => stripe'[t] = stripe[t],
         \A q \in Workers \ {p} : req'[q] = req[q] /\ req[q].order # o,
         OnePage(o)', Named(o)' \/ Replacing(o)',
         req'[p].order \in Orders => RequestPages(p)'
  PROVE  PagesInv'
<1>1. \A t \in Sessions, x \in Orders \ {o} : Open(t, x)' => Open(t, x)
  BY DEF Open
<1>2. ASSUME NEW x \in Orders \ {o} PROVE OnePage(x)' /\ (Named(x)' \/ Replacing(x)')
  <2>1. OnePage(x)'
    BY <1>1, <1>2 DEF PagesInv, OnePage
  <2>2. CASE Named(x)
    BY <1>1, <1>2, <2>1, <2>2 DEF Named
  <2>3. CASE Replacing(x)
    BY <1>2, <2>1, <2>3 DEF Replacing
  <2> QED BY <1>2, <2>2, <2>3 DEF PagesInv
<1>3. ASSUME NEW q \in Workers \ {p}, req'[q].order \in Orders PROVE RequestPages(q)'
  <2>1. req'[q] = req[q] /\ req[q].order \in Orders \ {o} /\ RequestPages(q)
    BY <1>3 DEF PagesInv
  <2> QED BY <1>1, <2>1 DEF RequestPages
<1> QED BY <1>2, <1>3 DEF PagesInv

LEMMA KeptIsSame ==
  ASSUME NEW x \in Orders, KeepsPage(x) PROVE SamePage(x)
BY DEF KeepsPage, SamePage

\* Between requests, and before a resume replaces it, the open page is named.
LEMMA NamedHere ==
  ASSUME Known, PagesInv, NEW p \in Workers, NEW o \in Orders,
         req[p].step # "expireOld",
         req[p].order = o \/ (\A q \in Workers : req[q].order # o)
  PROVE  Named(o)
<1>1. \A q \in Workers : req[q].order = o => q = p
  BY DEF Known, RequestsDoNotOverlap
<1> QED BY <1>1 DEF PagesInv, Replacing

LEMMA PagesInit == Init => PagesInv
BY DEF Init, PagesInv, OnePage, Named, Open, RequestPages, NoRequest

LEMMA PagesNext ==
  ASSUME ~MayCrash, Known, PagesInv, RequestsDoNotOverlap', [Next]_vars,
         [ReplacedIsStopped]_vars
  PROVE  PagesInv'
<1>a. TypeOK /\ SessionsOfOrders /\ req \in [Workers -> Request]
      /\ None \notin Orders /\ None \notin Sessions
  BY DEF Known, IInv, TypeInv, TypeOK
<1>b. /\ \A p \in Workers : Done(p) =>
           /\ req'[p].order = None /\ \A q \in Workers \ {p} : req'[q] = req[q]
      /\ \A p \in Workers : \A st : Goto(p, st) =>
           /\ req'[p].step = st /\ req'[p].order = req[p].order /\ req'[p].old = req[p].old
           /\ req'[p].session = req[p].session
           /\ \A q \in Workers \ {p} : req'[q] = req[q]
  BY <1>a, Moved
<1>c. row' = row => \A x \in Orders : SamePage(x)
  BY DEF SamePage
<1>d. stripe' = stripe => NoNewPage
  BY DEF NoNewPage
\* A request that ends, or goes on to a step at which it stands by no page.
<1>e. ASSUME NEW p \in Workers, req[p].step # "expireOld", NoNewPage,
             \A x \in Orders : SamePage(x),
             \A q \in Workers \ {p} : req'[q] = req[q],
             \/ req'[p].order = None
             \/ req'[p].step \notin {"payFromWallet", "reserve", "claimResume",
                                     "createSession", "recordSession", "expireOld"}
      PROVE  PagesInv'
  <2>1. req'[p].order \in Orders => RequestPages(p)'
    BY <1>a, <1>e DEF RequestPages
  <2> QED BY <1>e, <2>1, PagesStep
\* A write of one order's row that keeps its session and leaves it no less paid.
<1>f. ASSUME NEW o \in Orders, NEW r, Write(o, r), r.session = row[o].session,
             r.status \in Unpaid => row[o].status \in Unpaid
      PROVE  \A x \in Orders : SamePage(x)
  <2>1. row'[o] = r /\ \A x \in Orders \ {o} : row'[x] = row[x]
    BY <1>a, <1>f, WriteEffect
  <2> QED BY <1>f, <2>1 DEF SamePage
<1>1. ASSUME NEW p \in Workers, NEW o \in Orders, CheckoutRead(p, o) PROVE PagesInv'
  <2>1. /\ UNCHANGED <<row, stripe>> /\ req[p].step = "idle"
        /\ req'[p].step = "payFromWallet" /\ req'[p].old = None
        /\ \A q \in Workers \ {p} : req'[q] = req[q]
    BY <1>1, <1>a DEF CheckoutRead, NoRequest, Idle
  <2>2. RequestPages(p)'
    BY <2>1 DEF RequestPages
  <2> QED BY <1>c, <1>d, <2>1, <2>2, PagesStep
<1>2. ASSUME NEW p \in Workers, NEW o \in Orders, ResumeRead(p, o) PROVE PagesInv'
  <2>1. /\ UNCHANGED <<row, stripe>> /\ Idle(p) /\ row[o].status = "pending_payment"
        /\ req'[p].step = "claimResume" /\ req'[p].old = row[o].session
        /\ req'[p].order = o /\ \A q \in Workers \ {p} : req'[q] = req[q]
    BY <1>2, <1>a DEF ResumeRead, NoRequest
  <2>2. \A q \in Workers : req[q].order # o
    <3>1. req[p].order = None
      BY <2>1, Beginning
    <3> QED BY <1>a, <2>1, <3>1 DEF RequestsDoNotOverlap
  <2>3. Named(o)
    BY <2>1, <2>2, NamedHere DEF Idle
  <2>4. RequestPages(p)'
    BY <2>1, <2>3, StagesApart DEF RequestPages, Named, Open
  <2> QED BY <1>c, <1>d, <2>1, <2>4, PagesStep DEF Idle
<1>3. ASSUME NEW p \in Workers, PayFromWallet(p) PROVE PagesInv'
  <2>1. ~Idle(p) /\ req[p].step = "payFromWallet" /\ stripe' = stripe
    BY <1>3 DEF PayFromWallet, At, Idle
  <2>2. PICK o \in Orders : req[p].order = o
    BY <2>1, AtWork
  <2>3. CASE WalletCovers(o)
    <3>1. PayByWallet(o) /\ Done(p)
      BY <1>3, <2>2, <2>3 DEF PayFromWallet
    <3> QED BY <1>a, <1>b, <1>d, <1>e, <2>1, <3>1, WalletKeepsPages, KeptIsSame
  <2>4. CASE ~WalletCovers(o)
    <3>1. Goto(p, "reserve") /\ row' = row
      BY <1>3, <2>2, <2>4 DEF PayFromWallet
    <3>2. RequestPages(p)'
      BY <1>b, <2>1, <2>2, <3>1 DEF RequestPages, PagesInv
    <3> QED BY <1>b, <1>c, <1>d, <2>1, <3>1, <3>2, PagesStep
  <2> QED BY <2>3, <2>4
<1>4. ASSUME NEW p \in Workers, Reserve(p) PROVE PagesInv'
  <2>1. ~Idle(p) /\ req[p].step = "reserve" /\ stripe' = stripe
    BY <1>4 DEF Reserve, At, Idle
  <2>2. PICK o \in Orders : req[p].order = o
    BY <2>1, AtWork
  <2>3. CASE row[o].status = "draft"
    <3>1. PICK draw :
            /\ Write(o, [row[o] EXCEPT !.status = "pending_payment", !.applied = draw])
            /\ req' = [req EXCEPT ![p].step = "createSession", ![p].applied = draw,
                                  ![p].fromDraft = TRUE]
      BY <1>4, <2>2, <2>3 DEF Reserve
    <3>2. \A x \in Orders : SamePage(x)
      <4>1. row[o] \in OrderRow /\ row[o].status \in Unpaid
        BY <1>a, <2>3, StagesApart DEF TypeOK
      <4> QED BY <1>f, <3>1, <4>1 DEF OrderRow
    <3>3. req'[p].step = "createSession" /\ req'[p].order = o
          /\ \A q \in Workers \ {p} : req'[q] = req[q]
      BY <1>a, <2>2, <3>1 DEF Request
    <3>4. \A s \in Sessions : ~Open(s, o)
      <4>1. Named(o) /\ Stopped(o)
        BY <2>1, <2>2, <2>3, NamedHere DEF Known, LiveInv, DraftIsStopped
      <4> QED BY <1>a, <2>3, <4>1, StagesApart DEF Named, Stopped, Open, Dead
    <3>5. RequestPages(p)'
      BY <2>1, <3>3, <3>4 DEF RequestPages, Open
    <3> QED BY <1>d, <2>1, <3>2, <3>3, <3>5, PagesStep
  <2>4. CASE row[o].status # "draft"
    <3>1. Done(p) /\ row' = row
      BY <1>4, <2>2, <2>4 DEF Reserve
    <3> QED BY <1>b, <1>c, <1>d, <1>e, <2>1, <3>1
  <2> QED BY <2>3, <2>4
<1>5. ASSUME NEW p \in Workers, ClaimResume(p) PROVE PagesInv'
  <2>1. ~Idle(p) /\ req[p].step = "claimResume" /\ stripe' = stripe
    BY <1>5 DEF ClaimResume, At, Idle
  <2>2. PICK o \in Orders : req[p].order = o
    BY <2>1, AtWork
  <2>3. row' = row
    BY <1>5, <1>a, <2>2 DEF ClaimResume, Write, TypeOK
  <2>4. CASE Done(p)
    BY <1>b, <1>c, <1>d, <1>e, <2>1, <2>3, <2>4
  <2>5. CASE Goto(p, "createSession")
    <3>1. RequestPages(p)'
      BY <1>b, <2>1, <2>2, <2>5 DEF RequestPages, PagesInv, Open
    <3> QED BY <1>b, <1>c, <1>d, <2>1, <2>3, <2>5, <3>1, PagesStep
  <2> QED BY <1>5, <2>4, <2>5 DEF ClaimResume
<1>6. ASSUME NEW p \in Workers, NEW s \in Sessions, CreateSession(p, s) PROVE PagesInv'
  <2>1. ~Idle(p) /\ req[p].step = "createSession" /\ row' = row
    BY <1>6 DEF CreateSession, At, Idle
  <2>2. PICK o \in Orders : req[p].order = o
    BY <2>1, AtWork
  <2>3. stripe'[s].state = "created" /\ \A t \in Sessions \ {s} : stripe'[t] = stripe[t]
    BY <1>6, <1>a, <2>2 DEF CreateSession, TypeOK
  <2>4. NoNewPage
    BY <2>3 DEF NoNewPage
  <2>5. /\ req'[p].step = "recordSession" /\ req'[p].order = o /\ req'[p].old = req[p].old
        /\ \A q \in Workers \ {p} : req'[q] = req[q]
    BY <1>6, <1>a, <2>2 DEF CreateSession, Request
  <2>6. RequestPages(p)'
    BY <2>1, <2>2, <2>3, <2>5 DEF RequestPages, PagesInv, Open
  <2> QED BY <1>c, <2>1, <2>4, <2>5, <2>6, PagesStep
<1>7. ASSUME NEW p \in Workers, CreateSessionFails(p) PROVE PagesInv'
  <2>1. /\ req[p].step = "createSession" /\ UNCHANGED <<row, stripe>>
        /\ Done(p) \/ Goto(p, "handBackMoney")
    BY <1>7 DEF CreateSessionFails, At
  <2> QED BY <1>b, <1>c, <1>d, <1>e, <2>1
<1>8. ASSUME NEW p \in Workers, HandBackMoney(p) PROVE PagesInv'
  <2>1. ~Idle(p) /\ req[p].step = "handBackMoney" /\ stripe' = stripe /\ Goto(p, "handBackDraft")
    BY <1>8 DEF HandBackMoney, At, Idle
  <2>2. \A x \in Orders : SamePage(x)
    BY <1>8, <1>a, <2>1, AtWork, ReleaseKeepsPages DEF HandBackMoney, SamePage
  <2> QED BY <1>b, <1>d, <1>e, <2>1, <2>2
<1>9. ASSUME NEW p \in Workers, HandBackDraft(p) PROVE PagesInv'
  <2>1. ~Idle(p) /\ req[p].step = "handBackDraft" /\ stripe' = stripe /\ Done(p)
    BY <1>9 DEF HandBackDraft, At, Idle
  <2>2. PICK o \in Orders : req[p].order = o /\ row[o] \in OrderRow
    BY <1>a, <2>1, AtWork DEF TypeOK
  <2>3. \A x \in Orders : SamePage(x)
    <3>1. CASE row[o].status = "pending_payment"
      <4>1. Write(o, [row[o] EXCEPT !.status = "draft"])
        BY <1>9, <2>2, <3>1 DEF HandBackDraft
      <4> QED BY <1>f, <2>2, <3>1, <4>1, StagesApart DEF OrderRow
    <3>2. CASE row[o].status # "pending_payment"
      BY <1>9, <1>c, <2>2, <3>2 DEF HandBackDraft
    <3> QED BY <3>1, <3>2
  <2> QED BY <1>b, <1>d, <1>e, <2>1, <2>3
<1>10. ASSUME NEW p \in Workers, RecordSession(p) PROVE PagesInv'
  <2>1. ~Idle(p) /\ req[p].step = "recordSession"
    BY <1>10 DEF RecordSession, At, Idle
  <2>2. PICK o \in Orders : req[p].order = o /\ RequestAlone(p) /\ RequestPages(p)
    BY <2>1, AtWork DEF PagesInv
  <2>3. PICK s \in Sessions : req[p].session = s /\ stripe[s].order = o
    BY <2>1, <2>2 DEF RequestAlone, SessionOf
  <2>4. PICK i \in {s, None} :
          Write(o, [row[o] EXCEPT !.method = "card", !.session = s, !.intent = i])
    BY <1>10, <2>2, <2>3 DEF RecordSession
  <2>5. /\ row'[o].status = row[o].status /\ row'[o].session = s
        /\ \A x \in Orders \ {o} : row'[x] = row[x]
    <3>1. /\ row'[o] = [row[o] EXCEPT !.method = "card", !.session = s, !.intent = i]
          /\ \A x \in Orders \ {o} : row'[x] = row[x]
      BY <1>a, <2>4, WriteEffect
    <3> QED BY <1>a, <3>1 DEF TypeOK, OrderRow
  <2>6. \A t \in Sessions : Open(t, o) => t = req[p].old
    BY <2>1, <2>2 DEF RequestPages, Open
  <2>7. \A t \in Sessions : /\ stripe'[t].order = stripe[t].order
                            /\ t # s => stripe'[t] = stripe[t]
    BY <1>10, <1>a, <2>3 DEF RecordSession, TypeOK
  <2>8. \A q \in Workers \ {p} : req'[q] = req[q] /\ req[q].order # o
    <3>1. \A q \in Workers \ {p} : req[q].order # o
      BY <1>a, <2>2 DEF Known, RequestsDoNotOverlap
    <3> QED BY <1>10, <1>b, <3>1 DEF RecordSession
  <2>9. CASE req[p].old = None
    <3>1. Done(p)
      BY <1>10, <2>9 DEF RecordSession
    <3>2. \A t \in Sessions : Open(t, o)' => t = s
      BY <1>a, <2>6, <2>7, <2>9 DEF Open
    <3>3. OnePage(o)' /\ Named(o)'
      BY <2>5, <3>2 DEF OnePage, Named
    <3>4. req'[p].order \notin Orders
      BY <1>a, <1>b, <3>1
    <3> QED BY <2>2, <2>3, <2>5, <2>7, <2>8, <3>3, <3>4, PagesAlone
  <2>10. CASE req[p].old # None
    <3>1. Goto(p, "expireOld") /\ stripe' = stripe
      BY <1>10, <2>10 DEF RecordSession
    <3>2. /\ req'[p].step = "expireOld" /\ req'[p].order = o /\ req'[p].session = s
          /\ req'[p].old = req[p].old
      BY <1>b, <2>2, <2>3, <3>1
    <3>3. OnePage(o)' /\ Replacing(o)' /\ RequestPages(p)'
      BY <2>5, <2>6, <3>1, <3>2 DEF OnePage, Open, Replacing, RequestPages
    <3> QED BY <2>2, <2>3, <2>5, <2>7, <2>8, <3>3, PagesAlone
  <2> QED BY <2>9, <2>10
<1>11. ASSUME NEW p \in Workers, ExpireOld(p) PROVE PagesInv'
  <2>1. ~Idle(p) /\ req[p].step = "expireOld" /\ row' = row /\ Done(p)
    BY <1>11 DEF ExpireOld, At, Idle
  <2>2. PICK o \in Orders : req[p].order = o /\ RequestAlone(p) /\ RequestPages(p)
    BY <2>1, AtWork DEF PagesInv
  <2>3. PICK s \in Sessions : req[p].session = s /\ stripe[s].order = o
    BY <2>1, <2>2 DEF RequestAlone, SessionOf
  <2>4. /\ \A t \in Sessions : Open(t, o) => t = req[p].old
        /\ row[o].status \in Unpaid => row[o].session = s
    BY <2>1, <2>2, <2>3 DEF RequestPages, Open
  <2>5. PICK stopped \in SUBSET {req[p].old} :
          stripe' = [t \in Sessions |->
            IF t \in stopped /\ stripe[t].state \in {"created", "open"}
            THEN [stripe[t] EXCEPT !.state = "expired"]
            ELSE IF t = s /\ stripe[t].state = "created"
            THEN [stripe[t] EXCEPT !.state = "open"]
            ELSE stripe[t]]
    BY <1>11, <2>3 DEF ExpireOld
  <2>6. \A t \in Sessions : stripe'[t].order = stripe[t].order
    <3>1. \A t \in Sessions : stripe[t] \in [state : SessionState, order : Orders \cup {None},
                                              amount : Int]
      BY <1>a DEF TypeOK
    <3> QED BY <2>5, <3>1
  <2>7. \A t \in Sessions : stripe'[t].state = "open" /\ t # s => stripe'[t] = stripe[t]
    <3>1. \A t \in Sessions : stripe[t] \in [state : SessionState, order : Orders \cup {None},
                                              amount : Int]
      BY <1>a DEF TypeOK
    <3> QED BY <2>5, <3>1
  <2>8. req[p].old \in Sessions => stripe'[req[p].old].state # "open"
    <3>1. CASE UNCHANGED vars
      <4>1. req'[p].order = o /\ req'[p].order = None
        BY <1>b, <2>1, <2>2, <3>1 DEF vars
      <4> QED BY <1>a, <4>1
    <3>2. CASE ReplacedIsStopped
      BY <1>11, <3>2 DEF ReplacedIsStopped
    <3> QED BY <3>1, <3>2
  <2>9. \A t \in Sessions : Open(t, o)' => t = s
    BY <2>4, <2>7, <2>8 DEF Open
  <2>10. OnePage(o)' /\ Named(o)'
    BY <2>1, <2>4, <2>9 DEF OnePage, Named
  <2>11. /\ req'[p].order \notin Orders
         /\ \A q \in Workers \ {p} : req'[q] = req[q] /\ req[q].order # o
    BY <1>a, <1>b, <2>1, <2>2 DEF Known, RequestsDoNotOverlap
  <2> QED BY <2>1, <2>2, <2>3, <2>6, <2>7, <2>10, <2>11, PagesAlone
<1>12. ASSUME NEW p \in Workers, NEW o \in Orders, CancelRelease(p, o) PROVE PagesInv'
  <2>1. /\ stripe' = stripe /\ req[p].step = "idle"
        /\ req'[p].step = "cancelClaim" /\ \A q \in Workers \ {p} : req'[q] = req[q]
    BY <1>12, <1>a DEF CancelRelease, NoRequest, Idle
  <2>2. \A x \in Orders : SamePage(x)
    BY <1>12, <1>a, ReleaseKeepsPages DEF CancelRelease, SamePage
  <2> QED BY <1>d, <1>e, <2>1, <2>2
\* What closes an order takes its page with it.
<1>13. ASSUME NEW p \in Workers, NEW o \in Orders, req[p].step # "expireOld",
              Write(o, [row[o] EXCEPT !.status = "cancelled"]) \/ row' = row,
              stripe' = stripe, Done(p) \/ Goto(p, "creditWallet")
       PROVE  PagesInv'
  <2>1. \A x \in Orders : SamePage(x)
    <3>1. "cancelled" \in OrderStatus \ {"draft"} /\ "cancelled" \notin Unpaid
      BY Names, StagesApart
    <3> QED BY <1>13, <1>a, <1>c, <3>1, StatusKeepsPages, KeptIsSame
  <2> QED BY <1>13, <1>b, <1>d, <1>e, <2>1
<1>14. ASSUME NEW p \in Workers, CancelClaim(p) PROVE PagesInv'
  BY <1>13, <1>14, AtWork DEF CancelClaim, At, Idle
<1>15. ASSUME NEW p \in Workers, ReleaseOrder(p) PROVE PagesInv'
  BY <1>13, <1>15, AtWork DEF ReleaseOrder, At, Idle
<1>16. ASSUME NEW p \in Workers, RefundWallet(p) PROVE PagesInv'
  BY <1>13, <1>16, AtWork DEF RefundWallet, At, Idle
<1>17. ASSUME NEW p \in Workers, CreditWalletPortion(p) PROVE PagesInv'
  BY <1>13, <1>17, AtWork DEF CreditWalletPortion, At, Idle
<1>18. ASSUME NEW p \in Workers, NEW s \in Sessions, FlipToDraft(p, s) PROVE PagesInv'
  <2>1. PICK o \in Orders : o = stripe[s].order /\ row[o] \in OrderRow
    BY <1>18, <1>a DEF FlipToDraft, Dead, SessionsOfOrders, TypeOK
  <2>2. /\ Write(o, [row[o] EXCEPT !.status = "draft"]) /\ row[o].status = "pending_payment"
        /\ stripe' = stripe /\ req[p].step = "idle"
    BY <1>18, <2>1 DEF FlipToDraft, ReleasableBy, Idle
  <2>3. \A x \in Orders : SamePage(x)
    BY <1>f, <2>1, <2>2, StagesApart DEF OrderRow
  <2>4. /\ req'[p].step = "releaseAfterEvent" /\ \A q \in Workers \ {p} : req'[q] = req[q]
    BY <1>18, <1>a DEF FlipToDraft, NoRequest
  <2> QED BY <1>d, <1>e, <2>2, <2>3, <2>4
<1>19. ASSUME NEW p \in Workers, ReleaseAfterEvent(p) PROVE PagesInv'
  <2>1. ~Idle(p) /\ req[p].step = "releaseAfterEvent" /\ Done(p) /\ stripe' = stripe
    BY <1>19 DEF ReleaseAfterEvent, At, Idle
  <2>2. \A x \in Orders : SamePage(x)
    BY <1>19, <1>a, <2>1, AtWork, ReleaseKeepsPages DEF ReleaseAfterEvent, SamePage
  <2> QED BY <1>b, <1>d, <1>e, <2>1, <2>2
<1>20. ASSUME NEW p \in Workers, NEW o \in Orders, RefundRead(p, o) PROVE PagesInv'
  <2>1. /\ UNCHANGED <<row, stripe>> /\ req[p].step = "idle"
        /\ req'[p].step \in {"refundWallet", "refundCard"}
        /\ \A q \in Workers \ {p} : req'[q] = req[q]
    BY <1>20, <1>a DEF RefundRead, NoRequest, Idle
  <2> QED BY <1>c, <1>d, <1>e, <2>1
<1>21. ASSUME NEW p \in Workers, RefundCard(p) PROVE PagesInv'
  <2>1. /\ UNCHANGED <<row, stripe>> /\ req[p].step = "refundCard"
        /\ Done(p) \/ Goto(p, "releaseOrder")
    BY <1>21 DEF RefundCard, At
  <2> QED BY <1>b, <1>c, <1>d, <1>e, <2>1
<1>22. ASSUME NEW o \in Orders, PayOrder(o) PROVE PagesInv'
  <2>1. UNCHANGED <<stripe, req>> /\ PayByWallet(o)
    BY <1>22 DEF PayOrder
  <2> QED BY <1>a, <1>d, <2>1, WalletKeepsPages, KeptIsSame, PagesStep
<1>23. ASSUME NEW o \in Orders, MoveCard(o) PROVE PagesInv'
  <2>1. UNCHANGED <<stripe, req>>
    BY <1>23 DEF MoveCard
  <2>2. PICK st : /\ st \in {"fulfilling", "completed"} \/ st = row[o].status
                  /\ row' = row \/ (st # row[o].status /\ Write(o, [row[o] EXCEPT !.status = st]))
    BY <1>23 DEF MoveCard, OrderAfter
  <2>3. \A x \in Orders : SamePage(x)
    <3>1. CASE row' = row
      BY <1>c, <3>1
    <3>2. CASE st \in {"fulfilling", "completed"} /\ Write(o, [row[o] EXCEPT !.status = st])
      <4>1. st \in OrderStatus \ {"draft"} /\ st \notin Unpaid
        BY <3>2 DEF OrderStatus, Settled, Unpaid
      <4> QED BY <1>a, <3>2, <4>1, StatusKeepsPages, KeptIsSame
    <3> QED BY <2>2, <3>1, <3>2
  <2> QED BY <1>d, <2>1, <2>3, PagesStep
<1>24. ASSUME NEW s \in Sessions, PaymentSettles(s) PROVE PagesInv'
  <2>1. PICK o \in Orders : o = stripe[s].order /\ row[o] \in OrderRow
    BY <1>24, <1>a DEF PaymentSettles, SessionsOfOrders, TypeOK
  <2>2. UNCHANGED <<stripe, req>> /\ Write(o, [row[o] EXCEPT !.status = "paid", !.session = s])
    BY <1>24, <2>1 DEF PaymentSettles
  <2>3. /\ row'[o] = [row[o] EXCEPT !.status = "paid", !.session = s]
        /\ \A x \in Orders \ {o} : row'[x] = row[x]
    BY <1>a, <2>2, WriteEffect
  <2>4. row'[o].status = "paid"
    BY <2>1, <2>3 DEF OrderRow
  <2>5. \A x \in Orders : SamePage(x)
    BY <2>3, <2>4, StagesApart DEF SamePage
  <2> QED BY <1>d, <2>2, <2>5, PagesStep
<1>25. ASSUME NEW s \in Sessions, SessionMoves(s) PROVE PagesInv'
  <2>1. /\ UNCHANGED <<row, req>>
        /\ \E to \in SessionState \ {"open"} : stripe' = [stripe EXCEPT ![s].state = to]
    BY <1>25 DEF SessionMoves, SessionSteps
  <2>2. NoNewPage
    BY <1>a, <2>1 DEF NoNewPage, TypeOK
  <2> QED BY <1>c, <2>1, <2>2, PagesStep
<1>26. ASSUME UNCHANGED <<row, stripe, req>> PROVE PagesInv'
  BY <1>c, <1>d, <1>26, PagesStep
<1>27. ASSUME NEW t \in TopUps, ApplyTopup(t) PROVE PagesInv'
  BY <1>26, <1>27 DEF ApplyTopup
<1>28. ASSUME NEW s \in Sessions, PaymentAnomaly(s) PROVE PagesInv'
  BY <1>26, <1>28 DEF PaymentAnomaly
<1>29. ASSUME UNCHANGED vars PROVE PagesInv'
  BY <1>26, <1>29 DEF vars
<1>30. ASSUME NEW p \in Workers, Crash(p) PROVE FALSE
  BY <1>30 DEF Crash
<1> QED
  BY <1>1, <1>2, <1>3, <1>4, <1>5, <1>6, <1>7, <1>8, <1>9, <1>10, <1>11, <1>12, <1>14, <1>15, <1>16, <1>17, <1>18, <1>19, <1>20, <1>21, <1>22, <1>23, <1>24, <1>25, <1>27, <1>28, <1>29, <1>30 DEF Next, Receive, Continue

LEMMA OneNamedPage ==
  ASSUME PagesInv
  PROVE  OnePayableSession
<1> SUFFICES ASSUME NEW o \in Orders
             PROVE  Cardinality({s \in Sessions : stripe[s].order = o
                                                  /\ stripe[s].state = "open"}) <= 1
  BY DEF OnePayableSession
<1> DEFINE S == {s \in Sessions : stripe[s].order = o /\ stripe[s].state = "open"}
<1>1. \A s, t \in S : s = t
  BY DEF PagesInv, OnePage, Open
<1>2. CASE S = {}
  <2> HIDE DEF S
  <2>1. Cardinality(S) = 0
    BY <1>2, FS_EmptySet
  <2> QED BY <2>1 DEF S
<1>3. CASE S # {}
  <2> HIDE DEF S
  <2>1. PICK s \in S : TRUE
    BY <1>3
  <2>2. S = {s}
    BY <1>1, <2>1
  <2>3. Cardinality(S) = 1
    BY <2>2, FS_Singleton
  <2> QED BY <2>3 DEF S
<1> QED BY <1>2, <1>3

\* The code swallows a failed call to stop the page a resume replaces, and then
\* two pages of one order can be paid.  That is the only way: while Stripe stops
\* every page it is asked to stop, nothing crashes and the requests on one order
\* do not overlap, an order no request is at work on has at most one.
THEOREM OnePageWhileStripeStops ==
  ASSUME ~MayCrash
  PROVE  Spec /\ []RequestsDoNotOverlap /\ [][ReplacedIsStopped]_vars
           => []OnePayableSession
<1>1. Init => PagesInv
  BY PagesInit
<1>2. Known /\ PagesInv /\ RequestsDoNotOverlap' /\ [Next]_vars /\ [ReplacedIsStopped]_vars
        => PagesInv'
  BY PagesNext
<1>3. PagesInv => OnePayableSession
  BY OneNamedPage
<1> QED BY <1>1, <1>2, <1>3, KnownAlone, PTL DEF Spec

-------------------------------------------------------------------------------
(* OrderPayment.tla implements OrderLifecycle.tla.                        *)

\* What a card's job may be, by the status of its order: where the two rows
\* are written by different transactions, they still agree.
JobFits(o) ==
  /\ row[o].status \in Unpaid => job[o] = "none"
  /\ row[o].status \in Refundable => job[o] \in {"pending", "in_progress", "printed", "posted"}
  /\ row[o].status = "completed" => job[o] = "delivered"
  /\ row[o].status = "cancelled" => job[o] \in {"none", "posted", "delivered"}

JobsFit == \A o \in Orders : JobFits(o)

\* Nothing the lifecycle tells apart has changed of order o.
Same(o) == /\ job'[o] = job[o]
           /\ row'[o].status = row[o].status \/ {row'[o].status, row[o].status} \subseteq Unpaid

LifecycleStep == [Lifecycle!Next]_(Lifecycle!vars)

LEMMA Stutters ==
  ASSUME TypeOK, JobsFit, \A o \in Orders : Same(o)
  PROVE  JobsFit' /\ LifecycleStep
<1>1. JobsFit'
  BY DEF JobsFit, JobFits, Same, Unpaid, Refundable
<1>2. StageOf' = StageOf /\ CardOf' = CardOf
  BY DEF StageOf, CardOf, Same, Unpaid, Settled
<1> QED BY <1>1, <1>2 DEF LifecycleStep, Lifecycle!vars

\* A write of one row that keeps the order where it was.
LEMMA WriteStutters ==
  ASSUME TypeOK, JobsFit, NEW o \in Orders, NEW r, Write(o, r), job' = job,
         r.status = row[o].status \/ {r.status, row[o].status} \subseteq Unpaid
  PROVE  JobsFit' /\ LifecycleStep
<1>1. row'[o] = r /\ \A x \in Orders \ {o} : row'[x] = row[x]
  BY WriteEffect
<1>2. \A x \in Orders : Same(x)
  BY <1>1 DEF Same
<1> QED BY <1>2, Stutters

LEMMA ReleaseStutters ==
  ASSUME TypeOK, JobsFit, NEW o \in Orders, ReleaseReservation(o), job' = job
  PROVE  JobsFit' /\ LifecycleStep
<1>1. CASE row[o].status \in Unpaid /\ row[o].applied > 0
  <2>1. Write(o, [row[o] EXCEPT !.applied = 0])
    BY <1>1 DEF ReleaseReservation
  <2>2. [row[o] EXCEPT !.applied = 0].status = row[o].status
    BY DEF TypeOK, OrderRow
  <2> QED BY <2>1, <2>2, WriteStutters
<1>2. CASE ~(row[o].status \in Unpaid /\ row[o].applied > 0)
  <2>1. row' = row
    BY <1>2 DEF ReleaseReservation
  <2> QED BY <2>1, Stutters DEF Same
<1> QED BY <1>1, <1>2

\* The rows of one order change as an abstract step of that order says.
LEMMA OneOrderMoves ==
  ASSUME TypeOK, JobsFit, NEW o \in Orders, NEW st \in OrderStatus, NEW j \in JobStatus,
         row' \in [Orders -> OrderRow], job' = [job EXCEPT ![o] = j],
         row'[o].status = st, \A x \in Orders \ {o} : row'[x] = row[x]
  PROVE  /\ JobFits(o)' => JobsFit'
         /\ StageOf' = [StageOf EXCEPT ![o] = IF st \in Unpaid THEN "unpaid"
                                              ELSE IF st \in Settled THEN "paid" ELSE "closed"]
         /\ CardOf' = [CardOf EXCEPT ![o] = IF j = "none" THEN "none"
                                            ELSE IF j \in {"posted", "delivered"} THEN "posted"
                                            ELSE "queue"]
<1>1. job'[o] = j /\ \A x \in Orders \ {o} : job'[x] = job[x]
  BY DEF TypeOK
<1>2. JobFits(o)' => JobsFit'
  BY <1>1 DEF JobsFit, JobFits
<1>3. StageOf' = [StageOf EXCEPT ![o] = IF st \in Unpaid THEN "unpaid"
                                        ELSE IF st \in Settled THEN "paid" ELSE "closed"]
  BY <1>1 DEF StageOf
<1>4. CardOf' = [CardOf EXCEPT ![o] = IF j = "none" THEN "none"
                                      ELSE IF j \in {"posted", "delivered"} THEN "posted"
                                      ELSE "queue"]
  BY <1>1 DEF CardOf
<1> QED BY <1>2, <1>3, <1>4

LEMMA SettleMaps ==
  ASSUME TypeOK, TypeOK', JobsFit, NEW o \in Orders, NEW r, NEW by, row[o].status \in Unpaid,
         Write(o, r), Settle(o, by), r.status = "paid"
  PROVE  JobsFit' /\ LifecycleStep
<1>1. job[o] = "none" /\ job' = [job EXCEPT ![o] = "pending"]
  BY DEF Settle, JobsFit, JobFits
<1>2. row'[o] = r /\ \A x \in Orders \ {o} : row'[x] = row[x]
  BY WriteEffect
<1>3. /\ JobFits(o)' => JobsFit'
      /\ StageOf' = [StageOf EXCEPT ![o] = "paid"]
      /\ CardOf' = [CardOf EXCEPT ![o] = "queue"]
  <2>1. "paid" \in OrderStatus /\ "pending" \in JobStatus /\ row' \in [Orders -> OrderRow]
    BY Names DEF TypeOK
  <2>2. row'[o].status = "paid"
    BY <1>2
  <2>3. "paid" \notin Unpaid /\ "paid" \in Settled
    BY DEF Unpaid, Settled
  <2>4. PICK j \in JobStatus : j = "pending"
    BY <2>1
  <2>5. PICK st \in OrderStatus : st = "paid"
    BY <2>1
  <2>6. /\ JobFits(o)' => JobsFit'
        /\ StageOf' = [StageOf EXCEPT ![o] = IF st \in Unpaid THEN "unpaid"
                                             ELSE IF st \in Settled THEN "paid" ELSE "closed"]
        /\ CardOf' = [CardOf EXCEPT ![o] = IF j = "none" THEN "none"
                                           ELSE IF j \in {"posted", "delivered"} THEN "posted"
                                           ELSE "queue"]
    BY <1>1, <1>2, <2>1, <2>4, <2>5, OneOrderMoves
  <2> QED BY <2>3, <2>4, <2>5, <2>6
<1>4. JobFits(o)'
  BY <1>1, <1>2 DEF JobFits, Unpaid, Refundable, TypeOK
<1>5. StageOf[o] = "unpaid"
  BY DEF StageOf
<1> QED BY <1>3, <1>4, <1>5 DEF LifecycleStep, Lifecycle!Next, Lifecycle!Settle

LEMMA AbandonMaps ==
  ASSUME TypeOK, TypeOK', JobsFit, NEW o \in Orders, row[o].status \in Unpaid,
         Write(o, [row[o] EXCEPT !.status = "cancelled"]), job' = job
  PROVE  JobsFit' /\ LifecycleStep
<1>1. job[o] = "none" /\ job' = [job EXCEPT ![o] = "none"]
  BY DEF JobsFit, JobFits, TypeOK
<1>2. row'[o].status = "cancelled" /\ \A x \in Orders \ {o} : row'[x] = row[x]
  BY WriteEffect DEF TypeOK, OrderRow
<1>3. JobsFit' /\ StageOf' = [StageOf EXCEPT ![o] = "closed"] /\ CardOf' = [CardOf EXCEPT ![o] = "none"]
  <2>1. "cancelled" \in OrderStatus /\ "none" \in JobStatus /\ row' \in [Orders -> OrderRow]
    BY Names DEF TypeOK
  <2>2. JobFits(o)'
    BY <1>1, <1>2 DEF JobFits, Unpaid, Refundable, TypeOK
  <2>3. PICK j \in JobStatus : j = "none"
    BY <2>1
  <2>4. PICK st \in OrderStatus : st = "cancelled"
    BY <2>1
  <2>5. /\ JobFits(o)' => JobsFit'
        /\ StageOf' = [StageOf EXCEPT ![o] = IF st \in Unpaid THEN "unpaid"
                                             ELSE IF st \in Settled THEN "paid" ELSE "closed"]
        /\ CardOf' = [CardOf EXCEPT ![o] = IF j = "none" THEN "none"
                                           ELSE IF j \in {"posted", "delivered"} THEN "posted"
                                           ELSE "queue"]
    BY <1>1, <1>2, <2>1, <2>3, <2>4, OneOrderMoves
  <2> QED BY <2>2, <2>3, <2>4, <2>5 DEF Unpaid, Settled
<1>4. StageOf[o] = "unpaid" /\ CardOf' = CardOf
  BY <1>1, <1>3 DEF StageOf, CardOf
<1> QED BY <1>3, <1>4 DEF LifecycleStep, Lifecycle!Next, Lifecycle!Abandon

\* A refund's release, of the wallet or of the card.
LEMMA RefundMaps ==
  ASSUME TypeOK, TypeOK', JobsFit, NEW o \in Orders, row[o].status \in Refundable,
         Write(o, [row[o] EXCEPT !.status = "cancelled"]), ReleaseCards(o)
  PROVE  JobsFit' /\ LifecycleStep
<1>1. PICK j \in {"none", "posted"} : j = IF job[o] = "posted" THEN "posted" ELSE "none"
  OBVIOUS
<1>2. job' = [job EXCEPT ![o] = j]
  BY <1>1 DEF ReleaseCards
<1>3. row'[o].status = "cancelled" /\ \A x \in Orders \ {o} : row'[x] = row[x]
  BY WriteEffect DEF TypeOK, OrderRow
<1>4. /\ JobFits(o)' => JobsFit'
      /\ StageOf' = [StageOf EXCEPT ![o] = "closed"]
      /\ CardOf' = [CardOf EXCEPT ![o] = j]
  <2>1. "cancelled" \in OrderStatus /\ j \in JobStatus /\ row' \in [Orders -> OrderRow]
    BY <1>1, Names DEF TypeOK
  <2> QED BY <1>1, <1>2, <1>3, <2>1, OneOrderMoves DEF Unpaid, Settled
<1>5. JobFits(o)'
  BY <1>1, <1>2, <1>3 DEF JobFits, Unpaid, Refundable, TypeOK
<1>6. StageOf[o] = "paid" /\ CardOf[o] = IF job[o] = "posted" THEN "posted" ELSE "queue"
  BY DEF StageOf, CardOf, JobsFit, JobFits, Refundable, Unpaid, Settled
<1> QED BY <1>1, <1>4, <1>5, <1>6 DEF LifecycleStep, Lifecycle!Next, Lifecycle!Refund

LEMMA MoveMaps ==
  ASSUME TypeOK, TypeOK', JobsFit, NEW o \in Orders, MoveCard(o)
  PROVE  JobsFit' /\ LifecycleStep
<1>1. PICK to \in JobStatus : /\ <<job[o], to>> \in CardSteps
                              /\ job' = [job EXCEPT ![o] = to]
                              /\ LET status == OrderAfter(row[o].status, to) IN
                                 IF status = row[o].status THEN UNCHANGED <<row, fresh>>
                                 ELSE Write(o, [row[o] EXCEPT !.status = status])
  BY DEF MoveCard
<1>2. PICK st : st = OrderAfter(row[o].status, to)
  OBVIOUS
<1>3. row'[o].status = st /\ \A x \in Orders \ {o} : row'[x] = row[x]
  <2>1. CASE st = row[o].status
    BY <1>1, <1>2, <2>1
  <2>2. CASE st # row[o].status
    <3>1. Write(o, [row[o] EXCEPT !.status = st])
      BY <1>1, <1>2, <2>2
    <3> QED BY <3>1, WriteEffect DEF TypeOK, OrderRow
  <2> QED BY <2>1, <2>2
<1>4. row' \in [Orders -> OrderRow] /\ st \in OrderStatus
  BY <1>3 DEF TypeOK, OrderRow
\* Where a card can be, and so its order.
<1>5. \/ job[o] \in {"pending", "in_progress"} /\ to \in {"in_progress", "printed"}
      \/ job[o] = "printed" /\ to = "posted"
      \/ job[o] = "posted" /\ to = "delivered"
  BY <1>1 DEF CardSteps
<1>6. \/ row[o].status \in Refundable
      \/ row[o].status = "cancelled" /\ job[o] = "posted"
  BY <1>5 DEF JobsFit, JobFits, TypeOK, OrderRow, OrderStatus, Unpaid, Settled, Refundable
<1>7. /\ row[o].status \in Refundable /\ to = "delivered" => st = "completed"
      /\ row[o].status \in Refundable /\ to # "delivered" => st \in Refundable
      /\ row[o].status = "cancelled" => st = "cancelled"
  BY <1>2, <1>5, <1>6 DEF OrderAfter, Refundable
<1>8. JobFits(o)'
  BY <1>1, <1>3, <1>5, <1>6, <1>7 DEF JobFits, TypeOK, Unpaid, Refundable
<1>9. /\ JobsFit'
      /\ StageOf' = [StageOf EXCEPT ![o] = IF st \in Unpaid THEN "unpaid"
                                           ELSE IF st \in Settled THEN "paid" ELSE "closed"]
      /\ CardOf' = [CardOf EXCEPT ![o] = IF to = "none" THEN "none"
                                         ELSE IF to \in {"posted", "delivered"} THEN "posted"
                                         ELSE "queue"]
  BY <1>1, <1>3, <1>4, <1>8, OneOrderMoves
<1>10. StageOf[o] = IF st = "cancelled" THEN "closed" ELSE "paid"
  BY <1>6, <1>7 DEF StageOf, Unpaid, Settled, Refundable
<1>11. StageOf' = StageOf
  BY <1>6, <1>7, <1>9, <1>10 DEF StageOf, Unpaid, Settled, Refundable
<1>12. CASE job[o] = "printed"
  <2>1. StageOf[o] = "paid" /\ CardOf[o] = "queue" /\ to = "posted"
    BY <1>5, <1>6, <1>12 DEF StageOf, CardOf, Unpaid, Settled, Refundable
  <2> QED BY <1>9, <1>11, <2>1 DEF LifecycleStep, Lifecycle!Next, Lifecycle!PostCard
<1>13. CASE job[o] # "printed"
  <2>1. CardOf' = CardOf
    BY <1>5, <1>9, <1>13 DEF CardOf
  <2> QED BY <1>9, <1>11, <2>1 DEF LifecycleStep, Lifecycle!vars
<1> QED BY <1>12, <1>13

-------------------------------------------------------------------------------
LEMMA InitMaps == Init => JobsFit /\ Lifecycle!Init
BY DEF Init, JobsFit, JobFits, Refundable, Unpaid, Lifecycle!Init, StageOf, CardOf

LEMMA StepMaps == TypeInv /\ TypeInv' /\ JobsFit /\ [Next]_vars => JobsFit' /\ LifecycleStep
<1> SUFFICES ASSUME TypeInv, TypeInv', JobsFit, [Next]_vars PROVE JobsFit' /\ LifecycleStep
  OBVIOUS
<1>a. TypeOK /\ TypeOK' /\ Serving /\ SessionsOfOrders
  BY DEF TypeInv
<1>b. \A p \in Workers : ~Idle(p) => req[p].order \in Orders
  BY <1>a DEF Serving, Idle
<1>c. \A o \in Orders : row[o] \in OrderRow
  BY <1>a DEF TypeOK
\* Steps that leave rows and jobs alone.
<1>d. ASSUME row' = row, job' = job PROVE JobsFit' /\ LifecycleStep
  BY <1>a, <1>d, Stutters DEF Same
<1>e. ASSUME NEW o \in Orders, WalletCovers(o), PayByWallet(o) PROVE JobsFit' /\ LifecycleStep
  <2>1. PICK r : r = [row[o] EXCEPT !.status = "paid", !.method = "wallet"]
    OBVIOUS
  <2>2. r.status = "paid"
    BY <1>c, <2>1 DEF OrderRow
  <2>3. Write(o, r) /\ Settle(o, "wallet") /\ row[o].status \in Unpaid
    BY <1>e, <2>1 DEF WalletCovers, PayByWallet, Unpaid
  <2> QED BY <1>a, <2>2, <2>3, SettleMaps
<1>1. ASSUME NEW p \in Workers, Receive(p) PROVE JobsFit' /\ LifecycleStep
  <2>1. ASSUME NEW o \in Orders, CheckoutRead(p, o) \/ ResumeRead(p, o) \/ RefundRead(p, o)
        PROVE  JobsFit' /\ LifecycleStep
    BY <1>d, <2>1 DEF CheckoutRead, ResumeRead, RefundRead
  <2>2. ASSUME NEW o \in Orders, CancelRelease(p, o) PROVE JobsFit' /\ LifecycleStep
    BY <1>a, <2>2, ReleaseStutters DEF CancelRelease
  <2>3. ASSUME NEW s \in Sessions, FlipToDraft(p, s) PROVE JobsFit' /\ LifecycleStep
    <3>1. PICK o \in Orders : o = stripe[s].order
      BY <1>a, <2>3 DEF FlipToDraft, Dead, SessionsOfOrders
    <3>2. /\ Write(o, [row[o] EXCEPT !.status = "draft"]) /\ job' = job
          /\ row[o].status = "pending_payment"
      BY <2>3, <3>1 DEF FlipToDraft, ReleasableBy
    <3>3. [row[o] EXCEPT !.status = "draft"].status = "draft"
      BY <1>c DEF OrderRow
    <3> QED BY <1>a, <3>2, <3>3, WriteStutters DEF Unpaid
  <2> QED BY <1>1, <2>1, <2>2, <2>3 DEF Receive
<1>2. ASSUME NEW p \in Workers, Continue(p) PROVE JobsFit' /\ LifecycleStep
  <2>1. CASE PayFromWallet(p)
    BY <1>b, <1>d, <1>e, <2>1 DEF PayFromWallet, At, Idle
  <2>2. CASE Reserve(p)
    <3>1. PICK o \in Orders : o = req[p].order
      BY <1>b, <2>2 DEF Reserve, At, Idle
    <3>2. CASE row[o].status = "draft"
      <4>1. PICK draw : Write(o, [row[o] EXCEPT !.status = "pending_payment", !.applied = draw])
        BY <2>2, <3>1, <3>2 DEF Reserve
      <4>2. [row[o] EXCEPT !.status = "pending_payment", !.applied = draw].status = "pending_payment"
        BY <1>c DEF OrderRow
      <4> QED BY <1>a, <2>2, <3>2, <4>1, <4>2, WriteStutters DEF Reserve, Unpaid
    <3>3. CASE row[o].status # "draft"
      BY <1>d, <2>2, <3>1, <3>3 DEF Reserve
    <3> QED BY <3>2, <3>3
  <2>3. CASE ClaimResume(p)
    <3>1. PICK o \in Orders : o = req[p].order
      BY <1>b, <2>3 DEF ClaimResume, At, Idle
    <3>2. row' = row /\ job' = job
      BY <1>a, <2>3, <3>1 DEF ClaimResume, Write, TypeOK
    <3> QED BY <1>d, <3>2
  <2>4. CASE HandBackDraft(p)
    <3>1. PICK o \in Orders : o = req[p].order
      BY <1>b, <2>4 DEF HandBackDraft, At, Idle
    <3>2. CASE row[o].status = "pending_payment"
      <4>1. [row[o] EXCEPT !.status = "draft"].status = "draft"
        BY <1>c DEF OrderRow
      <4>2. Write(o, [row[o] EXCEPT !.status = "draft"]) /\ job' = job
        BY <2>4, <3>1, <3>2 DEF HandBackDraft
      <4> QED BY <1>a, <3>2, <4>1, <4>2, WriteStutters DEF Unpaid
    <3>3. CASE row[o].status # "pending_payment"
      BY <1>d, <2>4, <3>1, <3>3 DEF HandBackDraft
    <3> QED BY <3>2, <3>3
  <2>5. CASE RecordSession(p)
    <3>1. PICK o \in Orders : o = req[p].order
      BY <1>b, <2>5 DEF RecordSession, At, Idle
    <3>2. PICK s, i : Write(o, [row[o] EXCEPT !.method = "card", !.session = s, !.intent = i])
      BY <2>5, <3>1 DEF RecordSession
    <3>3. [row[o] EXCEPT !.method = "card", !.session = s, !.intent = i].status = row[o].status
      BY <1>c DEF OrderRow
    <3> QED BY <1>a, <2>5, <3>2, <3>3, WriteStutters DEF RecordSession
  <2>6. CASE HandBackMoney(p) \/ ReleaseAfterEvent(p)
    BY <1>a, <1>b, <2>6, ReleaseStutters DEF HandBackMoney, ReleaseAfterEvent, At, Idle
  <2>7. CASE CancelClaim(p)
    <3>1. PICK o \in Orders : o = req[p].order
      BY <1>b, <2>7 DEF CancelClaim, At, Idle
    <3>2. CASE row[o].status \in Unpaid
      BY <1>a, <2>7, <3>1, <3>2, AbandonMaps DEF CancelClaim
    <3>3. CASE row[o].status \notin Unpaid
      BY <1>d, <2>7, <3>1, <3>3 DEF CancelClaim
    <3> QED BY <3>2, <3>3
  <2>8. CASE ReleaseOrder(p)
    <3>1. PICK o \in Orders : o = req[p].order
      BY <1>b, <2>8 DEF ReleaseOrder, At, Idle
    <3>2. CASE row[o].status \in Refundable
      BY <1>a, <2>8, <3>1, <3>2, RefundMaps DEF ReleaseOrder
    <3>3. CASE row[o].status \notin Refundable
      BY <1>d, <2>8, <3>1, <3>3 DEF ReleaseOrder
    <3> QED BY <3>2, <3>3
  <2>9. CASE RefundWallet(p)
    <3>1. PICK o \in Orders : o = req[p].order
      BY <1>b, <2>9 DEF RefundWallet, At, Idle
    <3>2. CASE row[o].status \in Refundable
      BY <1>a, <2>9, <3>1, <3>2, RefundMaps DEF RefundWallet
    <3>3. CASE row[o].status \notin Refundable
      BY <1>d, <2>9, <3>1, <3>3 DEF RefundWallet
    <3> QED BY <3>2, <3>3
  <2>10. ASSUME NEW s \in Sessions, CreateSession(p, s) PROVE JobsFit' /\ LifecycleStep
    BY <1>d, <2>10 DEF CreateSession
  <2>11. CASE CreateSessionFails(p) \/ ExpireOld(p) \/ RefundCard(p) \/ CreditWalletPortion(p)
    BY <1>d, <2>11 DEF CreateSessionFails, ExpireOld, RefundCard, CreditWalletPortion
  <2> QED BY <1>2, <2>1, <2>2, <2>3, <2>4, <2>5, <2>6, <2>7, <2>8, <2>9, <2>10, <2>11 DEF Continue
<1>3. ASSUME NEW p \in Workers, Crash(p) PROVE JobsFit' /\ LifecycleStep
  BY <1>d, <1>3 DEF Crash
<1>4. ASSUME NEW o \in Orders, PayOrder(o) PROVE JobsFit' /\ LifecycleStep
  BY <1>e, <1>4 DEF PayOrder
<1>5. ASSUME NEW o \in Orders, MoveCard(o) PROVE JobsFit' /\ LifecycleStep
  BY <1>a, <1>5, MoveMaps
<1>6. ASSUME NEW t \in TopUps, ApplyTopup(t) PROVE JobsFit' /\ LifecycleStep
  BY <1>d, <1>6 DEF ApplyTopup
<1>7. ASSUME NEW s \in Sessions, PaymentSettles(s) PROVE JobsFit' /\ LifecycleStep
  <2>1. PICK o \in Orders : o = stripe[s].order
    BY <1>a, <1>7 DEF PaymentSettles, SessionsOfOrders
  <2>2. [row[o] EXCEPT !.status = "paid", !.session = s].status = "paid"
    BY <1>c DEF OrderRow
  <2>3. /\ Write(o, [row[o] EXCEPT !.status = "paid", !.session = s]) /\ Settle(o, s)
        /\ row[o].status \in Unpaid
    BY <1>7, <2>1 DEF PaymentSettles, Unpaid
  <2> QED BY <1>a, <2>2, <2>3, SettleMaps
<1>8. ASSUME NEW s \in Sessions, PaymentAnomaly(s) \/ SessionMoves(s) PROVE JobsFit' /\ LifecycleStep
  BY <1>d, <1>8 DEF PaymentAnomaly, SessionMoves
<1>9. CASE UNCHANGED vars
  BY <1>d, <1>9 DEF vars
<1> QED BY <1>1, <1>2, <1>3, <1>4, <1>5, <1>6, <1>7, <1>8, <1>9 DEF Next

\* The order service keeps the promise of OrderLifecycle: whatever requests,
\* webhooks and cards overlap, each step settles one order, abandons it, posts
\* its card, refunds it, or changes nothing the promise speaks of.
THEOREM ImplementsLifecycle == Spec => LifecycleKept
<1>1. Init => TypeInv /\ JobsFit /\ Lifecycle!Init
  BY TypeInit, InitMaps
<1>2. TypeInv /\ JobsFit /\ [Next]_vars => TypeInv' /\ JobsFit' /\ [Lifecycle!Next]_(Lifecycle!vars)
  BY TypeStep, StepMaps DEF LifecycleStep
<1> QED BY <1>1, <1>2, PTL DEF Spec, LifecycleKept, Lifecycle!Spec
===============================================================================
