-------------------------- MODULE Subscriptions_proofs -------------------------
(* Theorems of Subscriptions.tla: types, no resurrection, and the row that  *)
(* follows Stripe whatever the order of the events.                         *)
EXTENDS Subscriptions, TLAPS

USE SubscriptionAssumption

\* A request that cancels, or has cancelled, names the subscription.
Named == \A r \in Checkouts : checkout[r].step \in {"cancel", "cancelled"} => checkout[r].of \in Subs

NamedSeats == \A c \in Changers : change[c].step # "idle" => change[c].of \in Subs

Types == TypeOK /\ Named /\ NamedSeats

\* Stripe's side: an event is of the past; a cancellation is the last of its
\* subscription, and nothing undoes it.
StripeIsSound ==
  /\ \A e \in events : e.at <= second
  /\ \A e \in events : e.status = "canceled" =>
        /\ stripe[e.sub].status = "canceled"
        /\ \A f \in events : f.sub = e.sub => f.at <= e.at
  /\ \A s \in Subs : Subscribed(s) =>
        \E e \in events : e.sub = s /\ (stripe[s].status = "canceled" => e.status = "canceled")

\* What a request believes to be cancelled is.
BeliefIsSound ==
  \A r \in Checkouts : checkout[r].step = "cancelled" => stripe[checkout[r].of].status = "canceled"

\* The table's side: a row is what some received event says, none received is
\* later, and a cancellation once received, or made here, stands.
RowIsSound ==
  /\ \A s \in Subs : row[s].status = "none" => row[s].lastEventAt = None
  /\ \A s \in Subs : row[s].status = "canceled" => stripe[s].status = "canceled"
  /\ \A e \in delivered :
        \/ row[e.sub].status = "canceled"
        \/ e.status # "canceled" /\ row[e.sub].lastEventAt # None /\ e.at <= row[e.sub].lastEventAt
  /\ \A s \in Subs : row[s].status \notin {"none", "canceled"} =>
        \E e \in delivered : e.sub = s /\ e.status = row[s].status /\ e.at = row[s].lastEventAt

IInv == Types /\ StripeIsSound /\ BeliefIsSound /\ RowIsSound
-------------------------------------------------------------------------------
LEMMA InitTypes == Init => Types
BY DEF Init, Types, TypeOK, Named, NamedSeats, IdleCheckout, IdleChange, NoRow, Row, Status

\* Stripe makes a well-typed event.
LEMMA BecomesTypes ==
  ASSUME TypeOK, NEW s \in Subs, NEW status \in Status, NEW n \in Seats, Becomes(s, status, n)
  PROVE  /\ stripe' \in [Subs -> [status : Status \cup {"none", "session"}, seats : Seats]]
         /\ events' \subseteq Event
         /\ second' \in 0..Horizon
         /\ events \subseteq events'
BY DEF TypeOK, Becomes, Event, Status

\* The types are kept by each step.
LEMMA TypesStep == Types /\ [Next]_vars => Types'
<1> SUFFICES ASSUME Types, [Next]_vars PROVE Types' OBVIOUS
<1> USE DEF Types, Named, NamedSeats
<1>0. TypeOK BY DEF Types
<1>1. CASE Tick BY <1>1 DEF Tick, account, TypeOK, Event
<1>2. ASSUME NEW s \in Subs, NEW status \in Status, Subscribe(s, status) PROVE Types'
  <2>1. 0 \in Seats OBVIOUS
  <2>2. Becomes(s, status, 0) BY <1>2 DEF Subscribe
  <2> QED BY <1>0, <1>2, <2>1, <2>2, BecomesTypes DEF Subscribe, TypeOK, account
<1>3. ASSUME NEW s \in Subs, NEW status \in Status, StripeMoves(s, status) PROVE Types'
  <2>1. stripe[s].seats \in Seats BY DEF TypeOK
  <2>2. Becomes(s, status, stripe[s].seats) BY <1>3 DEF StripeMoves
  <2> QED BY <1>0, <1>3, <2>1, <2>2, BecomesTypes DEF StripeMoves, TypeOK, account
<1>4. ASSUME NEW e \in events, Deliver(e) PROVE Types'
  <2>1. e \in Event BY DEF TypeOK
  <2>2. SeatsOf(e) \in Seats BY <2>1 DEF SeatsOf, Event
  <2>3. row' \in [Subs -> Row] BY <1>4, <2>1 DEF Deliver, account, Row, Event, TypeOK
  <2>4. plan' \in {"free", "paid"} /\ extraSeats' \in Seats BY <1>4, <2>2 DEF Deliver, account, TypeOK
  <2> QED BY <1>4, <2>3, <2>4 DEF Deliver, stripeVars, TypeOK
<1>5. ASSUME NEW r \in Checkouts, CheckoutStep(r) PROVE Types'
  <2>1. CASE FindExisting(r) BY <2>1 DEF FindExisting, stripeVars, account, TypeOK
  <2>2. ASSUME NEW s \in Subs, FindIncomplete(r, s) PROVE Types'
    BY <2>2 DEF FindIncomplete, stripeVars, account, TypeOK
  <2>3. CASE CancelStranded(r)
    <3>1. checkout[r].of \in Subs BY <2>3 DEF CancelStranded
    <3>2. stripe[checkout[r].of].seats \in Seats BY <3>1 DEF TypeOK
    <3>3. "canceled" \in Status BY DEF Status
    <3>4. /\ stripe' \in [Subs -> [status : Status \cup {"none", "session"}, seats : Seats]]
          /\ events' \subseteq Event
          /\ second' \in 0..Horizon
          /\ events \subseteq events'
      <4>1. CASE stripe[checkout[r].of].status = "canceled"
        BY <2>3, <4>1 DEF CancelStranded, stripeVars, TypeOK
      <4>2. CASE stripe[checkout[r].of].status # "canceled"
        <5>1. Becomes(checkout[r].of, "canceled", stripe[checkout[r].of].seats)
          BY <2>3, <4>2 DEF CancelStranded
        <5> QED BY <1>0, <3>1, <3>2, <3>3, <5>1, BecomesTypes
      <4> QED BY <4>1, <4>2
    <3>5. checkout' = [checkout EXCEPT ![r] = [step |-> "cancelled", of |-> checkout[r].of]]
          /\ UNCHANGED <<delivered, account, change>>
      BY <2>3 DEF CancelStranded
    <3> QED BY <3>1, <3>4, <3>5 DEF account, TypeOK
  <2>4. CASE MarkStranded(r)
    <3>1. checkout[r].of \in Subs BY <2>4 DEF MarkStranded
    <3>2. row' \in [Subs -> Row] BY <2>4, <3>1 DEF MarkStranded, Row, Status, TypeOK
    <3> QED BY <2>4, <3>2 DEF MarkStranded, stripeVars, TypeOK
  <2>5. ASSUME NEW s \in Subs, OpenSession(r, s) PROVE Types'
    <3>1. stripe' \in [Subs -> [status : Status \cup {"none", "session"}, seats : Seats]]
      BY <2>5 DEF OpenSession, TypeOK
    <3> QED BY <2>5, <3>1 DEF OpenSession, IdleCheckout, account, TypeOK
  <2>6. CASE CheckoutFails(r) BY <2>6 DEF CheckoutFails, IdleCheckout, stripeVars, account, TypeOK
  <2> QED BY <1>5, <2>1, <2>2, <2>3, <2>4, <2>5, <2>6 DEF CheckoutStep
<1>6. ASSUME NEW c \in Changers, ChangeStep(c) PROVE Types'
  <2>1. ASSUME NEW s \in Subs, NEW n \in Seats, CheckSeats(c, s, n) PROVE Types'
    BY <2>1 DEF CheckSeats, stripeVars, account, TypeOK
  <2>2. CASE BillSeats(c)
    <3>1. change[c].of \in Subs /\ change[c].to \in Seats BY <2>2 DEF BillSeats, TypeOK
    <3>3. /\ stripe' \in [Subs -> [status : Status \cup {"none", "session"}, seats : Seats]]
          /\ events' \subseteq Event
          /\ second' \in 0..Horizon
          /\ events \subseteq events'
      <4>1. CASE stripe[change[c].of].seats = change[c].to
        BY <2>2, <4>1 DEF BillSeats, stripeVars, TypeOK
      <4>2. CASE stripe[change[c].of].seats # change[c].to
        <5>1. /\ Becomes(change[c].of, stripe[change[c].of].status, change[c].to)
              /\ stripe[change[c].of].status \in Status
          BY <2>2, <4>2 DEF BillSeats, Paying, Status
        <5> QED BY <1>0, <3>1, <5>1, BecomesTypes
      <4> QED BY <4>1, <4>2
    <3>4. change' = [change EXCEPT ![c].step = "billed"] /\ UNCHANGED <<delivered, account, checkout>>
      BY <2>2 DEF BillSeats
    <3>5. change' \in [Changers -> [step : {"idle", "checked", "billed"}, of : Subs \cup {None}, to : Seats]]
      BY <3>4 DEF TypeOK
    <3> QED BY <3>1, <3>3, <3>4, <3>5 DEF account, TypeOK
  <2>3. CASE WriteSeats(c)
    BY <2>3 DEF WriteSeats, IdleChange, stripeVars, TypeOK
  <2>4. CASE ChangeFails(c) BY <2>4 DEF ChangeFails, IdleChange, stripeVars, account, TypeOK
  <2> QED BY <1>6, <2>1, <2>2, <2>3, <2>4 DEF ChangeStep
<1>7. CASE UNCHANGED vars BY <1>7 DEF vars, stripeVars, account, TypeOK
<1> QED BY <1>1, <1>2, <1>3, <1>4, <1>5, <1>6, <1>7 DEF Next, StripeStep
-------------------------------------------------------------------------------
\* The plan and the rows are well typed for ever.
THEOREM TypeCorrect == Spec => []TypeOK
<1>1. Types => TypeOK BY DEF Types
<1> QED BY <1>1, InitTypes, TypesStep, PTL DEF Spec

\* NoResurrection: handleSubscriptionEvent never takes a cancelled row back.
THEOREM StaysCancelled == Spec => NoResurrection
<1>1. Types /\ [Next]_vars =>
        [/\ \A s \in Subs : row[s].status = "canceled" => row'[s].status = "canceled"
         /\ plan = "free" /\ plan' = "paid" => \E s \in Subs : row'[s].status \in Chargeable]_vars
  <2> SUFFICES ASSUME Types, [Next]_vars
      PROVE /\ \A s \in Subs : row[s].status = "canceled" => row'[s].status = "canceled"
            /\ plan = "free" /\ plan' = "paid" => \E s \in Subs : row'[s].status \in Chargeable
    OBVIOUS
  <2>1. CASE row' = row /\ plan' = plan BY <2>1
  <2>2. ASSUME NEW e \in events, Deliver(e)
        PROVE /\ \A s \in Subs : row[s].status = "canceled" => row'[s].status = "canceled"
              /\ plan = "free" /\ plan' = "paid" => \E s \in Subs : row'[s].status \in Chargeable
    <3>1. e \in Event BY DEF Types, TypeOK
    <3>2. CASE Stale(e) BY <2>2, <3>2 DEF Deliver, account
    <3>3. CASE ~Stale(e)
      <4>1. row' = [row EXCEPT ![e.sub] = [status |-> e.status, lastEventAt |-> e.at]]
            /\ plan' = IF e.status = "canceled" THEN "free" ELSE "paid"
        BY <2>2, <3>3 DEF Deliver
      <4>2. row[e.sub].status = "canceled" => e.status = "canceled" BY <3>3 DEF Stale
      <4>3. plan' = "paid" => e.status \in Chargeable BY <3>1, <4>1 DEF Event, Status, Chargeable
      <4> QED BY <3>1, <4>1, <4>2, <4>3 DEF Types, TypeOK, Event
    <3> QED BY <3>2, <3>3
  <2>3. ASSUME NEW r \in Checkouts, MarkStranded(r)
        PROVE /\ \A s \in Subs : row[s].status = "canceled" => row'[s].status = "canceled"
              /\ plan = "free" /\ plan' = "paid" => \E s \in Subs : row'[s].status \in Chargeable
    BY <2>3 DEF MarkStranded, Types, TypeOK, Row, Named
  <2> QED
    BY <2>1, <2>2, <2>3
    DEF Next, StripeStep, CheckoutStep, ChangeStep, vars, account, Tick, Subscribe, StripeMoves, FindExisting,
        FindIncomplete, CancelStranded, OpenSession, CheckoutFails, CheckSeats, BillSeats, WriteSeats, ChangeFails
<1> QED BY <1>1, InitTypes, TypesStep, PTL DEF Spec, NoResurrection
-------------------------------------------------------------------------------
LEMMA InitSound == Init => StripeIsSound /\ BeliefIsSound /\ RowIsSound
BY DEF Init, StripeIsSound, BeliefIsSound, RowIsSound, IdleCheckout, NoRow, Subscribed, Status

\* A change at Stripe, of a subscription not cancelled, disturbs nothing said of
\* the past.
LEMMA BecomesSound ==
  ASSUME Types, StripeIsSound, RowIsSound, Types',
         NEW s \in Subs, NEW status \in Status, NEW n \in Seats,
         Becomes(s, status, n), stripe[s].status # "canceled", UNCHANGED <<row, delivered>>
  PROVE  /\ StripeIsSound' /\ RowIsSound'
         /\ \A t \in Subs : stripe[t].status = "canceled" => stripe'[t].status = "canceled"
<1> DEFINE new == [sub |-> s, at |-> second, status |-> status, seats |-> n]
<1> HIDE DEF new
<1>1. new.sub = s /\ new.at = second /\ new.status = status BY DEF new
<1>2. /\ stripe' = [stripe EXCEPT ![s] = [status |-> status, seats |-> n]]
      /\ events' = events \cup {new}
      /\ second' = second
  BY DEF Becomes, new
<1>3. \A t \in Subs : stripe'[t].status = IF t = s THEN status ELSE stripe[t].status
  BY <1>2 DEF Types, TypeOK
<1>4. \A e \in events : e.sub \in Subs /\ e.at \in Nat /\ e.at <= second /\ (e.status = "canceled" => e.sub # s)
  BY DEF StripeIsSound, Types, TypeOK, Event
<1>5. second \in Nat BY DEF Types, TypeOK
<1>6. ASSUME NEW e \in events' PROVE e.at <= second' BY <1>1, <1>2, <1>4, <1>5
<1>7. ASSUME NEW e \in events', e.status = "canceled"
      PROVE  /\ stripe'[e.sub].status = "canceled"
             /\ \A f \in events' : f.sub = e.sub => f.at <= e.at
  <2>1. CASE e = new BY <1>1, <1>2, <1>3, <1>4, <1>5, <1>7, <2>1
  <2>2. CASE e \in events
    BY <1>1, <1>2, <1>3, <1>4, <1>5, <1>7, <2>2 DEF StripeIsSound
  <2> QED BY <1>2, <2>1, <2>2
<1>8. ASSUME NEW t \in Subs, Subscribed(t)'
      PROVE \E e \in events' : e.sub = t /\ (stripe'[t].status = "canceled" => e.status = "canceled")
  <2>1. CASE t = s BY <1>1, <1>2, <1>3, <2>1
  <2>2. CASE t # s
    <3>1. Subscribed(t) BY <1>2, <1>3, <1>8, <2>2 DEF Subscribed
    <3> QED BY <1>2, <1>3, <2>2, <3>1 DEF StripeIsSound
  <2> QED BY <2>1, <2>2
<1>9. StripeIsSound' BY <1>6, <1>7, <1>8 DEF StripeIsSound
<1>10. \A t \in Subs : stripe[t].status = "canceled" => stripe'[t].status = "canceled" BY <1>3
<1>11. RowIsSound' BY <1>10 DEF RowIsSound
<1> QED BY <1>9, <1>10, <1>11

\* Nor does a step that leaves Stripe and the table alone.
LEMMA QuietSound ==
  ASSUME StripeIsSound, RowIsSound, events' = events, stripe' = stripe, row' = row, delivered' = delivered,
         second \in Nat, second' \in Nat, second <= second', events \subseteq Event
  PROVE  StripeIsSound' /\ RowIsSound'
<1>1. \A e \in events : e.at \in Nat BY DEF Event
<1> QED BY <1>1 DEF StripeIsSound, RowIsSound, Subscribed

\* An event received, in whatever order, leaves the row what some event says.
LEMMA DeliverSound ==
  ASSUME Types, StripeIsSound, RowIsSound, NEW e \in events, Deliver(e)
  PROVE  StripeIsSound' /\ RowIsSound'
<1>1. e \in Event /\ e.sub \in Subs /\ e.at \in Nat /\ e.status \in Status BY DEF Types, TypeOK, Event
<1>2. /\ delivered' = delivered \cup {e}
      /\ stripe' = stripe /\ events' = events /\ second' = second
  BY DEF Deliver, stripeVars
<1>3. StripeIsSound' BY <1>2 DEF StripeIsSound, Subscribed
<1>4. CASE Stale(e)
  <2>1. row' = row BY <1>4 DEF Deliver, account
  <2>2. row[e.sub].lastEventAt \in Nat \cup {None} BY <1>1 DEF Types, TypeOK, Row
  <2>3. \/ row[e.sub].status = "canceled"
        \/ e.status # "canceled" /\ row[e.sub].lastEventAt # None /\ e.at <= row[e.sub].lastEventAt
    <3>1. SUFFICES ASSUME row[e.sub].status # "canceled"
          PROVE e.status # "canceled" /\ row[e.sub].lastEventAt # None /\ e.at <= row[e.sub].lastEventAt
      OBVIOUS
    <3>2. row[e.sub].lastEventAt # None /\ e.at < row[e.sub].lastEventAt BY <1>4, <3>1 DEF Stale
    <3>3. row[e.sub].status \notin {"none", "canceled"} BY <1>1, <3>1, <3>2 DEF RowIsSound
    <3>4. PICK f \in delivered : f.sub = e.sub /\ f.at = row[e.sub].lastEventAt
      BY <1>1, <3>3 DEF RowIsSound
    <3>5. f \in events BY DEF Types, TypeOK
    <3>6. e.status = "canceled" => f.at <= e.at BY <3>4, <3>5 DEF StripeIsSound
    <3> QED BY <1>1, <2>2, <3>2, <3>4, <3>6
  <2> QED BY <1>2, <1>3, <2>1, <2>3 DEF RowIsSound
<1>5. CASE ~Stale(e)
  <2>1. row' = [row EXCEPT ![e.sub] = [status |-> e.status, lastEventAt |-> e.at]]
    BY <1>5 DEF Deliver
  <2>2. \A s \in Subs : row'[s] = IF s = e.sub THEN [status |-> e.status, lastEventAt |-> e.at] ELSE row[s]
    BY <2>1 DEF Types, TypeOK
  <2>3. row'[e.sub].status = e.status /\ row'[e.sub].lastEventAt = e.at BY <1>1, <2>2
  <2>4. ASSUME NEW s \in Subs, row'[s].status = "none" PROVE row'[s].lastEventAt = None
    BY <1>1, <2>2, <2>3, <2>4 DEF RowIsSound, Status
  <2>5. ASSUME NEW s \in Subs, row'[s].status = "canceled" PROVE stripe'[s].status = "canceled"
    BY <1>2, <2>2, <2>3, <2>5 DEF RowIsSound, StripeIsSound
  <2>6. ASSUME NEW f \in delivered'
        PROVE \/ row'[f.sub].status = "canceled"
              \/ f.status # "canceled" /\ row'[f.sub].lastEventAt # None /\ f.at <= row'[f.sub].lastEventAt
    <3>1. f \in events /\ f.sub \in Subs /\ f.at \in Nat BY <1>2 DEF Types, TypeOK, Event
    <3>2. CASE f.sub # e.sub
      <4>1. f \in delivered BY <1>2, <3>2
      <4> QED BY <2>2, <3>1, <3>2, <4>1 DEF RowIsSound
    <3>3. CASE f.sub = e.sub /\ e.status = "canceled" BY <2>3, <3>3
    <3>4. CASE f = e /\ e.status # "canceled" BY <1>1, <2>3, <3>4
    <3>5. CASE f \in delivered /\ f.sub = e.sub /\ e.status # "canceled"
      <4>1. row[e.sub].status # "canceled" /\ (row[e.sub].lastEventAt # None => ~(e.at < row[e.sub].lastEventAt))
        BY <1>5, <3>5 DEF Stale
      <4>2. f.status # "canceled" /\ row[e.sub].lastEventAt # None /\ f.at <= row[e.sub].lastEventAt
        BY <3>5, <4>1 DEF RowIsSound
      <4>3. row[e.sub].lastEventAt \in Nat BY <1>1, <4>2 DEF Types, TypeOK, Row
      <4>4. f.at <= e.at BY <1>1, <3>1, <4>1, <4>2, <4>3
      <4> QED BY <1>1, <2>3, <3>5, <4>2, <4>4
    <3> QED BY <1>2, <3>2, <3>3, <3>4, <3>5
  <2>7. ASSUME NEW s \in Subs, row'[s].status \notin {"none", "canceled"}
        PROVE \E f \in delivered' : f.sub = s /\ f.status = row'[s].status /\ f.at = row'[s].lastEventAt
    BY <1>2, <2>2, <2>3, <2>7 DEF RowIsSound
  <2> QED BY <1>3, <2>4, <2>5, <2>6, <2>7 DEF RowIsSound
<1> QED BY <1>4, <1>5

\* The three facts are kept by each step.
LEMMA SoundStep == IInv /\ Types' /\ [Next]_vars => StripeIsSound' /\ BeliefIsSound' /\ RowIsSound'
<1> SUFFICES ASSUME IInv, Types', [Next]_vars PROVE StripeIsSound' /\ BeliefIsSound' /\ RowIsSound'
  OBVIOUS
<1>0. /\ Types /\ StripeIsSound /\ BeliefIsSound /\ RowIsSound
      /\ second \in Nat /\ second' \in Nat /\ events \subseteq Event
  BY DEF IInv, Types, TypeOK
<1>1. CASE Tick
  <2>1. second <= second' BY <1>0, <1>1 DEF Tick
  <2> QED BY <1>0, <1>1, <2>1, QuietSound DEF Tick, account, BeliefIsSound
<1>2. ASSUME NEW s \in Subs, NEW status \in Status, Subscribe(s, status)
      PROVE StripeIsSound' /\ BeliefIsSound' /\ RowIsSound'
  <2>1. Becomes(s, status, 0) /\ 0 \in Seats /\ stripe[s].status # "canceled" BY <1>2 DEF Subscribe
  <2>2. UNCHANGED <<row, delivered, checkout>> BY <1>2 DEF Subscribe, account
  <2> QED BY <1>0, <2>1, <2>2, BecomesSound DEF BeliefIsSound, Types, Named
<1>3. ASSUME NEW s \in Subs, NEW status \in Status, StripeMoves(s, status)
      PROVE StripeIsSound' /\ BeliefIsSound' /\ RowIsSound'
  <2>1. /\ Becomes(s, status, stripe[s].seats) /\ stripe[s].status # "canceled"
        /\ stripe[s].seats \in Seats
    BY <1>0, <1>3 DEF StripeMoves, Types, TypeOK
  <2>2. UNCHANGED <<row, delivered, checkout>> BY <1>3 DEF StripeMoves, account
  <2> QED BY <1>0, <2>1, <2>2, BecomesSound DEF BeliefIsSound, Types, Named
<1>4. ASSUME NEW e \in events, Deliver(e) PROVE StripeIsSound' /\ BeliefIsSound' /\ RowIsSound'
  <2>1. stripe' = stripe /\ checkout' = checkout BY <1>4 DEF Deliver, stripeVars
  <2> QED BY <1>0, <1>4, <2>1, DeliverSound DEF BeliefIsSound
<1>5. ASSUME NEW r \in Checkouts, CheckoutStep(r) PROVE StripeIsSound' /\ BeliefIsSound' /\ RowIsSound'
  <2>1. CASE FindExisting(r)
    <3>1. UNCHANGED <<stripe, events, second, row, delivered>> BY <2>1 DEF FindExisting, stripeVars, account
    <3>2. BeliefIsSound' BY <1>0, <2>1, <3>1 DEF FindExisting, BeliefIsSound, Types, TypeOK
    <3> QED BY <1>0, <3>1, <3>2, QuietSound
  <2>2. ASSUME NEW s \in Subs, FindIncomplete(r, s) PROVE StripeIsSound' /\ BeliefIsSound' /\ RowIsSound'
    <3>1. UNCHANGED <<stripe, events, second, row, delivered>> BY <2>2 DEF FindIncomplete, stripeVars, account
    <3>2. BeliefIsSound' BY <1>0, <2>2, <3>1 DEF FindIncomplete, BeliefIsSound, Types, TypeOK
    <3> QED BY <1>0, <3>1, <3>2, QuietSound
  <2>3. CASE CancelStranded(r)
    <3>1. checkout[r].of \in Subs BY <1>0, <2>3 DEF CancelStranded, Types, Named
    <3>2. /\ checkout' = [checkout EXCEPT ![r] = [step |-> "cancelled", of |-> checkout[r].of]]
          /\ UNCHANGED <<row, delivered>>
      BY <2>3 DEF CancelStranded, account
    <3>3. /\ StripeIsSound' /\ RowIsSound'
          /\ stripe'[checkout[r].of].status = "canceled"
          /\ \A t \in Subs : stripe[t].status = "canceled" => stripe'[t].status = "canceled"
      <4>1. CASE stripe[checkout[r].of].status = "canceled"
        <5>1. UNCHANGED <<stripe, events, second>> BY <2>3, <4>1 DEF CancelStranded, stripeVars
        <5> QED BY <1>0, <3>2, <4>1, <5>1, QuietSound
      <4>2. CASE stripe[checkout[r].of].status # "canceled"
        <5>1. Becomes(checkout[r].of, "canceled", stripe[checkout[r].of].seats)
          BY <2>3, <4>2 DEF CancelStranded
        <5>2. stripe[checkout[r].of].seats \in Seats BY <1>0, <3>1 DEF Types, TypeOK
        <5>3. "canceled" \in Status BY DEF Status
        <5>4. stripe'[checkout[r].of].status = "canceled" BY <1>0, <3>1, <5>1 DEF Becomes, Types, TypeOK
        <5> QED BY <1>0, <3>1, <3>2, <4>2, <5>1, <5>2, <5>3, <5>4, BecomesSound
      <4> QED BY <4>1, <4>2
    <3>4. BeliefIsSound' BY <1>0, <3>1, <3>2, <3>3 DEF BeliefIsSound, Types, TypeOK, Named
    <3> QED BY <3>3, <3>4
  <2>4. CASE MarkStranded(r)
    <3>1. /\ checkout[r].of \in Subs /\ stripe[checkout[r].of].status = "canceled"
      BY <1>0, <2>4 DEF MarkStranded, Types, Named, BeliefIsSound
    <3>2. UNCHANGED <<stripe, events, second, delivered>> BY <2>4 DEF MarkStranded, stripeVars
    <3>3. BeliefIsSound' BY <1>0, <2>4, <3>2 DEF MarkStranded, BeliefIsSound, Types, TypeOK
    <3>4. StripeIsSound' BY <1>0, <3>2 DEF StripeIsSound, Subscribed
    <3>5. CASE row' = row BY <1>0, <3>2, <3>3, <3>5, QuietSound
    <3>6. CASE row' # row
      <4>1. row' = [row EXCEPT ![checkout[r].of] =
                     [status |-> "canceled", lastEventAt |-> row[checkout[r].of].lastEventAt]]
        BY <2>4, <3>6 DEF MarkStranded
      <4>2. \A s \in Subs : row'[s] = IF s = checkout[r].of
              THEN [status |-> "canceled", lastEventAt |-> row[checkout[r].of].lastEventAt] ELSE row[s]
        BY <1>0, <4>1 DEF Types, TypeOK
      <4>3. \A e \in delivered : e.sub \in Subs BY <1>0 DEF Types, TypeOK, Event
      <4> QED BY <1>0, <3>1, <3>2, <3>3, <3>4, <4>2, <4>3 DEF RowIsSound
    <3> QED BY <3>5, <3>6
  <2>5. ASSUME NEW s \in Subs, OpenSession(r, s) PROVE StripeIsSound' /\ BeliefIsSound' /\ RowIsSound'
    <3>1. /\ \A t \in Subs : stripe'[t].status = IF t = s THEN "session" ELSE stripe[t].status
          /\ stripe[s].status = "none"
          /\ UNCHANGED <<events, second, row, delivered>>
      BY <1>0, <2>5 DEF OpenSession, Types, TypeOK, account
    <3>2. \A e \in events : e.sub \in Subs BY <1>0 DEF Event
    <3>3. StripeIsSound' BY <1>0, <3>1, <3>2 DEF StripeIsSound, Subscribed, Status
    <3>4. RowIsSound' BY <1>0, <3>1 DEF RowIsSound
    <3>5. BeliefIsSound' BY <1>0, <2>5, <3>1 DEF OpenSession, IdleCheckout, BeliefIsSound, Types, TypeOK, Named
    <3> QED BY <3>3, <3>4, <3>5
  <2>6. CASE CheckoutFails(r)
    <3>1. UNCHANGED <<stripe, events, second, row, delivered>> BY <2>6 DEF CheckoutFails, stripeVars, account
    <3>2. BeliefIsSound' BY <1>0, <2>6, <3>1 DEF CheckoutFails, IdleCheckout, BeliefIsSound, Types, TypeOK
    <3> QED BY <1>0, <3>1, <3>2, QuietSound
  <2> QED BY <1>5, <2>1, <2>2, <2>3, <2>4, <2>5, <2>6 DEF CheckoutStep
<1>6. ASSUME NEW c \in Changers, ChangeStep(c) PROVE StripeIsSound' /\ BeliefIsSound' /\ RowIsSound'
  <2>1. CASE BillSeats(c)
    <3>1. change[c].of \in Subs /\ change[c].to \in Seats
      BY <1>0, <2>1 DEF BillSeats, Types, TypeOK, NamedSeats
    <3>2. UNCHANGED <<row, delivered, checkout>> BY <2>1 DEF BillSeats, account
    <3>3. CASE stripe[change[c].of].seats = change[c].to
      <4>1. UNCHANGED <<stripe, events, second>> BY <2>1, <3>3 DEF BillSeats, stripeVars
      <4> QED BY <1>0, <3>2, <4>1, QuietSound DEF BeliefIsSound
    <3>4. CASE stripe[change[c].of].seats # change[c].to
      <4>1. /\ Becomes(change[c].of, stripe[change[c].of].status, change[c].to)
            /\ stripe[change[c].of].status \in Status /\ stripe[change[c].of].status # "canceled"
        BY <2>1, <3>4 DEF BillSeats, Paying, Status
      <4> QED BY <1>0, <3>1, <3>2, <4>1, BecomesSound DEF BeliefIsSound, Types, Named
    <3> QED BY <3>3, <3>4
  <2>2. CASE UNCHANGED <<stripe, events, second, row, delivered, checkout>>
    BY <1>0, <2>2, QuietSound DEF BeliefIsSound
  <2> QED BY <1>6, <2>1, <2>2 DEF ChangeStep, CheckSeats, WriteSeats, ChangeFails, stripeVars, account
<1>7. CASE UNCHANGED vars
  BY <1>0, <1>7, QuietSound DEF vars, stripeVars, account, BeliefIsSound
<1> QED BY <1>1, <1>2, <1>3, <1>4, <1>5, <1>6, <1>7 DEF Next, StripeStep
-------------------------------------------------------------------------------
LEMMA Invariant == Spec => []IInv
<1>1. Init => IInv BY InitTypes, InitSound DEF IInv
<1>2. IInv /\ [Next]_vars => IInv' BY TypesStep, SoundStep DEF IInv
<1> QED BY <1>1, <1>2, PTL DEF Spec

\* RowFollowsStripe: handleSubscriptionEvent converges on what Stripe holds, for
\* any number of subscriptions, events, duplicates and any order of them.
THEOREM RowFollows == Spec => []RowFollowsStripe
<1>1. IInv => RowFollowsStripe
  <2> SUFFICES ASSUME IInv, NEW s \in Subs, Subscribed(s), AllDelivered(s),
                      LastStandsAlone(s) \/ stripe[s].status = "canceled"
               PROVE row[s].status = stripe[s].status
    BY DEF RowFollowsStripe
  <2>0. Types /\ StripeIsSound /\ RowIsSound BY DEF IInv
  <2>1. PICK e \in events : e.sub = s /\ (stripe[s].status = "canceled" => e.status = "canceled")
    BY <2>0 DEF StripeIsSound
  <2>2. e \in delivered BY <2>1 DEF AllDelivered, EventsOf
  <2>3. \/ row[s].status = "canceled"
        \/ e.status # "canceled" /\ row[s].lastEventAt # None
    BY <2>0, <2>1, <2>2 DEF RowIsSound
  <2>4. row[s].status = "canceled" => stripe[s].status = "canceled" BY <2>0 DEF RowIsSound
  <2>5. CASE stripe[s].status = "canceled" BY <2>1, <2>3, <2>5
  <2>6. CASE stripe[s].status # "canceled"
    <3>1. LastStandsAlone(s) BY <2>6
    <3>2. row[s].status \notin {"none", "canceled"} BY <2>0, <2>3, <2>4, <2>6 DEF RowIsSound
    <3>3. PICK f \in delivered : f.sub = s /\ f.status = row[s].status /\ f.at = row[s].lastEventAt
      BY <2>0, <3>2 DEF RowIsSound
    <3>4. f \in EventsOf(s) BY <2>0, <3>3 DEF EventsOf, Types, TypeOK
    <3>5. \A g \in EventsOf(s) : g.at <= f.at
      BY <2>0, <3>2, <3>3 DEF AllDelivered, EventsOf, RowIsSound
    <3> QED BY <3>1, <3>3, <3>4, <3>5 DEF LastStandsAlone
  <2> QED BY <2>5, <2>6
<1> QED BY <1>1, Invariant, PTL
-------------------------------------------------------------------------------
(* The seats, while no two requests change them at once.                   *)

\* The last event of a subscription tells what Stripe holds now, and a bill made
\* but not yet written is what Stripe holds.
StripeTells ==
  /\ \A e \in events : Subscribed(e.sub)
  /\ \A s \in Subs : Subscribed(s) =>
        \E e \in events :
           /\ e.sub = s /\ e.status = stripe[s].status /\ e.seats = stripe[s].seats
           /\ \A f \in events : f.sub = s => f.at <= e.at

BilledIsCharged ==
  \A c \in Changers : change[c].step # "idle" =>
     /\ Subscribed(change[c].of)
     /\ change[c].step = "billed" => stripe[change[c].of].seats = change[c].to

Alone(s) == \A t \in Subs \ {s} : ~Subscribed(t)

\* The row of s has applied an event of the last second there was one in.
UpToDate(s) == \A e \in events : e.sub = s => e.at <= row[s].lastEventAt

\* The plan and the seats are those of the last event applied, or of a later bill.
AccountFollows ==
  \A s \in Subs :
    row[s].status \notin {"none", "canceled"} /\ Alone(s) =>
      /\ plan = "paid"
      /\ UpToDate(s) /\ LastStandsAlone(s) => extraSeats = stripe[s].seats

SeatsInv == StripeTells /\ BilledIsCharged /\ AccountFollows
LEMMA InitSeats == Init => SeatsInv
BY DEF Init, SeatsInv, StripeTells, BilledIsCharged, AccountFollows, Subscribed, Status, IdleChange, NoRow

\* What has a row that is not cancelled has an event, and Stripe knows it.
LEMMA RowIsSubscribed ==
  ASSUME IInv, StripeTells, NEW s \in Subs, row[s].status \notin {"none", "canceled"}
  PROVE  /\ Subscribed(s)
         /\ \E f \in events : f.sub = s /\ f.at = row[s].lastEventAt
<1>1. PICK f \in delivered : f.sub = s /\ f.at = row[s].lastEventAt
  BY DEF IInv, RowIsSound
<1>2. f \in events BY DEF IInv, Types, TypeOK
<1> QED BY <1>1, <1>2 DEF StripeTells

\* A change at Stripe puts the row behind, or two events in one second.
LEMMA BecomesSeats ==
  ASSUME IInv, StripeTells, AccountFollows,
         NEW s \in Subs, NEW status \in Status, NEW n \in Seats, Becomes(s, status, n),
         UNCHANGED <<row, plan, extraSeats>>,
         stripe[s].status # status \/ stripe[s].seats # n
  PROVE  /\ StripeTells' /\ AccountFollows'
         /\ \A t \in Subs : stripe'[t] = IF t = s THEN [status |-> status, seats |-> n] ELSE stripe[t]
<1> DEFINE new == [sub |-> s, at |-> second, status |-> status, seats |-> n]
<1> HIDE DEF new
<1>1. new.sub = s /\ new.at = second /\ new.status = status /\ new.seats = n BY DEF new
<1>2. events' = events \cup {new}
  BY DEF Becomes, new
<1>3. \A t \in Subs : stripe'[t] = IF t = s THEN [status |-> status, seats |-> n] ELSE stripe[t]
  BY DEF Becomes, IInv, Types, TypeOK
<1>4. \A e \in events : e.sub \in Subs /\ e.at \in Nat /\ e.at <= second
  BY DEF IInv, StripeIsSound, Types, TypeOK, Event
<1>5. second \in Nat BY DEF IInv, Types, TypeOK
<1>6. \A t \in Subs : Subscribed(t)' <=> t = s \/ Subscribed(t)
  BY <1>3 DEF Subscribed
<1>7. \A e \in events' : Subscribed(e.sub)'
  BY <1>1, <1>2, <1>4, <1>6 DEF StripeTells
<1>8. ASSUME NEW t \in Subs, Subscribed(t)'
      PROVE  \E e \in events' :
               /\ e.sub = t /\ e.status = stripe'[t].status /\ e.seats = stripe'[t].seats
               /\ \A f \in events' : f.sub = t => f.at <= e.at
  <2>1. CASE t = s
    <3>1. \A f \in events' : f.at <= new.at BY <1>1, <1>2, <1>4, <1>5
    <3>2. stripe'[t].status = status /\ stripe'[t].seats = n BY <1>3, <2>1
    <3> QED BY <1>1, <1>2, <2>1, <3>1, <3>2
  <2>2. CASE t # s
    <3>1. PICK e \in events :
            /\ e.sub = t /\ e.status = stripe[t].status /\ e.seats = stripe[t].seats
            /\ \A f \in events : f.sub = t => f.at <= e.at
      BY <1>6, <1>8, <2>2 DEF StripeTells
    <3> QED BY <1>1, <1>2, <1>3, <2>2, <3>1
  <2> QED BY <2>1, <2>2
<1>9. ASSUME NEW t \in Subs, row'[t].status \notin {"none", "canceled"}, Alone(t)'
      PROVE  plan' = "paid" /\ ~(UpToDate(t)' /\ LastStandsAlone(t)')
  <2>1. t = s BY <1>6, <1>9 DEF Alone
  <2>2. Subscribed(s) BY <1>9, <2>1, RowIsSubscribed
  <2>3. Alone(s) BY <1>6, <1>9, <2>1 DEF Alone
  <2>4. plan' = "paid" BY <1>9, <2>1, <2>3 DEF AccountFollows
  <2>5. ASSUME UpToDate(s)', LastStandsAlone(s)' PROVE FALSE
    <3>1. PICK f \in events : f.sub = s /\ f.at = row[s].lastEventAt
      BY <1>9, <2>1, RowIsSubscribed
    <3>2. PICK e \in events :
            /\ e.sub = s /\ e.status = stripe[s].status /\ e.seats = stripe[s].seats
            /\ \A g \in events : g.sub = s => g.at <= e.at
      BY <2>2 DEF StripeTells
    <3>3. new.at <= row[s].lastEventAt BY <1>1, <1>2, <2>5 DEF UpToDate
    <3>4. e.at = second BY <1>1, <1>4, <1>5, <3>1, <3>2, <3>3
    <3>5. e \in EventsOf(s)' /\ \A g \in EventsOf(s)' : g.at <= e.at
      BY <1>1, <1>2, <1>4, <1>5, <3>2, <3>4 DEF EventsOf
    <3>6. e.status = stripe'[s].status /\ e.seats = stripe'[s].seats
      BY <2>5, <3>5 DEF LastStandsAlone
    <3> QED BY <1>3, <3>2, <3>6
  <2> QED BY <2>1, <2>4, <2>5
<1>10. StripeTells' BY <1>7, <1>8 DEF StripeTells
<1>11. AccountFollows' BY <1>9 DEF AccountFollows
<1> QED BY <1>3, <1>10, <1>11

LEMMA QuietSeats ==
  ASSUME StripeTells, AccountFollows, UNCHANGED <<stripe, events, row, plan, extraSeats>>
  PROVE  StripeTells' /\ AccountFollows'
BY DEF StripeTells, AccountFollows, Subscribed, Alone, UpToDate, LastStandsAlone, EventsOf

\* A move of the subscription keeps its seats, and what was billed.
LEMMA MoveSeats ==
  ASSUME IInv, SeatsInv, NEW s \in Subs, NEW status \in Status, NEW n \in Seats, Becomes(s, status, n),
         UNCHANGED <<row, plan, extraSeats, change>>,
         stripe[s].status # status, Subscribed(s) => n = stripe[s].seats
  PROVE  SeatsInv'
<1>1. /\ StripeTells' /\ AccountFollows'
      /\ \A t \in Subs : stripe'[t] = IF t = s THEN [status |-> status, seats |-> n] ELSE stripe[t]
  BY BecomesSeats DEF SeatsInv
<1>2. ASSUME NEW c \in Changers, change[c].step # "idle"
      PROVE  /\ stripe'[change[c].of].status \in Status
             /\ change[c].step = "billed" => stripe'[change[c].of].seats = change[c].to
  <2>1. /\ Subscribed(change[c].of)
        /\ change[c].step = "billed" => stripe[change[c].of].seats = change[c].to
    BY <1>2 DEF SeatsInv, BilledIsCharged
  <2>2. change[c].of \in Subs BY <1>2 DEF IInv, Types, NamedSeats
  <2>3. CASE change[c].of = s BY <1>1, <2>1, <2>2, <2>3
  <2>4. CASE change[c].of # s BY <1>1, <2>1, <2>2, <2>4 DEF Subscribed
  <2> QED BY <2>3, <2>4
<1>3. BilledIsCharged' BY <1>2 DEF BilledIsCharged, Subscribed
<1> QED BY <1>1, <1>3 DEF SeatsInv

\* An event applied brings the plan and the seats it tells of.
LEMMA DeliverSeats ==
  ASSUME IInv, SeatsInv, NEW e \in events, Deliver(e)
  PROVE  SeatsInv'
<1>1. UNCHANGED <<stripe, events, change>> BY DEF Deliver, stripeVars
<1>2. StripeTells' /\ BilledIsCharged' BY <1>1 DEF SeatsInv, StripeTells, BilledIsCharged, Subscribed
<1>3. CASE Stale(e)
  BY <1>1, <1>2, <1>3, QuietSeats DEF Deliver, account, SeatsInv
<1>4. CASE ~Stale(e)
  <2>1. e \in Event /\ e.sub \in Subs BY DEF IInv, Types, TypeOK, Event
  <2>2. row'[e.sub] = [status |-> e.status, lastEventAt |-> e.at]
    BY <1>4, <2>1 DEF Deliver, IInv, Types, TypeOK
  <2>3. Subscribed(e.sub)' BY <1>1 DEF SeatsInv, StripeTells, Subscribed
  <2>4. ASSUME NEW t \in Subs, row'[t].status \notin {"none", "canceled"}, Alone(t)'
        PROVE  /\ plan' = "paid"
               /\ UpToDate(t)' /\ LastStandsAlone(t)' => extraSeats' = stripe'[t].seats
    <3>1. t = e.sub BY <2>1, <2>3, <2>4 DEF Alone
    <3>2. plan' = "paid" /\ extraSeats' = e.seats
      BY <1>4, <2>2, <2>4, <3>1 DEF Deliver, SeatsOf
    <3>3. ASSUME UpToDate(t)', LastStandsAlone(t)' PROVE e.seats = stripe'[t].seats
      <4>1. e \in EventsOf(t)' BY <1>1, <3>1 DEF EventsOf
      <4>2. \A f \in EventsOf(t)' : f.at <= e.at BY <2>2, <3>1, <3>3 DEF EventsOf, UpToDate
      <4> QED BY <3>3, <4>1, <4>2 DEF LastStandsAlone
    <3> QED BY <3>2, <3>3
  <2> QED BY <1>2, <2>4 DEF SeatsInv, AccountFollows
<1> QED BY <1>3, <1>4

LEMMA CheckoutSeats ==
  ASSUME IInv, SeatsInv, NEW r \in Checkouts, CheckoutStep(r)
  PROVE  SeatsInv'
<1>1. CASE UNCHANGED <<stripe, events, row, plan, extraSeats, change>>
  BY <1>1, QuietSeats DEF SeatsInv, BilledIsCharged, Subscribed
<1>2. CASE CancelStranded(r)
  <2> DEFINE s == checkout[r].of
  <2>1. s \in Subs BY <1>2 DEF CancelStranded, IInv, Types, Named
  <2>2. UNCHANGED <<row, plan, extraSeats, change>> BY <1>2 DEF CancelStranded, account
  <2>3. CASE stripe[s].status = "canceled"
    BY <1>1, <1>2, <2>2, <2>3 DEF CancelStranded, stripeVars
  <2>4. CASE stripe[s].status # "canceled"
    <3>1. Becomes(s, "canceled", stripe[s].seats) BY <1>2, <2>4 DEF CancelStranded
    <3>2. stripe[s].seats \in Seats BY <2>1 DEF IInv, Types, TypeOK
    <3>3. "canceled" \in Status BY DEF Status
    <3> QED BY <2>1, <2>2, <2>4, <3>1, <3>2, <3>3, MoveSeats
  <2> QED BY <2>3, <2>4
<1>3. CASE MarkStranded(r)
  <2>1. UNCHANGED <<stripe, events, plan, extraSeats, change>> BY <1>3 DEF MarkStranded, stripeVars
  <2>2. checkout[r].of \in Subs BY <1>3 DEF MarkStranded, IInv, Types, Named
  <2>3. \A t \in Subs : row'[t] = row[t] \/ row'[t].status = "canceled"
    BY <1>3, <2>2 DEF MarkStranded, IInv, Types, TypeOK
  <2>4. StripeTells' /\ BilledIsCharged'
    BY <2>1 DEF SeatsInv, StripeTells, BilledIsCharged, Subscribed
  <2>5. ASSUME NEW t \in Subs, row'[t].status \notin {"none", "canceled"}, Alone(t)'
        PROVE  /\ plan' = "paid"
               /\ UpToDate(t)' /\ LastStandsAlone(t)' => extraSeats' = stripe'[t].seats
    <3>1. row'[t] = row[t] BY <2>3, <2>5
    <3>2. Alone(t) BY <2>1, <2>5 DEF Alone, Subscribed
    <3>3. UpToDate(t)' => UpToDate(t) BY <2>1, <3>1 DEF UpToDate
    <3>4. LastStandsAlone(t)' => LastStandsAlone(t) BY <2>1 DEF LastStandsAlone, EventsOf
    <3> QED BY <2>1, <2>5, <3>1, <3>2, <3>3, <3>4 DEF SeatsInv, AccountFollows
  <2> QED BY <2>4, <2>5 DEF SeatsInv, AccountFollows
<1>4. ASSUME NEW s \in Subs, OpenSession(r, s) PROVE SeatsInv'
  <2>1. UNCHANGED <<events, row, plan, extraSeats, change>> BY <1>4 DEF OpenSession, account
  <2>2. \A t \in Subs : Subscribed(t)' <=> Subscribed(t)
    BY <1>4 DEF OpenSession, Subscribed, Status, IInv, Types, TypeOK
  <2>3. \A t \in Subs : Subscribed(t) => stripe'[t] = stripe[t]
    BY <1>4 DEF OpenSession, Subscribed, Status, IInv, Types, TypeOK
  <2>4. \A e \in events : e.sub \in Subs BY DEF IInv, Types, TypeOK, Event
  <2>5. StripeTells' BY <2>1, <2>2, <2>3, <2>4 DEF SeatsInv, StripeTells
  <2>6. BilledIsCharged' BY <2>1, <2>2, <2>3 DEF SeatsInv, BilledIsCharged, IInv, Types, NamedSeats
  <2>7. ASSUME NEW t \in Subs, row'[t].status \notin {"none", "canceled"}, Alone(t)'
        PROVE  /\ plan' = "paid"
               /\ UpToDate(t)' /\ LastStandsAlone(t)' => extraSeats' = stripe'[t].seats
    <3>1. Subscribed(t) BY <2>1, <2>7, RowIsSubscribed DEF SeatsInv
    <3>2. Alone(t) BY <2>2, <2>7 DEF Alone
    <3>3. UpToDate(t)' => UpToDate(t) BY <2>1 DEF UpToDate
    <3>4. LastStandsAlone(t)' => LastStandsAlone(t) BY <2>1, <2>3, <3>1 DEF LastStandsAlone, EventsOf
    <3> QED BY <2>1, <2>3, <2>7, <3>1, <3>2, <3>3, <3>4 DEF SeatsInv, AccountFollows
  <2> QED BY <2>5, <2>6, <2>7 DEF SeatsInv, AccountFollows
<1> QED
  BY <1>1, <1>2, <1>3, <1>4
  DEF CheckoutStep, FindExisting, FindIncomplete, CheckoutFails, stripeVars, account

\* A bill is the only one under way, and what it writes is what Stripe charges.
LEMMA ChangeSeats ==
  ASSUME IInv, SeatsInv, OneChange, NEW c \in Changers, ChangeStep(c)
  PROVE  SeatsInv'
<1>1. CASE BillSeats(c)
  <2>0. PICK s, n : s = change[c].of /\ n = change[c].to
    OBVIOUS
  <2>1. /\ s \in Subs /\ n \in Seats /\ stripe[s].status \in Status
        /\ change[c].step = "checked" /\ Subscribed(s)
    BY <1>1, <2>0 DEF BillSeats, IInv, Types, TypeOK, NamedSeats, SeatsInv, BilledIsCharged, Subscribed
  <2>2. UNCHANGED <<row, plan, extraSeats>> BY <1>1 DEF BillSeats, account
  <2>3. /\ change'[c].step = "billed" /\ change'[c].of = s /\ change'[c].to = n
        /\ \A d \in Changers \ {c} : change'[d] = change[d]
    BY <1>1, <2>0 DEF BillSeats, IInv, Types, TypeOK
  <2>4. \A d \in Changers \ {c} : change'[d].step = "idle"
    BY <2>1, <2>3 DEF OneChange
  <2>5. StripeTells' /\ AccountFollows' /\ Subscribed(s)' /\ stripe'[s].seats = n
    <3>1. CASE stripe[s].seats = n
      BY <1>1, <2>0, <2>1, <2>2, <3>1, QuietSeats DEF BillSeats, stripeVars, SeatsInv, Subscribed
    <3>2. CASE stripe[s].seats # n
      <4>1. Becomes(s, stripe[s].status, n) BY <1>1, <2>0, <3>2 DEF BillSeats
      <4>2. StripeTells /\ AccountFollows BY DEF SeatsInv
      <4>3. /\ StripeTells' /\ AccountFollows'
            /\ \A t \in Subs : stripe'[t] = IF t = s THEN [status |-> stripe[s].status, seats |-> n]
                                             ELSE stripe[t]
        BY <2>1, <2>2, <3>2, <4>1, <4>2, BecomesSeats
      <4>4. stripe'[s] = [status |-> stripe[s].status, seats |-> n] BY <2>1, <4>3
      <4>5. Subscribed(s)' /\ stripe'[s].seats = n
        BY <2>1, <4>4 DEF Subscribed
      <4> QED BY <4>3, <4>5
    <3> QED BY <3>1, <3>2
  <2> QED BY <2>3, <2>4, <2>5 DEF SeatsInv, BilledIsCharged
<1>2. CASE WriteSeats(c)
  <2> DEFINE s == change[c].of
  <2>1. UNCHANGED <<stripe, events, row, plan>> /\ extraSeats' = change[c].to
    BY <1>2 DEF WriteSeats, stripeVars
  <2>2. Subscribed(s) /\ stripe[s].seats = change[c].to /\ s \in Subs
    BY <1>2 DEF WriteSeats, SeatsInv, BilledIsCharged, IInv, Types, NamedSeats
  <2>3. \A d \in Changers : change'[d] = change[d] \/ change'[d].step = "idle"
    BY <1>2 DEF WriteSeats, IdleChange, IInv, Types, TypeOK
  <2>4. StripeTells' /\ BilledIsCharged'
    BY <2>1, <2>3 DEF SeatsInv, StripeTells, BilledIsCharged, Subscribed
  <2>5. ASSUME NEW t \in Subs, row'[t].status \notin {"none", "canceled"}, Alone(t)'
        PROVE  plan' = "paid" /\ extraSeats' = stripe'[t].seats
    <3>1. Alone(t) BY <2>1, <2>5 DEF Alone, Subscribed
    <3>2. t = s BY <2>2, <3>1 DEF Alone
    <3> QED BY <2>1, <2>2, <2>5, <3>1, <3>2 DEF SeatsInv, AccountFollows
  <2> QED BY <2>4, <2>5 DEF SeatsInv, AccountFollows
<1>3. CASE ChangeFails(c)
  <2>1. UNCHANGED <<stripe, events, row, plan, extraSeats>>
    BY <1>3 DEF ChangeFails, stripeVars, account
  <2>2. \A d \in Changers : change'[d] = change[d] \/ change'[d].step = "idle"
    BY <1>3 DEF ChangeFails, IdleChange, IInv, Types, TypeOK
  <2> QED BY <2>1, <2>2, QuietSeats DEF SeatsInv, BilledIsCharged, Subscribed
<1>4. ASSUME NEW s \in Subs, NEW n \in Seats, CheckSeats(c, s, n) PROVE SeatsInv'
  <2>1. UNCHANGED <<stripe, events, row, plan, extraSeats>>
    BY <1>4 DEF CheckSeats, stripeVars, account
  <2>2. Subscribed(s)
    BY <1>4, RowIsSubscribed DEF CheckSeats, Paying, SeatsInv
  <2>3. \A d \in Changers :
          \/ change'[d] = change[d]
          \/ change'[d].step = "checked" /\ change'[d].of = s
    BY <1>4 DEF CheckSeats, IInv, Types, TypeOK
  <2> QED BY <2>1, <2>2, <2>3, QuietSeats DEF SeatsInv, BilledIsCharged, Subscribed
<1> QED BY <1>1, <1>2, <1>3, <1>4 DEF ChangeStep

LEMMA SeatsStep ==
  ASSUME IInv, SeatsInv, OneChange, [Next]_vars
  PROVE  SeatsInv'
<1>1. CASE Tick \/ UNCHANGED vars
  <2>1. UNCHANGED <<stripe, events, row, plan, extraSeats, change>>
    BY <1>1 DEF Tick, vars, stripeVars, account
  <2> QED BY <2>1, QuietSeats DEF SeatsInv, BilledIsCharged, Subscribed
<1>2. ASSUME NEW s \in Subs, NEW status \in Status, Subscribe(s, status) PROVE SeatsInv'
  <2>1. 0 \in Seats /\ ~Subscribed(s) /\ stripe[s].status # status
    BY <1>2 DEF Subscribe, Subscribed, Status
  <2> QED BY <1>2, <2>1, MoveSeats DEF Subscribe, account
<1>3. ASSUME NEW s \in Subs, NEW status \in Status, StripeMoves(s, status) PROVE SeatsInv'
  <2>1. stripe[s].seats \in Seats /\ stripe[s].status # status
    BY <1>3 DEF StripeMoves, IInv, Types, TypeOK
  <2> QED BY <1>3, <2>1, MoveSeats DEF StripeMoves, account
<1> QED
  BY <1>1, <1>2, <1>3, DeliverSeats, CheckoutSeats, ChangeSeats DEF Next, StripeStep

LEMMA SeatsFollowInv ==
  ASSUME IInv, SeatsInv
  PROVE  SeatsFollowStripe
<1> SUFFICES ASSUME NEW s \in Subs, stripe[s].status \in Paying, AllDelivered(s), LastStandsAlone(s),
                    Alone(s)
             PROVE  plan = "paid" /\ extraSeats = stripe[s].seats
  BY DEF SeatsFollowStripe, Alone
<1>1. RowIsSound /\ stripe[s].status # "canceled" /\ Subscribed(s)
  BY DEF IInv, Paying, Subscribed, Status
<1>2. row[s].status # "canceled" BY <1>1 DEF RowIsSound
<1>3. UpToDate(s) BY <1>1, <1>2 DEF RowIsSound, UpToDate, AllDelivered, EventsOf
<1>4. row[s].status # "none"
  <2>1. PICK e \in events : e.sub = s BY <1>1 DEF SeatsInv, StripeTells
  <2>2. row[s].lastEventAt # None BY <1>1, <1>2, <2>1 DEF RowIsSound, AllDelivered, EventsOf
  <2> QED BY <1>1, <2>2 DEF RowIsSound
<1> QED BY <1>2, <1>3, <1>4 DEF SeatsInv, AccountFollows

\* SeatsFollowStripe: setExtraSeats bills, then writes, and handleSubscriptionEvent
\* writes what each event holds; while no two requests change the seats at once,
\* an account with one subscription ends with the seats it pays for, also when a
\* change stops between the two, for any number of events in any order.
THEOREM SeatsFollow == Spec /\ []OneChange => []SeatsFollowStripe
<1>1. IInv /\ SeatsInv /\ OneChange /\ [Next]_vars => SeatsInv'
  BY SeatsStep
<1>2. IInv /\ SeatsInv => SeatsFollowStripe
  BY SeatsFollowInv
<1> QED BY <1>1, <1>2, InitSeats, Invariant, PTL DEF Spec
===============================================================================
