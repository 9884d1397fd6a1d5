----------------------------- MODULE Subscriptions -----------------------------
(***************************************************************************)
(* The plan of one account and its extra seats (subscriptions.service.ts,  *)
(* handleSubscriptionEvent of webhooks.service.ts).                        *)
(*                                                                         *)
(* Stripe holds the subscriptions and tells of each change by an event     *)
(* that carries the whole subscription and the second it was made in.      *)
(* Events arrive at least once, in any order.  An event is applied in one  *)
(* Serializable transaction, one step here; a checkout and a change of     *)
(* seats call Stripe and the database in turn, and may stop in between.    *)
(***************************************************************************)
EXTENDS Integers, FiniteSets

CONSTANTS Subs,         \* subscriptions Stripe may create for the account
          Checkouts,    \* requests to subscribe
          Changers,     \* requests to change the seats
          Seats,        \* extra seats one may ask for
          Horizon,      \* bounds the seconds that pass
          MaxEvents,    \* bounds the events of one subscription
          None

ASSUME SubscriptionAssumption ==
  /\ Seats \subseteq Nat /\ 0 \in Seats
  /\ Horizon \in Nat /\ MaxEvents \in Nat
  /\ None \notin Subs \cup Nat
  /\ IsFiniteSet(Subs)

VARIABLES
  second,      \* the time, as Stripe stamps its events
  stripe,      \* the subscriptions at Stripe
  events,      \* events Stripe has made
  delivered,   \* of which these have been received once
  row,         \* subscriptions, the table
  plan,        \* the account's planId, free or the one paid for
  extraSeats,
  checkout,    \* where each request to subscribe is
  change       \* where each change of seats is

stripeVars == <<second, stripe, events>>
account == <<row, plan, extraSeats>>
vars == <<stripeVars, delivered, account, checkout, change>>
-------------------------------------------------------------------------------
\* mapStripeSubscriptionStatus leaves these; "session" is a Checkout Session not
\* yet paid.
Status == {"incomplete", "active", "past_due", "canceled"}
Paying == {"active", "past_due"}
Chargeable == {"active", "past_due", "incomplete"}

Event == [sub : Subs, at : 0..Horizon, status : Status, seats : Seats]

Row == [status : Status \cup {"none"}, lastEventAt : 0..Horizon \cup {None}]

NoRow == [status |-> "none", lastEventAt |-> None]

IdleCheckout == [step |-> "idle", of |-> None]
IdleChange == [step |-> "idle", of |-> None, to |-> 0]

TypeOK ==
  /\ second \in 0..Horizon
  /\ stripe \in [Subs -> [status : Status \cup {"none", "session"}, seats : Seats]]
  /\ events \subseteq Event
  /\ delivered \subseteq events
  /\ row \in [Subs -> Row]
  /\ plan \in {"free", "paid"}
  /\ extraSeats \in Seats
  /\ checkout \in [Checkouts -> [step : {"idle", "cancel", "cancelled", "clear"}, of : Subs \cup {None}]]
  /\ change \in [Changers -> [step : {"idle", "checked", "billed"}, of : Subs \cup {None}, to : Seats]]

Init ==
  /\ second = 0
  /\ stripe = [s \in Subs |-> [status |-> "none", seats |-> 0]]
  /\ events = {} /\ delivered = {}
  /\ row = [s \in Subs |-> NoRow]
  /\ plan = "free" /\ extraSeats = 0
  /\ checkout = [r \in Checkouts |-> IdleCheckout]
  /\ change = [c \in Changers |-> IdleChange]
-------------------------------------------------------------------------------
(* Stripe.                                                                 *)

EventsOf(s) == {e \in events : e.sub = s}

\* A change, and the event of it.
Becomes(s, status, seats) ==
  /\ Cardinality(EventsOf(s)) < MaxEvents
  /\ stripe' = [stripe EXCEPT ![s] = [status |-> status, seats |-> seats]]
  /\ events' = events \cup {[sub |-> s, at |-> second, status |-> status, seats |-> seats]}
  /\ second' = second

Tick ==
  /\ second < Horizon
  /\ second' = second + 1
  /\ UNCHANGED <<stripe, events, delivered, account, checkout, change>>

\* A session is paid, or waits for the bank's challenge.
Subscribe(s, status) ==
  /\ stripe[s].status = "session"
  /\ status \in {"incomplete", "active"}
  /\ Becomes(s, status, 0)
  /\ UNCHANGED <<delivered, account, checkout, change>>

\* The challenge is met or lapses, a renewal fails or is made good, the customer
\* cancels in the portal.
StripeMoves(s, status) ==
  /\ \/ stripe[s].status = "incomplete" /\ status \in {"active", "canceled"}
     \/ stripe[s].status = "active" /\ status \in {"past_due", "canceled"}
     \/ stripe[s].status = "past_due" /\ status \in {"active", "canceled"}
  /\ Becomes(s, status, stripe[s].seats)
  /\ UNCHANGED <<delivered, account, checkout, change>>
-------------------------------------------------------------------------------
(* An event.                                                               *)

\* Mutant: events are applied as they come.
StaleNever(e) == row[e.sub].status = "canceled" /\ e.status # "canceled"

\* Mutant: what has been cancelled may come back.
StaleIfOlder(e) == row[e.sub].lastEventAt # None /\ e.at < row[e.sub].lastEventAt

Stale(e) ==
  \/ row[e.sub].status = "canceled" /\ e.status # "canceled"
  \/ row[e.sub].lastEventAt # None /\ e.at < row[e.sub].lastEventAt

\* Mutant: the seats are left to the request that changes them.
SeatsAsTheyAre(e) == IF e.status = "canceled" THEN 0 ELSE extraSeats

SeatsOf(e) == IF e.status = "canceled" THEN 0 ELSE e.seats

\* handleSubscriptionEvent
Deliver(e) ==
  /\ delivered' = delivered \cup {e}
  /\ IF Stale(e) THEN UNCHANGED account
     ELSE /\ row' = [row EXCEPT ![e.sub] = [status |-> e.status, lastEventAt |-> e.at]]
          /\ plan' = IF e.status = "canceled" THEN "free" ELSE "paid"
          /\ extraSeats' = SeatsOf(e)
  /\ UNCHANGED <<stripeVars, checkout, change>>
-------------------------------------------------------------------------------
(* A request to subscribe: createCheckout.                                 *)

\* Any row that could still be charged is found; none: go on.
FindExisting(r) ==
  /\ checkout[r].step = "idle"
  /\ checkout' = [checkout EXCEPT ![r] = [step |-> "clear", of |-> None]]
  /\ \A s \in Subs : row[s].status \notin Chargeable
  /\ UNCHANGED <<stripeVars, delivered, account, change>>

\* One that pays is refused; one that never settled is cancelled first.
FindIncomplete(r, s) ==
  /\ checkout[r].step = "idle"
  /\ row[s].status = "incomplete"
  /\ checkout' = [checkout EXCEPT ![r] = [step |-> "cancel", of |-> s]]
  /\ UNCHANGED <<stripeVars, delivered, account, change>>

\* cancelStrandedSubscription at Stripe; one already gone counts as cancelled.
CancelStranded(r) ==
  LET s == checkout[r].of IN
  /\ checkout[r].step = "cancel"
  /\ IF stripe[s].status = "canceled" THEN UNCHANGED stripeVars
     ELSE Becomes(s, "canceled", stripe[s].seats)
  /\ checkout' = [checkout EXCEPT ![r] = [step |-> "cancelled", of |-> s]]
  /\ UNCHANGED <<delivered, account, change>>

\* and in the table.
MarkStranded(r) ==
  LET s == checkout[r].of IN
  /\ checkout[r].step = "cancelled"
  /\ row' = IF row[s].status # "incomplete" THEN row
            ELSE [row EXCEPT ![s] = [status |-> "canceled", lastEventAt |-> row[s].lastEventAt]]
  /\ checkout' = [checkout EXCEPT ![r] = [step |-> "clear", of |-> None]]
  /\ UNCHANGED <<stripeVars, delivered, plan, extraSeats, change>>

OpenSession(r, s) ==
  /\ checkout[r].step = "clear"
  /\ stripe[s].status = "none"
  /\ stripe' = [stripe EXCEPT ![s] = [status |-> "session", seats |-> 0]]
  /\ checkout' = [checkout EXCEPT ![r] = IdleCheckout]
  /\ UNCHANGED <<second, events, delivered, account, change>>

\* A call fails and the request with it, or the process stops.
CheckoutFails(r) ==
  /\ checkout[r].step # "idle"
  /\ checkout' = [checkout EXCEPT ![r] = IdleCheckout]
  /\ UNCHANGED <<stripeVars, delivered, account, change>>
-------------------------------------------------------------------------------
(* A change of seats: setExtraSeats.                                       *)

CheckSeats(c, s, n) ==
  /\ change[c].step = "idle"
  /\ plan = "paid" /\ row[s].status \in Paying
  /\ change' = [change EXCEPT ![c] = [step |-> "checked", of |-> s, to |-> n]]
  /\ UNCHANGED <<stripeVars, delivered, account, checkout>>

\* The line item is updated, added or deleted; nothing to do makes no event.
BillSeats(c) ==
  LET s == change[c].of
      n == change[c].to
  IN /\ change[c].step = "checked"
     /\ \/ stripe[s].seats = 0 /\ n = 0 /\ UNCHANGED stripeVars
        \/ stripe[s].status \in Paying /\ stripe[s].seats = n /\ UNCHANGED stripeVars
        \/ /\ stripe[s].status \in Paying /\ stripe[s].seats # n
           /\ Becomes(s, stripe[s].status, n)
     /\ change' = [change EXCEPT ![c].step = "billed"]
     /\ UNCHANGED <<delivered, account, checkout>>

WriteSeats(c) ==
  /\ change[c].step = "billed"
  /\ extraSeats' = change[c].to
  /\ change' = [change EXCEPT ![c] = IdleChange]
  /\ UNCHANGED <<stripeVars, delivered, row, plan, checkout>>

ChangeFails(c) ==
  /\ change[c].step # "idle"
  /\ change' = [change EXCEPT ![c] = IdleChange]
  /\ UNCHANGED <<stripeVars, delivered, account, checkout>>
-------------------------------------------------------------------------------
StripeStep ==
  \/ Tick
  \/ \E s \in Subs, status \in Status : Subscribe(s, status) \/ StripeMoves(s, status)

CheckoutStep(r) ==
  \/ FindExisting(r) \/ CancelStranded(r) \/ MarkStranded(r) \/ CheckoutFails(r)
  \/ \E s \in Subs : FindIncomplete(r, s) \/ OpenSession(r, s)

ChangeStep(c) ==
  \/ BillSeats(c) \/ WriteSeats(c) \/ ChangeFails(c)
  \/ \E s \in Subs, n \in Seats : CheckSeats(c, s, n)

Next ==
  \/ StripeStep
  \/ \E e \in events : Deliver(e)
  \/ \E r \in Checkouts : CheckoutStep(r)
  \/ \E c \in Changers : ChangeStep(c)

Spec == Init /\ [][Next]_vars

\* Stripe delivers until it is answered.
FairSpec == Spec /\ \A e \in Event : WF_vars(e \in events \ delivered /\ Deliver(e))
-------------------------------------------------------------------------------
(***************************************************************************)
(* Properties.                                                             *)
(***************************************************************************)

Subscribed(s) == stripe[s].status \in Status

AllDelivered(s) == EventsOf(s) \subseteq delivered

\* The last thing that happened to s happened in a second of its own.
LastStandsAlone(s) ==
  \A e \in EventsOf(s) : (\A f \in EventsOf(s) : f.at <= e.at) =>
     e.status = stripe[s].status /\ e.seats = stripe[s].seats

\* Whatever order the events came in and however often: once all have come, the
\* row says what Stripe says; of two in one second, only a cancellation is sure.
RowFollowsStripe ==
  \A s \in Subs :
    Subscribed(s) /\ AllDelivered(s) /\ (LastStandsAlone(s) \/ stripe[s].status = "canceled")
      => row[s].status = stripe[s].status

\* No two requests change the seats at once.
OneChange ==
  \A c, d \in Changers : change[c].step # "idle" /\ change[d].step # "idle" => c = d

\* An account with one subscription holds the plan and the seats it pays for once
\* the events have come, also while the seats change or when that stopped half way.
SeatsFollowStripe ==
  \A s \in Subs :
    /\ stripe[s].status \in Paying /\ AllDelivered(s) /\ LastStandsAlone(s)
    /\ \A t \in Subs \ {s} : ~Subscribed(t)
    => plan = "paid" /\ extraSeats = stripe[s].seats

\* A cancelled subscription stays cancelled, and no late event of it brings the
\* plan back.
NoResurrection ==
  [][/\ \A s \in Subs : row[s].status = "canceled" => row'[s].status = "canceled"
     /\ plan = "free" /\ plan' = "paid" => \E s \in Subs : row'[s].status \in Chargeable]_vars

\* The webhooks catch up: a row does not stay out of step for ever.
RowCatchesUp ==
  \A s \in Subs : []<>(Subscribed(s) /\ LastStandsAlone(s) => row[s].status = stripe[s].status)

\* A second subscription is blocked while there is one.
OneLiveSubscription ==
  \A s, t \in Subs : stripe[s].status \in Chargeable /\ stripe[t].status \in Chargeable => s = t

\* A customer who pays keeps the plan, once every event has come.
PayingKeepsPlan ==
  (\A s \in Subs : AllDelivered(s)) /\ (\E s \in Subs : stripe[s].status = "active") => plan = "paid"
===============================================================================
