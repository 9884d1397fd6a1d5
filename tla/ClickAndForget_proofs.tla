------------------------ MODULE ClickAndForget_proofs ------------------------
(***************************************************************************)
(* For any number of rows, runs and requests: the rows and everything that *)
(* is held between a read and a write keep their types, and a card is on   *)
(* at most one order.  The second rests on OrderedIsBound: what is on an   *)
(* order has left the statuses the consume of a run and of a checkout ask  *)
(* for, and only the end of that order brings it back.                     *)
(***************************************************************************)
EXTENDS ClickAndForget, TLAPS

USE CalendarAssumption, CronAssumption

Inv == TypeOK /\ OneOrderForACard /\ OrderedIsBound

Bound == {"queued", "missed", "deleted"}

Reading == [op : {"realign"}, born : Birthday \cup {0}, first : BOOLEAN,
            seen : [Row -> [status : Statuses, date : Dates]]]

Held == {Idle}
       \cup [op : {"approve"}, card : Dated]
       \cup [op : {"pin"}, row : Row, to : Days, pinned : BOOLEAN]
       \cup [op : {"again"}, born : Birthday]
       \cup Reading
       \cup [op : {"promote"}]

-----------------------------------------------------------------------------
(* Dates and rows *)

LEMMA NextIsDate ==
  ASSUME NEW b \in Birthday, NEW d \in 1 .. LastDay
  PROVE  NextBirthday(b, d) \in Dates
BY DEF NextBirthday, Dates

LEMMA DispatchIsDay == ASSUME NEW d \in Dates PROVE Dispatch(d) \in Days
BY DEF Dispatch, Dates, Days

LEMMA NoRowType == NoRow \in Occasion
<1>1. Lead \in Dates /\ 0 \in Days
  <2>1. PICK b \in Birthday : TRUE
    OBVIOUS
  <2> QED BY <2>1 DEF Dates, Days
<1> QED BY <1>1 DEF NoRow, Occasion, Statuses, Live

LEMMA ScheduledType ==
  ASSUME NEW d \in Dates
  PROVE  Scheduled(d) \in Occasion /\ Scheduled(d).status = "scheduled"
BY NoRowType, DispatchIsDay DEF Scheduled, Occasion, Statuses, Live

LEMMA StatusType ==
  ASSUME NEW o \in Occasion, NEW s \in Statuses
  PROVE  /\ [o EXCEPT !.status = s] \in Occasion
         /\ [o EXCEPT !.status = s].status = s
BY DEF Occasion

LEMMA ForAutoSendType ==
  ASSUME NEW o \in Occasion, NEW d \in Dated
  PROVE  ForAutoSend(o, d) \in Occasion
<1>1. d.date \in Dates /\ d.pinned \in BOOLEAN
  BY DEF Dated
<1>2. Dispatch(d.date) \in Days
  BY <1>1, DispatchIsDay
<1> QED BY <1>1, <1>2 DEF ForAutoSend, Occasion, Statuses, Live

LEMMA MovedType ==
  ASSUME NEW o \in Occasion, NEW d \in Dates
  PROVE  Moved(o, d) \in Occasion /\ Moved(o, d).status = o.status
BY DispatchIsDay DEF Moved, Occasion

LEMMA DatedType ==
  ASSUME TypeOK, NEW o \in Row
  PROVE  DatedOf(o) \in Dated
<1>1. row[o] \in Occasion
  BY DEF TypeOK
<1> QED BY <1>1 DEF DatedOf, Dated, Occasion

LEMMA PickedType ==
  ASSUME TypeOK, NEW o \in Row
  PROVE  PickedOf(o) \in Picked
<1>1. contact.archived \in BOOLEAN
  BY DEF TypeOK
<1> QED BY <1>1 DEF PickedOf, Picked

LEMMA HeldType == ASSUME TypeOK PROVE request \in [Request -> Held]
BY DEF TypeOK, Held, Reading

(* A step that leaves the orders alone and does not bring back a bound row. *)
LEMMA OrdersStay ==
  ASSUME Inv, drafts' = drafts, paid' = paid,
         \A o \in Row : row[o].status \in Bound => row'[o].status \in Bound
  PROVE  OneOrderForACard' /\ OrderedIsBound'
BY DEF Inv, OneOrderForACard, OrderedIsBound, Bound

(* A step that changes one row. *)
LEMMA OneRow ==
  ASSUME Inv, NEW o \in Row, NEW r \in Occasion, drafts' = drafts, paid' = paid,
         row' = [row EXCEPT ![o] = r],
         row[o].status \notin Bound \/ r.status \in Bound
  PROVE  row' \in [Row -> Occasion] /\ OneOrderForACard' /\ OrderedIsBound'
<1>1. row' \in [Row -> Occasion]
  BY DEF Inv, TypeOK
<1>2. \A p \in Row : row[p].status \in Bound => row'[p].status \in Bound
  BY DEF Inv, TypeOK
<1> QED BY <1>1, <1>2, OrdersStay

(* A step that leaves rows and orders alone. *)
LEMMA NoRowMoves ==
  ASSUME Inv, UNCHANGED <<row, drafts, paid>>
  PROVE  OneOrderForACard' /\ OrderedIsBound'
BY OrdersStay

LEMMA GivenType ==
  ASSUME TypeOK, NEW o \in Row, Given(o)
  PROVE  inTime' \in [Row -> BOOLEAN]
<1> DEFINE g == row'[o].status = "approved" /\ day < row'[o].date
<1>1. g \in BOOLEAN
  OBVIOUS
<1>2. inTime' = [inTime EXCEPT ![o] = g]
  BY DEF Given
<1> HIDE DEF g
<1> QED BY <1>1, <1>2 DEF TypeOK

LEMMA CountedType == ASSUME TypeOK, Counted PROVE acts' \in 0 .. MaxActs
BY DEF TypeOK, Counted

-----------------------------------------------------------------------------
(* The jobs *)

LEMMA InitHolds == ASSUME Init PROVE Inv
<1>1. PICK o \in Row : row = [q \in Row |->
        IF q = o THEN Scheduled(NextBirthday(contact.born, 1)) ELSE NoRow]
  BY DEF Init
<1>2. 1 \in 1 .. LastDay /\ 0 \in 0 .. MaxActs
  OBVIOUS
<1>3. contact \in [born : Birthday \cup {0}, archived : BOOLEAN] /\ contact.born \in Birthday
  BY DEF Init
<1>4. Scheduled(NextBirthday(contact.born, 1)) \in Occasion
  BY <1>2, <1>3, NextIsDate, ScheduledType
<1>5. row \in [Row -> Occasion]
  BY <1>1, <1>4, NoRowType
<1>6. request \in [Request -> Held]
  BY DEF Init, Held
<1>7. run \in [Run -> [at : Turns, todo : SUBSET Picked]]
  BY DEF Init, Turns
<1>8. standing \in [at : Turns, todo : SUBSET Dated]
  BY DEF Init, Turns
<1>9. TypeOK
  BY <1>2, <1>3, <1>5, <1>6, <1>7, <1>8 DEF Init, TypeOK, Held, Reading
<1> QED BY <1>9 DEF Init, Inv, OneOrderForACard, OrderedIsBound

LEMMA ReadsStep ==
  ASSUME Inv, SchedulerReads
  PROVE  Inv'
<1>1. scheduler' \in [at : {"due", "create", "promote", "retire", "done"},
                      born : Birthday \cup {0}]
  BY DEF Inv, TypeOK, SchedulerReads
<1>2. TypeOK'
  BY <1>1 DEF Inv, TypeOK, SchedulerReads
<1> QED BY <1>2, NoRowMoves DEF Inv, SchedulerReads

LEMMA CreatesStep ==
  ASSUME Inv, SchedulerCreates
  PROVE  Inv'
<1> DEFINE date == NextBirthday(scheduler.born, day)
<1>1. row' \in [Row -> Occasion] /\ OneOrderForACard' /\ OrderedIsBound'
  <2>1. CASE row' = row
    BY <2>1, NoRowMoves DEF Inv, TypeOK, SchedulerCreates
  <2>2. CASE scheduler.born # 0 /\ \E o \in Row : row[o].status = "none"
                     /\ row' = [row EXCEPT ![o] = Scheduled(date)]
    <3>1. scheduler.born \in Birthday /\ day \in 1 .. LastDay
      BY <2>2 DEF Inv, TypeOK
    <3>2. Scheduled(date) \in Occasion
      BY <3>1, NextIsDate, ScheduledType
    <3>3. PICK o \in Row : row[o].status = "none"
                     /\ row' = [row EXCEPT ![o] = Scheduled(date)]
      BY <2>2
    <3> HIDE DEF date
    <3> QED BY <3>2, <3>3, OneRow DEF SchedulerCreates, Bound
  <2> QED BY <2>1, <2>2 DEF SchedulerCreates
<1>2. scheduler' \in [at : {"due", "create", "promote", "retire", "done"},
                      born : Birthday \cup {0}]
  BY DEF SchedulerCreates
<1>3. TypeOK'
  BY <1>1, <1>2 DEF Inv, TypeOK, SchedulerCreates
<1> QED BY <1>1, <1>3 DEF Inv

LEMMA PromoteType ==
  ASSUME Inv, Promote
  PROVE  /\ row' \in [Row -> Occasion]
         /\ \A o \in Row : row[o].status \in Bound => row'[o].status \in Bound
<1>1. \A o \in Row : row[o] \in Occasion
  BY DEF Inv, TypeOK
<1>2. "pending_approval" \in Statuses
  BY DEF Statuses, Live
<1>3. \A o \in Row : [row[o] EXCEPT !.status = "pending_approval"] \in Occasion
  BY <1>1, <1>2, StatusType
<1> QED BY <1>1, <1>3 DEF Promote, Bound

LEMMA PromotesStep ==
  ASSUME Inv, SchedulerPromotes
  PROVE  Inv'
<1>1. row' \in [Row -> Occasion] /\ OneOrderForACard' /\ OrderedIsBound'
  BY PromoteType, OrdersStay DEF SchedulerPromotes
<1>2. TypeOK'
  BY <1>1 DEF Inv, TypeOK, SchedulerPromotes
<1> QED BY <1>1, <1>2 DEF Inv

LEMMA RetiresStep ==
  ASSUME Inv, SchedulerRetires
  PROVE  Inv'
<1>1. \A o \in Row : row[o] \in Occasion
  BY DEF Inv, TypeOK
<1>2. "missed" \in Statuses
  BY DEF Statuses
<1>3. \A o \in Row : /\ [row[o] EXCEPT !.status = "missed"] \in Occasion
                    /\ [row[o] EXCEPT !.status = "missed"].status = "missed"
  BY <1>1, <1>2, StatusType
<1>4. row' \in [Row -> Occasion]
  BY <1>1, <1>3 DEF SchedulerRetires
<1>5. \A o \in Row : row[o].status \in Bound => row'[o].status \in Bound
  BY <1>3 DEF SchedulerRetires, Bound
<1>6. OneOrderForACard' /\ OrderedIsBound'
  BY <1>5, OrdersStay DEF SchedulerRetires
<1>7. TypeOK'
  BY <1>4 DEF Inv, TypeOK, SchedulerRetires
<1> QED BY <1>6, <1>7 DEF Inv

LEMMA StandingReadsStep ==
  ASSUME Inv, StandingReads
  PROVE  Inv'
<1>1. standing' \in [at : Turns, todo : SUBSET Dated]
  BY DatedType DEF Inv, StandingReads, Turns
<1>2. TypeOK'
  BY <1>1 DEF Inv, TypeOK, StandingReads
<1> QED BY <1>2, NoRowMoves DEF Inv, StandingReads

LEMMA StandingApprovesStep ==
  ASSUME Inv, NEW c \in standing.todo, StandingApproves(c)
  PROVE  Inv'
<1>1. c \in Dated /\ c.row \in Row
  BY DEF Inv, TypeOK, Dated
<1> DEFINE r == [ForAutoSend(row[c.row], c) EXCEPT !.message = TRUE]
<1>2. row[c.row] \in Occasion
  BY <1>1 DEF Inv, TypeOK
<1>3. r \in Occasion
  BY <1>1, <1>2, ForAutoSendType DEF Occasion
<1>4. /\ row' \in [Row -> Occasion] /\ OneOrderForACard' /\ OrderedIsBound'
      /\ inTime' \in [Row -> BOOLEAN]
  <2>1. CASE StandingMayApprove(c)
    <3>1. row' = [row EXCEPT ![c.row] = r] /\ Given(c.row)
      BY <2>1 DEF StandingApproves
    <3>2. row[c.row].status \notin Bound
      BY <2>1 DEF StandingMayApprove, Bound
    <3>3. inTime' \in [Row -> BOOLEAN]
      BY <1>1, <3>1, GivenType DEF Inv
    <3> HIDE DEF r
    <3> QED BY <1>1, <1>3, <3>1, <3>2, <3>3, OneRow DEF StandingApproves
  <2>2. CASE ~StandingMayApprove(c)
    <3>1. UNCHANGED <<row, inTime>>
      BY <2>2 DEF StandingApproves
    <3> QED BY <3>1, NoRowMoves DEF Inv, TypeOK, StandingApproves
  <2> QED BY <2>1, <2>2
<1>5. standing' \in [at : Turns, todo : SUBSET Dated]
  BY DEF Inv, TypeOK, StandingApproves
<1>6. TypeOK'
  BY <1>4, <1>5 DEF Inv, TypeOK, StandingApproves
<1> QED BY <1>4, <1>6 DEF Inv

LEMMA RunReadsStep ==
  ASSUME Inv, NEW r \in Run, RunReads(r)
  PROVE  Inv'
<1> DEFINE taken == [at |-> "begun", todo |-> {PickedOf(o) : o \in {q \in Row : Due(q)}}]
<1>1. taken \in [at : Turns, todo : SUBSET Picked]
  BY PickedType DEF Inv, Turns
<1>2. run' = [run EXCEPT ![r] = taken]
  BY DEF RunReads
<1> HIDE DEF taken
<1>3. run' \in [Run -> [at : Turns, todo : SUBSET Picked]]
  BY <1>1, <1>2 DEF Inv, TypeOK
<1>4. TypeOK'
  BY <1>3 DEF Inv, TypeOK, RunReads
<1> QED BY <1>4, NoRowMoves DEF Inv, RunReads

(* A row that is not bound is on no order. *)
LEMMA FreeCard ==
  ASSUME Inv, NEW o \in Row, row[o].status \notin Bound
  PROVE  drafts[o] = 0 /\ paid[o] = 0
<1>1. drafts[o] \in Nat /\ paid[o] \in Nat
  BY DEF Inv, TypeOK
<1>2. ~(drafts[o] + paid[o] > 0)
  BY DEF Inv, OrderedIsBound, Bound
<1> QED BY <1>1, <1>2

(* A row is queued for one order more. *)
LEMMA ConsumedStep ==
  ASSUME Inv, NEW o \in Row, row[o].status \notin Bound, Consumed(o),
         \/ drafts' = [drafts EXCEPT ![o] = @ + 1] /\ paid' = paid
         \/ paid' = [paid EXCEPT ![o] = @ + 1] /\ drafts' = drafts
  PROVE  /\ row' \in [Row -> Occasion]
         /\ drafts' \in [Row -> Nat] /\ paid' \in [Row -> Nat]
         /\ OneOrderForACard' /\ OrderedIsBound'
<1>1. drafts[o] = 0 /\ paid[o] = 0
  BY FreeCard
<1>2. drafts' \in [Row -> Nat] /\ paid' \in [Row -> Nat]
  <2>1. drafts \in [Row -> Nat] /\ paid \in [Row -> Nat]
    BY DEF Inv, TypeOK
  <2>2. [drafts EXCEPT ![o] = @ + 1] \in [Row -> Nat]
        /\ [paid EXCEPT ![o] = @ + 1] \in [Row -> Nat]
    BY <2>1
  <2> QED BY <2>1, <2>2
<1>3. row[o] \in Occasion /\ "queued" \in Statuses
  BY DEF Inv, TypeOK, Statuses
<1>4. /\ [row[o] EXCEPT !.status = "queued"] \in Occasion
      /\ [row[o] EXCEPT !.status = "queued"].status = "queued"
  BY <1>3, StatusType
<1>5. row' \in [Row -> Occasion] /\ row'[o].status = "queued"
  BY <1>4 DEF Inv, TypeOK, Consumed
<1>6. \A p \in Row \ {o} : /\ drafts'[p] = drafts[p] /\ paid'[p] = paid[p]
                           /\ row'[p] = row[p]
  BY DEF Inv, TypeOK, Consumed
<1>7. drafts'[o] + paid'[o] = 1
  BY <1>1 DEF Inv, TypeOK
<1>8. OneOrderForACard'
  BY <1>6, <1>7 DEF Inv, OneOrderForACard
<1>9. OrderedIsBound'
  BY <1>5, <1>6 DEF Inv, OrderedIsBound
<1> QED BY <1>2, <1>5, <1>8, <1>9

LEMMA RunSendsStep ==
  ASSUME Inv, NEW r \in Run, NEW c \in run[r].todo, RunSends(r, c)
  PROVE  Inv'
<1>1. run[r] \in [at : Turns, todo : SUBSET Picked]
  BY DEF Inv, TypeOK
<1>2. c \in Picked /\ c.row \in Row
  BY <1>1 DEF Picked
<1>3. run' \in [Run -> [at : Turns, todo : SUBSET Picked]]
  <2>1. PICK old \in [at : Turns, todo : SUBSET Picked] : old = run[r]
    BY <1>1
  <2>2. [old EXCEPT !.todo = @ \ {c}] \in [at : Turns, todo : SUBSET Picked]
    OBVIOUS
  <2>3. run' = [run EXCEPT ![r] = [old EXCEPT !.todo = @ \ {c}]]
    BY <2>1 DEF RunSends
  <2> QED BY <2>2, <2>3 DEF Inv, TypeOK
<1>4. /\ row' \in [Row -> Occasion]
      /\ drafts' \in [Row -> Nat] /\ paid' \in [Row -> Nat]
      /\ OneOrderForACard' /\ OrderedIsBound'
  <2>1. CASE UNCHANGED <<row, paid>>
    BY <2>1, NoRowMoves DEF Inv, TypeOK, RunSends
  <2>2. CASE MayConsume(c.row) /\ Consumed(c.row) /\ paid' = [paid EXCEPT ![c.row] = @ + 1]
    BY <1>2, <2>2, ConsumedStep DEF MayConsume, Bound, RunSends
  <2> QED BY <2>1, <2>2 DEF RunSends
<1>5. told' \in SUBSET Row /\ disturbed' \in BOOLEAN
  <2>1. PICK b \in BOOLEAN : b = disturbed
    BY DEF Inv, TypeOK
  <2> QED BY <1>2, <2>1 DEF Inv, TypeOK, RunSends
<1>6. TypeOK'
  BY <1>3, <1>4, <1>5 DEF Inv, TypeOK, RunSends
<1> QED BY <1>4, <1>6 DEF Inv

LEMMA StopsStep ==
  ASSUME Inv, JobStops
  PROVE  Inv'
<1>1. acts' \in 0 .. MaxActs
  BY CountedType DEF Inv, JobStops
<1>2. scheduler' \in [at : {"due", "create", "promote", "retire", "done"},
                      born : Birthday \cup {0}]
  BY DEF Inv, TypeOK, JobStops, SchedulerStops, StandingStops, RunStops
<1>3. Over \in [at : Turns, todo : SUBSET Dated] /\ Over \in [at : Turns, todo : SUBSET Picked]
  BY DEF Over, Turns
<1>4. standing' \in [at : Turns, todo : SUBSET Dated]
  BY <1>3 DEF Inv, TypeOK, JobStops, SchedulerStops, StandingStops, RunStops
<1>5. run' \in [Run -> [at : Turns, todo : SUBSET Picked]]
  BY <1>3 DEF Inv, TypeOK, JobStops, SchedulerStops, StandingStops, RunStops
<1>6. disturbed' \in BOOLEAN
  <2>1. PICK b \in BOOLEAN : b = disturbed
    BY DEF Inv, TypeOK
  <2> QED BY <2>1 DEF JobStops, SchedulerStops, StandingStops, RunStops
<1>7. TypeOK'
  BY <1>1, <1>2, <1>4, <1>5, <1>6 DEF Inv, TypeOK, JobStops
<1> QED BY <1>7, NoRowMoves DEF Inv, JobStops

LEMMA NextDayStep ==
  ASSUME Inv, NextDay
  PROVE  Inv'
<1>1. day' \in 1 .. LastDay
  BY DEF Inv, TypeOK, NextDay
<1>2. scheduler' \in [at : {"due", "create", "promote", "retire", "done"},
                      born : Birthday \cup {0}]
  BY DEF Inv, TypeOK, NextDay
<1>3. standing' \in [at : Turns, todo : SUBSET Dated]
  BY DEF Inv, TypeOK, NextDay, Turns
<1>4. run' \in [Run -> [at : Turns, todo : SUBSET Picked]]
  <2>1. \A r \in Run : run[r] \in [at : Turns, todo : SUBSET Picked]
    BY DEF Inv, TypeOK
  <2>2. \A r \in Run : [run[r] EXCEPT !.at = "due"] \in [at : Turns, todo : SUBSET Picked]
    BY <2>1 DEF Turns
  <2> QED BY <2>2 DEF NextDay
<1>5. TypeOK'
  BY <1>1, <1>2, <1>3, <1>4 DEF Inv, TypeOK, NextDay
<1> QED BY <1>5, NoRowMoves DEF Inv, NextDay

-----------------------------------------------------------------------------
(* The customer *)

LEMMA DecideStep ==
  ASSUME Inv, NEW o \in Row, NEW r \in Occasion,
         NEW said \in {"none", "approved", "skipped", "cancelled"},
         row[o].status \notin Bound, Decide(o, r, said)
  PROVE  /\ row' \in [Row -> Occasion] /\ OneOrderForACard' /\ OrderedIsBound'
         /\ drafts' \in [Row -> Nat] /\ paid' \in [Row -> Nat]
         /\ word' \in [Row -> {"none", "approved", "skipped", "cancelled"}]
         /\ inTime' \in [Row -> BOOLEAN]
<1>1. row' = [row EXCEPT ![o] = r] /\ drafts' = drafts /\ paid' = paid /\ Given(o)
  BY DEF Decide
<1>2. inTime' \in [Row -> BOOLEAN]
  BY <1>1, GivenType DEF Inv
<1>3. row' \in [Row -> Occasion] /\ OneOrderForACard' /\ OrderedIsBound'
  BY <1>1, OneRow
<1>4. word' \in [Row -> {"none", "approved", "skipped", "cancelled"}]
  BY DEF Inv, TypeOK, Decide
<1> QED BY <1>1, <1>2, <1>3, <1>4 DEF Inv, TypeOK

(* What the customer makes of a card is a card. *)
LEMMA DecisionTypes ==
  ASSUME Inv, NEW o \in Row
  PROVE  /\ [row[o] EXCEPT !.status = "approved", !.auto = FALSE] \in Occasion
         /\ [row[o] EXCEPT !.status = "pending_approval", !.auto = FALSE] \in Occasion
         /\ [row[o] EXCEPT !.status = "pending_approval"] \in Occasion
         /\ [row[o] EXCEPT !.status = "skipped"] \in Occasion
         /\ [row[o] EXCEPT !.status = "deleted"] \in Occasion
         /\ LET d == Dispatch(row[o].date) IN
              [row[o] EXCEPT !.status = "approved", !.auto = FALSE,
                             !.dispatch = IF d < day THEN day ELSE d] \in Occasion
<1>1. row[o] \in Occasion /\ row[o].date \in Dates /\ day \in Days
  BY DEF Inv, TypeOK, Occasion, Days
<1> DEFINE d == Dispatch(row[o].date)
           when == IF d < day THEN day ELSE d
<1>2. d \in Days
  BY <1>1, DispatchIsDay
<1>3. when \in Days
  BY <1>1, <1>2
<1> HIDE DEF when
<1>4. \A p \in Occasion :
        [p EXCEPT !.status = "approved", !.auto = FALSE, !.dispatch = when] \in Occasion
  BY <1>3 DEF Occasion, Statuses, Live
<1>5. \A p \in Occasion :
        /\ [p EXCEPT !.status = "approved", !.auto = FALSE] \in Occasion
        /\ [p EXCEPT !.status = "pending_approval", !.auto = FALSE] \in Occasion
        /\ [p EXCEPT !.status = "pending_approval"] \in Occasion
        /\ [p EXCEPT !.status = "skipped"] \in Occasion
        /\ [p EXCEPT !.status = "deleted"] \in Occasion
  BY DEF Occasion, Statuses, Live
<1> QED BY <1>1, <1>4, <1>5 DEF when

(* An order for a card, if there is one, is the only one: its end leaves   *)
(* the card on none.                                                       *)
LEMMA LastOrder ==
  ASSUME Inv, NEW o \in Row
  PROVE  /\ drafts[o] > 0 => drafts[o] = 1 /\ paid[o] = 0
         /\ paid[o] > 0 => drafts[o] = 0 /\ paid[o] = 1
<1>1. drafts[o] \in Nat /\ paid[o] \in Nat /\ drafts[o] + paid[o] <= 1
  BY DEF Inv, TypeOK, OneOrderForACard
<1> QED BY <1>1

LEMMA OrderStep ==
  ASSUME Inv, NEW o \in Row, Checkout(o) \/ Pay(o) \/ Cancel(o) \/ Refund(o)
  PROVE  /\ row' \in [Row -> Occasion] /\ OneOrderForACard' /\ OrderedIsBound'
         /\ drafts' \in [Row -> Nat] /\ paid' \in [Row -> Nat]
         /\ word' = word /\ inTime' \in [Row -> BOOLEAN]
<1>1. drafts \in [Row -> Nat] /\ paid \in [Row -> Nat] /\ row \in [Row -> Occasion]
  BY DEF Inv, TypeOK
<1>2. row[o] \in Occasion /\ {"approved", "skipped"} \subseteq Statuses
  BY <1>1 DEF Statuses, Live
<1>3. CASE Checkout(o)
  <2>1. row[o].status \notin Bound
    BY <1>3 DEF Checkout, Is, Bound
  <2> QED BY <1>3, <2>1, ConsumedStep DEF Checkout, Inv, TypeOK
<1>4. CASE Pay(o)
  <2>1. drafts[o] = 1 /\ paid[o] = 0
    BY <1>4, LastOrder DEF Pay
  <2>2. drafts' = [drafts EXCEPT ![o] = 0] /\ paid' = [paid EXCEPT ![o] = 1]
    BY <1>4, <2>1 DEF Pay
  <2>3. drafts' \in [Row -> Nat] /\ paid' \in [Row -> Nat]
    BY <1>1, <2>2
  <2>4. \A p \in Row : drafts'[p] + paid'[p] = drafts[p] + paid[p]
    BY <1>1, <2>1, <2>2
  <2> QED BY <1>4, <2>3, <2>4
        DEF Pay, Inv, TypeOK, OneOrderForACard, OrderedIsBound
<1>5. CASE Cancel(o)
  <2>1. drafts[o] = 1 /\ paid[o] = 0
    BY <1>5, LastOrder DEF Cancel
  <2>2. drafts' = [drafts EXCEPT ![o] = 0] /\ paid' = paid /\ word' = word
    BY <1>5, <2>1 DEF Cancel
  <2>3. row' \in [Row -> Occasion] /\ \A p \in Row \ {o} : row'[p] = row[p]
    <3>1. [row[o] EXCEPT !.status = "approved"] \in Occasion
      BY <1>2, StatusType
    <3> QED BY <1>1, <1>5, <3>1 DEF Cancel
  <2>4. inTime' \in [Row -> BOOLEAN]
    <3>1. CASE Given(o)
      BY <3>1, GivenType DEF Inv
    <3>2. CASE inTime' = inTime
      BY <3>2 DEF Inv, TypeOK
    <3> QED BY <1>5, <3>1, <3>2 DEF Cancel
  <2>5. drafts'[o] + paid'[o] = 0
    BY <1>1, <2>1, <2>2
  <2>6. \A p \in Row \ {o} : drafts'[p] = drafts[p] /\ paid'[p] = paid[p]
    BY <1>1, <2>2
  <2>7. OneOrderForACard' /\ OrderedIsBound'
    BY <2>3, <2>5, <2>6 DEF Inv, OneOrderForACard, OrderedIsBound
  <2> QED BY <1>1, <2>2, <2>3, <2>4, <2>7
<1>6. CASE Refund(o)
  <2>1. drafts[o] = 0 /\ paid[o] = 1
    BY <1>6, LastOrder DEF Refund
  <2>2. paid' = [paid EXCEPT ![o] = 0] /\ UNCHANGED <<drafts, word, inTime>>
    BY <1>6, <2>1 DEF Refund
  <2>3. row' \in [Row -> Occasion] /\ \A p \in Row \ {o} : row'[p] = row[p]
    <3>1. [row[o] EXCEPT !.status = "skipped"] \in Occasion
      BY <1>2, StatusType
    <3> QED BY <1>1, <1>6, <3>1 DEF Refund
  <2>5. drafts'[o] + paid'[o] = 0
    BY <1>1, <2>1, <2>2
  <2>6. \A p \in Row \ {o} : drafts'[p] = drafts[p] /\ paid'[p] = paid[p]
    BY <1>1, <2>2
  <2>7. OneOrderForACard' /\ OrderedIsBound'
    BY <2>3, <2>5, <2>6 DEF Inv, OneOrderForACard, OrderedIsBound
  <2> QED BY <1>1, <2>2, <2>3, <2>7 DEF Inv, TypeOK
<1> QED BY <1>3, <1>4, <1>5, <1>6

LEMMA CustomerStep ==
  ASSUME Inv, NEW o \in Row, Customer(o)
  PROVE  Inv'
<1> DEFINE Good == /\ row' \in [Row -> Occasion] /\ OneOrderForACard' /\ OrderedIsBound'
                   /\ drafts' \in [Row -> Nat] /\ paid' \in [Row -> Nat]
                   /\ word' \in [Row -> {"none", "approved", "skipped", "cancelled"}]
                   /\ inTime' \in [Row -> BOOLEAN]
<1>1. word[o] \in {"none", "approved", "skipped", "cancelled"}
  BY DEF Inv, TypeOK
<1>2. Good
  <2>1. CASE Approve(o)
    <3> DEFINE r == [row[o] EXCEPT !.status = "approved", !.auto = FALSE]
    <3>1. row[o].status \notin Bound /\ Decide(o, r, "approved")
      BY <2>1 DEF Approve, Is, Bound
    <3>2. r \in Occasion
      BY DecisionTypes, Zenon
    <3> HIDE DEF r
    <3> QED BY <3>1, <3>2, DecideStep
  <2>2. CASE Reconcile(o)
    <3> DEFINE d == Dispatch(row[o].date)
               r == [row[o] EXCEPT !.status = "approved", !.auto = FALSE,
                                   !.dispatch = IF d < day THEN day ELSE d]
    <3>1. row[o].status \notin Bound /\ Decide(o, r, "approved")
      BY <2>2 DEF Reconcile, Is, Bound, Live
    <3>2. r \in Occasion
      BY DecisionTypes, Zenon
    <3> HIDE DEF r
    <3> QED BY <3>1, <3>2, DecideStep
  <2>3. CASE Unapprove(o)
    <3> DEFINE r == [row[o] EXCEPT !.status = "pending_approval", !.auto = FALSE]
    <3>1. row[o].status \notin Bound /\ Decide(o, r, "cancelled")
      BY <2>3 DEF Unapprove, Is, Bound
    <3>2. r \in Occasion
      BY DecisionTypes, Zenon
    <3> HIDE DEF r
    <3> QED BY <3>1, <3>2, DecideStep
  <2>4. CASE Skip(o)
    <3> DEFINE r == [row[o] EXCEPT !.status = "skipped"]
    <3>1. row[o].status \notin Bound /\ Decide(o, r, "skipped")
      BY <2>4 DEF Skip, Is, Bound
    <3>2. r \in Occasion
      BY DecisionTypes, Zenon
    <3> HIDE DEF r
    <3> QED BY <3>1, <3>2, DecideStep
  <2>5. CASE Unskip(o) \/ Prepare(o)
    <3> DEFINE r == [row[o] EXCEPT !.status = "pending_approval"]
    <3>1. row[o].status \notin Bound /\ (Decide(o, r, "none") \/ Decide(o, r, word[o]))
      BY <2>5 DEF Unskip, Prepare, Is, Bound
    <3>2. r \in Occasion
      BY DecisionTypes, Zenon
    <3> HIDE DEF r
    <3> QED BY <1>1, <3>1, <3>2, DecideStep
  <2>6. CASE DeleteEvent(o)
    <3> DEFINE r == [row[o] EXCEPT !.status = "deleted"]
    <3>1. row[o].status \notin Bound /\ Decide(o, r, word[o])
      BY <2>6 DEF DeleteEvent, Is, Bound
    <3>2. r \in Occasion
      BY DecisionTypes, Zenon
    <3> HIDE DEF r
    <3> QED BY <1>1, <3>1, <3>2, DecideStep
  <2>7. CASE Checkout(o) \/ Pay(o) \/ Cancel(o) \/ Refund(o)
    BY <2>7, OrderStep DEF Inv, TypeOK
  <2> HIDE DEF Good
  <2> QED BY <2>1, <2>2, <2>3, <2>4, <2>5, <2>6, <2>7 DEF Customer
<1>3. acts' \in 0 .. MaxActs
  BY CountedType DEF Inv, Customer
<1>4. TypeOK'
  BY <1>2, <1>3 DEF Inv, TypeOK, Customer
<1> QED BY <1>2, <1>4 DEF Inv

LEMMA ArchiveStep ==
  ASSUME Inv, Archive
  PROVE  Inv'
<1>1. contact' \in [born : Birthday \cup {0}, archived : BOOLEAN]
  BY DEF Inv, TypeOK, Archive
<1>2. acts' \in 0 .. MaxActs
  BY CountedType DEF Inv, Archive
<1>3. TypeOK'
  BY <1>1, <1>2 DEF Inv, TypeOK, Archive
<1> QED BY <1>3, NoRowMoves DEF Inv, Archive

-----------------------------------------------------------------------------
(* The requests in two steps *)

(* What is left to hold of a step of a request. *)
Kept == /\ row' \in [Row -> Occasion] /\ OneOrderForACard' /\ OrderedIsBound'
        /\ word' \in [Row -> {"none", "approved", "skipped", "cancelled"}]
        /\ inTime' \in [Row -> BOOLEAN]
        /\ contact' \in [born : Birthday \cup {0}, archived : BOOLEAN]
        /\ request' \in [Request -> Held]

LEMMA AnswerType ==
  ASSUME Inv, NEW q \in Request, NEW held \in Held, Answer(q, held)
  PROVE  request' \in [Request -> Held]
BY HeldType DEF Inv, Answer

(* A request that only reads. *)
LEMMA OnlyReads ==
  ASSUME Inv, NEW q \in Request, NEW held \in Held, Answer(q, held),
         UNCHANGED <<row, word, inTime, contact, drafts, paid>>
  PROVE  Kept
BY AnswerType, NoRowMoves DEF Inv, TypeOK, Kept

LEMMA ApproveReadsStep ==
  ASSUME Inv, NEW q \in Request, NEW o \in Row, ApproveReads(q, o),
         UNCHANGED <<drafts, paid>>
  PROVE  Kept
<1> DEFINE held == [op |-> "approve", card |-> DatedOf(o)]
<1>1. held \in Held
  BY DatedType DEF Inv, Held
<1>2. Answer(q, held)
  BY DEF ApproveReads
<1> HIDE DEF held
<1> QED BY <1>1, <1>2, OnlyReads DEF ApproveReads

LEMMA PinReadsStep ==
  ASSUME Inv, NEW q \in Request, NEW o \in Row, PinReads(q, o),
         UNCHANGED <<drafts, paid>>
  PROVE  Kept
<1>1. row[o].date \in Dates /\ day \in 1 .. LastDay
  BY DEF Inv, TypeOK, Occasion
<1>2. PICK d \in Days, b \in BOOLEAN :
        Answer(q, [op |-> "pin", row |-> o, to |-> d, pinned |-> b])
  <2>1. Dispatch(row[o].date) \in Days
    BY <1>1, DispatchIsDay
  <2>2. 0 .. row[o].date \subseteq Days
    BY <1>1 DEF Dates, Days
  <2> QED BY <2>1, <2>2 DEF PinReads
<1> DEFINE held == [op |-> "pin", row |-> o, to |-> d, pinned |-> b]
<1>3. held \in Held
  BY DEF Held
<1>4. Answer(q, held)
  BY <1>2
<1> HIDE DEF held
<1> QED BY <1>3, <1>4, OnlyReads DEF PinReads

LEMMA CorrectReadsStep ==
  ASSUME Inv, NEW q \in Request, NEW b \in Birthday \cup {0}, CorrectReads(q, b),
         UNCHANGED <<drafts, paid>>
  PROVE  Kept
<1> DEFINE seen == [o \in Row |-> [status |-> row[o].status, date |-> row[o].date]]
           first == request[q] = Idle
           held == [op |-> "realign", born |-> b, first |-> first, seen |-> seen]
<1>1. seen \in [Row -> [status : Statuses, date : Dates]]
  <2>1. \A o \in Row : row[o].status \in Statuses /\ row[o].date \in Dates
    BY DEF Inv, TypeOK, Occasion
  <2> QED BY <2>1
<1>2. first \in BOOLEAN
  OBVIOUS
<1>3. Answer(q, held)
  BY DEF CorrectReads
<1> HIDE DEF seen, first
<1>4. held \in Held
  BY <1>1, <1>2 DEF Held, Reading
<1> HIDE DEF held
<1> QED BY <1>3, <1>4, OnlyReads DEF CorrectReads

LEMMA ApproveWritesStep ==
  ASSUME Inv, NEW q \in Request, ApproveWrites(q), UNCHANGED <<drafts, paid>>
  PROVE  Kept
<1> DEFINE c == request[q].card
<1>1. c \in Dated /\ c.row \in Row
  BY HeldType DEF Inv, Held, Reading, Idle, ApproveWrites, Dated
<1>2. request' \in [Request -> Held]
  BY AnswerType DEF ApproveWrites, Held
<1>3. /\ row' \in [Row -> Occasion] /\ OneOrderForACard' /\ OrderedIsBound'
      /\ word' \in [Row -> {"none", "approved", "skipped", "cancelled"}]
      /\ inTime' \in [Row -> BOOLEAN]
  <2>1. CASE Is(c.row, {"pending_approval"})
    <3> DEFINE r == ForAutoSend(row[c.row], c)
    <3>1. row[c.row] \in Occasion
      BY <1>1 DEF Inv, TypeOK
    <3>2. r \in Occasion
      BY <1>1, <3>1, ForAutoSendType
    <3>3. /\ row' = [row EXCEPT ![c.row] = r] /\ Given(c.row)
          /\ word' = [word EXCEPT ![c.row] = "approved"]
      BY <2>1 DEF ApproveWrites
    <3>4. row[c.row].status \notin Bound
      BY <2>1 DEF Is, Bound
    <3>5. inTime' \in [Row -> BOOLEAN]
      BY <1>1, <3>3, GivenType DEF Inv
    <3>6. word' \in [Row -> {"none", "approved", "skipped", "cancelled"}]
      BY <3>3 DEF Inv, TypeOK
    <3> HIDE DEF r, c
    <3> QED BY <1>1, <3>2, <3>3, <3>4, <3>5, <3>6, OneRow
  <2>2. CASE ~Is(c.row, {"pending_approval"})
    <3>1. UNCHANGED <<row, word, inTime>>
      BY <2>2 DEF ApproveWrites
    <3> QED BY <3>1, NoRowMoves DEF Inv, TypeOK
  <2> QED BY <2>1, <2>2
<1> QED BY <1>2, <1>3 DEF Kept, ApproveWrites, Inv, TypeOK

LEMMA PinWritesStep ==
  ASSUME Inv, NEW q \in Request, PinWrites(q), UNCHANGED <<drafts, paid>>
  PROVE  Kept
<1> DEFINE o == request[q].row
           d == request[q].to
           b == request[q].pinned
<1>1. o \in Row /\ d \in Days /\ b \in BOOLEAN
  BY HeldType DEF Inv, Held, Reading, Idle, PinWrites
<1>2. request' \in [Request -> Held]
  BY AnswerType DEF PinWrites, Held
<1>3. /\ row' \in [Row -> Occasion] /\ OneOrderForACard' /\ OrderedIsBound'
      /\ inTime' \in [Row -> BOOLEAN]
  <2>1. CASE Exists(o)
    <3> DEFINE r == [row[o] EXCEPT !.dispatch = d, !.pinned = b]
    <3>1. row[o] \in Occasion
      BY <1>1 DEF Inv, TypeOK
    <3>2. row' = [row EXCEPT ![o] = r] /\ Given(o)
      BY <2>1 DEF PinWrites
    <3> HIDE DEF o, d, b
    <3>3. r \in Occasion /\ r.status = row[o].status
      BY <1>1, <3>1 DEF Occasion
    <3>4. inTime' \in [Row -> BOOLEAN]
      BY <1>1, <3>2, GivenType DEF Inv
    <3> HIDE DEF r
    <3> QED BY <1>1, <3>2, <3>3, <3>4, OneRow
  <2>2. CASE ~Exists(o)
    <3>1. UNCHANGED <<row, inTime>>
      BY <2>2 DEF PinWrites
    <3> QED BY <3>1, NoRowMoves DEF Inv, TypeOK
  <2> QED BY <2>1, <2>2
<1> QED BY <1>2, <1>3 DEF Kept, PinWrites, Inv, TypeOK

(* A realigned calendar is one, and binds what was bound. *)
LEMMA DiscardedType ==
  ASSUME Inv, NEW seen, NEW kept
  PROVE  /\ Discarded(seen, kept) \in [Row -> Occasion]
         /\ \A o \in Row : row[o].status \in Bound
              => Discarded(seen, kept)[o].status \in Bound
         /\ \A o \in kept \cap Row : Discarded(seen, kept)[o] = row[o]
         /\ \A o \in Row : row[o].status = "none" => Discarded(seen, kept)[o] = row[o]
<1>1. \A o \in Row : row[o] \in Occasion
  BY DEF Inv, TypeOK
<1>2. {"missed", "deleted"} \subseteq Statuses
  BY DEF Statuses
<1>3. \A o \in Row, s \in {"missed", "deleted"} :
        /\ [row[o] EXCEPT !.status = s] \in Occasion
        /\ [row[o] EXCEPT !.status = s].status = s
  BY <1>1, <1>2, StatusType
<1>4. \A o \in Row : \/ Discarded(seen, kept)[o] = row[o]
                     \/ \E s \in {"missed", "deleted"} :
                          Discarded(seen, kept)[o] = [row[o] EXCEPT !.status = s]
  BY DEF Discarded
<1>5. Discarded(seen, kept) \in [Row -> Occasion]
  <2> DEFINE new(o) == IF o \in kept \/ seen[o].status \notin Live \/ ~Exists(o) THEN row[o]
            ELSE [row[o] EXCEPT !.status = IF seen[o].date < day THEN "missed" ELSE "deleted"]
  <2>1. Discarded(seen, kept) = [o \in Row |-> new(o)]
    BY DEF Discarded
  <2>2. \A o \in Row : new(o) \in Occasion
    BY <1>1, <1>3
  <2> HIDE DEF new
  <2> QED BY <2>1, <2>2
<1>6. ASSUME NEW o \in Row, row[o].status \in Bound
      PROVE  Discarded(seen, kept)[o].status \in Bound
  <2>1. CASE Discarded(seen, kept)[o] = row[o]
    BY <1>6, <2>1
  <2>2. CASE \E s \in {"missed", "deleted"} :
               Discarded(seen, kept)[o] = [row[o] EXCEPT !.status = s]
    <3>1. PICK s \in {"missed", "deleted"} :
            Discarded(seen, kept)[o] = [row[o] EXCEPT !.status = s]
      BY <2>2
    <3>2. Discarded(seen, kept)[o].status = s
      BY <1>3, <3>1
    <3> QED BY <3>2 DEF Bound
  <2> QED BY <1>4, <2>1, <2>2
<1> QED BY <1>5, <1>6 DEF Discarded, Exists

(* What a realignment leaves of a row, or does to it. *)
LEMMA DiscardedStatus ==
  ASSUME Inv, NEW seen, NEW kept, NEW o \in Row
  PROVE  \/ Discarded(seen, kept)[o] = row[o]
         \/ Discarded(seen, kept)[o].status \in {"missed", "deleted"}
<1>1. row[o] \in Occasion /\ {"missed", "deleted"} \subseteq Statuses
  BY DEF Inv, TypeOK, Statuses
<1>2. \A s \in {"missed", "deleted"} : [row[o] EXCEPT !.status = s].status = s
  BY <1>1, StatusType
<1> QED BY <1>2 DEF Discarded

LEMMA RealignWritesStep ==
  ASSUME Inv, NEW q \in Request, RealignWrites(q), UNCHANGED <<drafts, paid>>
  PROVE  Kept
<1> DEFINE seen == request[q].seen
           born == request[q].born
           target == NextBirthday(born, day)
<1>1. born \in Birthday
  BY HeldType DEF Inv, Held, Reading, Idle, RealignWrites
<1>2. target \in Dates
  BY <1>1, NextIsDate DEF Inv, TypeOK
<1>3. request' \in [Request -> Held]
  <2>1. [op |-> "promote"] \in Held
    BY DEF Held
  <2> QED BY <2>1, AnswerType DEF RealignWrites
<1>4. contact' \in [born : Birthday \cup {0}, archived : BOOLEAN]
  BY <1>1 DEF Inv, TypeOK, RealignWrites
<1>5. \/ RealignAnew(seen, target)
      \/ \E k \in Keepers(seen, target) : RealignOnto(seen, target, k)
  BY DEF RealignWrites
<1> HIDE DEF seen, born, target
<1>6. /\ row' \in [Row -> Occasion] /\ inTime' \in [Row -> BOOLEAN]
      /\ \A o \in Row : row[o].status \in Bound => row'[o].status \in Bound
  <2>1. CASE RealignAnew(seen, target)
    <3> DEFINE left == Discarded(seen, {})
    <3>1. /\ left \in [Row -> Occasion]
          /\ \A o \in Row : row[o].status \in Bound => left[o].status \in Bound
      BY DiscardedType
    <3>2. Scheduled(target) \in Occasion
      BY <1>2, ScheduledType
    <3>3. \/ row' = left
          \/ \E n \in Row : row[n].status = "none"
                            /\ row' = [left EXCEPT ![n] = Scheduled(target)]
      BY <2>1 DEF RealignAnew
    <3>4. inTime' = inTime
      BY <2>1 DEF RealignAnew
    <3> HIDE DEF left
    <3> QED BY <3>1, <3>2, <3>3, <3>4 DEF Inv, TypeOK, Bound
  <2>2. CASE \E k \in Keepers(seen, target) : RealignOnto(seen, target, k)
    <3>1. PICK k \in Keepers(seen, target) : RealignOnto(seen, target, k)
      BY <2>2
    <3>2. k \in Row
      BY DEF Keepers
    <3> DEFINE left == Discarded(seen, {k})
    <3>3. /\ left \in [Row -> Occasion] /\ left[k] = row[k]
          /\ \A o \in Row : row[o].status \in Bound => left[o].status \in Bound
      BY <3>2, DiscardedType
    <3>4. \/ row' = left /\ UNCHANGED inTime
          \/ row' = [left EXCEPT ![k] = Moved(@, target)] /\ Given(k)
      BY <3>1 DEF RealignOnto
    <3> HIDE DEF left
    <3>5. left[k] \in Occasion
      BY <3>2, <3>3
    <3>6. Moved(left[k], target) \in Occasion
          /\ Moved(left[k], target).status = left[k].status
      BY <1>2, <3>5, MovedType
    <3>7. inTime' \in [Row -> BOOLEAN]
      BY <3>2, <3>4, GivenType DEF Inv, TypeOK
    <3> QED BY <3>2, <3>3, <3>4, <3>6, <3>7
  <2> QED BY <1>5, <2>1, <2>2
<1>7. OneOrderForACard' /\ OrderedIsBound'
  BY <1>6, OrdersStay
<1>8. word' \in [Row -> {"none", "approved", "skipped", "cancelled"}]
  BY DEF Inv, TypeOK, RealignWrites
<1> QED BY <1>3, <1>4, <1>6, <1>7, <1>8 DEF Kept

LEMMA RealignRemovesStep ==
  ASSUME Inv, NEW q \in Request, RealignRemoves(q), UNCHANGED <<drafts, paid>>
  PROVE  Kept
<1> DEFINE left == Discarded(request[q].seen, {})
<1>1. /\ left \in [Row -> Occasion]
      /\ \A o \in Row : row[o].status \in Bound => left[o].status \in Bound
  BY DiscardedType
<1>2. row' = left
  BY DEF RealignRemoves
<1> HIDE DEF left
<1>3. OneOrderForACard' /\ OrderedIsBound'
  BY <1>1, <1>2, OrdersStay
<1>4. request' \in [Request -> Held]
  BY AnswerType DEF RealignRemoves, Held
<1>5. contact' \in [born : Birthday \cup {0}, archived : BOOLEAN]
  BY DEF Inv, TypeOK, RealignRemoves
<1> QED BY <1>1, <1>2, <1>3, <1>4, <1>5 DEF Kept, Inv, TypeOK, RealignRemoves

LEMMA RealignFailsStep ==
  ASSUME Inv, NEW q \in Request, RealignFails(q), UNCHANGED <<drafts, paid>>
  PROVE  Kept
<1> DEFINE again == [op |-> "again", born |-> request[q].born]
<1>1. request[q].born \in Birthday
  BY HeldType DEF Inv, Held, Reading, Idle, RealignFails
<1>2. again \in Held /\ Idle \in Held
  BY <1>1 DEF Held
<1>3. Answer(q, Idle) \/ Answer(q, again)
  BY DEF RealignFails
<1> HIDE DEF again
<1> QED BY <1>2, <1>3, OnlyReads DEF RealignFails

LEMMA PromoteAfterStep ==
  ASSUME Inv, NEW q \in Request, PromoteAfter(q), UNCHANGED <<drafts, paid>>
  PROVE  Kept
<1>1. row' \in [Row -> Occasion] /\ OneOrderForACard' /\ OrderedIsBound'
  BY PromoteType, OrdersStay DEF PromoteAfter
<1>2. request' \in [Request -> Held]
  BY AnswerType DEF PromoteAfter, Held
<1> QED BY <1>1, <1>2 DEF Kept, PromoteAfter, Inv, TypeOK

LEMMA AskedStep ==
  ASSUME Inv, NEW q \in Request, Asked(q)
  PROVE  Inv'
<1>1. UNCHANGED <<drafts, paid>>
  BY DEF Asked
<1>2. acts' \in 0 .. MaxActs
  BY CountedType DEF Inv, TypeOK, Asked, Asks, Continues
<1>3. Kept
  <2>1. CASE \E o \in Row : ApproveReads(q, o) \/ PinReads(q, o)
    BY <1>1, <2>1, ApproveReadsStep, PinReadsStep
  <2>2. CASE \E b \in Birthday \cup {0} : CorrectReads(q, b)
    BY <1>1, <2>2, CorrectReadsStep
  <2>3. CASE ApproveWrites(q) \/ PinWrites(q)
    BY <1>1, <2>3, ApproveWritesStep, PinWritesStep
  <2>4. CASE RealignWrites(q) \/ RealignRemoves(q) \/ RealignFails(q) \/ PromoteAfter(q)
    BY <1>1, <2>4, RealignWritesStep, RealignRemovesStep, RealignFailsStep, PromoteAfterStep
  <2> QED BY <2>1, <2>2, <2>3, <2>4 DEF Asked, Asks, Continues
<1>4. TypeOK'
  BY <1>2, <1>3 DEF Inv, TypeOK, Kept, Asked, Held, Reading
<1> QED BY <1>3, <1>4 DEF Inv, Kept

-----------------------------------------------------------------------------
(* The theorems *)

LEMMA StepKeeps ==
  ASSUME Inv, [Next]_vars
  PROVE  Inv'
<1>1. CASE SchedulerReads \/ SchedulerCreates \/ SchedulerPromotes \/ SchedulerRetires
  BY <1>1, ReadsStep, CreatesStep, PromotesStep, RetiresStep
<1>2. CASE StandingReads \/ \E c \in standing.todo : StandingApproves(c)
  BY <1>2, StandingReadsStep, StandingApprovesStep
<1>3. CASE \E r \in Run : RunReads(r) \/ \E c \in run[r].todo : RunSends(r, c)
  BY <1>3, RunReadsStep, RunSendsStep
<1>4. CASE JobStops \/ NextDay
  BY <1>4, StopsStep, NextDayStep
<1>5. CASE Archive \/ \E o \in Row : Customer(o)
  BY <1>5, CustomerStep, ArchiveStep
<1>6. CASE \E q \in Request : Asked(q)
  BY <1>6, AskedStep
<1>7. CASE UNCHANGED vars
  <2>1. TypeOK'
    BY <1>7 DEF Inv, TypeOK, vars
  <2> QED BY <1>7, <2>1, NoRowMoves DEF Inv, vars
<1> QED BY <1>1, <1>2, <1>3, <1>4, <1>5, <1>6, <1>7 DEF Next

LEMMA InvHolds == Spec => []Inv
<1> QED BY InitHolds, StepKeeps, PTL DEF Spec

(* Whatever the calendar, the runs and the requests, every row and every   *)
(* value held between a read and its write stays what the code takes it    *)
(* for; no move of a birthday puts a date outside the calendar.            *)
THEOREM TypeCorrect == Spec => []TypeOK
<1>1. Inv => TypeOK
  BY DEF Inv
<1> QED BY <1>1, InvHolds, PTL

(* However many runs of auto-send, checkouts, cancelled and refunded       *)
(* orders and moved birthdays: a card is on at most one order, because the *)
(* consume takes it out of the statuses every consume asks for.            *)
THEOREM OneOrder == Spec => []OneOrderForACard
<1>1. Inv => OneOrderForACard
  BY DEF Inv
<1> QED BY <1>1, InvHolds, PTL

-----------------------------------------------------------------------------
(* A standing order and the person: what still waits, nobody has decided.  *)

Waiting == {"none", "scheduled", "pending_approval"}

Undecided == \A o \in Row :
  row[o].status \in Waiting => word[o] \notin {"approved", "skipped"}

(* A step that makes nothing wait and lets nobody speak. *)
LEMMA UndecidedStays ==
  ASSUME Undecided, word' = word,
         \A o \in Row : row'[o].status \in Waiting => row[o].status \in Waiting
  PROVE  Undecided'
BY DEF Undecided

(* A step in which a person decides about one card. *)
LEMMA UndecidedOne ==
  ASSUME Inv, Undecided, NEW o \in Row, NEW r, NEW said,
         row' = [row EXCEPT ![o] = r], word' = [word EXCEPT ![o] = said],
         r.status \in Waiting => said \notin {"approved", "skipped"}
  PROVE  Undecided'
BY DEF Inv, TypeOK, Undecided

LEMMA UndecidedByJobs ==
  ASSUME Inv, Undecided,
         \/ SchedulerCreates \/ SchedulerPromotes \/ SchedulerRetires
         \/ \E c \in standing.todo : StandingApproves(c)
         \/ \E r \in Run : \E c \in run[r].todo : RunSends(r, c)
  PROVE  Undecided'
<1>1. \A o \in Row : row[o] \in Occasion
  BY DEF Inv, TypeOK
<1>2. CASE SchedulerCreates
  <2>1. CASE row' = row
    BY <1>2, <2>1, UndecidedStays DEF SchedulerCreates
  <2>2. CASE \E o \in Row, r \in {Scheduled(NextBirthday(scheduler.born, day))} :
               row[o].status = "none" /\ row' = [row EXCEPT ![o] = r]
    BY <1>2, <2>2, UndecidedStays DEF SchedulerCreates, Waiting, Inv, TypeOK
  <2> QED BY <1>2, <2>1, <2>2 DEF SchedulerCreates
<1>3. CASE SchedulerPromotes
  BY <1>1, <1>3, UndecidedStays DEF SchedulerPromotes, Promote, Waiting
<1>4. CASE SchedulerRetires
  <2>1. "missed" \in Statuses
    BY DEF Statuses
  <2>2. \A o \in Row : [row[o] EXCEPT !.status = "missed"].status = "missed"
    BY <1>1, <2>1, StatusType
  <2>3. \A o \in Row : row'[o] = row[o] \/ row'[o] = [row[o] EXCEPT !.status = "missed"]
    BY <1>4 DEF SchedulerRetires
  <2>4. \A o \in Row : row'[o].status \in Waiting => row[o].status \in Waiting
    BY <2>2, <2>3 DEF Waiting
  <2> QED BY <1>4, <2>4, UndecidedStays DEF SchedulerRetires
<1>5. CASE \E c \in standing.todo : StandingApproves(c)
  <2>1. PICK c \in standing.todo : StandingApproves(c)
    BY <1>5
  <2>2. c.row \in Row
    BY DEF Inv, TypeOK, Dated
  <2>3. CASE row' = row
    BY <2>1, <2>3, UndecidedStays DEF StandingApproves
  <2>4. CASE row' = [row EXCEPT ![c.row] = [ForAutoSend(@, c) EXCEPT !.message = TRUE]]
    <3>1. [ForAutoSend(row[c.row], c) EXCEPT !.message = TRUE].status = "approved"
      BY <1>1, <2>2 DEF ForAutoSend, Occasion
    <3> QED BY <2>1, <2>2, <2>4, <3>1, UndecidedStays
          DEF StandingApproves, Waiting, Inv, TypeOK
  <2> QED BY <2>1, <2>3, <2>4 DEF StandingApproves
<1>6. CASE \E r \in Run : \E c \in run[r].todo : RunSends(r, c)
  <2>1. PICK r \in Run : \E c \in run[r].todo : RunSends(r, c)
    BY <1>6
  <2>2. PICK c \in run[r].todo : RunSends(r, c)
    BY <2>1
  <2>3. run[r] \in [at : Turns, todo : SUBSET Picked]
    BY DEF Inv, TypeOK
  <2>4. c.row \in Row
    BY <2>3 DEF Picked
  <2>5. CASE row' = row
    BY <2>2, <2>5, UndecidedStays DEF RunSends
  <2>6. CASE Consumed(c.row)
    BY <1>1, <2>2, <2>4, <2>6, UndecidedStays DEF RunSends, Consumed, Waiting, Inv, TypeOK
  <2> QED BY <2>2, <2>5, <2>6 DEF RunSends
<1> QED BY <1>2, <1>3, <1>4, <1>5, <1>6

LEMMA UndecidedByCustomer ==
  ASSUME Inv, Undecided, NEW o \in Row, Customer(o)
  PROVE  Undecided'
<1>1. row[o] \in Occasion
  BY DEF Inv, TypeOK
<1>2. CASE Approve(o) \/ Reconcile(o) \/ Unapprove(o) \/ Skip(o) \/ DeleteEvent(o)
           \/ Unskip(o) \/ Prepare(o)
  <2>0. \A p \in Occasion : \A when :
          [p EXCEPT !.status = "approved", !.auto = FALSE, !.dispatch = when].status
            = "approved"
    BY DEF Occasion
  <2>1. PICK r, said : /\ Decide(o, r, said)
                       /\ r.status \in Waiting => said \notin {"approved", "skipped"}
    <3>1. CASE Approve(o)
      <4>1. [row[o] EXCEPT !.status = "approved", !.auto = FALSE].status \notin Waiting
        BY <1>1 DEF Occasion, Waiting
      <4> QED BY <3>1, <4>1 DEF Approve
    <3>2. CASE Reconcile(o)
      BY <1>1, <2>0, <3>2 DEF Reconcile, Waiting
    <3>3. CASE Unapprove(o)
      BY <3>3 DEF Unapprove
    <3>4. CASE Skip(o)
      BY <1>1, <3>4 DEF Skip, Waiting, Occasion
    <3>5. CASE DeleteEvent(o)
      BY <1>1, <3>5 DEF DeleteEvent, Waiting, Occasion
    <3>6. CASE Unskip(o)
      BY <3>6 DEF Unskip
    <3>7. CASE Prepare(o)
      BY <3>7 DEF Prepare, Undecided, Is, Waiting
    <3> QED BY <1>2, <3>1, <3>2, <3>3, <3>4, <3>5, <3>6, <3>7
  <2>2. row' = [row EXCEPT ![o] = r] /\ word' = [word EXCEPT ![o] = said]
    BY <2>1 DEF Decide
  <2> QED BY <2>1, <2>2, UndecidedOne
<1>3. CASE Checkout(o) \/ Pay(o) \/ Cancel(o) \/ Refund(o)
  <2>1. word' = word
    BY <1>3 DEF Checkout, Pay, Cancel, Refund
  <2>2. \/ row' = row
        \/ \E s \in {"queued", "approved", "skipped"} :
             row' = [row EXCEPT ![o].status = s]
    BY <1>3 DEF Checkout, Consumed, Pay, Cancel, Refund
  <2>3. \A p \in Row : row'[p].status \in Waiting => row[p].status \in Waiting
    <3>1. CASE row' = row
      BY <3>1
    <3>2. CASE \E s \in {"queued", "approved", "skipped"} : row' = [row EXCEPT ![o].status = s]
      <4>1. PICK s \in {"queued", "approved", "skipped"} : row' = [row EXCEPT ![o].status = s]
        BY <3>2
      <4>2. row'[o].status = s
        BY <1>1, <4>1, StatusType DEF Inv, TypeOK, Statuses, Live
      <4>3. \A p \in Row \ {o} : row'[p] = row[p]
        BY <4>1 DEF Inv, TypeOK
      <4> QED BY <4>2, <4>3 DEF Waiting
    <3> QED BY <2>2, <3>1, <3>2
  <2> QED BY <2>1, <2>3, UndecidedStays
<1> QED BY <1>2, <1>3 DEF Customer

LEMMA UndecidedByRequest ==
  ASSUME Inv, Undecided, NEW q \in Request, Asked(q)
  PROVE  Undecided'
<1>1. \A o \in Row : row[o] \in Occasion
  BY DEF Inv, TypeOK
<1>2. CASE UNCHANGED <<row, word>>
  BY <1>2, UndecidedStays
<1>3. CASE ApproveWrites(q)
  <2> DEFINE c == request[q].card
  <2>1. c.row \in Row
    BY <1>3, HeldType DEF Inv, Held, Reading, Idle, ApproveWrites, Dated
  <2>2. CASE /\ row' = [row EXCEPT ![c.row] = ForAutoSend(@, c)]
             /\ word' = [word EXCEPT ![c.row] = "approved"]
    <3>1. ForAutoSend(row[c.row], c).status = "approved"
      BY <1>1, <2>1 DEF ForAutoSend, Occasion
    <3> DEFINE r == ForAutoSend(row[c.row], c)
    <3>2. row' = [row EXCEPT ![c.row] = r] /\ r.status \notin Waiting
      BY <2>2, <3>1 DEF Waiting
    <3> HIDE DEF r, c
    <3> QED BY <2>1, <2>2, <3>2, UndecidedOne
  <2>3. CASE UNCHANGED <<row, word>>
    BY <2>3, UndecidedStays
  <2> QED BY <1>3, <2>2, <2>3 DEF ApproveWrites
<1>4. CASE PinWrites(q)
  <2> DEFINE o == request[q].row
             r == [row[o] EXCEPT !.dispatch = request[q].to, !.pinned = request[q].pinned]
  <2>1. \A p \in Row : row'[p].status = row[p].status
    <3>1. CASE row' = row
      BY <3>1
    <3>2. CASE row' = [row EXCEPT ![o] = r]
      <4>1. o \in Row
        BY <1>4, HeldType DEF Inv, Held, Reading, Idle, PinWrites
      <4>2. r.status = row[o].status
        BY <1>1, <4>1 DEF Occasion
      <4> HIDE DEF r, o
      <4> QED BY <3>2, <4>1, <4>2 DEF Inv, TypeOK
    <3> QED BY <1>4, <3>1, <3>2 DEF PinWrites
  <2> QED BY <1>4, <2>1, UndecidedStays DEF PinWrites
<1>5. CASE PromoteAfter(q)
  BY <1>1, <1>5, UndecidedStays DEF PromoteAfter, Promote, Waiting
<1>6. CASE RealignWrites(q)
  <2> DEFINE seen == request[q].seen
             target == NextBirthday(request[q].born, day)
  <2>1. \/ RealignAnew(seen, target)
        \/ \E k \in Keepers(seen, target) : RealignOnto(seen, target, k)
    BY <1>6 DEF RealignWrites
  <2>2. target \in Dates
    BY <1>6, HeldType, NextIsDate DEF Inv, TypeOK, Held, Reading, Idle, RealignWrites
  <2> HIDE DEF seen, target
  <2>3. \A kept : \A o \in Row : \/ Discarded(seen, kept)[o] = row[o]
                                 \/ Discarded(seen, kept)[o].status \in {"missed", "deleted"}
    BY DiscardedStatus
  <2>4. \A o \in Row : row'[o].status \in Waiting => row[o].status \in Waiting
    <3>1. CASE \E kept : row' = Discarded(seen, kept)
      BY <2>3, <3>1 DEF Waiting
    <3>2. CASE RealignAnew(seen, target)
      <4> DEFINE left == Discarded(seen, {})
      <4>1. \/ row' = left
            \/ \E n \in Row : row[n].status = "none"
                             /\ row' = [left EXCEPT ![n] = Scheduled(target)]
        BY <3>2 DEF RealignAnew
      <4>2. left \in [Row -> Occasion]
        BY DiscardedType
      <4>3. \A o \in Row : \/ left[o] = row[o] \/ left[o].status \in {"missed", "deleted"}
        BY <2>3
      <4> HIDE DEF left
      <4> QED BY <4>1, <4>2, <4>3 DEF Waiting
    <3>3. CASE \E k \in Keepers(seen, target) : RealignOnto(seen, target, k)
      <4>1. PICK k \in Keepers(seen, target) : RealignOnto(seen, target, k)
        BY <3>3
      <4>2. k \in Row
        BY DEF Keepers
      <4> DEFINE left == Discarded(seen, {k})
      <4>3. left \in [Row -> Occasion] /\ left[k] = row[k]
        BY <4>2, DiscardedType
      <4>4. row' = left \/ row' = [left EXCEPT ![k] = Moved(@, target)]
        BY <4>1 DEF RealignOnto
      <4>5. \A o \in Row : \/ left[o] = row[o] \/ left[o].status \in {"missed", "deleted"}
        BY <2>3
      <4> HIDE DEF left
      <4>6. Moved(left[k], target).status = row[k].status
        BY <1>1, <2>2, <4>2, <4>3, MovedType
      <4> QED BY <4>2, <4>3, <4>4, <4>5, <4>6 DEF Waiting
    <3> QED BY <2>1, <3>2, <3>3
  <2> QED BY <1>6, <2>4, UndecidedStays DEF RealignWrites
<1>7. CASE RealignRemoves(q)
  <2>1. \A o \in Row : \/ row'[o] = row[o]
                       \/ row'[o].status \in {"missed", "deleted"}
    BY <1>7, DiscardedStatus DEF RealignRemoves
  <2> QED BY <1>7, <2>1, UndecidedStays DEF RealignRemoves, Waiting
<1> QED BY <1>2, <1>3, <1>4, <1>5, <1>6, <1>7
     DEF Asked, Asks, Continues, ApproveReads, PinReads, CorrectReads, RealignFails

LEMMA UndecidedStep ==
  ASSUME Inv, Undecided, [Next]_vars
  PROVE  Undecided'
<1>1. CASE UNCHANGED <<row, word>>
  BY <1>1, UndecidedStays
<1> QED BY <1>1, UndecidedByJobs, UndecidedByCustomer, UndecidedByRequest
     DEF Next, SchedulerReads, StandingReads, RunReads, JobStops, NextDay, Archive, vars

(* A standing order changes only a card that waits, and a card that waits  *)
(* no person has approved or skipped: the guard of its write, and not the  *)
(* read before it, is what makes the person win.                           *)
THEOREM PersonFirst == Spec => PersonWins
<1>1. Init => Undecided
  BY DEF Init, Undecided
<1>2. Inv /\ Undecided /\ [Next]_vars =>
        [\A o \in Row : standing' # standing /\ row'[o] # row[o]
           => word[o] \notin {"approved", "skipped"}]_vars
  <2> SUFFICES ASSUME Inv, Undecided, Next, NEW o \in Row,
                      standing' # standing, row'[o] # row[o]
               PROVE  word[o] \notin {"approved", "skipped"}
    BY DEF vars
  <2>1. \E c \in standing.todo : StandingApproves(c)
    BY DEF Next, SchedulerReads, SchedulerCreates, SchedulerPromotes, SchedulerRetires,
           StandingReads, RunReads, RunSends, JobStops, NextDay, Customer, Archive, Asked
  <2>2. PICK c \in standing.todo : StandingApproves(c)
    BY <2>1
  <2>3. StandingMayApprove(c) /\ row' = [row EXCEPT ![c.row] =
                                   [ForAutoSend(@, c) EXCEPT !.message = TRUE]]
    BY <2>2 DEF StandingApproves
  <2>4. o = c.row
    BY <2>3 DEF Inv, TypeOK
  <2> QED BY <2>3, <2>4 DEF StandingMayApprove, Undecided, Waiting
<1>3. Inv /\ Undecided /\ [Next]_vars => Undecided'
  BY UndecidedStep
<1> QED BY <1>1, <1>2, <1>3, InvHolds, PTL DEF Spec, PersonWins

-----------------------------------------------------------------------------
(* A card given to auto-send in time: what must have become of it.  A step *)
(* either re-times the card (Given says anew whether auto-send was given   *)
(* it in time), or leaves what it was given alone and approves nothing.    *)

Entitled(o) == row[o].auto /\ inTime[o] /\ row[o].dispatch <= row[o].date

Served(o) == o \in told \/ \E c \in run[Cron].todo : c.row = o

(* The morning's run reads it on its day; from then on the customer has    *)
(* been told, or is about to be while the run still holds it.              *)
ServedOnItsDay == \A o \in Row :
  row[o].status = "approved" /\ Entitled(o) /\ ~disturbed =>
    /\ row[o].date < day => o \in told
    /\ row[o].date = day /\ run[Cron].at = "begun" => Served(o)

(* What waits has not been given to auto-send. *)
WaitingIsNotGiven == \A o \in Row : row[o].status \in Waiting => ~inTime[o]

(* A correction of the date of birth retires what it read as past, under   *)
(* the identifier: the date is still the one it read, and a card that was  *)
(* given in time was told of before the read.                              *)
ReadStands == \A q \in Request : request[q].op = "realign" =>
  \A o \in Row : request[q].seen[o].status \in Live =>
    /\ row[o].status # "none" /\ row[o].date = request[q].seen[o].date
    /\ row[o].date < day /\ Entitled(o) /\ ~disturbed => o \in told

MissedIsTold == \A o \in Row :
  row[o].status = "missed" /\ Entitled(o) /\ ~disturbed => o \in told

Told == ServedOnItsDay /\ WaitingIsNotGiven /\ ReadStands /\ MissedIsTold

(* The card is re-timed; or it is a new one; or nothing that auto-send     *)
(* was given changes, and if it is retired the customer has been told.     *)
Touch(o) ==
  \/ inTime'[o] <=> row'[o].status = "approved" /\ day < row'[o].date
  \/ /\ inTime'[o] = inTime[o]
     /\ row[o].status = "none" /\ row'[o].status = "scheduled"
  \/ /\ inTime'[o] = inTime[o] /\ row'[o].auto = row[o].auto
     /\ row'[o].dispatch = row[o].dispatch /\ row'[o].date = row[o].date
     /\ row'[o].status = "approved" => row[o].status = "approved"
     /\ row'[o].status \in Waiting => row[o].status \in Waiting
     /\ row'[o].status = "missed" =>
          row[o].status = "missed" \/ (Entitled(o) /\ ~disturbed => o \in told)

DateStays == \A o \in Row : row[o].status # "none" =>
  row'[o].status # "none" /\ row'[o].date = row[o].date

(* What the run does with a card of today that it has not refused.         *)
RunServes == \A o \in Row :
  /\ row[o].status = "approved" /\ Entitled(o) /\ row[o].date = day
  /\ row'[o].status = "approved" /\ run'[Cron].at = "begun" /\ ~disturbed'
  => Served(o)'

ReadsStay == \A q \in Request : request'[q].op = "realign" => request'[q] = request[q]

LEMMA TouchTold ==
  ASSUME Inv, Inv', Told, \A o \in Row : Touch(o), RunServes,
         day' = day, told \subseteq told', disturbed => disturbed'
  PROVE  ServedOnItsDay' /\ WaitingIsNotGiven' /\ MissedIsTold'
<1>1. \A o \in Row : row[o] \in Occasion /\ row'[o] \in Occasion
  BY DEF Inv, TypeOK
<1>2. \A o \in Row : row[o].date \in Nat /\ row'[o].date \in Nat
  BY <1>1 DEF Occasion, Dates
<1>3. day \in Nat
  BY DEF Inv, TypeOK
<1>4. ASSUME NEW o \in Row, row'[o].status = "approved", Entitled(o)', ~disturbed'
      PROVE  /\ row'[o].date < day' => o \in told'
             /\ row'[o].date = day' /\ run'[Cron].at = "begun" => Served(o)'
  <2>1. CASE inTime'[o] <=> row'[o].status = "approved" /\ day < row'[o].date
    BY <1>2, <1>3, <1>4, <2>1 DEF Entitled
  <2>2. CASE /\ inTime'[o] = inTime[o] /\ row'[o].auto = row[o].auto
             /\ row'[o].dispatch = row[o].dispatch /\ row'[o].date = row[o].date
             /\ row[o].status = "approved"
    <3>1. Entitled(o)
      BY <1>4, <2>2 DEF Entitled
    <3> QED BY <1>4, <2>2, <3>1 DEF Told, ServedOnItsDay, RunServes
  <2> QED BY <1>4, <2>1, <2>2 DEF Touch
<1>5. ASSUME NEW o \in Row, row'[o].status \in Waiting
      PROVE  ~inTime'[o]
  <2>1. row'[o].status # "approved"
    BY <1>5 DEF Waiting
  <2>2. row[o].status \in Waiting => ~inTime[o]
    BY DEF Told, WaitingIsNotGiven
  <2> QED BY <1>5, <2>1, <2>2 DEF Touch, Waiting
<1>6. ASSUME NEW o \in Row, row'[o].status = "missed", Entitled(o)', ~disturbed'
      PROVE  o \in told'
  <2>1. CASE inTime'[o] <=> row'[o].status = "approved" /\ day < row'[o].date
    BY <1>6, <2>1 DEF Entitled
  <2>2. CASE /\ inTime'[o] = inTime[o] /\ row'[o].auto = row[o].auto
             /\ row'[o].dispatch = row[o].dispatch /\ row'[o].date = row[o].date
             /\ row[o].status = "missed" \/ (Entitled(o) /\ ~disturbed => o \in told)
    <3>1. Entitled(o)
      BY <1>6, <2>2 DEF Entitled
    <3> QED BY <1>6, <2>2, <3>1 DEF Told, MissedIsTold
  <2> QED BY <1>6, <2>1, <2>2 DEF Touch
<1> QED BY <1>4, <1>5, <1>6 DEF ServedOnItsDay, WaitingIsNotGiven, MissedIsTold

LEMMA TouchReads ==
  ASSUME Inv, Inv', Told, \A o \in Row : Touch(o), DateStays, ReadsStay,
         day' = day, told \subseteq told', disturbed => disturbed'
  PROVE  ReadStands'
<1>1. \A o \in Row : row[o].date \in Nat /\ row'[o].date \in Nat
  BY DEF Inv, TypeOK, Occasion, Dates
<1>2. SUFFICES ASSUME NEW q \in Request, request'[q].op = "realign",
                      NEW o \in Row, request'[q].seen[o].status \in Live
      PROVE  /\ row'[o].status # "none" /\ row'[o].date = request'[q].seen[o].date
             /\ row'[o].date < day' /\ Entitled(o)' /\ ~disturbed' => o \in told'
  BY DEF ReadStands
<1>3. request'[q] = request[q]
  BY <1>2 DEF ReadsStay
<1>4. /\ row[o].status # "none" /\ row[o].date = request[q].seen[o].date
      /\ row[o].date < day /\ Entitled(o) /\ ~disturbed => o \in told
  BY <1>2, <1>3 DEF Told, ReadStands
<1>5. row'[o].status # "none" /\ row'[o].date = row[o].date
  BY <1>4 DEF DateStays
<1>6. ASSUME row'[o].date < day', Entitled(o)', ~disturbed' PROVE o \in told'
  <2>1. day \in Nat
    BY DEF Inv, TypeOK
  <2>2. CASE inTime'[o] <=> row'[o].status = "approved" /\ day < row'[o].date
    BY <1>1, <1>6, <2>1, <2>2 DEF Entitled
  <2>3. CASE /\ inTime'[o] = inTime[o] /\ row'[o].auto = row[o].auto
             /\ row'[o].dispatch = row[o].dispatch /\ row'[o].date = row[o].date
    <3>1. Entitled(o)
      BY <1>6, <2>3 DEF Entitled
    <3> QED BY <1>4, <1>5, <1>6, <3>1
  <2> QED BY <1>4, <2>2, <2>3 DEF Touch
<1> QED BY <1>3, <1>4, <1>5, <1>6

(* A step that does not touch the jobs.                                    *)
LEMMA SameRunServes ==
  ASSUME Told, run'[Cron] = run[Cron], told \subseteq told', disturbed => disturbed'
  PROVE  RunServes
BY DEF RunServes, Told, ServedOnItsDay, Served

LEMMA NoTouch ==
  ASSUME row' = row, inTime' = inTime
  PROVE  (\A o \in Row : Touch(o)) /\ DateStays
BY DEF Touch, DateStays

(* One card is re-timed. *)
LEMMA GivenTouch ==
  ASSUME Inv, NEW o \in Row, NEW r, row' = [row EXCEPT ![o] = r], Given(o)
  PROVE  /\ \A p \in Row : Touch(p)
         /\ row[o].status # "none" /\ r.status # "none" /\ r.date = row[o].date => DateStays
<1>1. /\ row'[o] = r /\ \A p \in Row \ {o} : row'[p] = row[p]
  BY DEF Inv, TypeOK
<1>2. /\ inTime'[o] = (row'[o].status = "approved" /\ day < row'[o].date)
      /\ \A p \in Row \ {o} : inTime'[p] = inTime[p]
  BY DEF Inv, TypeOK, Given
<1>3. Touch(o)
  BY <1>2 DEF Touch
<1>4. \A p \in Row \ {o} : Touch(p)
  BY <1>1, <1>2 DEF Touch
<1> QED BY <1>1, <1>3, <1>4 DEF DateStays

(* One card leaves those that wait and those approved. *)
LEMMA StatusTouch ==
  ASSUME Inv, NEW o \in Row, NEW s \in {"queued", "skipped"},
         row' = [row EXCEPT ![o].status = s], inTime' = inTime
  PROVE  (\A p \in Row : Touch(p)) /\ DateStays
<1>1. row[o] \in Occasion
  BY DEF Inv, TypeOK
<1>2. /\ row'[o].status = s /\ row'[o].auto = row[o].auto
      /\ row'[o].dispatch = row[o].dispatch /\ row'[o].date = row[o].date
      /\ \A p \in Row \ {o} : row'[p] = row[p]
  BY <1>1 DEF Inv, TypeOK, Occasion
<1>3. Touch(o)
  BY <1>2 DEF Touch, Waiting
<1>4. \A p \in Row \ {o} : Touch(p)
  BY <1>2 DEF Touch
<1> QED BY <1>2, <1>3, <1>4 DEF DateStays

LEMMA PromoteTouch ==
  ASSUME Inv, Promote, inTime' = inTime
  PROVE  (\A o \in Row : Touch(o)) /\ DateStays
<1>1. ASSUME NEW o \in Row
      PROVE  Touch(o) /\ (row[o].status # "none" =>
                            row'[o].status # "none" /\ row'[o].date = row[o].date)
  <2>1. row[o] \in Occasion
    BY DEF Inv, TypeOK
  <2>2. CASE row'[o] = row[o]
    BY <2>2 DEF Touch
  <2>3. CASE /\ row[o].status = "scheduled"
             /\ row'[o] = [row[o] EXCEPT !.status = "pending_approval"]
    <3>1. /\ row'[o].status = "pending_approval" /\ row'[o].auto = row[o].auto
          /\ row'[o].dispatch = row[o].dispatch /\ row'[o].date = row[o].date
      BY <2>1, <2>3 DEF Occasion
    <3> QED BY <2>3, <3>1 DEF Touch, Waiting
  <2> QED BY <2>2, <2>3 DEF Promote
<1> QED BY <1>1 DEF DateStays

LEMMA RetiresTouch ==
  ASSUME Inv, Told, SchedulerRetires
  PROVE  (\A o \in Row : Touch(o)) /\ DateStays
<1>1. ASSUME NEW o \in Row
      PROVE  Touch(o) /\ (row[o].status # "none" =>
                            row'[o].status # "none" /\ row'[o].date = row[o].date)
  <2>1. row[o] \in Occasion
    BY DEF Inv, TypeOK
  <2>2. CASE row'[o] = row[o]
    BY <2>2 DEF Touch, SchedulerRetires
  <2>3. CASE /\ row[o].status \in {"pending_approval", "approved"} /\ row[o].date < day
             /\ row'[o] = [row[o] EXCEPT !.status = "missed"]
    <3>1. /\ row'[o].status = "missed" /\ row'[o].auto = row[o].auto
          /\ row'[o].dispatch = row[o].dispatch /\ row'[o].date = row[o].date
      BY <2>1, <2>3 DEF Occasion
    <3>2. Entitled(o) /\ ~disturbed => o \in told
      BY <2>3 DEF Told, ServedOnItsDay, WaitingIsNotGiven, Waiting, Entitled
    <3> QED BY <3>1, <3>2 DEF Touch, Waiting, SchedulerRetires
  <2> QED BY <2>2, <2>3 DEF SchedulerRetires
<1> QED BY <1>1 DEF DateStays

LEMMA CreatesTouch ==
  ASSUME Inv, SchedulerCreates
  PROVE  (\A o \in Row : Touch(o)) /\ DateStays
<1> DEFINE date == NextBirthday(scheduler.born, day)
<1>1. CASE row' = row
  BY <1>1, NoTouch DEF SchedulerCreates
<1>2. CASE scheduler.born # 0 /\ \E o \in Row : row[o].status = "none"
                   /\ row' = [row EXCEPT ![o] = Scheduled(date)]
  <2>1. PICK o \in Row : row[o].status = "none"
                   /\ row' = [row EXCEPT ![o] = Scheduled(date)]
    BY <1>2
  <2>2. scheduler.born \in Birthday /\ day \in 1 .. LastDay
    BY <1>2 DEF Inv, TypeOK
  <2>3. Scheduled(date).status = "scheduled"
    BY <2>2, NextIsDate, ScheduledType
  <2> HIDE DEF date
  <2>4. row'[o].status = "scheduled" /\ \A p \in Row \ {o} : row'[p] = row[p]
    BY <2>1, <2>3 DEF Inv, TypeOK
  <2>5. inTime' = inTime
    BY DEF SchedulerCreates
  <2>6. \A p \in Row : Touch(p)
    BY <2>1, <2>4, <2>5 DEF Touch
  <2> QED BY <2>1, <2>4, <2>6 DEF DateStays
<1> QED BY <1>1, <1>2 DEF SchedulerCreates

LEMMA StandingTouch ==
  ASSUME Inv, NEW c \in standing.todo, StandingApproves(c)
  PROVE  (\A o \in Row : Touch(o)) /\ DateStays
<1> DEFINE r == [ForAutoSend(row[c.row], c) EXCEPT !.message = TRUE]
<1>1. c \in Dated /\ c.row \in Row
  BY DEF Inv, TypeOK, Dated
<1>2. row[c.row] \in Occasion
  BY <1>1 DEF Inv, TypeOK
<1>3. r.status = "approved" /\ r.date = row[c.row].date
  BY <1>2 DEF ForAutoSend, Occasion
<1>4. CASE StandingMayApprove(c)
  <2>1. row' = [row EXCEPT ![c.row] = r] /\ Given(c.row) /\ row[c.row].status # "none"
    BY <1>4 DEF StandingApproves, StandingMayApprove
  <2> HIDE DEF r
  <2> QED BY <1>1, <1>3, <2>1, GivenTouch
<1>5. CASE ~StandingMayApprove(c)
  BY <1>5, NoTouch DEF StandingApproves
<1> QED BY <1>4, <1>5

LEMMA DecideTouch ==
  ASSUME Inv, NEW o \in Row, NEW r, NEW said, Decide(o, r, said),
         row[o].status # "none", r.status # "none", r.date = row[o].date
  PROVE  (\A p \in Row : Touch(p)) /\ DateStays
BY GivenTouch DEF Decide

LEMMA CustomerTouch ==
  ASSUME Inv, NEW o \in Row, Customer(o)
  PROVE  (\A p \in Row : Touch(p)) /\ DateStays
<1>1. row[o] \in Occasion
  BY DEF Inv, TypeOK
<1>2. CASE Approve(o) \/ Reconcile(o) \/ Unapprove(o) \/ Skip(o) \/ Unskip(o)
           \/ Prepare(o) \/ DeleteEvent(o)
  <2>1. \A s \in {"approved", "pending_approval", "skipped", "deleted"} : \A d :
          /\ [row[o] EXCEPT !.status = s, !.auto = FALSE, !.dispatch = d].status = s
          /\ [row[o] EXCEPT !.status = s, !.auto = FALSE, !.dispatch = d].date = row[o].date
          /\ [row[o] EXCEPT !.status = s, !.auto = FALSE].status = s
          /\ [row[o] EXCEPT !.status = s, !.auto = FALSE].date = row[o].date
          /\ [row[o] EXCEPT !.status = s].status = s
          /\ [row[o] EXCEPT !.status = s].date = row[o].date
    BY <1>1 DEF Occasion
  <2>2. CASE Approve(o)
    BY <2>1, <2>2, DecideTouch DEF Approve, Is, Live
  <2>3. CASE Reconcile(o)
    <3>1. row[o].status # "none"
          /\ \E d : Decide(o, [row[o] EXCEPT !.status = "approved", !.auto = FALSE,
                                             !.dispatch = d], "approved")
      BY <2>3 DEF Reconcile, Is, Live
    <3>2. PICK d : Decide(o, [row[o] EXCEPT !.status = "approved", !.auto = FALSE,
                                            !.dispatch = d], "approved")
      BY <3>1
    <3> DEFINE r == [row[o] EXCEPT !.status = "approved", !.auto = FALSE, !.dispatch = d]
    <3>3. Decide(o, r, "approved") /\ r.status = "approved" /\ r.date = row[o].date
      BY <2>1, <3>2
    <3> HIDE DEF r
    <3> QED BY <3>1, <3>3, DecideTouch
  <2>4. CASE Unapprove(o)
    BY <2>1, <2>4, DecideTouch DEF Unapprove, Is, Live
  <2>5. CASE Skip(o)
    BY <2>1, <2>5, DecideTouch DEF Skip, Is, Live
  <2>6. CASE Unskip(o)
    BY <2>1, <2>6, DecideTouch DEF Unskip, Is, Live
  <2>7. CASE Prepare(o)
    BY <2>1, <2>7, DecideTouch DEF Prepare, Is, Live
  <2>8. CASE DeleteEvent(o)
    BY <2>1, <2>8, DecideTouch DEF DeleteEvent, Is, Live
  <2> QED BY <1>2, <2>2, <2>3, <2>4, <2>5, <2>6, <2>7, <2>8
<1>3. CASE Checkout(o)
  BY <1>3, StatusTouch DEF Checkout, Consumed
<1>4. CASE Pay(o)
  BY <1>4, NoTouch DEF Pay
<1>5. CASE Cancel(o)
  <2>1. CASE Is(o, {"queued"})
    <3> DEFINE r == [row[o] EXCEPT !.status = "approved"]
    <3>1. r.status = "approved" /\ r.date = row[o].date
      BY <1>1 DEF Occasion
    <3>2. row' = [row EXCEPT ![o] = r] /\ Given(o) /\ row[o].status # "none"
      BY <1>5, <2>1 DEF Cancel, Is
    <3> HIDE DEF r
    <3> QED BY <3>1, <3>2, GivenTouch
  <2>2. CASE ~Is(o, {"queued"})
    BY <1>5, <2>2, NoTouch DEF Cancel
  <2> QED BY <2>1, <2>2
<1>6. CASE Refund(o)
  <2>1. CASE row' = row
    BY <1>6, <2>1, NoTouch DEF Refund
  <2>2. CASE row' = [row EXCEPT ![o].status = "skipped"]
    BY <1>6, <2>2, StatusTouch DEF Refund
  <2> QED BY <1>6, <2>1, <2>2 DEF Refund
<1> QED BY <1>2, <1>3, <1>4, <1>5, <1>6 DEF Customer

(* A run: what it reads on the day it holds, and what it drops it has      *)
(* taken, has told the customer of, or found in other hands.               *)
LEMMA RunSendsServes ==
  ASSUME Inv, Told, NEW r \in Run, NEW c \in run[r].todo, RunSends(r, c)
  PROVE  (\A o \in Row : Touch(o)) /\ DateStays /\ RunServes
<1>1. run[r] \in [at : Turns, todo : SUBSET Picked]
  BY DEF Inv, TypeOK
<1>2. c.row \in Row
  BY <1>1 DEF Picked
<1>3. (\A o \in Row : Touch(o)) /\ DateStays
  <2>1. CASE row' = row
    BY <2>1, NoTouch DEF RunSends
  <2>2. CASE Consumed(c.row)
    BY <1>2, <2>2, StatusTouch DEF RunSends, Consumed
  <2> QED BY <2>1, <2>2 DEF RunSends
<1>4. /\ run'[r].at = run[r].at /\ run'[r].todo = run[r].todo \ {c}
      /\ \A s \in Run \ {r} : run'[s] = run[s]
  BY <1>1 DEF RunSends, Inv, TypeOK
<1>5. ASSUME NEW o \in Row, row[o].status = "approved", Entitled(o), row[o].date = day,
             row'[o].status = "approved", run'[Cron].at = "begun", ~disturbed'
      PROVE  Served(o)'
  <2>1. ~disturbed /\ told \subseteq told'
    <3>1. told \subseteq told'
      BY DEF RunSends
    <3>2. PICK b \in BOOLEAN : b = disturbed
      BY DEF Inv, TypeOK
    <3>3. disturbed' = b \/ \E w \in BOOLEAN : disturbed' = (b \/ ~w)
      BY <3>2 DEF RunSends
    <3> QED BY <1>5, <3>1, <3>2, <3>3
  <2>2. Served(o)
    BY <1>4, <1>5, <2>1 DEF Told, ServedOnItsDay
  <2>3. CASE o \in told \/ r # Cron \/ \E d \in run[Cron].todo \ {c} : d.row = o
    BY <1>4, <2>1, <2>2, <2>3 DEF Served
  <2>4. CASE c.row = o
    <3>1. MayConsume(o)
      BY <1>5 DEF MayConsume, Entitled
    <3>2. ~Consumed(o)
      <4>1. row[o] \in Occasion
        BY DEF Inv, TypeOK
      <4>2. Consumed(o) => row'[o].status = "queued"
        BY <4>1 DEF Consumed, Inv, TypeOK, Occasion
      <4> QED BY <1>5, <4>2
    <3>3. o \in told'
      BY <1>5, <2>4, <3>1, <3>2 DEF RunSends
    <3> QED BY <3>3 DEF Served
  <2> QED BY <2>2, <2>3, <2>4 DEF Served
<1> QED BY <1>3, <1>5 DEF RunServes

LEMMA RunReadsServes ==
  ASSUME Inv, Told, NEW r \in Run, RunReads(r)
  PROVE  (\A o \in Row : Touch(o)) /\ DateStays /\ RunServes
<1>1. (\A o \in Row : Touch(o)) /\ DateStays
  BY NoTouch DEF RunReads
<1>2. CASE r # Cron
  <2>1. run'[Cron] = run[Cron]
    BY <1>2 DEF RunReads, Inv, TypeOK
  <2> QED BY <1>1, <2>1, SameRunServes DEF RunReads
<1>3. CASE r = Cron
  <2>1. run'[Cron].todo = {PickedOf(o) : o \in {q \in Row : Due(q)}}
    BY <1>3 DEF RunReads, Inv, TypeOK
  <2>2. ASSUME NEW o \in Row, row[o].status = "approved", Entitled(o), row[o].date = day
        PROVE  Served(o)'
    <3>1. Due(o)
      BY <2>2 DEF Due, Entitled
    <3>2. PickedOf(o) \in run'[Cron].todo /\ PickedOf(o).row = o
      BY <2>1, <3>1 DEF PickedOf
    <3> QED BY <3>2 DEF Served
  <2> QED BY <1>1, <2>2 DEF RunServes
<1> QED BY <1>2, <1>3

LEMMA StopsServes ==
  ASSUME Inv, Told, JobStops
  PROVE  (\A o \in Row : Touch(o)) /\ DateStays /\ RunServes
<1>1. (\A o \in Row : Touch(o)) /\ DateStays
  BY NoTouch DEF JobStops
<1>2. CASE run' = run
  <2>1. disturbed' = disturbed
    BY <1>2 DEF JobStops, SchedulerStops, StandingStops, RunStops, Inv, TypeOK, Over
  <2> QED BY <1>1, <1>2, <2>1, SameRunServes DEF JobStops
<1>3. ASSUME NEW r \in Run, RunStops(r) PROVE RunServes
  <2>1. CASE r = Cron
    BY <1>3, <2>1 DEF RunStops, RunServes
  <2>2. CASE r # Cron
    <3>1. run'[Cron] = run[Cron] /\ (disturbed => disturbed')
      BY <1>3, <2>2 DEF RunStops, Inv, TypeOK
    <3> QED BY <3>1, SameRunServes DEF JobStops
  <2> QED BY <2>1, <2>2
<1>4. CASE SchedulerStops \/ StandingStops
  BY <1>2, <1>4 DEF SchedulerStops, StandingStops
<1> QED BY <1>1, <1>3, <1>4 DEF JobStops, RunServes

(* Midnight: what was due today has been served, and nothing is read yet.  *)
LEMMA NextDayTold ==
  ASSUME Inv, Told, NextDay
  PROVE  Told'
<1>1. /\ UNCHANGED <<row, inTime, told, disturbed, request>>
      /\ day' = day + 1 /\ run[Cron] = Over /\ run'[Cron].at = "due"
      /\ \A q \in Request : request[q] = Idle
  <2>1. run'[Cron].at = "due"
    <3>1. run'[Cron] = [run[Cron] EXCEPT !.at = "due"] /\ run[Cron] \in [at : Turns, todo : SUBSET Picked]
      BY DEF NextDay, Inv, TypeOK
    <3> QED BY <3>1
  <2> QED BY <2>1 DEF NextDay
<1>2. \A o \in Row : row[o].date \in Nat /\ day \in Nat
  BY DEF Inv, TypeOK, Occasion, Dates
<1>3. ASSUME NEW o \in Row, row[o].status = "approved", Entitled(o), ~disturbed, row[o].date < day + 1
      PROVE  o \in told
  <2>1. CASE row[o].date < day
    BY <1>3, <2>1 DEF Told, ServedOnItsDay
  <2>2. CASE row[o].date = day
    BY <1>1, <1>3, <2>2 DEF Told, ServedOnItsDay, Served, Over
  <2> QED BY <1>2, <1>3, <2>1, <2>2
<1>4. ServedOnItsDay'
  BY <1>1, <1>3 DEF ServedOnItsDay, Entitled
<1>5. ReadStands'
  BY <1>1 DEF ReadStands, Idle
<1> QED BY <1>1, <1>4, <1>5 DEF Told, WaitingIsNotGiven, MissedIsTold, Entitled

LEMMA JobsTold ==
  ASSUME Inv, Inv', Told,
         \/ SchedulerReads \/ SchedulerCreates \/ SchedulerPromotes \/ SchedulerRetires
         \/ StandingReads \/ (\E c \in standing.todo : StandingApproves(c))
         \/ \E r \in Run : RunReads(r) \/ \E c \in run[r].todo : RunSends(r, c)
         \/ JobStops
  PROVE  Told'
<1>1. /\ day' = day /\ request' = request /\ told \subseteq told'
  BY DEF SchedulerReads, SchedulerCreates, SchedulerPromotes, SchedulerRetires, StandingReads,
         StandingApproves, RunReads, RunSends, JobStops
<1>2. disturbed => disturbed'
  <2>1. CASE UNCHANGED disturbed
    BY <2>1
  <2>2. CASE JobStops \/ \E r \in Run : \E c \in run[r].todo : RunSends(r, c)
    <3>1. PICK b \in BOOLEAN : b = disturbed
      BY DEF Inv, TypeOK
    <3> QED BY <2>2, <3>1 DEF JobStops, SchedulerStops, StandingStops, RunStops, RunSends
  <2> QED BY <2>1, <2>2 DEF SchedulerReads, SchedulerCreates, SchedulerPromotes, SchedulerRetires,
             StandingReads, StandingApproves, RunReads
<1>3. (\A o \in Row : Touch(o)) /\ DateStays
  <2>1. CASE SchedulerReads \/ StandingReads
    BY <2>1, NoTouch DEF SchedulerReads, StandingReads
  <2>2. CASE SchedulerPromotes
    BY <2>2, PromoteTouch DEF SchedulerPromotes
  <2> QED BY <2>1, <2>2, CreatesTouch, RetiresTouch, StandingTouch, RunReadsServes, RunSendsServes,
             StopsServes
<1>4. RunServes
  <2>1. CASE run' = run
    BY <1>1, <1>2, <2>1, SameRunServes
  <2> QED BY <2>1, RunReadsServes, RunSendsServes, StopsServes
          DEF SchedulerReads, SchedulerCreates, SchedulerPromotes, SchedulerRetires, StandingReads,
              StandingApproves
<1>5. ReadsStay
  BY <1>1 DEF ReadsStay
<1> QED BY <1>1, <1>2, <1>3, <1>4, <1>5, TouchTold, TouchReads DEF Told

(* The customer's steps leave the jobs, the inbox and the day alone.       *)
LEMMA TouchKeepsTold ==
  ASSUME Inv, Inv', Told, \A o \in Row : Touch(o), UNCHANGED <<day, run, told, disturbed>>
  PROVE  /\ ServedOnItsDay' /\ WaitingIsNotGiven' /\ MissedIsTold'
         /\ DateStays /\ ReadsStay => Told'
<1>1. RunServes
  BY SameRunServes
<1>2. ServedOnItsDay' /\ WaitingIsNotGiven' /\ MissedIsTold'
  BY <1>1, TouchTold
<1> QED BY <1>2, TouchReads DEF Told

(* A correction reads: of what was given in time and is past, all that is  *)
(* still approved has been told of, and the rest was not given.            *)
LEMMA CorrectReadsTold ==
  ASSUME Inv, Inv', Told, NEW q \in Request, NEW b \in Birthday \cup {0}, CorrectReads(q, b),
         UNCHANGED <<day, run, told, disturbed>>
  PROVE  Told'
<1>1. UNCHANGED <<row, inTime>>
  BY DEF CorrectReads
<1>2. \A p \in Request \ {q} : request'[p] = request[p]
  BY HeldType DEF Inv, CorrectReads, Answer
<1>3. \A o \in Row : /\ request'[q].seen[o].status = row[o].status
                     /\ request'[q].seen[o].date = row[o].date
  BY HeldType DEF Inv, CorrectReads, Answer
<1>4. ASSUME NEW o \in Row, row[o].status \in Live
      PROVE  /\ row[o].status # "none"
             /\ row[o].date < day /\ Entitled(o) /\ ~disturbed => o \in told
  BY <1>4 DEF Live, Told, ServedOnItsDay, WaitingIsNotGiven, Waiting, Entitled
<1>5. \A o \in Row : Entitled(o)' <=> Entitled(o)
  BY <1>1 DEF Entitled
<1>6. ReadStands'
  <2> SUFFICES ASSUME NEW p \in Request, request'[p].op = "realign",
                      NEW o \in Row, request'[p].seen[o].status \in Live
      PROVE  /\ row[o].status # "none" /\ row[o].date = request'[p].seen[o].date
             /\ row[o].date < day /\ Entitled(o) /\ ~disturbed => o \in told
    BY <1>1, <1>5 DEF ReadStands
  <2>1. CASE p = q
    BY <1>3, <1>4, <2>1
  <2>2. CASE p # q
    BY <1>2, <2>2 DEF Told, ReadStands
  <2> QED BY <2>1, <2>2
<1> QED BY <1>1, <1>6, NoTouch, TouchKeepsTold DEF Told

(* A correction writes: what it retires was past when it was read.         *)
LEMMA DiscardedTouch ==
  ASSUME Inv, Told, NEW q \in Request, request[q].op = "realign", NEW kept, NEW o \in Row,
         row'[o] = Discarded(request[q].seen, kept)[o], inTime'[o] = inTime[o]
  PROVE  Touch(o)
<1> DEFINE seen == request[q].seen
<1>1. row[o] \in Occasion
  BY DEF Inv, TypeOK
<1>2. CASE row'[o] = row[o]
  BY <1>2 DEF Touch
<1>3. ASSUME NEW s \in {"missed", "deleted"}, row'[o] = [row[o] EXCEPT !.status = s],
             seen[o].status \in Live, s = "missed" => seen[o].date < day
      PROVE  Touch(o)
  <2>1. /\ row'[o].status = s /\ row'[o].auto = row[o].auto
        /\ row'[o].dispatch = row[o].dispatch /\ row'[o].date = row[o].date
    BY <1>1, <1>3 DEF Occasion
  <2>2. s = "missed" => (Entitled(o) /\ ~disturbed => o \in told)
    BY <1>3 DEF Told, ReadStands
  <2> QED BY <2>1, <2>2 DEF Touch, Waiting
<1> QED BY <1>2, <1>3 DEF Discarded

LEMMA RealignTold ==
  ASSUME Inv, Inv', Told, OneCorrection, NEW q \in Request, RealignWrites(q),
         UNCHANGED <<day, run, told, disturbed>>
  PROVE  Told'
<1> DEFINE seen == request[q].seen
           target == NextBirthday(request[q].born, day)
<1>1. request[q].op = "realign"
  BY DEF RealignWrites
<1>2. target \in Dates
  BY HeldType, NextIsDate DEF Inv, TypeOK, Held, Reading, Idle, RealignWrites
<1>3. \/ RealignAnew(seen, target)
      \/ \E k \in Keepers(seen, target) : RealignOnto(seen, target, k)
  BY DEF RealignWrites
<1>4. \A kept, o : o \in Row /\ row'[o] = Discarded(seen, kept)[o] /\ inTime'[o] = inTime[o]
        => Touch(o)
  BY <1>1, DiscardedTouch
<1>5. ReadStands'
  <2>1. \A p \in Request : request'[p].op # "realign"
    BY <1>1, HeldType DEF Inv, RealignWrites, Answer, OneCorrection
  <2> QED BY <2>1 DEF ReadStands
<1> HIDE DEF seen, target
<1>6. \A o \in Row : Touch(o)
  <2>1. CASE RealignAnew(seen, target)
    <3> DEFINE left == Discarded(seen, {})
    <3>1. /\ left \in [Row -> Occasion]
          /\ \A o \in Row : row[o].status = "none" => left[o] = row[o]
      BY DiscardedType
    <3>2. inTime' = inTime
      BY <2>1 DEF RealignAnew
    <3>3. CASE row' = left
      BY <1>4, <3>2, <3>3
    <3>4. CASE \E n \in Row : row[n].status = "none" /\ row' = [left EXCEPT ![n] = Scheduled(target)]
      <4>1. PICK n \in Row : row[n].status = "none" /\ row' = [left EXCEPT ![n] = Scheduled(target)]
        BY <3>4
      <4>2. Scheduled(target).status = "scheduled"
        BY <1>2, ScheduledType
      <4>3. row'[n].status = "scheduled" /\ \A o \in Row \ {n} : row'[o] = left[o]
        <5> HIDE DEF left
        <5> QED BY <3>1, <4>1, <4>2
      <4>4. Touch(n)
        BY <3>2, <4>1, <4>3 DEF Touch
      <4> QED BY <1>4, <3>2, <4>3, <4>4
    <3> QED BY <2>1, <3>3, <3>4 DEF RealignAnew
  <2>2. CASE \E k \in Keepers(seen, target) : RealignOnto(seen, target, k)
    <3>1. PICK k \in Keepers(seen, target) : RealignOnto(seen, target, k)
      BY <2>2
    <3>2. k \in Row
      BY DEF Keepers
    <3> DEFINE left == Discarded(seen, {k})
    <3>3. left \in [Row -> Occasion]
      BY DiscardedType
    <3>4. CASE row' = left /\ UNCHANGED inTime
      BY <1>4, <3>4
    <3>5. CASE row' = [left EXCEPT ![k] = Moved(@, target)] /\ Given(k)
      <4>1. \A o \in Row \ {k} : row'[o] = left[o]
        <5> HIDE DEF left
        <5> QED BY <3>3, <3>5
      <4>2. /\ inTime'[k] = (row'[k].status = "approved" /\ day < row'[k].date)
            /\ \A o \in Row \ {k} : inTime'[o] = inTime[o]
        BY <3>2, <3>5 DEF Given, Inv, TypeOK
      <4>3. Touch(k)
        BY <4>2 DEF Touch
      <4> QED BY <1>4, <4>1, <4>2, <4>3
    <3> QED BY <3>1, <3>4, <3>5 DEF RealignOnto
  <2> QED BY <1>3, <2>1, <2>2
<1> QED BY <1>5, <1>6, TouchKeepsTold DEF Told

LEMMA RemovesTold ==
  ASSUME Inv, Inv', Told, OneCorrection, NEW q \in Request, RealignRemoves(q),
         UNCHANGED <<day, run, told, disturbed>>
  PROVE  Told'
<1>1. request[q].op = "realign" /\ row' = Discarded(request[q].seen, {}) /\ inTime' = inTime
  BY DEF RealignRemoves
<1>2. ReadStands'
  <2>1. \A p \in Request : request'[p].op # "realign"
    BY <1>1, HeldType DEF Inv, RealignRemoves, Answer, OneCorrection, Idle
  <2> QED BY <2>1 DEF ReadStands
<1>3. \A o \in Row : Touch(o)
  BY <1>1, DiscardedTouch
<1> QED BY <1>2, <1>3, TouchKeepsTold DEF Told

LEMMA AskedTold ==
  ASSUME Inv, Inv', Told, OneCorrection, NEW q \in Request, Asked(q)
  PROVE  Told'
<1>1. UNCHANGED <<day, run, told, disturbed>>
  BY DEF Asked
<1>2. \A p \in Request \ {q} : request'[p] = request[p]
  BY HeldType DEF Inv, Asked, Asks, Continues, ApproveReads, PinReads, CorrectReads, ApproveWrites,
     PinWrites, RealignWrites, RealignRemoves, RealignFails, PromoteAfter, Answer
<1>3. request'[q].op # "realign" => ReadsStay
  BY <1>2 DEF ReadsStay
<1>4. CASE \E b \in Birthday \cup {0} : CorrectReads(q, b)
  BY <1>1, <1>4, CorrectReadsTold
<1>5. CASE RealignWrites(q) \/ RealignRemoves(q)
  BY <1>1, <1>5, RealignTold, RemovesTold
<1>6. CASE (\E o \in Row : ApproveReads(q, o) \/ PinReads(q, o)) \/ RealignFails(q)
  <2>1. UNCHANGED <<row, inTime>>
    BY <1>6 DEF ApproveReads, PinReads, RealignFails
  <2>2. request'[q].op # "realign"
    <3>1. request \in [Request -> Held]
      BY HeldType DEF Inv
    <3>2. CASE \E o \in Row : ApproveReads(q, o)
      BY <3>1, <3>2 DEF ApproveReads, Answer
    <3>3. CASE \E o \in Row : PinReads(q, o)
      BY <3>1, <3>3 DEF PinReads, Answer
    <3>4. CASE RealignFails(q)
      <4>1. Answer(q, Idle) \/ Answer(q, [op |-> "again", born |-> request[q].born])
        BY <3>4 DEF RealignFails
      <4> QED BY <3>1, <4>1 DEF Answer, Idle
    <3> QED BY <1>6, <3>2, <3>3, <3>4
  <2> QED BY <1>1, <1>3, <2>1, <2>2, NoTouch, TouchKeepsTold
<1>7. CASE PromoteAfter(q)
  <2>1. request'[q].op # "realign"
    BY <1>7, HeldType DEF Inv, PromoteAfter, Answer, Idle
  <2> QED BY <1>1, <1>3, <1>7, <2>1, PromoteTouch, TouchKeepsTold DEF PromoteAfter
<1>8. CASE ApproveWrites(q)
  <2> DEFINE c == request[q].card
             r == ForAutoSend(row[c.row], c)
  <2>1. c.row \in Row
    BY <1>8, HeldType DEF Inv, Held, Reading, Idle, ApproveWrites, Dated
  <2>2. request'[q].op # "realign"
    BY <1>8, HeldType DEF Inv, ApproveWrites, Answer, Idle
  <2>3. row[c.row] \in Occasion
    BY <2>1 DEF Inv, TypeOK
  <2>4. r.status = "approved" /\ r.date = row[c.row].date
    BY <2>3 DEF ForAutoSend, Occasion
  <2>5. \/ row' = [row EXCEPT ![c.row] = r] /\ Given(c.row) /\ row[c.row].status # "none"
        \/ UNCHANGED <<row, inTime>>
    BY <1>8 DEF ApproveWrites, Is
  <2> HIDE DEF c, r
  <2> QED BY <1>1, <1>3, <2>1, <2>2, <2>4, <2>5, NoTouch, GivenTouch, TouchKeepsTold
<1>9. CASE PinWrites(q)
  <2> DEFINE o == request[q].row
             r == [row[o] EXCEPT !.dispatch = request[q].to, !.pinned = request[q].pinned]
  <2>1. o \in Row
    BY <1>9, HeldType DEF Inv, Held, Reading, Idle, PinWrites
  <2>2. request'[q].op # "realign"
    BY <1>9, HeldType DEF Inv, PinWrites, Answer, Idle
  <2>3. row[o] \in Occasion
    BY <2>1 DEF Inv, TypeOK
  <2>4. \/ row' = [row EXCEPT ![o] = r] /\ Given(o) /\ row[o].status # "none"
        \/ UNCHANGED <<row, inTime>>
    BY <1>9 DEF PinWrites, Exists
  <2>5. r.status = row[o].status /\ r.date = row[o].date
    <3> HIDE DEF o
    <3> QED BY <2>3 DEF Occasion
  <2> HIDE DEF o, r
  <2> QED BY <1>1, <1>3, <2>1, <2>2, <2>4, <2>5, NoTouch, GivenTouch, TouchKeepsTold
<1> QED BY <1>4, <1>5, <1>6, <1>7, <1>8, <1>9 DEF Asked, Asks, Continues

LEMMA InitTold == ASSUME Init PROVE Told
BY NoRowType DEF Init, Told, ServedOnItsDay, WaitingIsNotGiven, ReadStands, MissedIsTold, Entitled, Idle

LEMMA ToldStep ==
  ASSUME Inv, Inv', Told, OneCorrection, [Next]_vars
  PROVE  Told'
<1>1. ASSUME NEW o \in Row, Customer(o) PROVE Told'
  <2>1. UNCHANGED <<day, run, told, disturbed>> /\ ReadsStay
    BY <1>1 DEF Customer, ReadsStay
  <2> QED BY <1>1, <2>1, CustomerTouch, TouchKeepsTold
<1>2. CASE Archive \/ UNCHANGED vars
  <2>1. UNCHANGED <<row, inTime, day, run, told, disturbed>> /\ ReadsStay
    BY <1>2 DEF Archive, vars, ReadsStay
  <2> QED BY <2>1, NoTouch, TouchKeepsTold
<1> QED BY <1>1, <1>2, JobsTold, NextDayTold, AskedTold DEF Next

(* A card given to auto-send before its day, to be posted by its day, is   *)
(* missed only when the customer has been told, for any number of rows,    *)
(* runs, requests and days, as long as the mornings' runs end, the notices *)
(* are written, and no two corrections of the date of birth overlap.       *)
THEOREM NeverMissedSilently == Spec /\ []OneCorrection => []MissedOnlyIfTold
<1>1. Inv /\ Inv' /\ Told /\ OneCorrection /\ [Next]_vars => Told'
  BY ToldStep
<1>2. Told => MissedOnlyIfTold
  BY DEF Told, MissedIsTold, Entitled, MissedOnlyIfTold
<1>3. Init => Told
  BY InitTold
<1> QED BY <1>1, <1>2, <1>3, InvHolds, PTL DEF Spec
=============================================================================
