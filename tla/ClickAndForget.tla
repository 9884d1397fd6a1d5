--------------------------- MODULE ClickAndForget ---------------------------
(***************************************************************************)
(* One contact's birthday, from the calendar to the wallet: the three jobs *)
(* of every morning (the occasion scheduler at 06:00, the standing order   *)
(* at 06:30, auto-send at 07:00, with a run of auto-send by hand beside    *)
(* it), and what the customer does meanwhile: approve, cancel, skip, pin a *)
(* dispatch date, check out by hand, correct the date of birth, archive.   *)
(*                                                                         *)
(* Each job reads first and writes later, row by row, while everything     *)
(* else goes on.  Cards of other contacts, prices, addresses and designs   *)
(* are left out; what they can do to a card is refuse it (RunSends).       *)
(***************************************************************************)
EXTENDS Naturals, FiniteSets

CONSTANTS
  Row,          \* occasion rows this contact can ever have (a bound)
  Run,          \* runs of auto-send that may be under way together
  Cron,         \* the one the timer starts every morning
  Request,      \* requests of the customer that read before they write
  Birthday,     \* days of the year a date of birth can be corrected to
  Year,         \* days in a year
  LastDay,      \* the last day observed (a bound)
  Lookahead,    \* BIRTHDAY_LOOKAHEAD_DAYS
  Lead,         \* days of postage lead
  MaxActs       \* how much of that there is in all (a bound)

ASSUME CalendarAssumption ==
  /\ Year \in Nat /\ LastDay \in Nat /\ Lookahead \in Nat /\ Lead \in Nat \ {0}
  /\ MaxActs \in Nat
  /\ 1 <= LastDay /\ LastDay <= Year
  /\ Birthday \subseteq Lead .. Year
  /\ Birthday # {}
ASSUME CronAssumption == Cron \in Run

VARIABLES
  day,          \* today
  contact,      \* date of birth (a day of the year, 0 for none) and whether archived
  row,          \* the occasion rows
  drafts,       \* per row: unpaid orders that hold a line for it
  paid,         \* per row: paid orders, not refunded, that hold a line for it
  scheduler,    \* the 06:00 job
  standing,     \* the 06:30 job
  run,          \* the runs of auto-send
  request,      \* the customer's requests under way
  told,         \* rows whose refusal is in the customer's inbox
  word,         \* per row: the last thing a person decided about it
  inTime,       \* per row: auto-send was last given it, as it is, before its day
  disturbed,    \* a morning's run did not finish, or a notice was not written
  acts          \* what the customer has done, and the jobs that stopped

vars   == <<day, contact, row, drafts, paid, scheduler, standing, run, request,
            told, word, inTime, disturbed, acts>>

Days     == 0 .. 2 * Year
Dates    == Lead .. 2 * Year
Live     == {"scheduled", "pending_approval", "approved"}
Statuses == Live \cup {"none", "queued", "skipped", "missed", "deleted"}
Exists(o) == row[o].status \notin {"none", "deleted"}

Occasion == [status : Statuses, date : Dates, dispatch : Days,
             pinned : BOOLEAN, auto : BOOLEAN, message : BOOLEAN]

(* A row still to come; its other fields mean nothing. *)
NoRow == [status |-> "none", date |-> Lead, dispatch |-> 0,
          pinned |-> FALSE, auto |-> FALSE, message |-> FALSE]

(* The next birthday, today included; a year has Year days. *)
NextBirthday(born, today) == IF born >= today THEN born ELSE born + Year

Dispatch(date) == date - Lead

(* History: the card, if it is approved, is as of today due as it now is. *)
Given(o) == inTime' = [inTime EXCEPT
  ![o] = row'[o].status = "approved" /\ day < row'[o].date]

Scheduled(date) == [NoRow EXCEPT !.status = "scheduled", !.date = date,
                                 !.dispatch = Dispatch(date)]

(* What an approval, and a run, hold between their reads and their writes. *)
Dated == [row : Row, date : Dates, pinned : BOOLEAN]
DatedOf(o) == [row |-> o, date |-> row[o].date, pinned |-> row[o].pinned]

(* Approved for auto-send, and re-timed unless the date is pinned. *)
ForAutoSend(o, d) ==
  [o EXCEPT !.status = "approved", !.auto = TRUE,
            !.dispatch = IF d.pinned THEN @ ELSE Dispatch(d.date)]

Picked == [row : Row, archived : BOOLEAN]
PickedOf(o) == [row |-> o, archived |-> contact.archived]

Idle == [op |-> "idle"]

Turns == {"due", "begun"}

TypeOK ==
  /\ day \in 1 .. LastDay
  /\ contact \in [born : Birthday \cup {0}, archived : BOOLEAN]
  /\ row \in [Row -> Occasion]
  /\ drafts \in [Row -> Nat] /\ paid \in [Row -> Nat]
  /\ scheduler \in [at : {"due", "create", "promote", "retire", "done"},
                    born : Birthday \cup {0}]
  /\ standing \in [at : Turns, todo : SUBSET Dated]
  /\ run \in [Run -> [at : Turns, todo : SUBSET Picked]]
  /\ request \in [Request -> {Idle}
       \cup [op : {"approve"}, card : Dated]
       \cup [op : {"pin"}, row : Row, to : Days, pinned : BOOLEAN]
       \cup [op : {"again"}, born : Birthday]
       \cup [op : {"realign"}, born : Birthday \cup {0}, first : BOOLEAN,
             seen : [Row -> [status : Statuses, date : Dates]]]
       \cup [op : {"promote"}]]
  /\ told \in SUBSET Row
  /\ word \in [Row -> {"none", "approved", "skipped", "cancelled"}]
  /\ inTime \in [Row -> BOOLEAN]
  /\ disturbed \in BOOLEAN
  /\ acts \in 0 .. MaxActs

(* A contact just added: its birthday is already on the calendar. *)
Init ==
  /\ day = 1
  /\ contact \in [born : Birthday, archived : {FALSE}]
  /\ \E o \in Row : row = [q \in Row |->
       IF q = o THEN Scheduled(NextBirthday(contact.born, 1)) ELSE NoRow]
  /\ drafts = [o \in Row |-> 0] /\ paid = [o \in Row |-> 0]
  /\ scheduler = [at |-> "due", born |-> 0]
  /\ standing = [at |-> "due", todo |-> {}]
  /\ run = [r \in Run |-> [at |-> "due", todo |-> {}]]
  /\ request = [q \in Request |-> Idle]
  /\ told = {}
  /\ word = [o \in Row |-> "none"]
  /\ inTime = [o \in Row |-> FALSE]
  /\ disturbed = FALSE
  /\ acts = 0

-----------------------------------------------------------------------------
(* 06:00.  The page of contacts is read, then written; then every row due  *)
(* is promoted, then every row past is retired.                            *)

SchedulerReads ==
  /\ scheduler.at = "due"
  /\ scheduler' = [at |-> "create",
                   born |-> IF contact.archived THEN 0 ELSE contact.born]
  /\ UNCHANGED <<day, contact, row, drafts, paid, standing, run, request,
                 told, word, inTime, disturbed, acts>>

(* The unique key: one row for a contact, type and date. *)
Taken(table, others, date) ==
  \E o \in others : table[o].status \notin {"none", "deleted"} /\ table[o].date = date

SchedulerCreates ==
  /\ scheduler.at = "create"
  /\ LET date == NextBirthday(scheduler.born, day) IN
       IF scheduler.born # 0 /\ ~Taken(row, Row, date)
       THEN \E o \in Row : /\ row[o].status = "none"
                         /\ row' = [row EXCEPT ![o] = Scheduled(date)]
       ELSE row' = row
  /\ scheduler' = [at |-> "promote", born |-> 0]
  /\ UNCHANGED <<day, contact, drafts, paid, standing, run, request, told,
                 word, inTime, disturbed, acts>>

Promote ==
  row' = [o \in Row |->
    IF /\ row[o].status = "scheduled"
       /\ row[o].date \in day .. day + Lookahead
       /\ ~contact.archived
    THEN [row[o] EXCEPT !.status = "pending_approval"] ELSE row[o]]

SchedulerPromotes ==
  /\ scheduler.at = "promote"
  /\ Promote
  /\ scheduler' = [scheduler EXCEPT !.at = "retire"]
  /\ UNCHANGED <<day, contact, drafts, paid, standing, run, request, told,
                 word, inTime, disturbed, acts>>

SchedulerRetires ==
  /\ scheduler.at = "retire"
  /\ row' = [o \in Row |->
       IF row[o].status \in {"pending_approval", "approved"} /\ row[o].date < day
       THEN [row[o] EXCEPT !.status = "missed"] ELSE row[o]]
  /\ scheduler' = [scheduler EXCEPT !.at = "done"]
  /\ UNCHANGED <<day, contact, drafts, paid, standing, run, request, told,
                 word, inTime, disturbed, acts>>

-----------------------------------------------------------------------------
(* 06:30.  If the customer has an instruction and nothing blocks it, every *)
(* card that waits for a person is read, then approved one by one, with a  *)
(* message of the instruction's, where it still waits.                     *)

StandingReads ==
  /\ standing.at = "due" /\ scheduler.at # "due"
  /\ \E enabled \in BOOLEAN : standing' = [at |-> "begun",
       todo |-> {DatedOf(o) : o \in {q \in Row :
         enabled /\ row[q].status = "pending_approval" /\ ~contact.archived}}]
  /\ UNCHANGED <<day, contact, row, drafts, paid, scheduler, run, request,
                 told, word, inTime, disturbed, acts>>

(* On the strength of the read. *)
StandingMayApproveAsRead(c) == Exists(c.row)

StandingMayApprove(c) == row[c.row].status = "pending_approval"

StandingApproves(c) ==
  /\ c \in standing.todo
  /\ standing' = [standing EXCEPT !.todo = @ \ {c}]
  /\ IF StandingMayApprove(c)
     THEN /\ row' = [row EXCEPT ![c.row] = [ForAutoSend(@, c) EXCEPT !.message = TRUE]]
          /\ Given(c.row)
     ELSE UNCHANGED <<row, inTime>>
  /\ UNCHANGED <<day, contact, drafts, paid, scheduler, run, request, told,
                 word, disturbed, acts>>

-----------------------------------------------------------------------------
(* 07:00, and whenever an operator asks.                                   *)

(* Only the very day. *)
DueToday(o) == row[o].status = "approved" /\ row[o].auto /\ row[o].dispatch = day

Due(o) == /\ row[o].status = "approved" /\ row[o].auto
          /\ row[o].dispatch <= day

RunReads(r) ==
  /\ run[r].at = "due"
  /\ r = Cron => standing.at # "due"
  /\ run' = [run EXCEPT ![r] = [at |-> "begun",
                                todo |-> {PickedOf(o) : o \in {q \in Row : Due(q)}}]]
  /\ UNCHANGED <<day, contact, row, drafts, paid, scheduler, standing, request,
                 told, word, inTime, disturbed, acts>>

(* On the strength of the read. *)
MayConsumeAsRead(o) == Exists(o)

MayConsume(o) == row[o].status = "approved" /\ row[o].auto

Consumed(o) == row' = [row EXCEPT ![o].status = "queued"]

(* One card of the run: refused for a contact archived when the run read   *)
(* it or for any other reason (address, plan, design, funds), and the      *)
(* customer told unless the inbox fails; or, in one transaction, taken,    *)
(* ordered and paid; or left alone because somebody else took it.          *)
RunSends(r, c) ==
  /\ c \in run[r].todo
  /\ run' = [run EXCEPT ![r].todo = @ \ {c}]
  /\ \/ \E written \in BOOLEAN :
          /\ told' = IF written THEN told \cup {c.row} ELSE told
          /\ disturbed' = (disturbed \/ ~written)
          /\ UNCHANGED <<row, paid>>
     \/ /\ ~c.archived /\ MayConsume(c.row)
        /\ Consumed(c.row)
        /\ paid' = [paid EXCEPT ![c.row] = @ + 1]
        /\ UNCHANGED <<told, disturbed>>
     \/ /\ ~c.archived /\ ~MayConsume(c.row)
        /\ UNCHANGED <<row, paid, told, disturbed>>
  /\ UNCHANGED <<day, contact, drafts, scheduler, standing, request, word, inTime, acts>>

-----------------------------------------------------------------------------
(* The process may be down when a job is due, or stop in the middle of it. *)

Counted == acts < MaxActs /\ acts' = acts + 1

Over == [at |-> "begun", todo |-> {}]

SchedulerStops ==
  /\ scheduler.at # "done"
  /\ scheduler' = [at |-> "done", born |-> 0]
  /\ UNCHANGED <<standing, run, disturbed>>

StandingStops ==
  /\ standing # Over /\ scheduler.at # "due"
  /\ standing' = Over
  /\ UNCHANGED <<scheduler, run, disturbed>>

RunStops(r) ==
  /\ run[r] # Over
  /\ r = Cron => standing.at # "due"
  /\ run' = [run EXCEPT ![r] = Over]
  /\ disturbed' = (disturbed \/ r = Cron)
  /\ UNCHANGED <<scheduler, standing>>

JobStops ==
  /\ Counted
  /\ SchedulerStops \/ StandingStops \/ \E r \in Run : RunStops(r)
  /\ UNCHANGED <<day, contact, row, drafts, paid, request, told, word, inTime>>

(* Midnight: the day's jobs and requests are over; tomorrow's are due. *)
NextDay ==
  /\ day < LastDay
  /\ scheduler.at = "done" /\ standing = Over /\ run[Cron] = Over
  /\ \A r \in Run : run[r].todo = {}
  /\ \A q \in Request : request[q] = Idle
  /\ day' = day + 1
  /\ scheduler' = [scheduler EXCEPT !.at = "due"]
  /\ standing' = [standing EXCEPT !.at = "due"]
  /\ run' = [r \in Run |-> [run[r] EXCEPT !.at = "due"]]
  /\ UNCHANGED <<contact, row, drafts, paid, request, told, word, inTime, disturbed, acts>>

-----------------------------------------------------------------------------
(* What the customer does in one statement; its WHERE is the guard.        *)

Is(o, statuses) == row[o].status \in statuses

Decide(o, changed, said) ==
  /\ row' = [row EXCEPT ![o] = changed]
  /\ word' = [word EXCEPT ![o] = said]
  /\ Given(o)
  /\ UNCHANGED <<drafts, paid>>

(* Approve without auto-send. *)
Approve(o) ==
  /\ Is(o, {"pending_approval"})
  /\ Decide(o, [row[o] EXCEPT !.status = "approved", !.auto = FALSE], "approved")

(* A bulk send takes the contact's open occasion for its own, approved,    *)
(* with a dispatch date of its own, before it orders.  The read its dispatch *)
(* date comes from is left out: no run of auto-send looks at it.           *)
Reconcile(o) ==
  /\ Is(o, Live)
  /\ LET d == Dispatch(row[o].date) IN
       Decide(o, [row[o] EXCEPT !.status = "approved", !.auto = FALSE,
                                !.dispatch = IF d < day THEN day ELSE d], "approved")

Unapprove(o) ==
  /\ Is(o, {"approved"})
  /\ Decide(o, [row[o] EXCEPT !.status = "pending_approval", !.auto = FALSE],
            "cancelled")

Skip(o) ==
  /\ Is(o, {"pending_approval"})
  /\ Decide(o, [row[o] EXCEPT !.status = "skipped"], "skipped")

Unskip(o) ==
  /\ Is(o, {"skipped"}) /\ row[o].date >= day
  /\ Decide(o, [row[o] EXCEPT !.status = "pending_approval"], "none")

Prepare(o) ==
  /\ Is(o, {"scheduled"}) /\ row[o].date >= day
  /\ Decide(o, [row[o] EXCEPT !.status = "pending_approval"], word[o])

DeleteEvent(o) ==
  /\ Is(o, {"scheduled"})
  /\ Decide(o, [row[o] EXCEPT !.status = "deleted"], word[o])

-----------------------------------------------------------------------------
(* Orders by hand (OrderPayment has their money).                          *)

Checkout(o) ==
  /\ Is(o, {"approved"})
  /\ Consumed(o)
  /\ drafts' = [drafts EXCEPT ![o] = @ + 1]
  /\ UNCHANGED <<paid, word, inTime>>

Pay(o) ==
  /\ drafts[o] > 0
  /\ drafts' = [drafts EXCEPT ![o] = @ - 1]
  /\ paid' = [paid EXCEPT ![o] = @ + 1]
  /\ UNCHANGED <<row, word, inTime>>

(* Whatever the order's status. *)
CancelAgain(o) ==
  /\ drafts' = [drafts EXCEPT ![o] = @ - 1]
  /\ UNCHANGED <<row, paid, word, inTime>>

(* The occasions of a cancelled order are approved again, for auto-send    *)
(* if they were.                                                           *)
Cancel(o) ==
  /\ drafts[o] > 0
  /\ drafts' = [drafts EXCEPT ![o] = @ - 1]
  /\ IF Is(o, {"queued"})
     THEN row' = [row EXCEPT ![o].status = "approved"] /\ Given(o)
     ELSE UNCHANGED <<row, inTime>>
  /\ UNCHANGED <<paid, word>>

Refund(o) ==
  /\ paid[o] > 0
  /\ paid' = [paid EXCEPT ![o] = @ - 1]
  /\ row' = IF Is(o, {"queued"}) THEN [row EXCEPT ![o].status = "skipped"] ELSE row
  /\ UNCHANGED <<drafts, word, inTime>>

Customer(o) ==
  /\ Counted
  /\ \/ Approve(o) \/ Reconcile(o) \/ Unapprove(o) \/ Skip(o) \/ Unskip(o)
     \/ Prepare(o) \/ DeleteEvent(o)
     \/ Checkout(o) \/ Pay(o) \/ Cancel(o) \/ Refund(o)
  /\ UNCHANGED <<day, contact, scheduler, standing, run, request, told, disturbed>>

Archive ==
  /\ Counted
  /\ contact' = [contact EXCEPT !.archived = ~@]
  /\ UNCHANGED <<day, row, drafts, paid, scheduler, standing, run, request,
                 told, word, inTime, disturbed>>

-----------------------------------------------------------------------------
(* What the customer does in two: read, then write.                        *)

Answer(q, held) == request' = [request EXCEPT ![q] = held]

(* Approve for auto-send: the date is read with the address. *)
ApproveReads(q, o) ==
  /\ request[q] = Idle /\ Exists(o)
  /\ Answer(q, [op |-> "approve", card |-> DatedOf(o)])
  /\ UNCHANGED <<row, word, inTime, contact>>

ApproveWrites(q) ==
  /\ request[q].op = "approve"
  /\ LET c == request[q].card IN
       IF Is(c.row, {"pending_approval"})
       THEN /\ row' = [row EXCEPT ![c.row] = ForAutoSend(@, c)]
            /\ word' = [word EXCEPT ![c.row] = "approved"]
            /\ Given(c.row)
       ELSE UNCHANGED <<row, word, inTime>>
  /\ Answer(q, Idle)
  /\ UNCHANGED contact

(* Pin the dispatch date, not after the occasion's, or let it be computed. *)
PinReads(q, o) ==
  /\ request[q] = Idle /\ Is(o, Live)
  /\ \/ \E d \in 0 .. row[o].date :
            Answer(q, [op |-> "pin", row |-> o, to |-> d, pinned |-> TRUE])
     \/ Answer(q, [op |-> "pin", row |-> o, to |-> Dispatch(row[o].date),
                   pinned |-> FALSE])
  /\ UNCHANGED <<row, word, inTime, contact>>

PinWrites(q) ==
  /\ request[q].op = "pin"
  /\ LET o == request[q].row IN
       IF Exists(o)
       THEN /\ row' = [row EXCEPT ![o] = [@ EXCEPT !.dispatch = request[q].to,
                                                   !.pinned = request[q].pinned]]
            /\ Given(o)
       ELSE UNCHANGED <<row, inTime>>
  /\ Answer(q, Idle)
  /\ UNCHANGED <<word, contact>>

-----------------------------------------------------------------------------
(* Correct the date of birth, or remove it (0): one transaction that reads *)
(* every birthday row and then writes by identifier.                       *)

CorrectReads(q, b) ==
  /\ request[q] \in {Idle, [op |-> "again", born |-> b]}
  /\ Answer(q, [op |-> "realign", born |-> b, first |-> request[q] = Idle,
                seen |-> [o \in Row |-> [status |-> row[o].status,
                                        date |-> row[o].date]]])
  /\ UNCHANGED <<row, word, inTime, contact>>

Rank(status) == CASE status = "approved" -> 1
                  [] status = "pending_approval" -> 2
                  [] OTHER -> 3

(* The live row that takes the date: one on it, else the furthest along.   *)
(* None when a row that is not live already has the date.                  *)
Keepers(seen, target) ==
  LET Known == {o \in Row : seen[o].status \notin {"none", "deleted"}}
      Movable == {o \in Known : seen[o].status \in Live}
      OnTarget == {o \in Movable : seen[o].date = target}
  IN IF \E o \in Known \ Movable : seen[o].date = target THEN {}
     ELSE IF OnTarget # {} THEN OnTarget
     ELSE {o \in Movable : \A p \in Movable :
             Rank(seen[o].status) <= Rank(seen[p].status)}

Blocked(seen, target) ==
  \E o \in Row : /\ seen[o].status \notin Live \cup {"none", "deleted"}
                /\ seen[o].date = target

(* The live rows that lost the date: missed if their day has been, else    *)
(* gone, whatever has become of them since they were read.                  *)
Discarded(seen, kept) ==
  [o \in Row |-> IF o \in kept \/ seen[o].status \notin Live \/ ~Exists(o) THEN row[o]
     ELSE [row[o] EXCEPT !.status = IF seen[o].date < day THEN "missed" ELSE "deleted"]]

Moved(o, date) == [o EXCEPT !.date = date, !.dispatch = Dispatch(date)]

(* Nothing to move: a row for the new date, unless the date is taken. *)
RealignAnew(seen, target) ==
  LET left == Discarded(seen, {}) IN
  /\ Keepers(seen, target) = {}
  /\ IF Blocked(seen, target) \/ Taken(left, Row, target)
     THEN row' = left
     ELSE \E n \in Row : /\ row[n].status = "none"
                       /\ row' = [left EXCEPT ![n] = Scheduled(target)]
  /\ UNCHANGED inTime

RealignOnto(seen, target, k) ==
  LET left == Discarded(seen, {k}) IN
  IF seen[k].date = target THEN row' = left /\ UNCHANGED inTime
  ELSE /\ Exists(k) /\ ~Taken(left, Row \ {k}, target)
       /\ row' = [left EXCEPT ![k] = Moved(@, target)]
       /\ Given(k)

RealignWrites(q) ==
  /\ request[q].op = "realign" /\ request[q].born # 0
  /\ LET seen == request[q].seen
         target == NextBirthday(request[q].born, day)
     IN \/ RealignAnew(seen, target)
        \/ \E k \in Keepers(seen, target) : RealignOnto(seen, target, k)
  /\ contact' = [contact EXCEPT !.born = request[q].born]
  /\ Answer(q, [op |-> "promote"])
  /\ UNCHANGED word

(* The date of birth is taken away, and every live row with it. *)
RealignRemoves(q) ==
  /\ request[q].op = "realign" /\ request[q].born = 0
  /\ row' = Discarded(request[q].seen, {})
  /\ contact' = [contact EXCEPT !.born = 0]
  /\ Answer(q, Idle)
  /\ UNCHANGED <<word, inTime>>

(* The keeper is gone, or its new date was taken meanwhile: all of it is   *)
(* undone, and a taken date is tried once more on a fresh read.            *)
RealignFails(q) ==
  /\ request[q].op = "realign" /\ request[q].born # 0
  /\ LET seen == request[q].seen
         target == NextBirthday(request[q].born, day)
     IN \E k \in Keepers(seen, target) :
          /\ seen[k].date # target
          /\ \/ /\ ~Exists(k)
                /\ Answer(q, Idle)
             \/ /\ Exists(k) /\ Taken(Discarded(seen, {k}), Row \ {k}, target)
                /\ Answer(q, IF request[q].first
                             THEN [op |-> "again", born |-> request[q].born] ELSE Idle)
  /\ UNCHANGED <<row, word, inTime, contact>>

PromoteAfter(q) ==
  /\ request[q].op = "promote"
  /\ Promote
  /\ Answer(q, Idle)
  /\ UNCHANGED <<word, inTime, contact>>

Asks(q) ==
  /\ request[q] = Idle /\ Counted
  /\ \/ \E o \in Row : ApproveReads(q, o) \/ PinReads(q, o)
     \/ \E b \in Birthday \cup {0} : CorrectReads(q, b)

Continues(q) ==
  /\ request[q] # Idle /\ UNCHANGED acts
  /\ \/ ApproveWrites(q) \/ PinWrites(q)
     \/ \E b \in Birthday \cup {0} : CorrectReads(q, b)
     \/ RealignWrites(q) \/ RealignRemoves(q) \/ RealignFails(q) \/ PromoteAfter(q)

Asked(q) ==
  /\ Asks(q) \/ Continues(q)
  /\ UNCHANGED <<day, drafts, paid, scheduler, standing, run, told, disturbed>>

-----------------------------------------------------------------------------
Next ==
  \/ SchedulerReads \/ SchedulerCreates \/ SchedulerPromotes \/ SchedulerRetires
  \/ StandingReads \/ (\E c \in standing.todo : StandingApproves(c))
  \/ \E r \in Run :
       \/ RunReads(r)
       \/ \E c \in run[r].todo : RunSends(r, c)
  \/ JobStops \/ NextDay
  \/ \E o \in Row : Customer(o)
  \/ Archive
  \/ \E q \in Request : Asked(q)

Spec == Init /\ [][Next]_vars

-----------------------------------------------------------------------------
(* Properties *)

(* However the morning's runs, a checkout by hand, a cancelled order, a    *)
(* refund and a correction of the date of birth interleave, a card is on   *)
(* at most one order that is unpaid or paid for (the status-guarded        *)
(* consume of autoSendOne and of create).                                  *)
OneOrderForACard == \A o \in Row : drafts[o] + paid[o] <= 1

(* What OneOrderForACard rests on: a card on an order has left the open    *)
(* statuses for good, unless the order is cancelled or refunded.           *)
OrderedIsBound == \A o \in Row :
  drafts[o] + paid[o] > 0 => row[o].status \in {"queued", "missed", "deleted"}

(* A card given to auto-send before its day, and to be posted by its day,  *)
(* is not retired as missed in silence: a run took it, or told the         *)
(* customer, as long as every morning's run came to its end (runDue and    *)
(* recordSkip).                                                            *)
MissedOnlyIfTold ==
  \A o \in Row :
    /\ row[o].status = "missed" /\ row[o].auto /\ paid[o] = 0
    /\ inTime[o] /\ row[o].dispatch <= row[o].date
    /\ ~disturbed
    => o \in told

(* No two corrections of the date of birth are between read and write.     *)
OneCorrection == \A p, q \in Request :
  request[p].op = "realign" /\ request[q].op = "realign" => p = q

(* A standing order touches no card a person has approved or skipped,      *)
(* also in the moment between its read and its write                       *)
(* (StandingOrderApprovalService.approveFor).                              *)
PersonWins ==
  [][\A o \in Row :
       standing' # standing /\ row'[o] # row[o]
       => word[o] \notin {"approved", "skipped"}]_vars

-----------------------------------------------------------------------------
(* What the repository says of the program and the code does not keep.     *)

(* standing-order-approval.service.ts: "a person who approved, skipped or  *)
(* cancelled the card first always wins".  An approval called off puts the *)
(* card back among those that wait, where the next morning's standing      *)
(* order approves it again.                                                *)
CalledOff == \A o \in Row :
  row[o].status \in {"approved", "queued"} => word[o] # "cancelled"

(* schema.prisma, of the standing order's message: "Null for every card a  *)
(* person approved themselves".  No approval of a person's clears it.      *)
OwnWords == \A o \in Row :
  row[o].status = "approved" /\ word[o] = "approved" => ~row[o].message

(* retire-past-occasions.util.ts: "sending it late is the customer's call  *)
(* to make".  A card given to auto-send on its very day, after the         *)
(* morning's run, is retired before the next one and nobody is told.       *)
NeverSilent == \A o \in Row :
  /\ row[o].status = "missed" /\ row[o].auto /\ paid[o] = 0 /\ ~disturbed
  => o \in told

(* realign-birthday.util.ts: "a card already paid for and in production"   *)
(* is never moved.  The rows are moved and deleted by identifier, so one   *)
(* that a run of auto-send has taken since the read goes with them.        *)
PaidStays ==
  [][\A o \in Row : paid[o] > 0 /\ row[o].status = "queued"
       => row'[o].date = row[o].date /\ row'[o].status # "deleted"]_vars
=============================================================================
