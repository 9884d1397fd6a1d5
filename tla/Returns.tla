-------------------------------- MODULE Returns --------------------------------
(***************************************************************************)
(* Cards of one contact that come back (returns.service.ts), and the hold  *)
(* they put on the contact's other cards.  The imports that a repoint      *)
(* clears are left out.                                                    *)
(*                                                                         *)
(* A customer's request reads its case, and with it the contact and the    *)
(* cards waiting; then it writes in a transaction at Read Committed, which *)
(* for a resolution is two steps here: it takes the case's row and counts  *)
(* the other open cases, then it commits.  Between any two steps others    *)
(* run.  A free replacement is a new card, and may come back in turn.      *)
(***************************************************************************)
EXTENDS Integers, FiniteSets

CONSTANTS Cards,        \* the contact's cards, those not made yet included
          Ordered,      \* of which these are paid for at the start
          Requests,     \* what customers and holders of an e-mailed link ask
          Addresses,
          Old,          \* where the contact no longer lives
          Supplied,     \* what a customer may enter instead
          Business,     \* the sender's own address
          None

ASSUME ReturnsAssumption ==
  /\ Ordered \subseteq Cards
  /\ Supplied \subseteq Addresses /\ Old \in Addresses /\ Business \in Addresses
  /\ None \notin Cards \cup Addresses

VARIABLES
  card,         \* "open" stands for pending to printed
  address,      \* the address on each card's order line
  wentTo,       \* where each posted card was really sent
  recoveryOf,   \* the returned card a free one replaces
  contact,      \* the contact's stored address
  flagged,      \* its addressVerificationRequired
  case,         \* the ReturnCase of each card
  request,      \* where each request is
  checked,      \* cards a transition has found not held, and not yet written
  dispatching,  \* the address a dispatch has bought a label for
  overlapped    \* two repoints were once under way together (history)

cards == <<card, address, wentTo, recoveryOf>>
posting == <<checked, dispatching>>
vars == <<cards, contact, flagged, case, request, posting, overlapped>>
-------------------------------------------------------------------------------
OpenCase == {"awaiting_address", "awaiting_resend"}

Case == [status : OpenCase \cup {"none", "resolved", "archived"},
         freeRecoveryUsed : BOOLEAN, addressUpdated : BOOLEAN]

NoCase == [status |-> "none", freeRecoveryUsed |-> FALSE, addressUpdated |-> FALSE]

Recoveries == {"resend", "business"}

\* to: the address it read or was given; waiting: the cards a repoint has read;
\* last: no other case of the contact was open.
Request == [op : Recoveries \cup {"idle", "address", "archive", "repoint"},
            of : Cards \cup {None}, to : Addresses \cup {None}, claimed : BOOLEAN,
            last : BOOLEAN, waiting : SUBSET Cards]

Idle == [op |-> "idle", of |-> None, to |-> None, claimed |-> FALSE, last |-> FALSE, waiting |-> {}]

TypeOK ==
  /\ card \in [Cards -> {"none", "open", "posted", "returned"}]
  /\ address \in [Cards -> Addresses]
  /\ wentTo \in [Cards -> Addresses \cup {None}]
  /\ recoveryOf \in [Cards -> Cards \cup {None}]
  /\ contact \in Addresses
  /\ flagged \in BOOLEAN
  /\ case \in [Cards -> Case]
  /\ request \in [Requests -> Request]
  /\ checked \in SUBSET Cards
  /\ dispatching \in [Cards -> Addresses \cup {None}]
  /\ overlapped \in BOOLEAN

Init ==
  /\ card = [c \in Cards |-> IF c \in Ordered THEN "open" ELSE "none"]
  /\ address = [c \in Cards |-> Old]
  /\ wentTo = [c \in Cards |-> None]
  /\ recoveryOf = [c \in Cards |-> None]
  /\ contact = Old /\ flagged = FALSE
  /\ case = [c \in Cards |-> NoCase]
  /\ request = [r \in Requests |-> Idle]
  /\ checked = {}
  /\ dispatching = [c \in Cards |-> None]
  /\ overlapped = FALSE
-------------------------------------------------------------------------------
(* The hold, the post and the return.                                      *)

\* Mutant: the hold is the contact's flag.
HeldByFlag(c) == flagged

\* isHeldCard: its address is one a card of the contact has come back from,
\* whatever became of that case.
Held(c) == \E d \in Cards : case[d].status # "none" /\ address[d] = address[c]

\* transition, at Read Committed: the hold is looked at, then the card is posted.
CheckHold(c) ==
  /\ card[c] = "open" /\ ~Held(c) /\ c \notin checked
  /\ checked' = checked \cup {c}
  /\ UNCHANGED <<cards, contact, flagged, case, request, dispatching, overlapped>>

Post(c) ==
  /\ c \in checked
  /\ checked' = checked \ {c}
  /\ IF card[c] = "open"
     THEN /\ card' = [card EXCEPT ![c] = "posted"]
          /\ wentTo' = [wentTo EXCEPT ![c] = address[c]]
     ELSE UNCHANGED <<card, wentTo>>
  /\ UNCHANGED <<address, recoveryOf, contact, flagged, case, request, dispatching, overlapped>>

\* dispatch: the hold is looked at and a label bought; then the card is posted.
BuyLabel(c) ==
  /\ card[c] = "open" /\ ~Held(c) /\ dispatching[c] = None
  /\ dispatching' = [dispatching EXCEPT ![c] = address[c]]
  /\ UNCHANGED <<cards, contact, flagged, case, request, checked, overlapped>>

PostLabelled(c) ==
  /\ dispatching[c] # None
  /\ dispatching' = [dispatching EXCEPT ![c] = None]
  /\ IF card[c] = "open"
     THEN /\ card' = [card EXCEPT ![c] = "posted"]
          /\ wentTo' = [wentTo EXCEPT ![c] = dispatching[c]]
     ELSE UNCHANGED <<card, wentTo>>
  /\ UNCHANGED <<address, recoveryOf, contact, flagged, case, request, checked, overlapped>>

MarkReturned(c) ==
  /\ card[c] = "posted" /\ case[c].status = "none"
  /\ card' = [card EXCEPT ![c] = "returned"]
  /\ flagged' = TRUE
  /\ case' = [case EXCEPT ![c] = [NoCase EXCEPT !.status = "awaiting_address"]]
  /\ UNCHANGED <<address, wentTo, recoveryOf, contact, request, posting, overlapped>>

\* The contact is edited elsewhere; its flag and cases stay as they are.
EditContact(a) ==
  /\ contact' = a /\ contact # a
  /\ UNCHANGED <<cards, flagged, case, request, posting, overlapped>>
-------------------------------------------------------------------------------
(* What a request reads.                                                   *)

Reads(r, q) ==
  /\ request[r] = Idle
  /\ request' = [request EXCEPT ![r] = q]
  /\ overlapped' = \/ overlapped
                   \/ q.op = "repoint" /\ \E p \in Requests : request[p].op = "repoint"
  /\ UNCHANGED <<cards, contact, flagged, case, posting>>

ReadForAddress(r, c, a) ==
  /\ case[c].status \in OpenCase
  /\ Reads(r, [Idle EXCEPT !.op = "address", !.of = c, !.to = a])

ReadForResend(r, c) ==
  /\ case[c].status = "awaiting_resend" /\ ~case[c].freeRecoveryUsed
  /\ Reads(r, [Idle EXCEPT !.op = "resend", !.of = c, !.to = contact])

\* Mutant: the sender's address is not required.
ReadForBusinessUnaddressed(r, c) ==
  /\ case[c].status \in OpenCase /\ ~case[c].freeRecoveryUsed
  /\ Reads(r, [Idle EXCEPT !.op = "business", !.of = c])

ReadForBusiness(r, c) ==
  /\ case[c].status \in OpenCase /\ ~case[c].freeRecoveryUsed
  /\ Reads(r, [Idle EXCEPT !.op = "business", !.of = c, !.to = Business])

ReadForArchive(r, c) ==
  /\ case[c].status \in OpenCase
  /\ Reads(r, [Idle EXCEPT !.op = "archive", !.of = c])

\* Mutant: cards already posted are not left out.
WaitingPosted(c) == {d \in Cards : card[d] # "none" /\ address[d] = address[c]}

\* waitingCardIds
WaitingOn(c) == {d \in Cards : card[d] = "open" /\ address[d] = address[c]}

\* In whatever state the case, once the contact's address is a corrected one.
ReadForRepoint(r, c) ==
  /\ case[c].status # "none" /\ case[c].addressUpdated /\ contact # address[c]
  /\ WaitingOn(c) # {}
  /\ Reads(r, [Idle EXCEPT !.op = "repoint", !.of = c, !.to = contact, !.waiting = WaitingOn(c)])

Read(r, c) ==
  \/ \E a \in Supplied : ReadForAddress(r, c, a)
  \/ ReadForResend(r, c) \/ ReadForBusiness(r, c) \/ ReadForArchive(r, c) \/ ReadForRepoint(r, c)
-------------------------------------------------------------------------------
(* What it writes.                                                         *)

\* Another request's transaction holds the case's row.
Locked(r, c) == \E q \in Requests \ {r} : request[q].claimed /\ request[q].of = c

\* updateAddress, whatever has become of the case since it was read.
UpdateAddress(r) ==
  LET c == request[r].of IN
  /\ request[r].op = "address" /\ ~Locked(r, c)
  /\ contact' = request[r].to
  /\ case' = [case EXCEPT ![c].status = "awaiting_resend", ![c].addressUpdated = TRUE]
  /\ request' = [request EXCEPT ![r] = Idle]
  /\ UNCHANGED <<cards, flagged, posting, overlapped>>

\* Mutant: the case is not looked at again.
MayCloseAsRead(q) == case[q.of].status # "none"

\* The guards of the updates of recoverOnce and of archive.
MayClose(q) ==
  /\ case[q.of].status \in OpenCase
  /\ q.op \in Recoveries => ~case[q.of].freeRecoveryUsed

\* recoverOnce or archive takes the case's row and counts the other open cases.
ClaimCase(r) ==
  LET q == request[r] IN
  /\ q.op \in Recoveries \cup {"archive"} /\ ~q.claimed /\ ~Locked(r, q.of)
  /\ request' = [request EXCEPT ![r] =
       IF MayClose(q)
       THEN [q EXCEPT !.claimed = TRUE,
                      !.last = \A d \in Cards \ {q.of} : case[d].status \notin OpenCase]
       ELSE Idle]
  /\ UNCHANGED <<cards, contact, flagged, case, posting, overlapped>>

Closes(r, status, used) ==
  /\ case' = [case EXCEPT ![request[r].of].status = status,
                          ![request[r].of].freeRecoveryUsed = used]
  /\ flagged' = (flagged /\ ~request[r].last)
  /\ request' = [request EXCEPT ![r] = Idle]

\* recoverOnce commits: a free card n, paid and in the queue.
Recover(r, n) ==
  LET q == request[r] IN
  /\ q.op \in Recoveries /\ q.claimed
  /\ card[n] = "none"
  /\ card' = [card EXCEPT ![n] = "open"]
  /\ address' = [address EXCEPT ![n] = q.to]
  /\ recoveryOf' = [recoveryOf EXCEPT ![n] = q.of]
  /\ Closes(r, "resolved", TRUE)
  /\ UNCHANGED <<wentTo, contact, posting, overlapped>>

Archive(r) ==
  /\ request[r].op = "archive" /\ request[r].claimed
  /\ Closes(r, "archived", case[request[r].of].freeRecoveryUsed)
  /\ UNCHANGED <<cards, contact, posting, overlapped>>

\* repointWaitingCards: its transaction, whatever the cards have become.
Repoint(r) ==
  LET q == request[r] IN
  /\ q.op = "repoint"
  /\ address' = [c \in Cards |-> IF c \in q.waiting THEN q.to ELSE address[c]]
  /\ request' = [request EXCEPT ![r] = Idle]
  /\ UNCHANGED <<card, wentTo, recoveryOf, contact, flagged, case, posting, overlapped>>

\* The process stops, or the transaction is refused.
RequestFails(r) ==
  /\ request[r].op # "idle"
  /\ request' = [request EXCEPT ![r] = Idle]
  /\ UNCHANGED <<cards, contact, flagged, case, posting, overlapped>>
-------------------------------------------------------------------------------
Mailing(c) == CheckHold(c) \/ Post(c) \/ BuyLabel(c) \/ PostLabelled(c) \/ MarkReturned(c)

Handle(r) ==
  \/ \E c \in Cards : Read(r, c) \/ Recover(r, c)
  \/ UpdateAddress(r) \/ ClaimCase(r) \/ Archive(r) \/ Repoint(r) \/ RequestFails(r)

Next ==
  \/ \E c \in Cards : Mailing(c)
  \/ \E a \in Supplied : EditContact(a)
  \/ \E r \in Requests : Handle(r)

Spec == Init /\ [][Next]_vars
-------------------------------------------------------------------------------
(***************************************************************************)
(* Properties.                                                             *)
(***************************************************************************)

\* The Kudos Promise: one free replacement for a card that came back, however
\* many requests recover it at once, and also when a late change of address has
\* opened its case again.
OneFreeCard ==
  \A m, n \in Cards : recoveryOf[m] # None /\ recoveryOf[m] = recoveryOf[n] => m = n

\* No card passes the hold, of a transition or of a dispatch, to where one is
\* known to have come back from, also after the case was archived and the flag
\* cleared, and also when lines were pointed elsewhere while their cards were
\* being posted; unless two repoints were under way together, the later of which
\* rewrites a line whose label the earlier had already changed.
NothingFollowsAReturn ==
  [][\A c, d \in Cards :
       /\ ~overlapped /\ card[d] = "returned"
       /\ (c \in checked' \ checked) \/ (dispatching[c] = None /\ dispatching'[c] # None)
       => wentTo[d] # address[c]]_vars
-------------------------------------------------------------------------------
(* What the repository says of the program and the code does not keep.     *)

\* returns.service.ts: the flag "stays set until the case is resolved (a resend/
\* hand-deliver/archive) so automatic sends stay paused meanwhile".
OpenCaseKeepsFlag == \A c \in Cards : case[c].status \in OpenCase => flagged
===============================================================================
