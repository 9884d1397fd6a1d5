----------------------------- MODULE ClickAndDrop -----------------------------
(***************************************************************************)
(* Royal Mail's Click & Drop queue beside the fulfilment of orders:        *)
(* click-and-drop.service.ts, and the recall that follows a refund in      *)
(* batch-orders.service.ts.  A sweep every five minutes imports the cards  *)
(* not yet imported; an operator may import one card again by hand.        *)
(*                                                                         *)
(* The import is a call followed by a write of the identifier it returned, *)
(* and anything may happen in between: another import of the same card,    *)
(* or the refund that deletes its job.                                     *)
(***************************************************************************)
EXTENDS Fulfillment

CONSTANTS Sweepers,     \* the API servers' sweeps, one in each at a time
          Retriers,     \* operators retrying one card
          Imports,      \* Royal Mail's order identifiers
          Faults,       \* answers get lost and processes stop
          None

ASSUME ClickAndDropAssumption == None \notin Imports \cup Cards /\ Faults \in BOOLEAN

Pushers == Sweepers \cup Retriers

VARIABLES
  clickAndDropOrderId,  \* of each card's job
  royalMail,            \* what Royal Mail holds under each identifier
  push,                 \* the imports each pusher is at
  recall,               \* identifiers a refund is about to cancel
  stillLive,            \* identifiers escalated by clickAndDropCancelFailed
  recorded,             \* identifiers once stored on a job (history)
  replaced              \* identifiers another import then overwrote (history)

history == <<recorded, replaced>>
cdVars == <<clickAndDropOrderId, royalMail, push, recall, stillLive, history>>
allVars == <<vars, cdVars>>
-------------------------------------------------------------------------------
\* todo: the cards it read; card, import: the call it has just made.
Push == [todo : SUBSET Cards, card : Cards \cup {None}, import : Imports \cup {None}]

NoPush == [todo |-> {}, card |-> None, import |-> None]

CDTypeOK ==
  /\ TypeOK
  /\ clickAndDropOrderId \in [Cards -> Imports \cup {None}]
  /\ royalMail \in [Imports -> [state : {"unused", "live", "cancelled"},
                                card : Cards \cup {None}]]
  /\ push \in [Pushers -> Push]
  /\ recall \in [Orders -> SUBSET Imports]
  /\ stillLive \subseteq Imports
  /\ recorded \subseteq Imports
  /\ replaced \subseteq Imports

CDInit ==
  /\ Init
  /\ clickAndDropOrderId = [c \in Cards |-> None]
  /\ royalMail = [i \in Imports |-> [state |-> "unused", card |-> None]]
  /\ push = [w \in Pushers |-> NoPush]
  /\ recall = [o \in Orders |-> {}]
  /\ stillLive = {}
  /\ recorded = {}
  /\ replaced = {}
-------------------------------------------------------------------------------
(* Imports.                                                                *)

JobExists(c) == job[c] # "none"

ImportsOf(cards) == {clickAndDropOrderId[c] : c \in cards} \ {None}

\* The sweep leaves out the held; it does not look at the job's status.
Sweep(w) ==
  LET waiting == {c \in Cards : JobExists(c) /\ clickAndDropOrderId[c] = None /\ ~Held(c)}
  IN /\ push[w] = NoPush
     /\ waiting # {}
     /\ push' = [push EXCEPT ![w].todo = waiting]
     /\ UNCHANGED <<vars, clickAndDropOrderId, royalMail, recall, stillLive, history>>

\* An operator's retry of one card, held or not.
RetryJob(w, c) ==
  /\ push[w] = NoPush
  /\ JobExists(c) /\ clickAndDropOrderId[c] = None
  /\ push' = [push EXCEPT ![w].todo = {c}]
  /\ UNCHANGED <<vars, clickAndDropOrderId, royalMail, recall, stillLive, history>>

\* createOrder, for a card as it was read.  Whether Royal Mail refuses a
\* reference it has seen is not relied on: a refusal is CreateOrderFails.
CreateOrder(w, c, i) ==
  /\ c \in push[w].todo /\ push[w].card = None
  /\ royalMail[i].state = "unused"
  /\ royalMail' = [royalMail EXCEPT ![i] = [state |-> "live", card |-> c]]
  /\ push' = [push EXCEPT ![w].card = c, ![w].import = i]
  /\ UNCHANGED <<vars, clickAndDropOrderId, recall, stillLive, history>>

\* The call fails, or its answer is lost: the error is noted on the job.
CreateOrderFails(w, c) ==
  /\ c \in push[w].todo /\ push[w].card = None
  /\ \/ UNCHANGED royalMail
     \/ /\ Faults
        /\ \E i \in Imports :
             /\ royalMail[i].state = "unused"
             /\ royalMail' = [royalMail EXCEPT ![i] = [state |-> "live", card |-> c]]
  /\ push' = [push EXCEPT ![w].todo = @ \ {c}]
  /\ UNCHANGED <<vars, clickAndDropOrderId, recall, stillLive, history>>

\* The update waits for whoever holds the job's row, and finds no row if the
\* job was deleted; that error is swallowed.
RecordImport(w) ==
  LET c == push[w].card
      i == push[w].import
  IN /\ c # None
     /\ \A q \in Workers : c \notin tx[q].cards
     /\ c \notin refund[OrderOf[c]].doomed
     /\ IF JobExists(c)
        THEN /\ clickAndDropOrderId' = [clickAndDropOrderId EXCEPT ![c] = i]
             /\ recorded' = recorded \cup {i}
             /\ replaced' = replaced \cup ImportsOf({c})
        ELSE UNCHANGED <<clickAndDropOrderId, history>>
     /\ push' = [push EXCEPT ![w] = [NoPush EXCEPT !.todo = push[w].todo \ {c}]]
     /\ UNCHANGED <<vars, royalMail, recall, stillLive>>

\* The process stops; what it had in hand is lost.
PusherCrash(w) ==
  /\ Faults
  /\ push[w] # NoPush
  /\ push' = [push EXCEPT ![w] = NoPush]
  /\ UNCHANGED <<vars, clickAndDropOrderId, royalMail, recall, stillLive, history>>
-------------------------------------------------------------------------------
(* The refund's recall.                                                    *)

ClaimRelease(o) == RefundClaim(o) /\ UNCHANGED cdVars

\* The DELETE returns the identifier each of its rows held.
DeleteReturningImports(o) ==
  /\ RefundDelete(o)
  /\ recall' = [recall EXCEPT ![o] = ImportsOf(Stoppable(o))]
  /\ UNCHANGED <<clickAndDropOrderId, royalMail, push, stillLive, history>>

\* A deleted row's identifier is gone with it.
CommitRelease(o) ==
  /\ RefundCommit(o)
  /\ clickAndDropOrderId' = [c \in Cards |-> IF c \in refund[o].doomed THEN None
                                             ELSE clickAndDropOrderId[c]]
  /\ UNCHANGED <<royalMail, push, recall, stillLive, history>>

AbortRelease(o) ==
  /\ RefundAbort(o)
  /\ recall' = [recall EXCEPT ![o] = {}]
  /\ UNCHANGED <<clickAndDropOrderId, royalMail, push, stillLive, history>>

\* Mutant: what could not be cancelled is only logged.
CancelImportedQuietly(o) ==
  /\ refund[o].step = "report" /\ recall[o] # {}
  /\ \E cancelled \in SUBSET recall[o] :
       royalMail' = [i \in Imports |->
         IF i \in cancelled THEN [royalMail[i] EXCEPT !.state = "cancelled"]
         ELSE royalMail[i]]
  /\ recall' = [recall EXCEPT ![o] = {}]
  /\ UNCHANGED <<vars, clickAndDropOrderId, push, stillLive, history>>

\* cancelImported: whatever is not confirmed cancelled is escalated.
CancelImported(o) ==
  /\ refund[o].step = "report" /\ recall[o] # {}
  /\ \E cancelled \in SUBSET recall[o] :
       /\ royalMail' = [i \in Imports |->
            IF i \in cancelled THEN [royalMail[i] EXCEPT !.state = "cancelled"]
            ELSE royalMail[i]]
       /\ stillLive' = stillLive \cup (recall[o] \ cancelled)
  /\ recall' = [recall EXCEPT ![o] = {}]
  /\ UNCHANGED <<vars, clickAndDropOrderId, push, history>>

Report(o) == recall[o] = {} /\ RefundReport(o) /\ UNCHANGED cdVars
-------------------------------------------------------------------------------
Import(w) ==
  \/ w \in Sweepers /\ Sweep(w)
  \/ w \in Retriers /\ \E c \in Cards : RetryJob(w, c)
  \/ RecordImport(w) \/ PusherCrash(w)
  \/ \E c \in Cards : CreateOrderFails(w, c)
  \/ \E c \in Cards, i \in Imports : CreateOrder(w, c, i)

ReleaseAndRecall(o) ==
  \/ RefundCheck(o) /\ UNCHANGED cdVars
  \/ ClaimRelease(o) \/ DeleteReturningImports(o) \/ CommitRelease(o)
  \/ AbortRelease(o) \/ CancelImported(o) \/ Report(o)

CDNext ==
  \/ \E p \in Workers : Transition(p) /\ UNCHANGED cdVars
  \/ \E c \in Cards : (Claim(c) \/ MarkReturned(c)) /\ UNCHANGED cdVars
  \/ \E o \in Orders : ReleaseAndRecall(o)
  \/ \E w \in Pushers : Import(w)

CDSpec == CDInit /\ [][CDNext]_allVars
-------------------------------------------------------------------------------
(***************************************************************************)
(* Properties.                                                             *)
(***************************************************************************)

\* A refunded order leaves nothing in Royal Mail's queue that its jobs told
\* of: the import a deleted job had on record is cancelled or escalated to a
\* human, also when it was recorded while the release was under way.
RecordedImportsAreRecalled ==
  \A i \in recorded \ replaced :
    LET c == royalMail[i].card
        o == OrderOf[c]
    IN refund[o].step = "done" /\ order[o] = "cancelled" /\ job[c] = "none" =>
         royalMail[i].state = "cancelled" \/ i \in stillLive
-------------------------------------------------------------------------------
(* What the repository says of the program and the code does not keep.     *)

\* ADR 0180: once the order is cancelled and the money is back, "nothing may
\* go out": what Royal Mail still holds for it, an operator has been told of.
NothingOfARefundGoesOut ==
  \A i \in Imports :
    LET c == royalMail[i].card
        o == OrderOf[c]
    IN /\ royalMail[i].state = "live"
       /\ refund[o].step = "done" /\ order[o] = "cancelled" /\ job[c] = "none"
       /\ \A w \in Pushers : push[w].import # i
       => i \in stillLive
===============================================================================
