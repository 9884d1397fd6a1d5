-------------------------- MODULE ClickAndDrop_proofs --------------------------
(***************************************************************************)
(* Theorems about ClickAndDrop.tla, for every instance.  Its steps are     *)
(* steps of Fulfillment.tla or leave its variables alone, so the invariant *)
(* of Fulfillment_proofs.tla holds here too.                               *)
(***************************************************************************)
EXTENDS ClickAndDrop, Fulfillment_proofs

USE FulfillmentAssumption, ClickAndDropAssumption

\* Where an import that a job once had on record is accounted for: on the job,
\* in the list of the refund that deleted the job, or at Royal Mail or an
\* operator.
Tracked(i) ==
  LET c == royalMail[i].card IN
  /\ c \in Cards
  /\ \/ clickAndDropOrderId[c] = i
     \/ refund[OrderOf[c]].step = "report" /\ i \in recall[OrderOf[c]]
     \/ royalMail[i].state = "cancelled" \/ i \in stillLive

\* An answer in hand is about the card it was asked for.
PushesFit ==
  \A w \in Pushers : push[w].card # None =>
    /\ push[w].import \in Imports
    /\ royalMail[push[w].import].state # "unused"
    /\ royalMail[push[w].import].card = push[w].card

\* A list of imports to recall is that of the rows deleted, and no row deleted
\* has changed since.
RecallFits(o) ==
  /\ refund[o].step = "deleted" => recall[o] = ImportsOf(refund[o].doomed)
  /\ refund[o].step \notin {"deleted", "report"} => recall[o] = {}

ImportsInv ==
  /\ PushesFit
  /\ \A o \in Orders : RecallFits(o)
  /\ \A c \in Cards : clickAndDropOrderId[c] # None => JobExists(c)
  /\ \A i \in recorded : royalMail[i].state # "unused"
  /\ \A i \in recorded \ replaced : Tracked(i)

CDIInv == IInv /\ CDTypeOK /\ ImportsInv

-------------------------------------------------------------------------------
LEMMA CDInvInit == CDInit => CDIInv
<1> SUFFICES ASSUME CDInit PROVE CDIInv
  OBVIOUS
<1>1. IInv /\ TypeOK
  BY InvInit, TypeInit DEF CDInit
<1>2. CDTypeOK
  BY <1>1 DEF CDInit, CDTypeOK, NoPush, Push
<1>3. ImportsInv
  BY <1>1 DEF CDInit, Init, ImportsInv, PushesFit, RecallFits, NoPush, NoRefund
<1> QED BY <1>1, <1>2, <1>3 DEF CDIInv

\* Every step is one of Fulfillment, or leaves its variables alone.
LEMMA StepsOfFulfillment == [CDNext]_allVars => [Next]_vars
<1> SUFFICES ASSUME CDNext PROVE [Next]_vars
  BY DEF allVars
<1>1. ASSUME NEW p \in Workers, Transition(p) PROVE Next
  BY <1>1 DEF Next
<1>2. ASSUME NEW c \in Cards, Claim(c) \/ MarkReturned(c) PROVE Next
  BY <1>2 DEF Next
<1>3. ASSUME NEW o \in Orders, ReleaseAndRecall(o) PROVE Next \/ UNCHANGED vars
  BY <1>3 DEF ReleaseAndRecall, ClaimRelease, DeleteReturningImports, CommitRelease, AbortRelease,
              CancelImported, Report, Next, Release
<1>4. ASSUME NEW w \in Pushers, Import(w) PROVE UNCHANGED vars
  BY <1>4 DEF Import, Sweep, RetryJob, CreateOrder, CreateOrderFails, RecordImport, PusherCrash
<1> QED BY <1>1, <1>2, <1>3, <1>4 DEF CDNext

LEMMA ImportsOfType == ASSUME CDTypeOK, NEW cards \in SUBSET Cards
                       PROVE  ImportsOf(cards) \subseteq Imports
BY DEF CDTypeOK, ImportsOf

LEMMA CDTypeStep == CDTypeOK /\ PushesFit /\ TypeOK' /\ [CDNext]_allVars => CDTypeOK'
<1> SUFFICES ASSUME CDTypeOK, PushesFit, TypeOK', [CDNext]_allVars PROVE CDTypeOK'
  OBVIOUS
<1>1. CASE UNCHANGED cdVars
  BY <1>1 DEF cdVars, history, CDTypeOK
<1>2. ASSUME NEW o \in Orders, ReleaseAndRecall(o) PROVE CDTypeOK'
  <2>1. CASE DeleteReturningImports(o)
    <3>1. ImportsOf(Stoppable(o)) \subseteq Imports
      BY ImportsOfType DEF Stoppable, CardsOf
    <3> QED BY <2>1, <3>1 DEF DeleteReturningImports, history, CDTypeOK
  <2>2. CASE CommitRelease(o) \/ AbortRelease(o)
    BY <2>2 DEF CommitRelease, AbortRelease, history, CDTypeOK
  <2>3. CASE CancelImported(o)
    BY <2>3 DEF CancelImported, history, CDTypeOK
  <2>4. CASE UNCHANGED cdVars
    BY <1>1, <2>4
  <2> QED BY <1>2, <2>1, <2>2, <2>3, <2>4 DEF ReleaseAndRecall, ClaimRelease, Report
<1>3. ASSUME NEW w \in Pushers, Import(w) PROVE CDTypeOK'
  <2>1. CASE Sweep(w)
    BY <2>1 DEF Sweep, NoPush, Push, history, CDTypeOK
  <2>2. ASSUME NEW c \in Cards, RetryJob(w, c) PROVE CDTypeOK'
    BY <2>2 DEF RetryJob, NoPush, Push, history, CDTypeOK
  <2>3. CASE RecordImport(w)
    <3>1. push[w].card \in Cards /\ push[w].import \in Imports
      BY <2>3 DEF RecordImport, CDTypeOK, Push, PushesFit
    <3>2. [NoPush EXCEPT !.todo = push[w].todo \ {push[w].card}] \in Push
      BY DEF CDTypeOK, Push, NoPush
    <3>3. push' \in [Pushers -> Push] /\ UNCHANGED <<royalMail, recall, stillLive>>
      BY <2>3, <3>2 DEF RecordImport, CDTypeOK
    <3>4. ImportsOf({push[w].card}) \subseteq Imports
      BY <3>1, ImportsOfType
    <3>5. /\ clickAndDropOrderId' \in [Cards -> Imports \cup {None}]
          /\ recorded' \subseteq Imports /\ replaced' \subseteq Imports
      BY <2>3, <3>1, <3>4 DEF RecordImport, history, CDTypeOK
    <3> QED BY <3>3, <3>5 DEF CDTypeOK
  <2>4. CASE PusherCrash(w)
    BY <2>4 DEF PusherCrash, NoPush, Push, history, CDTypeOK
  <2>5. ASSUME NEW c \in Cards, CreateOrderFails(w, c) PROVE CDTypeOK'
    <3>1. [push[w] EXCEPT !.todo = @ \ {c}] \in Push
      <4>1. push[w] \in Push
        BY DEF CDTypeOK
      <4> QED BY <4>1 DEF Push
    <3>2. push' \in [Pushers -> Push]
      BY <2>5, <3>1 DEF CreateOrderFails, CDTypeOK
    <3>3. royalMail' \in [Imports -> [state : {"unused", "live", "cancelled"}, card : Cards \cup {None}]]
      BY <2>5 DEF CreateOrderFails, CDTypeOK
    <3> QED BY <2>5, <3>2, <3>3 DEF CreateOrderFails, history, CDTypeOK
  <2>6. ASSUME NEW c \in Cards, NEW i \in Imports, CreateOrder(w, c, i) PROVE CDTypeOK'
    <3>0. [push[w] EXCEPT !.card = c, !.import = i] \in Push
      <4>1. push[w] \in Push
        BY DEF CDTypeOK
      <4> QED BY <4>1 DEF Push
    <3>1. push' \in [Pushers -> Push]
      BY <2>6, <3>0 DEF CreateOrder, CDTypeOK
    <3>2. royalMail' \in [Imports -> [state : {"unused", "live", "cancelled"}, card : Cards \cup {None}]]
      BY <2>6 DEF CreateOrder, CDTypeOK
    <3> QED BY <2>6, <3>1, <3>2 DEF CreateOrder, history, CDTypeOK
  <2> QED BY <1>3, <2>1, <2>2, <2>3, <2>4, <2>5, <2>6 DEF Import
<1> QED BY <1>1, <1>2, <1>3 DEF CDNext, allVars, cdVars

-------------------------------------------------------------------------------
\* A step that leaves the imports and the refunds alone, and deletes no job.
LEMMA ImportsUntouched ==
  ASSUME ImportsInv, UNCHANGED <<refund, cdVars>>,
         \A c \in Cards : JobExists(c) => JobExists(c)'
  PROVE  ImportsInv'
BY DEF ImportsInv, PushesFit, RecallFits, Tracked, ImportsOf, cdVars, history

\* Only a refund's commit deletes jobs.
LEMMA JobsKept ==
  ASSUME IInv,
         \/ \E p \in Workers : Transition(p)
         \/ \E c \in Cards : Claim(c) \/ MarkReturned(c)
  PROVE  UNCHANGED refund /\ \A c \in Cards : JobExists(c) => JobExists(c)'
<1> SUFFICES ASSUME NEW c \in Cards, JobExists(c) PROVE UNCHANGED refund /\ JobExists(c)'
  BY DEF Transition, BulkTransition, Dispatch, RegisterDelivery, Begin, Skip, Apply, Commit, Abort,
         Claim, MarkReturned
<1>1. ASSUME NEW p \in Workers, Commit(p) PROVE UNCHANGED refund /\ JobExists(c)'
  <2>1. tx[p].to # "none"
    BY <1>1 DEF Commit
  <2> QED BY <1>1, <2>1 DEF Commit, JobExists
<1>2. ASSUME NEW p \in Workers, Transition(p) PROVE UNCHANGED refund /\ JobExists(c)'
  BY <1>1, <1>2 DEF Transition, BulkTransition, Dispatch, RegisterDelivery, Begin, Skip, Apply,
                    Abort, JobExists
<1>3. ASSUME NEW d \in Cards, Claim(d) \/ MarkReturned(d) PROVE UNCHANGED refund /\ JobExists(c)'
  BY <1>3 DEF Claim, MarkReturned, JobExists, IInv, TypeOK
<1> QED BY <1>2, <1>3

\* A card a refund has deleted is of the order refunded, and only its own
\* refund speaks of it.
LEMMA DoomedOfOrder ==
  ASSUME IInv, NEW o \in Orders, NEW c \in refund[o].doomed
  PROVE  c \in Cards /\ OrderOf[c] = o
BY DEF IInv, OrdersOpen, CardsOf

LEMMA RecallSteps ==
  ASSUME CDIInv, NEW o \in Orders, ReleaseAndRecall(o)
  PROVE  ImportsInv'
<1> USE DEF CDIInv
<1>0. TypeOK /\ refund \in [Orders -> Refund] /\ recall \in [Orders -> SUBSET Imports]
  BY DEF CDTypeOK, TypeOK
<1>1. ASSUME UNCHANGED <<job, clickAndDropOrderId, royalMail, push, stillLive, history>>,
             NEW r, refund' = [refund EXCEPT ![o] = r],
             \A u \in Orders \ {o} : recall'[u] = recall[u],
             refund[o].step # "report" \/ recall[o] = {},
             r.step = "deleted" => recall'[o] = ImportsOf(r.doomed),
             r.step \notin {"deleted", "report"} => recall'[o] = {}
      PROVE  ImportsInv'
  <2>1. PushesFit'
    BY <1>1 DEF ImportsInv, PushesFit
  <2>2. ASSUME NEW u \in Orders PROVE RecallFits(u)'
    <3>2. CASE u = o
      <4>1. refund'[o] = r
        BY <1>0, <1>1
      <4> QED BY <1>1, <3>2, <4>1 DEF RecallFits, ImportsOf
    <3>3. CASE u # o
      <4>1. refund'[u] = refund[u] /\ recall'[u] = recall[u]
        BY <1>0, <1>1, <3>3
      <4> QED BY <1>1, <4>1 DEF ImportsInv, RecallFits, ImportsOf
    <3> QED BY <3>2, <3>3
  <2>3. ASSUME NEW i \in recorded \ replaced PROVE Tracked(i)'
    <3>1. Tracked(i)
      BY <2>3 DEF ImportsInv
    <3>2. CASE refund[OrderOf[royalMail[i].card]].step = "report" /\ i \in recall[OrderOf[royalMail[i].card]]
      <4>1. royalMail[i].card \in Cards
        BY <3>1 DEF Tracked
      <4>2. OrderOf[royalMail[i].card] \in Orders \ {o}
        BY <1>1, <3>2, <4>1
      <4>3. \A u \in Orders \ {o} : refund'[u] = refund[u] /\ recall'[u] = recall[u]
        BY <1>0, <1>1
      <4> QED BY <1>1, <3>2, <4>1, <4>2, <4>3 DEF Tracked
    <3> QED BY <1>1, <3>1, <3>2 DEF Tracked, history
  <2> QED BY <1>1, <2>1, <2>2, <2>3 DEF ImportsInv, JobExists, history
<1>2. CASE RefundCheck(o) /\ UNCHANGED cdVars
  <2>1. recall[o] = {}
    BY <1>2 DEF RefundCheck, ImportsInv, RecallFits
  <2> QED BY <1>1, <1>2, <2>1 DEF RefundCheck, Advance, NoRefund, cdVars
<1>3. CASE ClaimRelease(o)
  <2>1. recall[o] = {}
    BY <1>3 DEF ClaimRelease, RefundClaim, ImportsInv, RecallFits
  <2> QED BY <1>1, <1>3, <2>1 DEF ClaimRelease, RefundClaim, Advance, NoRefund, cdVars
<1>4. CASE DeleteReturningImports(o)
  <2>1. recall'[o] = ImportsOf(Stoppable(o)) /\ \A u \in Orders \ {o} : recall'[u] = recall[u]
    BY <1>0, <1>4 DEF DeleteReturningImports
  <2> QED BY <1>1, <1>4, <2>1 DEF DeleteReturningImports, RefundDelete, Advance
<1>5. CASE AbortRelease(o)
  <2>1. recall'[o] = {} /\ \A u \in Orders \ {o} : recall'[u] = recall[u]
    BY <1>0, <1>5 DEF AbortRelease
  <2> QED BY <1>1, <1>5, <2>1 DEF AbortRelease, RefundAbort, Advance, NoRefund
<1>6. CASE Report(o)
  BY <1>1, <1>6 DEF Report, RefundReport, Advance, NoRefund, cdVars
<1>7. CASE CancelImported(o)
  <2>1. PICK cancelled \in SUBSET recall[o] :
          /\ royalMail' = [i \in Imports |->
               IF i \in cancelled THEN [royalMail[i] EXCEPT !.state = "cancelled"] ELSE royalMail[i]]
          /\ stillLive' = stillLive \cup (recall[o] \ cancelled)
    BY <1>7 DEF CancelImported
  <2>2. /\ UNCHANGED <<refund, job, clickAndDropOrderId, push, recorded, replaced>>
        /\ recall' = [recall EXCEPT ![o] = {}]
        /\ refund[o].step = "report"
    BY <1>7 DEF CancelImported, vars, history
  <2>3. \A i \in Imports : /\ royalMail'[i].card = royalMail[i].card
                           /\ royalMail'[i].state = IF i \in cancelled THEN "cancelled" ELSE royalMail[i].state
    BY <2>1 DEF CDTypeOK
  <2>4. PushesFit'
    BY <2>2, <2>3 DEF ImportsInv, PushesFit
  <2>5. ASSUME NEW u \in Orders PROVE RecallFits(u)'
    BY <1>0, <2>2 DEF ImportsInv, RecallFits, ImportsOf
  <2>6. ASSUME NEW i \in recorded \ replaced PROVE Tracked(i)'
    <3>1. Tracked(i) /\ i \in Imports
      BY <2>6 DEF ImportsInv, CDTypeOK
    <3>2. CASE i \in recall[o]
      BY <2>1, <2>3, <3>1, <3>2 DEF Tracked
    <3>3. CASE i \notin recall[o]
      BY <1>0, <2>1, <2>2, <2>3, <3>1, <3>3 DEF Tracked
    <3> QED BY <3>2, <3>3
  <2>7. \A i \in recorded : royalMail'[i].state # "unused"
    BY <2>3 DEF ImportsInv, CDTypeOK
  <2> QED BY <2>2, <2>4, <2>5, <2>6, <2>7 DEF ImportsInv, JobExists
<1>8. CASE CommitRelease(o)
  <2>1. /\ UNCHANGED <<royalMail, push, recall, stillLive, recorded, replaced>>
        /\ refund[o].step = "deleted" /\ refund'[o].step = "report"
        /\ \A u \in Orders \ {o} : refund'[u] = refund[u]
        /\ \A c \in Cards : /\ clickAndDropOrderId'[c] = IF c \in refund[o].doomed THEN None
                                                         ELSE clickAndDropOrderId[c]
                            /\ job'[c] = IF c \in refund[o].doomed THEN "none" ELSE job[c]
    BY <1>0, <1>8 DEF CommitRelease, RefundCommit, Advance, NoRefund, history
  <2>2. PushesFit'
    BY <2>1 DEF ImportsInv, PushesFit
  <2>3. ASSUME NEW u \in Orders PROVE RecallFits(u)'
    <3>1. CASE u = o
      BY <2>1, <3>1 DEF RecallFits
    <3>2. CASE u # o
      <4>1. refund'[u] = refund[u] /\ recall'[u] = recall[u]
        BY <2>1, <3>2
      <4>2. \A c \in refund[u].doomed : clickAndDropOrderId'[c] = clickAndDropOrderId[c]
        BY <2>1, <3>2, DoomedOfOrder
      <4> QED BY <4>1, <4>2 DEF ImportsInv, RecallFits, ImportsOf
    <3> QED BY <3>1, <3>2
  <2>4. ASSUME NEW i \in recorded \ replaced PROVE Tracked(i)'
    <3>1. Tracked(i) /\ i \in Imports
      BY <2>4 DEF ImportsInv, CDTypeOK
    <3>2. PICK c \in Cards : c = royalMail[i].card
      BY <3>1 DEF Tracked
    <3>3. CASE clickAndDropOrderId[c] = i /\ c \in refund[o].doomed
      <4>1. OrderOf[c] = o
        BY <3>3, DoomedOfOrder
      <4>2. i \in recall[o]
        <5>1. recall[o] = ImportsOf(refund[o].doomed)
          BY <2>1 DEF ImportsInv, RecallFits
        <5> QED BY <3>1, <3>3, <5>1 DEF ImportsOf
      <4> QED BY <2>1, <3>2, <4>1, <4>2 DEF Tracked
    <3> QED BY <2>1, <3>1, <3>2, <3>3 DEF Tracked
  <2> QED BY <2>1, <2>2, <2>3, <2>4 DEF ImportsInv, JobExists
<1> QED BY <1>2, <1>3, <1>4, <1>5, <1>6, <1>7, <1>8 DEF ReleaseAndRecall

\* An import returns an identifier no job had on record; recording it replaces
\* what its own job had on record, and no list of a refund.
LEMMA ImportSteps ==
  ASSUME CDIInv, NEW w \in Pushers, Import(w)
  PROVE  ImportsInv'
<1> USE DEF CDIInv
<1>0. push \in [Pushers -> Push] /\ recorded \subseteq Imports
  BY DEF CDTypeOK
<1>1. ASSUME UNCHANGED <<vars, clickAndDropOrderId, royalMail, recall, stillLive, history>>, PushesFit'
      PROVE  ImportsInv'
  BY <1>1 DEF ImportsInv, RecallFits, ImportsOf, Tracked, JobExists, vars, history
<1>2. ASSUME NEW r, push' = [push EXCEPT ![w] = r], UNCHANGED royalMail,
             r.card # None => r.card = push[w].card /\ r.import = push[w].import
      PROVE  PushesFit'
  <2> SUFFICES ASSUME NEW v \in Pushers, push'[v].card # None
               PROVE  push'[v].card = push[v].card /\ push'[v].import = push[v].import
    BY <1>2 DEF ImportsInv, PushesFit
  <2> QED BY <1>0, <1>2
<1>3. CASE Sweep(w)
  <2>1. PushesFit'
    BY <1>0, <1>3 DEF Sweep, ImportsInv, PushesFit
  <2> QED BY <1>1, <1>3, <2>1 DEF Sweep
<1>4. ASSUME NEW c \in Cards, RetryJob(w, c) PROVE ImportsInv'
  <2>1. PushesFit'
    BY <1>0, <1>4 DEF RetryJob, ImportsInv, PushesFit
  <2> QED BY <1>1, <1>4, <2>1 DEF RetryJob
<1>5. CASE PusherCrash(w)
  <2>1. PushesFit'
    BY <1>2, <1>5 DEF PusherCrash, NoPush
  <2> QED BY <1>1, <1>5, <2>1 DEF PusherCrash
\* Royal Mail takes an order under an identifier it has not used.
<1>6. ASSUME NEW c \in Cards, NEW i \in Imports, royalMail[i].state = "unused",
             royalMail' = [royalMail EXCEPT ![i] = [state |-> "live", card |-> c]],
             UNCHANGED <<vars, clickAndDropOrderId, recall, stillLive, history>>, PushesFit'
      PROVE  ImportsInv'
  <2>1. \A j \in recorded : j # i /\ royalMail'[j] = royalMail[j]
    BY <1>0, <1>6 DEF ImportsInv, CDTypeOK
  <2>2. \A j \in recorded \ replaced : Tracked(j)'
    BY <1>6, <2>1 DEF ImportsInv, Tracked, vars
  <2> QED BY <1>6, <2>1, <2>2 DEF ImportsInv, RecallFits, ImportsOf, JobExists, vars, history
<1>7. ASSUME NEW c \in Cards, NEW i \in Imports, CreateOrder(w, c, i) PROVE ImportsInv'
  <2>1. PushesFit'
    <3> SUFFICES ASSUME NEW v \in Pushers, push'[v].card # None
                 PROVE  /\ push'[v].import \in Imports
                        /\ royalMail'[push'[v].import].state # "unused"
                        /\ royalMail'[push'[v].import].card = push'[v].card
      BY DEF PushesFit
    <3>1. /\ royalMail' = [royalMail EXCEPT ![i] = [state |-> "live", card |-> c]]
          /\ royalMail'[i] = [state |-> "live", card |-> c]
      BY <1>7 DEF CreateOrder, CDTypeOK
    <3>2. CASE v = w
      <4>1. push'[w].card = c /\ push'[w].import = i
        BY <1>0, <1>7 DEF CreateOrder, Push
      <4> QED BY <3>1, <3>2, <4>1
    <3>3. CASE v # w
      <4>1. push'[v] = push[v]
        BY <1>0, <1>7, <3>3 DEF CreateOrder
      <4>2. push[v].import # i
        BY <1>7, <4>1 DEF CreateOrder, ImportsInv, PushesFit
      <4> QED BY <1>7, <3>1, <4>1, <4>2 DEF ImportsInv, PushesFit, CDTypeOK
    <3> QED BY <3>2, <3>3
  <2> QED BY <1>6, <1>7, <2>1 DEF CreateOrder
<1>8. ASSUME NEW c \in Cards, CreateOrderFails(w, c) PROVE ImportsInv'
  <2>1. \A v \in Pushers : push'[v].card = push[v].card /\ push'[v].import = push[v].import
    BY <1>0, <1>8 DEF CreateOrderFails, Push
  <2>2. CASE UNCHANGED royalMail
    <3>1. PushesFit'
      BY <2>1, <2>2 DEF ImportsInv, PushesFit
    <3> QED BY <1>1, <1>8, <2>2, <3>1 DEF CreateOrderFails
  <2>3. ASSUME NEW i \in Imports, royalMail[i].state = "unused",
               royalMail' = [royalMail EXCEPT ![i] = [state |-> "live", card |-> c]]
        PROVE  ImportsInv'
    <3>1. \A v \in Pushers : push[v].card # None =>
            push[v].import # i /\ royalMail'[push[v].import] = royalMail[push[v].import]
      BY <2>3 DEF ImportsInv, PushesFit, CDTypeOK
    <3>2. PushesFit'
      BY <2>1, <3>1 DEF ImportsInv, PushesFit
    <3> QED BY <1>6, <1>8, <2>3, <3>2 DEF CreateOrderFails
  <2> QED BY <1>8, <2>2, <2>3 DEF CreateOrderFails
<1>9. CASE RecordImport(w)
  <2>1. PICK c : c = push[w].card
    OBVIOUS
  <2>2. PICK i : i = push[w].import
    OBVIOUS
  <2>3. c \in Cards /\ i \in Imports /\ i # None /\ royalMail[i].card = c /\ royalMail[i].state # "unused"
    BY <1>0, <1>9, <2>1, <2>2 DEF RecordImport, Push, ImportsInv, PushesFit
  <2>4. PushesFit' /\ UNCHANGED <<vars, royalMail, recall, stillLive>>
    BY <1>2, <1>9 DEF RecordImport, NoPush
  <2>5. CASE ~JobExists(c)
    BY <1>1, <1>9, <2>1, <2>4, <2>5 DEF RecordImport
  <2>6. CASE JobExists(c)
    <3>1. /\ clickAndDropOrderId'[c] = i
          /\ \A d \in Cards \ {c} : clickAndDropOrderId'[d] = clickAndDropOrderId[d]
          /\ recorded' = recorded \cup {i} /\ replaced' = replaced \cup ImportsOf({c})
          /\ c \notin refund[OrderOf[c]].doomed
      BY <1>9, <2>1, <2>2, <2>3, <2>6 DEF RecordImport, CDTypeOK
    <3>2. ASSUME NEW o \in Orders PROVE RecallFits(o)'
      <4>1. \A d \in refund[o].doomed : clickAndDropOrderId'[d] = clickAndDropOrderId[d]
        BY <3>1, DoomedOfOrder
      <4> QED BY <2>4, <4>1 DEF ImportsInv, RecallFits, ImportsOf, vars
    <3>3. ASSUME NEW j \in recorded' \ replaced' PROVE Tracked(j)'
      <4>1. CASE j = i
        BY <2>3, <2>4, <3>1, <4>1 DEF Tracked
      <4>2. CASE j # i
        <5>1. Tracked(j) /\ j # None
          BY <1>0, <3>1, <3>3, <4>2 DEF ImportsInv
        <5>2. clickAndDropOrderId[c] # j
          BY <3>1, <3>3, <5>1 DEF ImportsOf
        <5>3. \A d \in Cards : clickAndDropOrderId[d] = j => clickAndDropOrderId'[d] = j
          BY <3>1, <5>2
        <5> QED BY <2>4, <5>1, <5>3 DEF Tracked, vars
      <4> QED BY <4>1, <4>2
    <3>4. \A d \in Cards : clickAndDropOrderId'[d] # None => JobExists(d)'
      BY <2>4, <2>6, <3>1 DEF ImportsInv, JobExists, vars
    <3>5. \A j \in recorded' : royalMail'[j].state # "unused"
      BY <2>3, <2>4, <3>1 DEF ImportsInv
    <3> QED BY <2>4, <3>2, <3>3, <3>4, <3>5 DEF ImportsInv
  <2> QED BY <2>5, <2>6
<1> QED BY <1>3, <1>4, <1>5, <1>7, <1>8, <1>9 DEF Import
-------------------------------------------------------------------------------
LEMMA CDInvStep == CDIInv /\ [CDNext]_allVars => CDIInv'
<1> SUFFICES ASSUME CDIInv, [CDNext]_allVars PROVE CDIInv'
  OBVIOUS
<1> USE DEF CDIInv
<1>1. IInv'
  BY StepsOfFulfillment, InvStep
<1>2. CDTypeOK'
  <2>1. TypeOK'
    BY <1>1 DEF IInv
  <2>2. CDTypeOK /\ PushesFit
    BY DEF ImportsInv
  <2> QED BY <2>1, <2>2, CDTypeStep
<1>3. ASSUME UNCHANGED allVars PROVE ImportsInv'
  BY <1>3, ImportsUntouched DEF allVars, vars, JobExists
<1>4. ASSUME UNCHANGED cdVars, \/ \E p \in Workers : Transition(p)
                               \/ \E c \in Cards : Claim(c) \/ MarkReturned(c)
      PROVE  ImportsInv'
  <2>1. UNCHANGED refund /\ \A c \in Cards : JobExists(c) => JobExists(c)'
    BY <1>4, JobsKept
  <2> QED BY <1>4, <2>1, ImportsUntouched
<1>5. ImportsInv'
  BY <1>3, <1>4, RecallSteps, ImportSteps DEF CDNext
<1> QED BY <1>1, <1>2, <1>5

\* Whatever the interleaving of imports, refunds and fulfilment: the lists of
\* the refunds are those of the rows deleted, and an import once on record is
\* on its job, in such a list, cancelled, or escalated.
THEOREM CDInvariant == CDSpec => []CDIInv
BY CDInvInit, CDInvStep, PTL DEF CDSpec

\* The identifiers on jobs, in Royal Mail's queue, in hand and to be recalled
\* stay identifiers Royal Mail gave, one for each call.
THEOREM CDTypeCorrect == CDSpec => []CDTypeOK
<1>1. CDIInv => CDTypeOK
  BY DEF CDIInv
<1> QED BY CDInvariant, <1>1, PTL

\* batch-orders.service.ts: the import on record of a job its refund deleted is
\* cancelled, or escalated by clickAndDropCancelFailed.
THEOREM ImportsAreRecalled == CDSpec => []RecordedImportsAreRecalled
<1>1. ASSUME CDIInv PROVE RecordedImportsAreRecalled
  <2> SUFFICES ASSUME NEW i \in recorded \ replaced, NEW c, c = royalMail[i].card,
                      refund[OrderOf[c]].step = "done", job[c] = "none"
               PROVE  royalMail[i].state = "cancelled" \/ i \in stillLive
    BY DEF RecordedImportsAreRecalled
  <2>1. Tracked(i) /\ i \in Imports
    BY <1>1 DEF CDIInv, ImportsInv, CDTypeOK
  <2>2. clickAndDropOrderId[c] # i
    BY <1>1, <2>1 DEF CDIInv, ImportsInv, Tracked, JobExists
  <2> QED BY <2>1, <2>2 DEF Tracked
<1> QED BY CDInvariant, <1>1, PTL

\* Running the queue beside it changes nothing of what Fulfillment promises.
THEOREM QueueImplementsFulfillment == CDSpec => Spec
<1>1. CDInit => Init
  BY DEF CDInit
<1> QED BY <1>1, StepsOfFulfillment, PTL DEF CDSpec, Spec
===============================================================================
