----------------------------- MODULE Returns_proofs ----------------------------
(* Theorems of Returns.tla: types, one free card, and the hold that outlives *)
(* the case.                                                                *)
EXTENDS Returns, TLAPS

USE ReturnsAssumption DEF posting

\* A request that has read knows its case, which is never forgotten, and where
\* its card is to go.
RequestKnows ==
  \A r \in Requests :
    /\ request[r].op # "idle" => request[r].of \in Cards /\ case[request[r].of].status # "none"
    /\ request[r].op \in Recoveries \cup {"address", "repoint"} => request[r].to \in Addresses
    /\ request[r].claimed => request[r].op \in Recoveries \cup {"archive"}

Types == TypeOK /\ RequestKnows

\* A case's row has one holder, who recovers nothing already recovered; a free
\* card is on record with the case it came from.
RecoveryIsOnce ==
  /\ \A r, q \in Requests :
        request[r].claimed /\ request[q].claimed /\ request[r].of = request[q].of => r = q
  /\ \A r \in Requests : request[r].claimed /\ request[r].op \in Recoveries =>
        ~case[request[r].of].freeRecoveryUsed
  /\ \A c \in Cards : case[c].freeRecoveryUsed => case[c].status # "none"
  /\ \A n \in Cards : recoveryOf[n] # None => case[recoveryOf[n]].freeRecoveryUsed
  /\ OneFreeCard

Threatened(c) == \E r \in Requests : request[r].op = "repoint" /\ c \in request[r].waiting

\* A returned card holds address a, and no repoint is about to change its line.
Covered(a) == \E e \in Cards : case[e].status # "none" /\ address[e] = a /\ ~Threatened(e)

\* While repoints come one at a time: a repoint's own card stays as evidence,
\* and a card sent to where its line does not say has evidence elsewhere.
HoldIsKept ==
  /\ \A c \in Cards : case[c].status # "none" <=> card[c] = "returned"
  /\ \A c \in Cards : card[c] = "none" => dispatching[c] = None
  /\ ~overlapped =>
       /\ \A r, q \in Requests : request[r].op = "repoint" /\ request[q].op = "repoint" => r = q
       /\ \A r \in Requests : request[r].op = "repoint" =>
            /\ request[r].of \notin request[r].waiting
            /\ \A d \in Cards : d \in request[r].waiting =>
                 card[d] # "none" /\ address[d] = address[request[r].of]
       /\ \A c \in Cards : dispatching[c] # None =>
            address[c] = dispatching[c] \/ Covered(dispatching[c])
       /\ \A c \in Cards : card[c] \in {"posted", "returned"} =>
            address[c] = wentTo[c] \/ Covered(wentTo[c])

LEMMA IdleIsRequest == Idle \in Request /\ Idle.op = "idle" /\ ~Idle.claimed
BY DEF Idle, Request

LEMMA InitTypes == Init => Types
<1> SUFFICES ASSUME Init PROVE Types OBVIOUS
<1>1. NoCase \in Case BY DEF NoCase, Case, OpenCase
<1>2. TypeOK BY <1>1, IdleIsRequest DEF Init, TypeOK
<1>3. RequestKnows BY DEF Init, RequestKnows, Idle, Recoveries
<1> QED BY <1>2, <1>3 DEF Types

\* A request reads: it was idle, and is now well formed.
LEMMA ReadTypes ==
  ASSUME Types, NEW r \in Requests, NEW q \in Request, Reads(r, q),
         q.of \in Cards, case[q.of].status # "none", ~q.claimed,
         q.op \in Recoveries \cup {"address", "repoint"} => q.to \in Addresses
  PROVE  Types'
<1>1. UNCHANGED <<card, address, wentTo, recoveryOf, contact, flagged, case, posting>>
  BY DEF Reads, cards
<1>2. /\ request' = [request EXCEPT ![r] = q]
      /\ overlapped' \in BOOLEAN
  BY DEF Reads, Types, TypeOK
<1>3. TypeOK' BY <1>1, <1>2 DEF Types, TypeOK
<1>4. RequestKnows' BY <1>1, <1>2 DEF Types, TypeOK, RequestKnows
<1> QED BY <1>3, <1>4 DEF Types

\* What a request has read is well formed; a repoint, the cards at its case's line.
LEMMA ReadGives ==
  ASSUME TypeOK, NEW r \in Requests, NEW c \in Cards, Read(r, c)
  PROVE  \E q \in Request :
           /\ Reads(r, q) /\ ~q.claimed /\ q.of = c /\ q.of \in Cards /\ case[q.of].status # "none"
           /\ q.op \in Recoveries \cup {"address", "repoint"} => q.to \in Addresses
           /\ q.op = "repoint" => q.waiting = WaitingOn(c)
<1> USE DEF Idle
<1>1. ASSUME NEW a \in Supplied, ReadForAddress(r, c, a)
      PROVE  \E q \in Request : Reads(r, q) /\ q.op = "address" /\ q.of = c /\ q.to = a /\ ~q.claimed
  <2> DEFINE q == [Idle EXCEPT !.op = "address", !.of = c, !.to = a]
  <2>1. q \in Request /\ q.op = "address" /\ q.of = c /\ q.to = a /\ ~q.claimed BY DEF Request
  <2>2. Reads(r, q) BY <1>1 DEF ReadForAddress
  <2> HIDE DEF q
  <2> QED BY <2>1, <2>2
<1>2. ASSUME ReadForResend(r, c)
      PROVE  \E q \in Request : Reads(r, q) /\ q.op = "resend" /\ q.of = c /\ q.to = contact /\ ~q.claimed
  <2> DEFINE q == [Idle EXCEPT !.op = "resend", !.of = c, !.to = contact]
  <2>1. q \in Request /\ q.op = "resend" /\ q.of = c /\ q.to = contact /\ ~q.claimed
    BY DEF Request, Recoveries, TypeOK
  <2>2. Reads(r, q) BY <1>2 DEF ReadForResend
  <2> HIDE DEF q
  <2> QED BY <2>1, <2>2
<1>3. ASSUME ReadForBusiness(r, c)
      PROVE  \E q \in Request : Reads(r, q) /\ q.op = "business" /\ q.of = c /\ q.to = Business /\ ~q.claimed
  <2> DEFINE q == [Idle EXCEPT !.op = "business", !.of = c, !.to = Business]
  <2>1. q \in Request /\ q.op = "business" /\ q.of = c /\ q.to = Business /\ ~q.claimed
    BY DEF Request, Recoveries
  <2>2. Reads(r, q) BY <1>3 DEF ReadForBusiness
  <2> HIDE DEF q
  <2> QED BY <2>1, <2>2
<1>4. ASSUME ReadForArchive(r, c)
      PROVE  \E q \in Request : Reads(r, q) /\ q.op = "archive" /\ q.of = c /\ ~q.claimed
  <2> DEFINE q == [Idle EXCEPT !.op = "archive", !.of = c]
  <2>1. q \in Request /\ q.op = "archive" /\ q.of = c /\ ~q.claimed BY DEF Request
  <2>2. Reads(r, q) BY <1>4 DEF ReadForArchive
  <2> HIDE DEF q
  <2> QED BY <2>1, <2>2
<1>5. ASSUME ReadForRepoint(r, c)
      PROVE  \E q \in Request : /\ Reads(r, q) /\ q.op = "repoint" /\ q.of = c /\ q.to = contact
                                /\ q.waiting = WaitingOn(c) /\ ~q.claimed
  <2> DEFINE q == [Idle EXCEPT !.op = "repoint", !.of = c, !.to = contact, !.waiting = WaitingOn(c)]
  <2>1. /\ q \in Request /\ q.op = "repoint" /\ q.of = c /\ q.to = contact
        /\ q.waiting = WaitingOn(c) /\ ~q.claimed
    BY DEF Request, WaitingOn, TypeOK
  <2>2. Reads(r, q) BY <1>5 DEF ReadForRepoint
  <2> HIDE DEF q
  <2> QED BY <2>1, <2>2
<1>6. case[c].status # "none" /\ contact \in Addresses
  BY DEF Read, ReadForAddress, ReadForResend, ReadForBusiness, ReadForArchive, ReadForRepoint,
         OpenCase, TypeOK
<1>7. \/ \E a \in Supplied : ReadForAddress(r, c, a)
      \/ ReadForResend(r, c) \/ ReadForBusiness(r, c) \/ ReadForArchive(r, c) \/ ReadForRepoint(r, c)
  BY DEF Read
<1> QED BY <1>1, <1>2, <1>3, <1>4, <1>5, <1>6, <1>7, ReturnsAssumption DEF Recoveries

\* The types are kept by each step.
LEMMA TypesStep == Types /\ [Next]_vars => Types'
<1> SUFFICES ASSUME Types, [Next]_vars PROVE Types' OBVIOUS
<1>0. TypeOK /\ RequestKnows BY DEF Types
<1>1. ASSUME NEW c \in Cards, Mailing(c) PROVE Types'
  <2>0. CASE CheckHold(c) BY <1>0, <2>0 DEF CheckHold, cards, Types, TypeOK, RequestKnows
  <2>1. CASE Post(c)
    <3>1. /\ card' \in [Cards -> {"none", "open", "posted", "returned"}]
          /\ wentTo' \in [Cards -> Addresses \cup {None}]
          /\ checked' \in SUBSET Cards
      BY <1>0, <2>1 DEF Post, TypeOK
    <3> QED BY <1>0, <2>1, <3>1 DEF Post, Types, TypeOK, RequestKnows
  <2>2. CASE BuyLabel(c) BY <1>0, <2>2 DEF BuyLabel, cards, Types, TypeOK, RequestKnows
  <2>3. CASE PostLabelled(c)
    <3>1. /\ card' \in [Cards -> {"none", "open", "posted", "returned"}]
          /\ wentTo' \in [Cards -> Addresses \cup {None}]
          /\ dispatching' \in [Cards -> Addresses \cup {None}]
      BY <1>0, <2>3 DEF PostLabelled, TypeOK
    <3> QED BY <1>0, <2>3, <3>1 DEF PostLabelled, Types, TypeOK, RequestKnows
  <2>4. CASE MarkReturned(c)
    <3> DEFINE opened == [NoCase EXCEPT !.status = "awaiting_address"]
    <3>a. opened \in Case /\ opened.status # "none" BY DEF NoCase, Case, OpenCase
    <3> HIDE DEF opened
    <3>1. case' = [case EXCEPT ![c] = opened] BY <2>4 DEF MarkReturned, opened
    <3>2. case' \in [Cards -> Case] BY <1>0, <3>a, <3>1 DEF TypeOK
    <3>3. \A d \in Cards : case[d].status # "none" => case'[d].status # "none"
      BY <1>0, <3>a, <3>1 DEF TypeOK
    <3> QED BY <1>0, <2>4, <3>2, <3>3 DEF MarkReturned, Types, TypeOK, RequestKnows
  <2> QED BY <1>1, <2>0, <2>1, <2>2, <2>3, <2>4 DEF Mailing
<1>2. ASSUME NEW a \in Supplied, EditContact(a) PROVE Types'
  BY <1>0, <1>2 DEF EditContact, cards, Types, TypeOK, RequestKnows
<1>3. ASSUME NEW r \in Requests, NEW c \in Cards, Read(r, c) PROVE Types'
  BY <1>0, <1>3, ReadGives, ReadTypes
<1>4. ASSUME NEW r \in Requests, UpdateAddress(r) PROVE Types'
  <2>1. /\ request[r].of \in Cards /\ request[r].to \in Addresses BY <1>0, <1>4 DEF UpdateAddress, RequestKnows
  <2>2. /\ contact' = request[r].to
        /\ case' = [case EXCEPT ![request[r].of].status = "awaiting_resend",
                                ![request[r].of].addressUpdated = TRUE]
        /\ request' = [request EXCEPT ![r] = Idle]
        /\ UNCHANGED <<cards, flagged, posting, overlapped>>
    BY <1>4 DEF UpdateAddress
  <2>3. case' \in [Cards -> Case]
    <3>1. \A k \in Case : [k EXCEPT !.status = "awaiting_resend", !.addressUpdated = TRUE] \in Case
      BY DEF Case, OpenCase
    <3> QED BY <1>0, <2>1, <2>2, <3>1 DEF TypeOK
  <2>4. \A d \in Cards : case[d].status # "none" => case'[d].status # "none" BY <1>0, <2>2 DEF TypeOK, Case
  <2> QED BY <1>0, <2>1, <2>2, <2>3, <2>4, IdleIsRequest DEF cards, Types, TypeOK, RequestKnows, Idle, Recoveries
<1>5. ASSUME NEW r \in Requests, ClaimCase(r) PROVE Types'
  <2>1. PICK b \in BOOLEAN :
          request' = [request EXCEPT ![r] =
            IF MayClose(request[r]) THEN [request[r] EXCEPT !.claimed = TRUE, !.last = b] ELSE Idle]
    <3>1. (\A d \in Cards \ {request[r].of} : case[d].status \notin OpenCase) \in BOOLEAN OBVIOUS
    <3> QED BY <1>5, <3>1 DEF ClaimCase
  <2> DEFINE claimed == [request[r] EXCEPT !.claimed = TRUE, !.last = b]
  <2>2. claimed \in Request /\ claimed.claimed = TRUE /\ claimed.op = request[r].op
        /\ claimed.of = request[r].of /\ claimed.to = request[r].to
    <3>1. PICK q \in Request : q = request[r] BY <1>0 DEF TypeOK
    <3>2. /\ [q EXCEPT !.claimed = TRUE, !.last = b] \in Request
          /\ [q EXCEPT !.claimed = TRUE, !.last = b].claimed = TRUE
          /\ [q EXCEPT !.claimed = TRUE, !.last = b].op = q.op
          /\ [q EXCEPT !.claimed = TRUE, !.last = b].of = q.of
          /\ [q EXCEPT !.claimed = TRUE, !.last = b].to = q.to
      BY DEF Request
    <3> QED BY <3>1, <3>2
  <2>3. request' = [request EXCEPT ![r] = IF MayClose(request[r]) THEN claimed ELSE Idle]
        /\ request[r].op \in Recoveries \cup {"archive"}
        /\ UNCHANGED <<cards, contact, flagged, case, posting, overlapped>>
    BY <1>5, <2>1 DEF ClaimCase
  <2> HIDE DEF claimed
  <2>4. CASE MayClose(request[r])
    <3>1. request' = [request EXCEPT ![r] = claimed] BY <2>3, <2>4
    <3>2. TypeOK' BY <1>0, <2>2, <2>3, <3>1 DEF cards, TypeOK
    <3>3. RequestKnows' BY <1>0, <2>2, <2>3, <3>1 DEF TypeOK, RequestKnows
    <3> QED BY <3>2, <3>3 DEF Types
  <2>5. CASE ~MayClose(request[r])
    <3>1. request' = [request EXCEPT ![r] = Idle] BY <2>3, <2>5
    <3>2. TypeOK' BY <1>0, <2>3, <3>1, IdleIsRequest DEF cards, Types, TypeOK
    <3>3. RequestKnows' BY <1>0, <2>3, <3>1 DEF TypeOK, RequestKnows, Idle, Recoveries
    <3> QED BY <3>2, <3>3 DEF Types
  <2> QED BY <2>4, <2>5
<1>6. ASSUME NEW r \in Requests, NEW status \in {"resolved", "archived"}, NEW used \in BOOLEAN,
             Closes(r, status, used), request[r].claimed
      PROVE  /\ case' \in [Cards -> Case] /\ flagged' \in BOOLEAN /\ request' \in [Requests -> Request]
             /\ RequestKnows'
  <2>1. request[r].of \in Cards BY <1>0, <1>6 DEF RequestKnows, Recoveries
  <2>2. /\ case' = [case EXCEPT ![request[r].of].status = status, ![request[r].of].freeRecoveryUsed = used]
        /\ request' = [request EXCEPT ![r] = Idle]
        /\ flagged' \in BOOLEAN
    BY <1>6 DEF Closes
  <2>3. case' \in [Cards -> Case] BY <1>0, <2>1, <2>2 DEF TypeOK, Case, OpenCase
  <2>4. \A d \in Cards : case[d].status # "none" => case'[d].status # "none" BY <1>0, <2>2 DEF TypeOK, Case
  <2>5. request' \in [Requests -> Request] BY <1>0, <2>2, IdleIsRequest DEF TypeOK
  <2>6. RequestKnows' BY <1>0, <2>2, <2>4 DEF TypeOK, RequestKnows, Idle, Recoveries
  <2> QED BY <2>2, <2>3, <2>5, <2>6
<1>7. ASSUME NEW r \in Requests, NEW n \in Cards, Recover(r, n) PROVE Types'
  <2>1. /\ Closes(r, "resolved", TRUE) /\ request[r].claimed
        /\ request[r].of \in Cards /\ request[r].to \in Addresses
    BY <1>0, <1>7 DEF Recover, RequestKnows, Recoveries
  <2>2. /\ case' \in [Cards -> Case] /\ flagged' \in BOOLEAN /\ request' \in [Requests -> Request]
        /\ RequestKnows'
    BY <1>6, <2>1
  <2>3. /\ card' = [card EXCEPT ![n] = "open"]
        /\ address' = [address EXCEPT ![n] = request[r].to]
        /\ recoveryOf' = [recoveryOf EXCEPT ![n] = request[r].of]
        /\ UNCHANGED <<wentTo, contact, posting, overlapped>>
    BY <1>7 DEF Recover
  <2> QED BY <1>0, <2>1, <2>2, <2>3 DEF Types, TypeOK
<1>8. ASSUME NEW r \in Requests, Archive(r) PROVE Types'
  <2>1. /\ Closes(r, "archived", case[request[r].of].freeRecoveryUsed) /\ request[r].claimed
        /\ request[r].of \in Cards
        /\ UNCHANGED <<cards, contact, posting, overlapped>>
    BY <1>0, <1>8 DEF Archive, RequestKnows
  <2>2. case[request[r].of].freeRecoveryUsed \in BOOLEAN BY <1>0, <2>1 DEF TypeOK, Case
  <2>3. /\ case' \in [Cards -> Case] /\ flagged' \in BOOLEAN /\ request' \in [Requests -> Request]
        /\ RequestKnows'
    BY <1>6, <2>1, <2>2
  <2> QED BY <1>0, <2>1, <2>3 DEF cards, Types, TypeOK
<1>9. ASSUME NEW r \in Requests, Repoint(r) PROVE Types'
  <2>1. /\ request[r].to \in Addresses
        /\ address' = [c \in Cards |-> IF c \in request[r].waiting THEN request[r].to ELSE address[c]]
        /\ request' = [request EXCEPT ![r] = Idle]
        /\ UNCHANGED <<card, wentTo, recoveryOf, contact, flagged, case, posting, overlapped>>
    BY <1>0, <1>9 DEF Repoint, RequestKnows
  <2>2. address' \in [Cards -> Addresses] BY <1>0, <2>1 DEF TypeOK
  <2> QED BY <1>0, <2>1, <2>2, IdleIsRequest DEF Types, TypeOK, RequestKnows, Idle, Recoveries
<1>10. ASSUME NEW r \in Requests, RequestFails(r) PROVE Types'
  BY <1>0, <1>10, IdleIsRequest DEF RequestFails, cards, Types, TypeOK, RequestKnows, Idle, Recoveries
<1>11. CASE UNCHANGED vars
  BY <1>0, <1>11 DEF vars, cards, Types, TypeOK, RequestKnows
<1> QED BY <1>1, <1>2, <1>3, <1>4, <1>5, <1>7, <1>8, <1>9, <1>10, <1>11 DEF Next, Handle
-------------------------------------------------------------------------------
\* Every variable of the returns keeps its type.
THEOREM TypeCorrect == Spec => []TypeOK
<1>1. Types => TypeOK BY DEF Types
<1> QED BY <1>1, InitTypes, TypesStep, PTL DEF Spec
-------------------------------------------------------------------------------
\* What a step does to the fact that a recovery is once: claims are only handed
\* out with the row, and a used case stays used.
LEMMA OnceStep == Types /\ RecoveryIsOnce /\ [Next]_vars => RecoveryIsOnce'
<1> SUFFICES ASSUME Types, RecoveryIsOnce, [Next]_vars PROVE RecoveryIsOnce' OBVIOUS
<1>0. TypeOK /\ RequestKnows BY DEF Types
<1>a. ASSUME UNCHANGED <<recoveryOf, request>>, \A d \in Cards : case'[d] = case[d]
      PROVE  RecoveryIsOnce'
  BY <1>0, <1>a DEF TypeOK, RecoveryIsOnce, OneFreeCard, RequestKnows, Recoveries
<1>b. ASSUME NEW r \in Requests, NEW q \in Request, ~q.claimed, request' = [request EXCEPT ![r] = q],
             UNCHANGED <<recoveryOf, case>>
      PROVE  RecoveryIsOnce'
  BY <1>0, <1>b DEF TypeOK, RecoveryIsOnce, OneFreeCard, RequestKnows, Recoveries
<1>1. ASSUME NEW c \in Cards, Mailing(c) PROVE RecoveryIsOnce'
  <2>1. CASE CheckHold(c) \/ Post(c) \/ BuyLabel(c) \/ PostLabelled(c)
    BY <1>a, <2>1 DEF CheckHold, Post, BuyLabel, PostLabelled, cards
  <2>2. CASE MarkReturned(c)
    <3> DEFINE opened == [NoCase EXCEPT !.status = "awaiting_address"]
    <3>a. opened \in Case /\ opened.status # "none" /\ ~opened.freeRecoveryUsed
      BY DEF NoCase, Case, OpenCase
    <3> HIDE DEF opened
    <3>1. case' = [case EXCEPT ![c] = opened] /\ case[c].status = "none" /\ UNCHANGED <<recoveryOf, request>>
      BY <2>2 DEF MarkReturned, opened
    <3>2. ~case[c].freeRecoveryUsed BY <3>1 DEF RecoveryIsOnce
    <3> QED BY <1>0, <3>a, <3>1, <3>2 DEF TypeOK, RecoveryIsOnce, OneFreeCard, RequestKnows, Recoveries
  <2> QED BY <1>1, <2>1, <2>2 DEF Mailing
<1>2. ASSUME NEW a \in Supplied, EditContact(a) PROVE RecoveryIsOnce'
  BY <1>a, <1>2 DEF EditContact, cards
<1>3. ASSUME NEW r \in Requests, NEW c \in Cards, Read(r, c) PROVE RecoveryIsOnce'
  <2>1. PICK q \in Request : Reads(r, q) /\ ~q.claimed BY <1>0, <1>3, ReadGives
  <2> QED BY <1>b, <2>1 DEF Reads, cards
<1>4. ASSUME NEW r \in Requests, UpdateAddress(r) PROVE RecoveryIsOnce'
  <2>1. /\ request[r].of \in Cards
        /\ case' = [case EXCEPT ![request[r].of].status = "awaiting_resend",
                                ![request[r].of].addressUpdated = TRUE]
        /\ request' = [request EXCEPT ![r] = Idle]
        /\ UNCHANGED recoveryOf
    BY <1>0, <1>4 DEF UpdateAddress, RequestKnows, cards
  <2>2. \A d \in Cards : /\ case'[d].freeRecoveryUsed = case[d].freeRecoveryUsed
                         /\ case[d].status # "none" => case'[d].status # "none"
    BY <1>0, <2>1 DEF TypeOK, Case
  <2> QED BY <1>0, <2>1, <2>2, IdleIsRequest DEF TypeOK, RecoveryIsOnce, OneFreeCard, RequestKnows, Recoveries
<1>5. ASSUME NEW r \in Requests, ClaimCase(r) PROVE RecoveryIsOnce'
  <2>0. UNCHANGED <<recoveryOf, case>> BY <1>5 DEF ClaimCase, cards
  <2>1. CASE ~MayClose(request[r])
    <3>1. request' = [request EXCEPT ![r] = Idle] BY <1>5, <2>1 DEF ClaimCase
    <3> QED BY <1>b, <2>0, <3>1, IdleIsRequest
  <2>2. CASE MayClose(request[r])
    <3>1. PICK k : /\ request' = [request EXCEPT ![r] = k]
                   /\ k.of = request[r].of /\ k.op = request[r].op
      <4> DEFINE last == \A d \in Cards \ {request[r].of} : case[d].status \notin OpenCase
                 k == [request[r] EXCEPT !.claimed = TRUE, !.last = last]
      <4>1. request' = [request EXCEPT ![r] = k] BY <1>5, <2>2 DEF ClaimCase
      <4>2. k.of = request[r].of /\ k.op = request[r].op
        <5>1. PICK q \in Request : q = request[r] BY <1>0 DEF TypeOK
        <5> HIDE DEF last
        <5>2. /\ [q EXCEPT !.claimed = TRUE, !.last = last].of = q.of
              /\ [q EXCEPT !.claimed = TRUE, !.last = last].op = q.op
          BY DEF Request
        <5> QED BY <5>1, <5>2
      <4> HIDE DEF k
      <4> QED BY <4>1, <4>2
    <3>2. ~Locked(r, request[r].of) /\ (request[r].op \in Recoveries => ~case[request[r].of].freeRecoveryUsed)
      BY <1>5, <2>2 DEF ClaimCase, MayClose
    <3>3. \A q \in Requests \ {r} : request'[q] = request[q] /\ ~(request[q].claimed /\ request[q].of = request[r].of)
      BY <1>0, <3>1, <3>2 DEF TypeOK, Locked
    <3>4. request'[r].of = request[r].of /\ request'[r].op = request[r].op BY <1>0, <3>1 DEF TypeOK
    <3> QED BY <2>0, <3>2, <3>3, <3>4 DEF RecoveryIsOnce, OneFreeCard
  <2> QED BY <2>1, <2>2
<1>6. ASSUME NEW r \in Requests, NEW n \in Cards, Recover(r, n) PROVE RecoveryIsOnce'
  <2> DEFINE c == request[r].of
  <2>1. /\ c \in Cards /\ request[r].claimed /\ request[r].op \in Recoveries
        /\ recoveryOf' = [recoveryOf EXCEPT ![n] = c]
        /\ case' = [case EXCEPT ![c].status = "resolved", ![c].freeRecoveryUsed = TRUE]
        /\ request' = [request EXCEPT ![r] = Idle]
    BY <1>0, <1>6 DEF Recover, Closes, RequestKnows, Recoveries
  <2> HIDE DEF c
  <2>2. case'[c].freeRecoveryUsed /\ case'[c].status # "none" /\ \A d \in Cards \ {c} : case'[d] = case[d]
    BY <1>0, <2>1 DEF TypeOK, Case
  <2>3. c = request[r].of BY DEF c
  <2>4. ~case[c].freeRecoveryUsed BY <2>1, <2>3 DEF RecoveryIsOnce
  <2>5. \A m \in Cards : recoveryOf[m] # c
    BY <2>1, <2>4, ReturnsAssumption DEF RecoveryIsOnce
  <2>6. \A q \in Requests : request'[q].claimed => q # r /\ request'[q] = request[q] /\ request[q].of # c
    BY <1>0, <2>1, <2>3, IdleIsRequest DEF TypeOK, RecoveryIsOnce
  <2>7. \A m \in Cards : recoveryOf'[m] = IF m = n THEN c ELSE recoveryOf[m] BY <1>0, <2>1 DEF TypeOK
  <2>8. OneFreeCard' BY <2>5, <2>7 DEF RecoveryIsOnce, OneFreeCard
  <2>9. \A q \in Requests : request[q].claimed => request[q].of \in Cards BY <1>0 DEF RequestKnows, Recoveries
  <2>10. \A m \in Cards : recoveryOf[m] \in Cards \cup {None} BY <1>0 DEF TypeOK
  <2> QED BY <2>2, <2>6, <2>7, <2>8, <2>9, <2>10 DEF RecoveryIsOnce
<1>7. ASSUME NEW r \in Requests, Archive(r) PROVE RecoveryIsOnce'
  <2> DEFINE c == request[r].of
  <2>1. /\ c \in Cards /\ UNCHANGED recoveryOf
        /\ case' = [case EXCEPT ![c].status = "archived", ![c].freeRecoveryUsed = case[c].freeRecoveryUsed]
        /\ request' = [request EXCEPT ![r] = Idle]
    BY <1>0, <1>7 DEF Archive, Closes, RequestKnows, cards
  <2> HIDE DEF c
  <2>2. \A d \in Cards : case'[d].freeRecoveryUsed = case[d].freeRecoveryUsed
                      /\ (case[d].status # "none" => case'[d].status # "none")
    BY <1>0, <2>1 DEF TypeOK, Case
  <2> QED BY <1>0, <2>1, <2>2, IdleIsRequest DEF TypeOK, RecoveryIsOnce, OneFreeCard, RequestKnows, Recoveries
<1>8. ASSUME NEW r \in Requests, Repoint(r) \/ RequestFails(r) PROVE RecoveryIsOnce'
  BY <1>b, <1>8, IdleIsRequest DEF Repoint, RequestFails, cards
<1>9. CASE UNCHANGED vars BY <1>a, <1>9 DEF vars, cards
<1> QED BY <1>1, <1>2, <1>3, <1>4, <1>5, <1>6, <1>7, <1>8, <1>9 DEF Next, Handle

\* The Kudos Promise is one card (recoverOnce), for any number of requests.
THEOREM OneFree == Spec => []OneFreeCard
<1>1. Init => RecoveryIsOnce
  BY IdleIsRequest DEF Init, RecoveryIsOnce, OneFreeCard, NoCase, Idle
<1>2. RecoveryIsOnce => OneFreeCard BY DEF RecoveryIsOnce
<1> QED BY <1>1, <1>2, InitTypes, TypesStep, OnceStep, PTL DEF Spec
-------------------------------------------------------------------------------
\* A step that leaves the cards and their lines alone, begins no repoint and
\* forgets no case keeps the hold.
LEMMA QuietStep ==
  ASSUME Types, HoldIsKept, NEW r \in Requests, NEW q \in Request, q.op # "repoint",
         request' = [request EXCEPT ![r] = q],
         \A c \in Cards : case[c].status # "none" <=> case'[c].status # "none",
         UNCHANGED <<card, address, wentTo, dispatching>>, overlapped' = overlapped
  PROVE  HoldIsKept'
<1>1. \A p \in Requests : request'[p].op = "repoint" => request'[p] = request[p]
  BY DEF Types, TypeOK
<1>2. \A c \in Cards : Threatened(c)' => Threatened(c)
  BY <1>1 DEF Threatened
<1>3. \A a : Covered(a) => Covered(a)'
  BY <1>2 DEF Covered
<1> QED BY <1>1, <1>3 DEF HoldIsKept

\* A repoint is read: the cards that hold an address have come back, and none of
\* them waits.
LEMMA RepointRead ==
  ASSUME Types, HoldIsKept, NEW r \in Requests, NEW q \in Request, Reads(r, q), q.op = "repoint",
         q.of \in Cards, case[q.of].status # "none", q.waiting = WaitingOn(q.of)
  PROVE  HoldIsKept'
<1>1. /\ request' = [request EXCEPT ![r] = q]
      /\ UNCHANGED <<card, address, wentTo, case, dispatching>>
      /\ ~overlapped' => ~overlapped /\ \A p \in Requests : request[p].op # "repoint"
  BY DEF Reads, cards
<1>2. /\ \A p \in Requests : request'[p] = IF p = r THEN q ELSE request[p]
      /\ \A d \in q.waiting : d \in Cards /\ card[d] = "open" /\ address[d] = address[q.of]
  BY <1>1 DEF Types, TypeOK, WaitingOn
<1>3. /\ q.of \notin q.waiting
      /\ \A e \in Cards : case[e].status # "none" => e \notin q.waiting
  BY <1>2 DEF HoldIsKept
<1>4. ASSUME ~overlapped', NEW a, Covered(a) PROVE Covered(a)'
  BY <1>1, <1>2, <1>3, <1>4 DEF Covered, Threatened
<1> QED BY <1>1, <1>2, <1>3, <1>4 DEF HoldIsKept

\* A repoint is written: its own card keeps the old address on hold.
LEMMA RepointWritten ==
  ASSUME Types, HoldIsKept, NEW r \in Requests, Repoint(r)
  PROVE  HoldIsKept'
<1>1. /\ request[r].op = "repoint" /\ request' = [request EXCEPT ![r] = Idle]
      /\ address' = [c \in Cards |-> IF c \in request[r].waiting THEN request[r].to ELSE address[c]]
      /\ UNCHANGED <<card, wentTo, case, dispatching, overlapped>>
  BY DEF Repoint
<1>2. \A p \in Requests : request'[p] = IF p = r THEN Idle ELSE request[p]
  BY <1>1 DEF Types, TypeOK
<1>3. request[r].of \in Cards /\ case[request[r].of].status # "none"
  BY <1>1 DEF Types, RequestKnows
<1>4. ASSUME ~overlapped
      PROVE  /\ \A p \in Requests : request'[p].op # "repoint"
             /\ \A c \in Cards : ~Threatened(c)'
             /\ \A a : a = address[request[r].of] => Covered(a)'
             /\ \A a : Covered(a) => Covered(a)'
  <2>1. \A p \in Requests : request'[p].op # "repoint"
    BY <1>1, <1>2, <1>4, IdleIsRequest DEF HoldIsKept
  <2>2. \A c \in Cards : ~Threatened(c)' BY <2>1 DEF Threatened
  <2>3. ASSUME NEW a, a = address[request[r].of] PROVE Covered(a)'
    <3>1. address'[request[r].of] = address[request[r].of] BY <1>1, <1>3, <1>4 DEF HoldIsKept
    <3> QED BY <1>1, <1>3, <2>2, <2>3, <3>1 DEF Covered
  <2>4. ASSUME NEW a, Covered(a) PROVE Covered(a)'
    <3>1. PICK e \in Cards : case[e].status # "none" /\ address[e] = a /\ ~Threatened(e)
      BY <2>4 DEF Covered
    <3>2. e \notin request[r].waiting BY <1>1, <3>1 DEF Threatened
    <3> QED BY <1>1, <2>2, <3>1, <3>2 DEF Covered
  <2> QED BY <2>1, <2>2, <2>3, <2>4
<1>5. ASSUME ~overlapped, NEW c \in Cards, NEW a, address[c] = a \/ Covered(a)
      PROVE  address'[c] = a \/ Covered(a)'
  <2>1. CASE c \in request[r].waiting /\ address[c] = a
    <3>1. address[request[r].of] = a BY <1>1, <1>5, <2>1 DEF HoldIsKept
    <3> QED BY <1>4, <1>5, <3>1
  <2>2. CASE c \notin request[r].waiting /\ address[c] = a BY <1>1, <2>2
  <2>3. CASE Covered(a) BY <1>4, <1>5, <2>3
  <2> QED BY <1>5, <2>1, <2>2, <2>3
<1>6. /\ \A c \in Cards : case'[c].status # "none" <=> card'[c] = "returned"
      /\ \A c \in Cards : card'[c] = "none" => dispatching'[c] = None
  BY <1>1 DEF HoldIsKept
<1>7. ASSUME ~overlapped'
      PROVE  /\ \A c \in Cards : dispatching'[c] # None =>
                  address'[c] = dispatching'[c] \/ Covered(dispatching[c])'
             /\ \A c \in Cards : card'[c] \in {"posted", "returned"} =>
                  address'[c] = wentTo'[c] \/ Covered(wentTo[c])'
  BY <1>1, <1>5, <1>7 DEF HoldIsKept
<1> QED BY <1>1, <1>4, <1>6, <1>7 DEF HoldIsKept

\* A free card is made: it was no card, so it holds nothing and waits nowhere.
LEMMA RecoverHolds ==
  ASSUME Types, HoldIsKept, NEW r \in Requests, NEW n \in Cards, Recover(r, n)
  PROVE  HoldIsKept'
<1>1. /\ card[n] = "none" /\ card' = [card EXCEPT ![n] = "open"]
      /\ address' = [address EXCEPT ![n] = request[r].to]
      /\ case' = [case EXCEPT ![request[r].of].status = "resolved", ![request[r].of].freeRecoveryUsed = TRUE]
      /\ request' = [request EXCEPT ![r] = Idle]
      /\ UNCHANGED <<wentTo, dispatching, overlapped>>
      /\ request[r].op \in Recoveries
  BY DEF Recover, Closes
<1>2. request[r].of \in Cards /\ case[request[r].of].status # "none"
  BY <1>1 DEF Types, RequestKnows, Recoveries
<1>3. \A d \in Cards : case[d].status # "none" <=> case'[d].status # "none"
  BY <1>1, <1>2 DEF Types, TypeOK, Case
<1>4. case[n].status = "none" BY <1>1 DEF HoldIsKept
<1>5. /\ \A c \in Cards : card'[c] = IF c = n THEN "open" ELSE card[c]
      /\ \A c \in Cards \ {n} : address'[c] = address[c]
  BY <1>1 DEF Types, TypeOK
<1>6. \A p \in Requests : request'[p].op = "repoint" => request'[p] = request[p]
  BY <1>1, IdleIsRequest DEF Types, TypeOK
<1>7. \A c \in Cards : Threatened(c)' => Threatened(c) BY <1>6 DEF Threatened
<1>8. \A a : Covered(a) => Covered(a)' BY <1>3, <1>4, <1>5, <1>7 DEF Covered
<1>9. \A p \in Requests : request[p].op = "repoint" =>
        request[p].of \in Cards /\ request[p].of # n /\ request[p].waiting \subseteq Cards
  BY <1>4 DEF Types, TypeOK, RequestKnows, Request
<1>10. ASSUME ~overlapped', NEW p \in Requests, request'[p].op = "repoint"
       PROVE  /\ request'[p].of \notin request'[p].waiting
              /\ \A d \in Cards : d \in request'[p].waiting =>
                   card'[d] # "none" /\ address'[d] = address'[request'[p].of]
  <2>1. /\ request[p].of \in Cards \ {n} /\ request[p].waiting \subseteq Cards
        /\ request[p].of \notin request[p].waiting
        /\ \A d \in request[p].waiting : card[d] # "none" /\ address[d] = address[request[p].of]
    BY <1>1, <1>6, <1>9, <1>10 DEF HoldIsKept
  <2>2. n \notin request[p].waiting BY <1>1, <2>1
  <2>3. \A d \in request[p].waiting : d \in Cards \ {n} BY <2>1, <2>2
  <2> QED BY <1>5, <1>6, <1>10, <2>1, <2>3
<1>11. /\ \A c \in Cards : case'[c].status # "none" <=> card'[c] = "returned"
       /\ \A c \in Cards : card'[c] = "none" => dispatching'[c] = None
  <2>1. /\ \A c \in Cards : case[c].status # "none" <=> card[c] = "returned"
        /\ \A c \in Cards : card[c] = "none" => dispatching[c] = None
    BY DEF HoldIsKept
  <2>2. dispatching' = dispatching BY <1>1
  <2>3. ASSUME NEW c \in Cards PROVE case'[c].status # "none" <=> card'[c] = "returned"
    <3>1. case[c].status # "none" <=> case'[c].status # "none" BY <1>3
    <3>2. card'[c] = IF c = n THEN "open" ELSE card[c] BY <1>5
    <3>3. c = n => case[c].status = "none" BY <1>4
    <3> QED BY <2>1, <3>1, <3>2, <3>3
  <2>4. ASSUME NEW c \in Cards, card'[c] = "none" PROVE dispatching'[c] = None
    BY <1>5, <2>1, <2>2, <2>4
  <2> QED BY <2>3, <2>4
<1>12. ASSUME ~overlapped'
       PROVE  /\ \A p, q \in Requests : request'[p].op = "repoint" /\ request'[q].op = "repoint" => p = q
              /\ \A c \in Cards : dispatching'[c] # None =>
                   address'[c] = dispatching'[c] \/ Covered(dispatching[c])'
              /\ \A c \in Cards : card'[c] \in {"posted", "returned"} =>
                   address'[c] = wentTo'[c] \/ Covered(wentTo[c])'
  BY <1>1, <1>5, <1>6, <1>8, <1>12 DEF HoldIsKept
<1> QED BY <1>10, <1>11, <1>12 DEF HoldIsKept

\* A step of the post keeps the hold if each card it moves is accounted for.
LEMMA PostStep ==
  ASSUME HoldIsKept, UNCHANGED <<address, request, overlapped>>,
         \A a : Covered(a) => Covered(a)',
         \A c \in Cards :
           /\ card[c] # "none" => card'[c] # "none"
           /\ case'[c].status # "none" <=> card'[c] = "returned"
           /\ card'[c] = "none" => dispatching'[c] = None
           /\ ~overlapped /\ dispatching'[c] # None =>
                address[c] = dispatching'[c] \/ \E a : a = dispatching'[c] /\ Covered(a)
           /\ ~overlapped /\ card'[c] \in {"posted", "returned"} =>
                address[c] = wentTo'[c] \/ \E a : a = wentTo'[c] /\ Covered(a)
  PROVE  HoldIsKept'
<1>1. /\ \A c \in Cards : case'[c].status # "none" <=> card'[c] = "returned"
      /\ \A c \in Cards : card'[c] = "none" => dispatching'[c] = None
  OBVIOUS
<1>2. ASSUME ~overlapped'
      PROVE  /\ \A r, q \in Requests : request'[r].op = "repoint" /\ request'[q].op = "repoint" => r = q
             /\ \A r \in Requests : request'[r].op = "repoint" =>
                  /\ request'[r].of \notin request'[r].waiting
                  /\ \A d \in Cards : d \in request'[r].waiting =>
                       card'[d] # "none" /\ address'[d] = address'[request'[r].of]
  BY <1>2 DEF HoldIsKept
<1>3. ASSUME ~overlapped'
      PROVE  /\ \A c \in Cards : dispatching'[c] # None =>
                  address'[c] = dispatching'[c] \/ Covered(dispatching[c])'
             /\ \A c \in Cards : card'[c] \in {"posted", "returned"} =>
                  address'[c] = wentTo'[c] \/ Covered(wentTo[c])'
  BY <1>3
<1> QED BY <1>1, <1>2, <1>3 DEF HoldIsKept

\* The hold is kept by each step.
LEMMA HoldStep == Types /\ HoldIsKept /\ [Next]_vars => HoldIsKept'
<1> SUFFICES ASSUME Types, HoldIsKept, [Next]_vars PROVE HoldIsKept' OBVIOUS
<1>0. TypeOK /\ RequestKnows BY DEF Types
<1>k. \A c \in Cards :
        /\ case[c].status # "none" <=> card[c] = "returned"
        /\ card[c] = "none" => dispatching[c] = None
        /\ ~overlapped /\ dispatching[c] # None => address[c] = dispatching[c] \/ Covered(dispatching[c])
        /\ ~overlapped /\ card[c] \in {"posted", "returned"} => address[c] = wentTo[c] \/ Covered(wentTo[c])
  BY DEF HoldIsKept
<1>1. ASSUME NEW c \in Cards, Mailing(c) PROVE HoldIsKept'
  <2>1. CASE CheckHold(c) \/ Post(c) \/ BuyLabel(c) \/ PostLabelled(c)
    <3>1. /\ UNCHANGED <<address, case, request, overlapped>>
          /\ \A a : Covered(a) => Covered(a)'
      BY <2>1 DEF CheckHold, Post, BuyLabel, PostLabelled, cards, Covered, Threatened
    <3>2. card[c] = "open" => case[c].status = "none" BY DEF HoldIsKept
    <3>0. CASE CheckHold(c)
      BY <3>0, <3>1, <1>k, PostStep DEF CheckHold, cards
    <3>3. CASE Post(c)
      <4>1. \A d \in Cards :
              /\ card'[d] = IF d = c /\ card[c] = "open" THEN "posted" ELSE card[d]
              /\ wentTo'[d] = IF d = c /\ card[c] = "open" THEN address[c] ELSE wentTo[d]
              /\ dispatching'[d] = dispatching[d]
        BY <1>0, <3>3 DEF Post, TypeOK
      <4> QED BY <3>1, <3>2, <4>1, <1>k, PostStep
    <3>4. CASE BuyLabel(c)
      <4>1. \A d \in Cards : /\ dispatching'[d] = IF d = c THEN address[c] ELSE dispatching[d]
                             /\ card'[d] = card[d] /\ wentTo'[d] = wentTo[d]
        BY <1>0, <3>4 DEF BuyLabel, cards, TypeOK
      <4>2. card[c] = "open" BY <3>4 DEF BuyLabel
      <4> QED BY <3>1, <4>1, <4>2, <1>k, PostStep
    <3>5. CASE PostLabelled(c)
      <4>1. \A d \in Cards :
              /\ dispatching'[d] = IF d = c THEN None ELSE dispatching[d]
              /\ card'[d] = IF d = c /\ card[c] = "open" THEN "posted" ELSE card[d]
              /\ wentTo'[d] = IF d = c /\ card[c] = "open" THEN dispatching[c] ELSE wentTo[d]
        BY <1>0, <3>5 DEF PostLabelled, TypeOK
      <4>2. dispatching[c] # None BY <3>5 DEF PostLabelled
      <4> QED BY <3>1, <3>2, <4>1, <4>2, <1>k, PostStep
    <3> QED BY <2>1, <3>0, <3>3, <3>4, <3>5
  <2>2. CASE MarkReturned(c)
    <3>1. /\ card[c] = "posted" /\ case'[c].status # "none"
          /\ \A d \in Cards \ {c} : case'[d] = case[d]
          /\ \A d \in Cards : card'[d] = IF d = c THEN "returned" ELSE card[d]
          /\ UNCHANGED <<address, wentTo, request, dispatching, overlapped>>
      <4>1. [NoCase EXCEPT !.status = "awaiting_address"].status # "none" BY DEF NoCase
      <4> QED BY <1>0, <2>2, <4>1 DEF MarkReturned, TypeOK
    <3>2. \A a : Covered(a) => Covered(a)' BY <3>1 DEF Covered, Threatened
    <3> QED BY <3>1, <3>2, <1>k, PostStep
  <2> QED BY <1>1, <2>1, <2>2 DEF Mailing
<1>2. ASSUME NEW a \in Supplied, EditContact(a) PROVE HoldIsKept'
  BY <1>2 DEF EditContact, cards, HoldIsKept, Covered, Threatened
<1>3. ASSUME NEW r \in Requests, NEW c \in Cards, Read(r, c) PROVE HoldIsKept'
  <2>1. PICK q \in Request :
          /\ Reads(r, q) /\ q.of = c /\ case[q.of].status # "none"
          /\ q.op = "repoint" => q.waiting = WaitingOn(c)
    BY <1>0, <1>3, ReadGives
  <2>2. CASE q.op = "repoint" BY <1>0, <2>1, <2>2, RepointRead
  <2>3. CASE q.op # "repoint"
    <3>1. /\ request' = [request EXCEPT ![r] = q] /\ overlapped' = overlapped
          /\ UNCHANGED <<card, address, wentTo, case, dispatching>>
      BY <1>0, <2>1, <2>3 DEF Reads, cards, TypeOK
    <3> QED BY <2>3, <3>1, QuietStep
  <2> QED BY <2>2, <2>3
<1>4. ASSUME NEW r \in Requests, UpdateAddress(r) PROVE HoldIsKept'
  <2>1. request[r].of \in Cards /\ case[request[r].of].status # "none"
    BY <1>0, <1>4 DEF UpdateAddress, RequestKnows
  <2>2. /\ case' = [case EXCEPT ![request[r].of].status = "awaiting_resend",
                                ![request[r].of].addressUpdated = TRUE]
        /\ request' = [request EXCEPT ![r] = Idle]
        /\ UNCHANGED <<card, address, wentTo, dispatching, overlapped>>
    BY <1>4 DEF UpdateAddress, cards
  <2>3. \A d \in Cards : case[d].status # "none" <=> case'[d].status # "none"
    BY <1>0, <2>1, <2>2 DEF TypeOK, Case
  <2> QED BY <2>2, <2>3, IdleIsRequest, QuietStep
<1>5. ASSUME NEW r \in Requests, ClaimCase(r) PROVE HoldIsKept'
  <2>0. UNCHANGED <<card, address, wentTo, case, dispatching, overlapped>> /\ request[r].op # "repoint"
    BY <1>5 DEF ClaimCase, cards, Recoveries
  <2>1. CASE ~MayClose(request[r])
    <3>1. request' = [request EXCEPT ![r] = Idle] BY <1>5, <2>1 DEF ClaimCase
    <3> QED BY <2>0, <3>1, IdleIsRequest, QuietStep
  <2>2. CASE MayClose(request[r])
    <3>1. PICK b \in BOOLEAN : request' = [request EXCEPT ![r] = [request[r] EXCEPT !.claimed = TRUE, !.last = b]]
      BY <1>5, <2>2 DEF ClaimCase
    <3> DEFINE k == [request[r] EXCEPT !.claimed = TRUE, !.last = b]
    <3>2. k \in Request /\ k.op = request[r].op
      <4>1. PICK q \in Request : q = request[r] BY <1>0 DEF TypeOK
      <4>2. /\ [q EXCEPT !.claimed = TRUE, !.last = b] \in Request
            /\ [q EXCEPT !.claimed = TRUE, !.last = b].op = q.op
        BY DEF Request
      <4> QED BY <4>1, <4>2
    <3>3. request' = [request EXCEPT ![r] = k] BY <3>1
    <3> HIDE DEF k
    <3> QED BY <2>0, <3>2, <3>3, QuietStep
  <2> QED BY <2>1, <2>2
<1>6. ASSUME NEW r \in Requests, NEW n \in Cards, Recover(r, n) PROVE HoldIsKept'
  BY <1>6, RecoverHolds
<1>7. ASSUME NEW r \in Requests, Archive(r) PROVE HoldIsKept'
  <2>1. request[r].of \in Cards /\ case[request[r].of].status # "none"
    BY <1>0, <1>7 DEF Archive, RequestKnows
  <2>2. /\ case' = [case EXCEPT ![request[r].of].status = "archived",
                                ![request[r].of].freeRecoveryUsed = case[request[r].of].freeRecoveryUsed]
        /\ request' = [request EXCEPT ![r] = Idle]
        /\ UNCHANGED <<card, address, wentTo, dispatching, overlapped>>
    BY <1>7 DEF Archive, Closes, cards
  <2>3. \A d \in Cards : case[d].status # "none" <=> case'[d].status # "none"
    BY <1>0, <2>1, <2>2 DEF TypeOK, Case
  <2> QED BY <2>2, <2>3, IdleIsRequest, QuietStep
<1>8. ASSUME NEW r \in Requests, Repoint(r) PROVE HoldIsKept'
  BY <1>8, RepointWritten
<1>9. ASSUME NEW r \in Requests, RequestFails(r) PROVE HoldIsKept'
  BY <1>9, IdleIsRequest, QuietStep DEF RequestFails, cards
<1>10. CASE UNCHANGED vars BY <1>10 DEF vars, cards, HoldIsKept, Covered, Threatened
<1> QED BY <1>1, <1>2, <1>3, <1>4, <1>5, <1>6, <1>7, <1>8, <1>9, <1>10 DEF Next, Handle

\* A card that passes the hold goes where none has come back from.
LEMMA HeldStays ==
  Types /\ HoldIsKept /\ [Next]_vars =>
    \A c, d \in Cards :
      /\ ~overlapped /\ card[d] = "returned"
      /\ (c \in checked' \ checked) \/ (dispatching[c] = None /\ dispatching'[c] # None)
      => wentTo[d] # address[c]
<1> SUFFICES ASSUME Types, HoldIsKept, [Next]_vars, NEW c \in Cards, NEW d \in Cards, ~overlapped,
                    card[d] = "returned",
                    (c \in checked' \ checked) \/ (dispatching[c] = None /\ dispatching'[c] # None)
             PROVE  wentTo[d] # address[c]
  OBVIOUS
<1>0. TypeOK BY DEF Types
<1>1. ~Held(c)
  <2>1. ASSUME NEW e \in Cards, Mailing(e) PROVE ~Held(c)
    BY <1>0, <2>1 DEF Mailing, CheckHold, Post, BuyLabel, PostLabelled, MarkReturned, posting, TypeOK
  <2>2. ASSUME NEW r \in Requests, Handle(r) PROVE FALSE
    <3>1. ASSUME NEW n \in Cards, Read(r, n) PROVE FALSE
      <4>1. PICK q \in Request : Reads(r, q) BY <1>0, <3>1, ReadGives
      <4> QED BY <4>1 DEF Reads, posting
    <3> QED BY <2>2, <3>1 DEF Handle, Recover, UpdateAddress, ClaimCase, Archive, Repoint, RequestFails, posting
  <2>3. (\E a \in Supplied : EditContact(a)) \/ UNCHANGED vars => FALSE
    BY DEF EditContact, vars, posting
  <2> QED BY <2>1, <2>2, <2>3 DEF Next
<1>2. case[d].status # "none" /\ (address[d] = wentTo[d] \/ Covered(wentTo[d])) BY DEF HoldIsKept
<1> QED BY <1>1, <1>2 DEF Held, Covered

\* Nothing passes the hold to an address a card has come back from (isHeldCard), for
\* any number of cards and cases, and after they are closed.
THEOREM HoldOutlivesCase == Spec => NothingFollowsAReturn
<1>1. Init => HoldIsKept
  BY IdleIsRequest DEF Init, HoldIsKept, NoCase
<1>2. Types /\ HoldIsKept /\ [Next]_vars =>
        [\A c, d \in Cards :
           /\ ~overlapped /\ card[d] = "returned"
           /\ (c \in checked' \ checked) \/ (dispatching[c] = None /\ dispatching'[c] # None)
           => wentTo[d] # address[c]]_vars
  BY HeldStays
<1>3. Spec => [](Types /\ HoldIsKept)
  BY <1>1, InitTypes, TypesStep, HoldStep, PTL DEF Spec
<1> QED BY <1>2, <1>3, PTL DEF Spec, NothingFollowsAReturn
===============================================================================
