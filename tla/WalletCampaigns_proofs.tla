------------------------- MODULE WalletCampaigns_proofs -------------------------
(***************************************************************************)
(* Theorems about WalletCampaigns.tla, for any number of accounts,         *)
(* campaigns, sweeps and operators.                                        *)
(***************************************************************************)
EXTENDS WalletCampaigns, TLAPS

USE CampaignAssumption

\* The offer of a campaign has been made.
Offered(k) == campaign[k].status \notin {"none", "draft"}

SameOffer(row, other) == row.amount = other.amount /\ row.from = other.from /\ row.to = other.to

GiftsAreOffered ==
  /\ CreditedOnce
  /\ \A a \in Accounts, k \in Campaigns : gifts[a][k] > 0 => Offered(k)

\* A deletion lowers the one and not the other.
IssuedCoversSpent == \A k \in Campaigns : spent[k] <= issued[k]

\* What an edit in flight may rely on when it comes to write.
EditFits(p) ==
  LET e == edit[p] IN
  e.of # None =>
    /\ e.of \in Campaigns /\ e.by # "none"
    /\ e.read.status \notin {"none", "ended"}
    /\ e.write.status \in {e.read.status, "live", "paused", "ended"}
    /\ campaign[e.of].status # "none"
    /\ e.read.status # "draft" => Offered(e.of) /\ SameOffer(e.write, campaign[e.of])
    /\ e.by = "update" /\ e.write.status # e.read.status => e.read.status = "exhausted"
    /\ e.by = "update" /\ e.checked /\ e.read.status = "exhausted" /\ e.write.status = "exhausted"
         => issued[e.of] + e.write.amount > e.write.budget

IInv ==
  /\ TypeOK
  /\ GiftsAreOffered
  /\ IssuedCoversSpent
  /\ ExhaustedIsSpent
  /\ \A p \in Operators : EditFits(p)

-------------------------------------------------------------------------------
LEMMA InvInit == Init => IInv
<1> SUFFICES ASSUME Init PROVE IInv
  OBVIOUS
<1>1. NoCampaign \in Campaign
  BY DEF NoCampaign, Campaign, Status
<1>2. IdleSweep \in Sweep
  BY DEF IdleSweep, Sweep, Window
<1>3. NoEdit \in Edit
  BY <1>1 DEF NoEdit, Edit
<1>4. TypeOK
  BY <1>1, <1>2, <1>3 DEF Init, TypeOK
<1>5. GiftsAreOffered /\ IssuedCoversSpent
  BY DEF Init, GiftsAreOffered, CreditedOnce, IssuedCoversSpent
<1>6. ExhaustedIsSpent
  BY DEF Init, ExhaustedIsSpent, NoCampaign
<1>7. \A p \in Operators : EditFits(p)
  BY DEF Init, EditFits, NoEdit
<1> QED BY <1>4, <1>5, <1>6, <1>7 DEF IInv

-------------------------------------------------------------------------------
(* What a step may do to the money.                                        *)

\* A gift: of a live campaign, as it stands, to an account that had none.
Gift(a, k) ==
  /\ campaign[k].status = "live" /\ InWindow(a, campaign[k])
  /\ \A j \in Campaigns : gifts[a][j] = 0
  /\ Affords(k, campaign[k])
  /\ gifts' = [gifts EXCEPT ![a] = [gifts[a] EXCEPT ![k] = gifts[a][k] + campaign[k].amount]]
  /\ spent' = [spent EXCEPT ![k] = spent[k] + campaign[k].amount]
  /\ issued' = [issued EXCEPT ![k] = issued[k] + campaign[k].amount]

LEMMA CreditIsGift ==
  ASSUME TypeOK, NEW a \in Accounts, NEW k \in Campaigns, NEW verified,
         Credit(a, k, Outcome(a, k, verified))
  PROVE  Gift(a, k) \/ UNCHANGED money
<1>1. CASE Outcome(a, k, verified) = "credited"
  <2>1. campaign[k].status = "live" /\ InWindow(a, campaign[k]) /\ Affords(k, campaign[k])
    BY <1>1 DEF Outcome, AsItStands
  <2>2. ~CreditedByACampaign(a, k)
    BY <1>1 DEF Outcome, AsItStands
  <2>3. \A j \in Campaigns : gifts[a][j] = 0
    BY <2>2 DEF CreditedByACampaign, TypeOK
  <2>4. /\ gifts' = [gifts EXCEPT ![a] = [gifts[a] EXCEPT ![k] = gifts[a][k] + campaign[k].amount]]
        /\ spent' = [spent EXCEPT ![k] = spent[k] + campaign[k].amount]
        /\ issued' = [issued EXCEPT ![k] = issued[k] + campaign[k].amount]
    BY <1>1 DEF Credit, AsItStands
  <2> QED BY <2>1, <2>3, <2>4 DEF Gift
<1>2. CASE Outcome(a, k, verified) # "credited"
  BY <1>2 DEF Credit
<1> QED BY <1>1, <1>2

\* Money moves by gifts and deletions only, and no campaign's row moves with it.
LEMMA MoneySteps ==
  ASSUME TypeOK, [Next]_vars
  PROVE  \/ UNCHANGED money
         \/ \E a \in Accounts, k \in Campaigns : Gift(a, k) /\ UNCHANGED <<campaign, edit>>
         \/ \E a \in Accounts : DeleteAccount(a)
<1>1. CASE UNCHANGED vars
  BY <1>1 DEF vars, money
<1>2. ASSUME NEW w \in Sweeps, SweepStep(w) \/ SweepStops(w) PROVE
        \/ UNCHANGED money
        \/ \E a \in Accounts, k \in Campaigns : Gift(a, k) /\ UNCHANGED <<campaign, edit>>
  <2>1. ASSUME NEW a \in Accounts, SweepCredit(w, a) PROVE
          \/ UNCHANGED money
          \/ \E k \in Campaigns : Gift(a, k) /\ UNCHANGED <<campaign, edit>>
    <3>1. sweep[w].at \in Campaigns
      BY <2>1 DEF SweepCredit, TypeOK, Sweep
    <3>2. Credit(a, sweep[w].at, Outcome(a, sweep[w].at, a \in confirmed)) /\ UNCHANGED <<campaign, edit>>
      BY <2>1 DEF SweepCredit
    <3> QED BY <3>1, <3>2, CreditIsGift
  <2> QED BY <1>2, <2>1 DEF SweepStep, SweepBegin, MarkExhaustedIfSpent, SweepNext, SweepCreditFails, SweepStops
<1>3. ASSUME NEW p \in Operators, Operate(p) PROVE UNCHANGED money
  BY <1>3 DEF Operate, SetStatus, Update, UpdateChecksSpend, EditWrites
<1>4. ASSUME NEW k \in Campaigns, NEW offer \in Offers, NEW budget \in Budgets, CreateCampaign(k, offer, budget)
      PROVE UNCHANGED money
  BY <1>4 DEF CreateCampaign
<1>5. ASSUME NEW a \in Accounts, AccountStep(a) PROVE
        \/ UNCHANGED money \/ DeleteAccount(a)
        \/ \E k \in Campaigns : Gift(a, k) /\ UNCHANGED <<campaign, edit>>
  <2>1. ASSUME NEW k \in Campaigns, CreditOnSignup(a, k) PROVE
          UNCHANGED money \/ (Gift(a, k) /\ UNCHANGED <<campaign, edit>>)
    <3>1. Credit(a, k, Outcome(a, k, TRUE)) /\ UNCHANGED <<campaign, edit>>
      BY <2>1 DEF CreditOnSignup
    <3> QED BY <3>1, CreditIsGift
  <2> QED BY <1>5, <2>1 DEF AccountStep, ConfirmEmail, Signup, WelcomeReads, SignupCreditFails
<1>6. CASE Tick
  BY <1>6 DEF Tick
<1> QED BY <1>1, <1>2, <1>3, <1>4, <1>5, <1>6 DEF Next

LEMMA MoneyType ==
  ASSUME IInv, [Next]_vars
  PROVE  /\ gifts' \in [Accounts -> [Campaigns -> Nat]]
         /\ spent' \in [Campaigns -> Int]
         /\ issued' \in [Campaigns -> Nat]
         /\ \A k \in Campaigns : issued'[k] >= issued[k]
         /\ IssuedCoversSpent'
<1>0. TypeOK /\ IssuedCoversSpent
  BY DEF IInv
<1>1. CASE UNCHANGED money
  BY <1>0, <1>1 DEF money, TypeOK, IssuedCoversSpent
<1>2. ASSUME NEW a \in Accounts, NEW k \in Campaigns, Gift(a, k)
      PROVE  /\ gifts' \in [Accounts -> [Campaigns -> Nat]]
             /\ spent' \in [Campaigns -> Int]
             /\ issued' \in [Campaigns -> Nat]
             /\ \A j \in Campaigns : issued'[j] >= issued[j]
             /\ IssuedCoversSpent'
  <2>1. campaign[k].amount \in Nat /\ gifts[a] \in [Campaigns -> Nat]
    BY <1>0 DEF TypeOK, Campaign
  <2>2. [gifts[a] EXCEPT ![k] = gifts[a][k] + campaign[k].amount] \in [Campaigns -> Nat]
    BY <2>1
  <2>3. gifts' \in [Accounts -> [Campaigns -> Nat]]
    BY <1>0, <1>2, <2>2 DEF Gift, TypeOK
  <2>4. spent' \in [Campaigns -> Int] /\ issued' \in [Campaigns -> Nat]
    BY <1>0, <1>2, <2>1 DEF Gift, TypeOK
  <2>5. \A j \in Campaigns : issued'[j] >= issued[j] /\ spent'[j] <= issued'[j]
    BY <1>0, <1>2, <2>1 DEF Gift, TypeOK, IssuedCoversSpent
  <2> QED BY <2>3, <2>4, <2>5 DEF IssuedCoversSpent
<1>3. ASSUME NEW a \in Accounts, DeleteAccount(a)
      PROVE  /\ gifts' \in [Accounts -> [Campaigns -> Nat]]
             /\ spent' \in [Campaigns -> Int]
             /\ issued' \in [Campaigns -> Nat]
             /\ \A j \in Campaigns : issued'[j] >= issued[j]
             /\ IssuedCoversSpent'
  <2>1. gifts' = [gifts EXCEPT ![a] = [k \in Campaigns |-> 0]] /\ issued' = issued
        /\ spent' = [k \in Campaigns |-> spent[k] - gifts[a][k]]
    BY <1>3 DEF DeleteAccount
  <2>2. \A k \in Campaigns : gifts[a][k] \in Nat /\ spent[k] \in Int /\ issued[k] \in Nat
    BY <1>0 DEF TypeOK
  <2>3. gifts' \in [Accounts -> [Campaigns -> Nat]]
    BY <1>0, <2>1 DEF TypeOK
  <2>4. spent' \in [Campaigns -> Int] /\ issued' \in [Campaigns -> Nat]
    BY <1>0, <2>1, <2>2 DEF TypeOK
  <2>5. \A k \in Campaigns : issued'[k] >= issued[k] /\ spent'[k] <= issued'[k]
    BY <1>0, <2>1, <2>2 DEF IssuedCoversSpent
  <2> QED BY <2>3, <2>4, <2>5 DEF IssuedCoversSpent
<1> QED BY <1>0, <1>1, <1>2, <1>3, MoneySteps

-------------------------------------------------------------------------------
(* What a step may do to a campaign.                                       *)

RowStep(k) ==
  LET old == campaign[k]
      new == campaign'[k]
  IN /\ new \in Campaign
     /\ old.status # "none" => new.status # "none"
     /\ old.status \notin {"none", "draft"} => new.status \notin {"none", "draft"} /\ SameOffer(new, old)
     /\ old.status = "ended" => new = old
     /\ new.status = "exhausted" => issued'[k] + new.amount > new.budget

LEMMA RowUnchanged ==
  ASSUME IInv, [Next]_vars, NEW k \in Campaigns, campaign'[k] = campaign[k]
  PROVE  RowStep(k)
<1>1. campaign[k] \in Campaign
  BY DEF IInv, TypeOK
<1>2. issued'[k] >= issued[k] /\ issued'[k] \in Nat /\ issued[k] \in Nat
  BY MoneyType DEF IInv, TypeOK
<1>3. campaign[k].status = "exhausted" => issued[k] + campaign[k].amount > campaign[k].budget
  BY DEF IInv, ExhaustedIsSpent
<1>4. campaign[k].amount \in Nat /\ campaign[k].budget \in Nat
  BY <1>1 DEF Campaign
<1> QED BY <1>1, <1>2, <1>3, <1>4 DEF RowStep, SameOffer

LEMMA RowMarked ==
  ASSUME IInv, [Next]_vars, NEW w \in Sweeps, MarkExhaustedIfSpent(w), NEW k \in Campaigns
  PROVE  RowStep(k)
<1> DEFINE j == sweep[w].at
           row == campaign[j]
<1>1. j \in Campaigns
  BY DEF MarkExhaustedIfSpent, IInv, TypeOK, Sweep
<1>2. CASE campaign' = campaign
  BY <1>2, RowUnchanged
<1>3. CASE /\ row.status = "live" /\ ~Affords(j, row)
           /\ campaign' = [campaign EXCEPT ![j] = [row EXCEPT !.status = "exhausted"]]
  <2>1. row \in Campaign
    BY <1>1 DEF IInv, TypeOK
  <2>2. CASE k = j
    <3>1. campaign'[k] = [row EXCEPT !.status = "exhausted"]
      BY <1>1, <1>3, <2>2 DEF IInv, TypeOK
    <3>2. /\ campaign'[k] \in Campaign /\ campaign'[k].status = "exhausted"
          /\ SameOffer(campaign'[k], row) /\ campaign'[k].budget = row.budget
      BY <2>1, <3>1 DEF Campaign, Status, SameOffer
    <3>3. issued'[k] >= spent[k] /\ issued'[k] \in Nat /\ spent[k] \in Int
      BY MoneyType DEF IInv, TypeOK, IssuedCoversSpent
    <3>4. row.amount \in Nat /\ row.budget \in Nat
      BY <2>1 DEF Campaign
    <3>5. issued'[k] + row.amount > row.budget
      BY <1>3, <2>2, <3>3, <3>4 DEF Affords
    <3> QED BY <1>3, <2>2, <3>2, <3>5 DEF RowStep, SameOffer
  <2>3. CASE k # j
    BY <1>1, <1>3, <2>3, RowUnchanged DEF IInv, TypeOK
  <2> QED BY <2>2, <2>3
<1> QED BY <1>2, <1>3 DEF MarkExhaustedIfSpent

LEMMA RowWritten ==
  ASSUME IInv, [Next]_vars, NEW p \in Operators, EditWrites(p), NEW k \in Campaigns
  PROVE  RowStep(k)
<1> DEFINE e == edit[p]
           row == campaign[e.of]
           status == IF e.write.status # e.read.status THEN e.write.status ELSE row.status
           new == IF e.by = "setStatus" THEN [row EXCEPT !.status = status]
                  ELSE [e.write EXCEPT !.status = status]
<1>1. e \in Edit /\ EditFits(p) /\ e.of # None /\ e.checked
  BY DEF IInv, TypeOK, EditWrites
<1>2. e.of \in Campaigns /\ row \in Campaign /\ e.write \in Campaign
  BY <1>1 DEF EditFits, IInv, TypeOK, Edit
<1>3. CASE campaign' = campaign
  BY <1>3, RowUnchanged
<1>4. CASE row.status = e.read.status /\ campaign' = [campaign EXCEPT ![e.of] = new]
  <2>1. CASE k = e.of
    <3>1. campaign'[k] = new
      BY <1>2, <1>4, <2>1 DEF IInv, TypeOK
    <3>2. status \in Status /\ status \in {row.status, "live", "paused", "ended"}
      BY <1>1, <1>2, <1>4 DEF EditFits, Campaign, Status
    <3>3. new \in Campaign /\ new.status = status
      BY <1>2, <3>2 DEF Campaign
    <3>4. row.status \notin {"none", "ended"}
      BY <1>1, <1>4 DEF EditFits
    <3>5. row.status # "draft" => SameOffer(new, row)
      <4>1. ASSUME row.status # "draft" PROVE SameOffer(e.write, row)
        BY <1>1, <1>4, <4>1 DEF EditFits
      <4>2. new.amount = IF e.by = "setStatus" THEN row.amount ELSE e.write.amount
        BY <1>2 DEF Campaign
      <4>3. new.from = IF e.by = "setStatus" THEN row.from ELSE e.write.from
        BY <1>2 DEF Campaign
      <4>4. new.to = IF e.by = "setStatus" THEN row.to ELSE e.write.to
        BY <1>2 DEF Campaign
      <4> QED BY <4>1, <4>2, <4>3, <4>4 DEF SameOffer
    <3>6. status = "exhausted" => row.status = "exhausted" /\ e.write.status = "exhausted"
      BY <1>1, <1>4 DEF EditFits
    <3>7. status = "exhausted" => issued[k] + new.amount > new.budget
      <4>1. CASE e.by = "setStatus"
        <5>1. new.amount = row.amount /\ new.budget = row.budget
          BY <1>2, <4>1 DEF Campaign
        <5> QED BY <1>2, <2>1, <3>6, <5>1 DEF IInv, ExhaustedIsSpent
      <4>2. CASE e.by = "update"
        <5>1. new.amount = e.write.amount /\ new.budget = e.write.budget
          BY <1>2, <4>2 DEF Campaign
        <5> QED BY <1>1, <1>4, <2>1, <3>6, <4>2, <5>1 DEF EditFits
      <4> QED BY <1>1, <4>1, <4>2 DEF Edit, EditFits
    <3>8. issued'[k] >= issued[k] /\ issued'[k] \in Nat /\ issued[k] \in Nat
      BY MoneyType DEF IInv, TypeOK
    <3>9. status = "exhausted" => issued'[k] + new.amount > new.budget
      <4>1. new.amount \in Nat /\ new.budget \in Nat
        BY <3>3 DEF Campaign
      <4> QED BY <3>7, <3>8, <4>1
    <3>10. status # "none" /\ (row.status # "draft" => status # "draft")
      BY <3>2, <3>4
    <3> HIDE DEF new, status
    <3> QED BY <2>1, <3>1, <3>3, <3>4, <3>5, <3>9, <3>10 DEF RowStep
  <2>2. CASE k # e.of
    BY <1>2, <1>4, <2>2, RowUnchanged DEF IInv, TypeOK
  <2> QED BY <2>1, <2>2
<1> QED BY <1>3, <1>4 DEF EditWrites, StatusIsAsRead

LEMMA RowCreated ==
  ASSUME IInv, [Next]_vars, NEW j \in Campaigns, NEW offer \in Offers, NEW budget \in Budgets,
         CreateCampaign(j, offer, budget), NEW k \in Campaigns
  PROVE  RowStep(k)
<1>1. CASE k = j
  <2>1. campaign'[k] = [status |-> "draft", amount |-> offer.amount, from |-> offer.from,
                        to |-> offer.to, budget |-> budget]
    BY <1>1 DEF CreateCampaign, IInv, TypeOK
  <2>2. campaign'[k] \in Campaign
    BY <2>1 DEF Campaign, Status
  <2> QED BY <1>1, <2>1, <2>2 DEF RowStep, CreateCampaign
<1>2. CASE k # j
  BY <1>2, RowUnchanged DEF CreateCampaign, IInv, TypeOK
<1> QED BY <1>1, <1>2

LEMMA RowSteps ==
  ASSUME IInv, [Next]_vars, NEW k \in Campaigns
  PROVE  RowStep(k)
<1>1. CASE campaign' = campaign
  BY <1>1, RowUnchanged
<1>2. ASSUME NEW w \in Sweeps, SweepStep(w) \/ SweepStops(w) PROVE RowStep(k)
  <2>1. campaign' = campaign \/ MarkExhaustedIfSpent(w)
    BY <1>2 DEF SweepStep, SweepBegin, SweepNext, SweepCredit, SweepCreditFails, SweepStops
  <2> QED BY <1>1, <2>1, RowMarked
<1>3. ASSUME NEW p \in Operators, Operate(p) PROVE RowStep(k)
  <2>1. campaign' = campaign \/ EditWrites(p)
    BY <1>3 DEF Operate, SetStatus, Update, UpdateChecksSpend
  <2> QED BY <1>1, <2>1, RowWritten
<1>4. ASSUME NEW a \in Accounts, AccountStep(a) PROVE campaign' = campaign
  BY <1>4 DEF AccountStep, ConfirmEmail, Signup, WelcomeReads, SignupCreditFails, DeleteAccount, CreditOnSignup
<1>5. UNCHANGED vars \/ Tick => campaign' = campaign
  BY DEF vars, Tick
<1> QED BY <1>1, <1>2, <1>3, <1>4, <1>5, RowCreated DEF Next
-------------------------------------------------------------------------------
LEMMA TypeStep ==
  ASSUME IInv, [Next]_vars
  PROVE  TypeOK'
<1>0. TypeOK
  BY DEF IInv
<1>1. campaign' \in [Campaigns -> Campaign]
  <2>1. \A k \in Campaigns : campaign'[k] \in Campaign
    BY RowSteps DEF RowStep
  <2>2. campaign' = campaign \/ \E j \in Campaigns : \E row : campaign' = [campaign EXCEPT ![j] = row]
    <3>1. ASSUME NEW w \in Sweeps, SweepStep(w) \/ SweepStops(w)
          PROVE  campaign' = campaign \/ \E j \in Campaigns : \E row : campaign' = [campaign EXCEPT ![j] = row]
      <4>1. MarkExhaustedIfSpent(w) => sweep[w].at \in Campaigns
        BY <1>0 DEF MarkExhaustedIfSpent, TypeOK, Sweep
      <4> QED BY <3>1, <4>1 DEF SweepStep, SweepBegin, SweepNext, SweepCredit, SweepCreditFails, SweepStops,
                                MarkExhaustedIfSpent
    <3>2. ASSUME NEW p \in Operators, Operate(p)
          PROVE  campaign' = campaign \/ \E j \in Campaigns : \E row : campaign' = [campaign EXCEPT ![j] = row]
      <4>1. EditWrites(p) => edit[p].of \in Campaigns
        BY <1>0 DEF EditWrites, TypeOK, Edit
      <4> QED BY <3>2, <4>1 DEF Operate, SetStatus, Update, UpdateChecksSpend, EditWrites
    <3>3. ASSUME NEW a \in Accounts, AccountStep(a) PROVE campaign' = campaign
      BY <3>3 DEF AccountStep, ConfirmEmail, Signup, WelcomeReads, SignupCreditFails, DeleteAccount, CreditOnSignup
    <3>4. ASSUME NEW k \in Campaigns, NEW offer \in Offers, NEW budget \in Budgets, CreateCampaign(k, offer, budget)
          PROVE  \E j \in Campaigns : \E row : campaign' = [campaign EXCEPT ![j] = row]
      BY <3>4 DEF CreateCampaign
    <3>5. UNCHANGED vars \/ Tick => campaign' = campaign
      BY DEF vars, Tick
    <3> QED BY <3>1, <3>2, <3>3, <3>4, <3>5 DEF Next
  <2>3. campaign' = [k \in Campaigns |-> campaign'[k]]
    BY <1>0, <2>2 DEF TypeOK
  <2> QED BY <2>1, <2>3
<1>2. sweep' \in [Sweeps -> Sweep]
  <2>1. ASSUME NEW w \in Sweeps, SweepBegin(w) PROVE sweep' \in [Sweeps -> Sweep]
    <3>1. PICK live \in SUBSET Campaigns : sweep' = [sweep EXCEPT ![w] =
            [rows |-> [k \in Campaigns |-> IF k \in live THEN [from |-> campaign[k].from, to |-> campaign[k].to]
                                           ELSE [from |-> 0, to |-> 0]],
             queue |-> live, at |-> None, todo |-> {}]]
      BY <2>1 DEF SweepBegin
    <3>2. \A k \in Campaigns : campaign[k].from \in Nat /\ campaign[k].to \in Nat
      BY <1>0 DEF TypeOK, Campaign
    <3> QED BY <1>0, <3>1, <3>2 DEF TypeOK, Sweep, Window
  <2>2. ASSUME NEW w \in Sweeps, NEW k \in Campaigns, SweepNext(w, k) PROVE sweep' \in [Sweeps -> Sweep]
    <3>1. sweep[w] \in Sweep
      BY <1>0 DEF TypeOK
    <3>2. Candidates(sweep[w].rows[k]) \subseteq Accounts
      BY DEF Candidates, Eligible
    <3> QED BY <1>0, <2>2, <3>1, <3>2 DEF SweepNext, TypeOK, Sweep
  <2>3. ASSUME NEW w \in Sweeps, NEW a \in Accounts, SweepCredit(w, a) \/ SweepCreditFails(w, a)
        PROVE  sweep' \in [Sweeps -> Sweep]
    <3>1. sweep[w] \in Sweep
      BY <1>0 DEF TypeOK
    <3>2. PICK left \in SUBSET Accounts : sweep' = [sweep EXCEPT ![w] =
            [rows |-> sweep[w].rows, queue |-> sweep[w].queue, at |-> sweep[w].at, todo |-> left]]
      BY <2>3, <3>1 DEF SweepCredit, SweepCreditFails, Sweep
    <3> QED BY <1>0, <3>1, <3>2 DEF TypeOK, Sweep
  <2>4. ASSUME NEW w \in Sweeps, MarkExhaustedIfSpent(w) \/ SweepStops(w) PROVE sweep' \in [Sweeps -> Sweep]
    <3>1. sweep[w] \in Sweep
      BY <1>0 DEF TypeOK
    <3>2. IdleSweep \in Sweep
      BY DEF IdleSweep, Sweep, Window
    <3>3. [rows |-> sweep[w].rows, queue |-> sweep[w].queue, at |-> None, todo |-> {}] \in Sweep
      BY <3>1 DEF Sweep
    <3>4. PICK s \in Sweep : sweep' = [sweep EXCEPT ![w] = s]
      BY <2>4, <3>2, <3>3 DEF MarkExhaustedIfSpent, SweepStops
    <3> QED BY <1>0, <3>4 DEF TypeOK
  <2>5. ASSUME NEW p \in Operators, Operate(p) PROVE sweep' = sweep
    BY <2>5 DEF Operate, SetStatus, Update, UpdateChecksSpend, EditWrites
  <2>6. ASSUME NEW a \in Accounts, AccountStep(a) PROVE sweep' = sweep
    BY <2>6 DEF AccountStep, ConfirmEmail, Signup, WelcomeReads, SignupCreditFails, DeleteAccount, CreditOnSignup
  <2>7. ASSUME NEW k \in Campaigns, NEW offer \in Offers, NEW budget \in Budgets, CreateCampaign(k, offer, budget)
        PROVE  sweep' = sweep
    BY <2>7 DEF CreateCampaign
  <2>8. UNCHANGED vars \/ Tick => sweep' = sweep
    BY DEF vars, Tick
  <2>9. sweep' = sweep => sweep' \in [Sweeps -> Sweep]
    BY <1>0 DEF TypeOK
  <2> QED BY <2>1, <2>2, <2>3, <2>4, <2>5, <2>6, <2>7, <2>8, <2>9 DEF Next, SweepStep
<1>3. edit' \in [Operators -> Edit]
  <2>1. ASSUME NEW p \in Operators, Operate(p) PROVE edit' \in [Operators -> Edit]
    <3>1. edit[p] \in Edit /\ edit \in [Operators -> Edit]
      BY <1>0 DEF TypeOK
    <3>2. NoEdit \in Edit
      BY DEF NoEdit, NoCampaign, Edit, Campaign, Status
    <3>3. ASSUME NEW k \in Campaigns, NEW status \in Status, SetStatus(p, k, status) PROVE edit' \in [Operators -> Edit]
      <4>1. campaign[k] \in Campaign
        BY <1>0 DEF TypeOK
      <4>2. [campaign[k] EXCEPT !.status = status] \in Campaign
        BY <4>1 DEF Campaign
      <4> QED BY <3>1, <3>3, <4>1, <4>2 DEF SetStatus, Edit
    <3>4. ASSUME NEW k \in Campaigns, NEW offer \in Offers, NEW budget \in Budgets, Update(p, k, offer, budget)
          PROVE  edit' \in [Operators -> Edit]
      <4>1. campaign[k] \in Campaign /\ campaign[k].status \in Status
        BY <1>0 DEF TypeOK, Campaign
      <4>2. [status |-> campaign[k].status, amount |-> offer.amount, from |-> offer.from,
             to |-> offer.to, budget |-> budget] \in Campaign
        BY <4>1 DEF Campaign
      <4> QED BY <3>1, <3>4, <4>1, <4>2 DEF Update, Edit
    <3>5. CASE UpdateChecksSpend(p)
      <4>1. edit[p].write \in Campaign
        BY <3>1 DEF Edit
      <4>2. [edit[p].write EXCEPT !.status = "live"] \in Campaign
        BY <4>1 DEF Campaign, Status
      <4>3. \A write \in Campaign : [by |-> edit[p].by, of |-> edit[p].of, read |-> edit[p].read, checked |-> TRUE,
                                      write |-> write] \in Edit
        BY <3>1 DEF Edit
      <4>4. PICK e \in Edit : edit' = [edit EXCEPT ![p] = e]
        BY <3>2, <3>5, <4>1, <4>2, <4>3 DEF UpdateChecksSpend
      <4> QED BY <3>1, <4>4
    <3>6. CASE EditWrites(p)
      BY <3>1, <3>2, <3>6 DEF EditWrites
    <3> QED BY <2>1, <3>3, <3>4, <3>5, <3>6 DEF Operate
  <2>2. ASSUME NEW w \in Sweeps, SweepStep(w) \/ SweepStops(w) PROVE edit' = edit
    BY <2>2 DEF SweepStep, SweepBegin, SweepNext, SweepCredit, SweepCreditFails, SweepStops, MarkExhaustedIfSpent
  <2>3. ASSUME NEW a \in Accounts, AccountStep(a) PROVE edit' = edit
    BY <2>3 DEF AccountStep, ConfirmEmail, Signup, WelcomeReads, SignupCreditFails, DeleteAccount, CreditOnSignup
  <2>4. ASSUME NEW k \in Campaigns, NEW offer \in Offers, NEW budget \in Budgets, CreateCampaign(k, offer, budget)
        PROVE  edit' = edit
    BY <2>4 DEF CreateCampaign
  <2>5. UNCHANGED vars \/ Tick => edit' = edit
    BY DEF vars, Tick
  <2>6. edit' = edit => edit' \in [Operators -> Edit]
    BY <1>0 DEF TypeOK
  <2> QED BY <2>1, <2>2, <2>3, <2>4, <2>5, <2>6 DEF Next
<1>4. /\ now' \in Nat /\ created' \in [Accounts -> Nat \cup {None}]
      /\ deleted' \subseteq Accounts /\ confirmed' \subseteq Accounts
      /\ welcome' \in [Accounts -> SUBSET (Campaigns \cup {None})]
  <2> DEFINE T == /\ now' \in Nat /\ created' \in [Accounts -> Nat \cup {None}]
                  /\ deleted' \subseteq Accounts /\ confirmed' \subseteq Accounts
                  /\ welcome' \in [Accounts -> SUBSET (Campaigns \cup {None})]
  <2>1. ASSUME UNCHANGED <<now, created, deleted, confirmed, welcome>> PROVE T
    BY <1>0, <2>1 DEF TypeOK
  <2>2. ASSUME NEW a \in Accounts, AccountStep(a) PROVE T
    <3>1. CASE ConfirmEmail(a)
      BY <1>0, <3>1 DEF TypeOK, ConfirmEmail
    <3>2. CASE Signup(a) \/ WelcomeReads(a) \/ SignupCreditFails(a)
      <4>1. PICK left \in SUBSET (Campaigns \cup {None}) : welcome' = [welcome EXCEPT ![a] = left]
        <5>1. CASE Signup(a)
          <6> DEFINE left == IF a \in confirmed THEN {None} ELSE {}
          <6>1. welcome' = [welcome EXCEPT ![a] = left]
            BY <5>1 DEF Signup
          <6>2. left \in SUBSET (Campaigns \cup {None})
            OBVIOUS
          <6> QED BY <6>1, <6>2
        <5>2. CASE WelcomeReads(a)
          BY <5>2 DEF WelcomeReads
        <5>3. CASE SignupCreditFails(a)
          BY <5>3 DEF SignupCreditFails
        <5> QED BY <3>2, <5>1, <5>2, <5>3
      <4>2. welcome' \in [Accounts -> SUBSET (Campaigns \cup {None})]
        BY <1>0, <4>1 DEF TypeOK
      <4>3. /\ now' \in Nat /\ created' \in [Accounts -> Nat \cup {None}]
            /\ deleted' \subseteq Accounts /\ confirmed' \subseteq Accounts
        BY <1>0, <3>2 DEF TypeOK, Signup, WelcomeReads, SignupCreditFails
      <4> QED BY <4>2, <4>3
    <3>3. CASE DeleteAccount(a)
      BY <1>0, <3>3 DEF TypeOK, DeleteAccount
    <3>4. ASSUME NEW k \in Campaigns, CreditOnSignup(a, k) PROVE T
      <4>1. PICK left \in SUBSET (Campaigns \cup {None}) : welcome' = [welcome EXCEPT ![a] = left]
        BY <1>0, <3>4 DEF CreditOnSignup, TypeOK
      <4> QED BY <1>0, <3>4, <4>1 DEF TypeOK, CreditOnSignup
    <3> QED BY <2>2, <3>1, <3>2, <3>3, <3>4 DEF AccountStep
  <2>3. ASSUME NEW w \in Sweeps, SweepStep(w) \/ SweepStops(w) PROVE UNCHANGED <<now, created, deleted, confirmed, welcome>>
    BY <2>3 DEF SweepStep, SweepBegin, SweepNext, SweepCredit, SweepCreditFails, SweepStops, MarkExhaustedIfSpent
  <2>4. ASSUME NEW p \in Operators, Operate(p) PROVE UNCHANGED <<now, created, deleted, confirmed, welcome>>
    BY <2>4 DEF Operate, SetStatus, Update, UpdateChecksSpend, EditWrites
  <2>5. ASSUME NEW k \in Campaigns, NEW offer \in Offers, NEW budget \in Budgets, CreateCampaign(k, offer, budget)
        PROVE  UNCHANGED <<now, created, deleted, confirmed, welcome>>
    BY <2>5 DEF CreateCampaign
  <2>6. UNCHANGED vars => UNCHANGED <<now, created, deleted, confirmed, welcome>>
    BY DEF vars
  <2>7. Tick => T
    BY <1>0 DEF TypeOK, Tick
  <2> HIDE DEF T
  <2>8. T
    BY <2>1, <2>2, <2>3, <2>4, <2>5, <2>6, <2>7 DEF Next
  <2> QED BY <2>8 DEF T
<1> QED BY <1>1, <1>2, <1>3, <1>4, MoneyType DEF TypeOK

LEMMA GiftsStep ==
  ASSUME IInv, [Next]_vars
  PROVE  GiftsAreOffered'
<1>0. TypeOK /\ TypeOK' /\ GiftsAreOffered
  BY TypeStep DEF IInv
<1>1. \A k \in Campaigns : Offered(k) => Offered(k)' /\ campaign'[k].amount = campaign[k].amount
  BY RowSteps DEF RowStep, Offered, SameOffer
<1>2. CASE UNCHANGED money
  BY <1>0, <1>1, <1>2 DEF money, GiftsAreOffered, CreditedOnce
<1>3. ASSUME NEW a \in Accounts, NEW k \in Campaigns, Gift(a, k), UNCHANGED campaign PROVE GiftsAreOffered'
  <2>1. \A b \in Accounts, j \in Campaigns :
          gifts'[b][j] = IF b = a /\ j = k THEN campaign[k].amount ELSE gifts[b][j]
    <3>1. gifts[a] \in [Campaigns -> Nat] /\ gifts[a][k] = 0 /\ campaign[k].amount \in Nat
      BY <1>0, <1>3 DEF TypeOK, Gift, Campaign
    <3>2. [gifts[a] EXCEPT ![k] = gifts[a][k] + campaign[k].amount] =
            [j \in Campaigns |-> IF j = k THEN campaign[k].amount ELSE gifts[a][j]]
      BY <3>1
    <3>3. gifts' = [gifts EXCEPT ![a] = [j \in Campaigns |-> IF j = k THEN campaign[k].amount ELSE gifts[a][j]]]
      BY <1>3, <3>2 DEF Gift
    <3> QED BY <1>0, <3>3 DEF TypeOK
  <2>2. \A j \in Campaigns : gifts[a][j] = 0
    BY <1>3 DEF Gift
  <2>3. Offered(k)
    BY <1>3 DEF Gift, Offered
  <2>4. ASSUME NEW b \in Accounts, NEW j \in Campaigns, gifts'[b][j] > 0
        PROVE  /\ gifts'[b][j] = campaign'[j].amount /\ Offered(j)'
               /\ \A i \in Campaigns : gifts'[b][i] > 0 => i = j
    <3>1. CASE b = a
      BY <1>1, <1>3, <2>1, <2>2, <2>3, <2>4, <3>1
    <3>2. CASE b # a
      <4>1. \A i \in Campaigns : gifts'[b][i] = gifts[b][i]
        BY <2>1, <3>2
      <4> QED BY <1>0, <1>1, <2>4, <4>1 DEF GiftsAreOffered, CreditedOnce
    <3> QED BY <3>1, <3>2
  <2> QED BY <2>4 DEF GiftsAreOffered, CreditedOnce
<1>4. ASSUME NEW a \in Accounts, DeleteAccount(a) PROVE GiftsAreOffered'
  <2>1. \A b \in Accounts, j \in Campaigns : gifts'[b][j] = IF b = a THEN 0 ELSE gifts[b][j]
    BY <1>0, <1>4 DEF TypeOK, DeleteAccount
  <2>2. ASSUME NEW b \in Accounts, NEW j \in Campaigns, gifts'[b][j] > 0
        PROVE  /\ gifts'[b][j] = campaign'[j].amount /\ Offered(j)'
               /\ \A i \in Campaigns : gifts'[b][i] > 0 => i = j
    <3>1. b # a
      BY <2>1, <2>2
    <3>2. \A i \in Campaigns : gifts'[b][i] = gifts[b][i]
      BY <2>1, <3>1
    <3> QED BY <1>0, <1>1, <2>2, <3>2 DEF GiftsAreOffered, CreditedOnce
  <2> QED BY <2>2 DEF GiftsAreOffered, CreditedOnce
<1> QED BY <1>0, <1>2, <1>3, <1>4, MoneySteps
LEMMA EditsStep ==
  ASSUME IInv, [Next]_vars
  PROVE  \A p \in Operators : EditFits(p)'
<1> SUFFICES ASSUME NEW p \in Operators PROVE EditFits(p)'
  OBVIOUS
<1>0. TypeOK /\ TypeOK' /\ EditFits(p) /\ edit[p] \in Edit
  BY TypeStep DEF IInv, TypeOK
<1>1. \A k \in Campaigns :
        /\ campaign[k].status # "none" => campaign'[k].status # "none"
        /\ Offered(k) => Offered(k)' /\ SameOffer(campaign'[k], campaign[k])
        /\ issued[k] \in Nat /\ issued'[k] \in Nat /\ issued'[k] >= issued[k]
  BY <1>0, RowSteps, MoneyType DEF RowStep, Offered, TypeOK
<1>2. CASE edit'[p] = edit[p]
  <2> SUFFICES ASSUME edit[p].of # None PROVE EditFits(p)'
    BY <1>2 DEF EditFits
  <2>1. edit[p].of \in Campaigns /\ edit[p].write.amount \in Nat /\ edit[p].write.budget \in Nat
    BY <1>0 DEF EditFits, Edit, Campaign
  <2>2. edit[p].read.status # "draft" => Offered(edit[p].of)' /\ SameOffer(edit[p].write, campaign'[edit[p].of])
    <3>0. PICK k \in Campaigns : k = edit[p].of /\ k = edit'[p].of
      BY <1>2, <2>1
    <3>1. edit[p].read.status # "draft" => Offered(k) /\ SameOffer(edit[p].write, campaign[k])
      BY <1>0, <2>1, <3>0 DEF EditFits
    <3>2. Offered(k) => Offered(k)' /\ SameOffer(campaign'[k], campaign[k])
      BY <1>1, <2>1
    <3> QED BY <3>0, <3>1, <3>2 DEF SameOffer, Offered
  <2>3. issued[edit[p].of] + edit[p].write.amount > edit[p].write.budget
          => issued'[edit[p].of] + edit[p].write.amount > edit[p].write.budget
    BY <1>1, <2>1
  <2> QED BY <1>0, <1>1, <1>2, <2>1, <2>2, <2>3 DEF EditFits
<1>3. ASSUME edit'[p].of = None PROVE EditFits(p)'
  BY <1>3 DEF EditFits
<1>4. ASSUME NEW k \in Campaigns, NEW status \in Status, SetStatus(p, k, status) PROVE EditFits(p)'
  <2> DEFINE write == [campaign[k] EXCEPT !.status = status]
  <2>1. edit'[p] = [by |-> "setStatus", of |-> k, read |-> campaign[k], checked |-> TRUE, write |-> write]
    BY <1>0, <1>4 DEF SetStatus, TypeOK
  <2>2. campaign' = campaign /\ campaign[k] \in Campaign
    BY <1>0, <1>4 DEF SetStatus, TypeOK
  <2>3. /\ campaign[k].status \notin {"none", "ended"}
        /\ status \in {"live", "paused", "ended"}
    BY <1>4, <2>2 DEF SetStatus, LegalTransitions, Campaign, Status
  <2>4. write.status = status /\ SameOffer(write, campaign[k])
    BY <2>2 DEF Campaign, SameOffer
  <2> HIDE DEF write
  <2> QED BY <2>1, <2>2, <2>3, <2>4 DEF EditFits, Offered
<1>5. ASSUME NEW k \in Campaigns, NEW offer \in Offers, NEW budget \in Budgets, Update(p, k, offer, budget)
      PROVE  EditFits(p)'
  <2>1. edit'[p] = [by |-> "update", of |-> k, read |-> campaign[k], checked |-> FALSE,
                    write |-> [status |-> campaign[k].status, amount |-> offer.amount, from |-> offer.from,
                               to |-> offer.to, budget |-> budget]]
    BY <1>0, <1>5 DEF Update, TypeOK
  <2>2. campaign' = campaign /\ campaign[k].status \notin {"none", "ended"}
    BY <1>5 DEF Update
  <2>3. campaign[k].status # "draft" => SameOffer(offer, campaign[k])
    BY <1>5 DEF Update, MayChangeOffer, SameOffer
  <2> QED BY <2>1, <2>2, <2>3 DEF EditFits, Offered, SameOffer
<1>6. CASE UpdateChecksSpend(p)
  <2> DEFINE e == edit[p]
             write == IF e.read.status = "exhausted" /\ Affords(e.of, e.write)
                      THEN [e.write EXCEPT !.status = "live"] ELSE e.write
  <2>1. edit'[p] = NoEdit \/ edit'[p] = [by |-> e.by, of |-> e.of, read |-> e.read, checked |-> TRUE, write |-> write]
    BY <1>0, <1>6 DEF UpdateChecksSpend, TypeOK
  <2>2. CASE edit'[p] = NoEdit
    BY <1>3, <2>2 DEF NoEdit
  <2>3. CASE edit'[p] = [by |-> e.by, of |-> e.of, read |-> e.read, checked |-> TRUE, write |-> write]
    <3>1. e.of # None /\ UNCHANGED <<campaign, issued>> /\ e.write \in Campaign /\ e.of \in Campaigns
      BY <1>0, <1>6 DEF UpdateChecksSpend, Edit, EditFits, money
    <3>2. SameOffer(write, e.write) /\ write.budget = e.write.budget
          /\ write.status \in {e.write.status, "live"}
          /\ (write.status # e.write.status => e.read.status = "exhausted")
      BY <3>1 DEF Campaign, SameOffer
    <3>3. e.read.status = "exhausted" /\ write.status = "exhausted" => ~Affords(e.of, e.write)
      BY <3>1 DEF Campaign
    <3>4. ~Affords(e.of, e.write) => issued[e.of] + write.amount > write.budget
      <4>1. spent[e.of] \in Int /\ issued[e.of] \in Nat /\ spent[e.of] <= issued[e.of]
        BY <3>1 DEF IInv, TypeOK, IssuedCoversSpent
      <4>2. e.write.amount \in Nat /\ e.write.budget \in Nat /\ write.amount = e.write.amount
        BY <3>1, <3>2 DEF Campaign, SameOffer
      <4> HIDE DEF write
      <4> QED BY <3>2, <4>1, <4>2 DEF Affords
    <3> HIDE DEF write
    <3> QED BY <1>0, <2>3, <3>1, <3>2, <3>3, <3>4 DEF EditFits, Offered, SameOffer
  <2> QED BY <2>1, <2>2, <2>3
<1>7. CASE EditWrites(p)
  <2>1. edit'[p] = NoEdit
    BY <1>0, <1>7 DEF EditWrites, TypeOK
  <2> QED BY <1>3, <2>1 DEF NoEdit
<1>8. ASSUME NEW q \in Operators, Operate(q), q # p PROVE edit'[p] = edit[p]
  BY <1>0, <1>8 DEF Operate, SetStatus, Update, UpdateChecksSpend, EditWrites, TypeOK
<1>9. ASSUME NEW w \in Sweeps, SweepStep(w) \/ SweepStops(w) PROVE edit' = edit
  BY <1>9 DEF SweepStep, SweepBegin, SweepNext, SweepCredit, SweepCreditFails, SweepStops, MarkExhaustedIfSpent
<1>10. ASSUME NEW a \in Accounts, AccountStep(a) PROVE edit' = edit
  BY <1>10 DEF AccountStep, ConfirmEmail, Signup, WelcomeReads, SignupCreditFails, DeleteAccount, CreditOnSignup
<1>11. ASSUME NEW k \in Campaigns, NEW offer \in Offers, NEW budget \in Budgets, CreateCampaign(k, offer, budget)
       PROVE  edit' = edit
  BY <1>11 DEF CreateCampaign
<1>12. UNCHANGED vars \/ Tick => edit' = edit
  BY DEF vars, Tick
<1>13. Operate(p) => EditFits(p)'
  BY <1>4, <1>5, <1>6, <1>7 DEF Operate
<1> QED BY <1>2, <1>8, <1>9, <1>10, <1>11, <1>12, <1>13 DEF Next

LEMMA InvStep == IInv /\ [Next]_vars => IInv'
<1> SUFFICES ASSUME IInv, [Next]_vars PROVE IInv'
  OBVIOUS
<1>1. ExhaustedIsSpent'
  BY RowSteps DEF RowStep, ExhaustedIsSpent
<1> QED BY <1>1, TypeStep, GiftsStep, MoneyType, EditsStep DEF IInv

-------------------------------------------------------------------------------
LEMMA Inductive == Spec => []IInv
BY InvInit, InvStep, PTL DEF Spec

\* Every variable keeps its type.
THEOREM TypeCorrect == Spec => []TypeOK
<1>1. IInv => TypeOK
  BY DEF IInv
<1> QED BY <1>1, Inductive, PTL

\* One gift for an account, of one campaign, of what it offered, however many
\* sweeps, signups and edits overlap (creditCampaign).
THEOREM OneGift == Spec => []CreditedOnce
<1>1. IInv => CreditedOnce
  BY DEF IInv, GiftsAreOffered
<1> QED BY <1>1, Inductive, PTL

\* An exhausted campaign has paid out what it was given, whatever edits were in
\* flight when it was marked (markExhaustedIfSpent, update).
THEOREM ExhaustedHasPaid == Spec => []ExhaustedIsSpent
<1>1. IInv => ExhaustedIsSpent
  BY DEF IInv
<1> QED BY <1>1, Inductive, PTL

\* Every gift is decided on the row and the spend of that instant
\* (creditCampaign).
THEOREM GiftsFollow == Spec => GiftsFollowTheRow
<1>1. IInv /\ [Next]_vars =>
        [\A a \in Accounts, k \in Campaigns : gifts'[a][k] > gifts[a][k] =>
           /\ campaign[k].status = "live" /\ InWindow(a, campaign[k])
           /\ spent'[k] <= campaign[k].budget]_vars
  <2> SUFFICES ASSUME IInv, [Next]_vars, NEW a \in Accounts, NEW k \in Campaigns, gifts'[a][k] > gifts[a][k]
               PROVE  /\ campaign[k].status = "live" /\ InWindow(a, campaign[k])
                      /\ spent'[k] <= campaign[k].budget
    OBVIOUS
  <2>0. TypeOK
    BY DEF IInv
  <2>1. ~UNCHANGED money
    BY <2>0 DEF money, TypeOK
  <2>2. ASSUME NEW b \in Accounts, DeleteAccount(b) PROVE FALSE
    <3>1. gifts'[a][k] = IF a = b THEN 0 ELSE gifts[a][k]
      BY <2>0, <2>2 DEF DeleteAccount, TypeOK
    <3>2. gifts[a][k] \in Nat
      BY <2>0 DEF TypeOK
    <3> QED BY <3>1, <3>2
  <2>3. PICK b \in Accounts, j \in Campaigns : Gift(b, j)
    BY <2>0, <2>1, <2>2, MoneySteps
  <2>4. b = a /\ j = k
    <3>1. gifts[b] \in [Campaigns -> Nat] /\ gifts[a][k] \in Nat
      BY <2>0 DEF TypeOK
    <3>2. gifts'[a] = IF a = b THEN [gifts[b] EXCEPT ![j] = gifts[b][j] + campaign[j].amount] ELSE gifts[a]
      BY <2>0, <2>3 DEF Gift, TypeOK
    <3> QED BY <3>1, <3>2
  <2>5. spent'[k] = spent[k] + campaign[k].amount
    BY <2>0, <2>3, <2>4 DEF Gift, TypeOK
  <2> QED BY <2>3, <2>4, <2>5 DEF Gift, Affords
<1> QED BY <1>1, Inductive, PTL DEF Spec, GiftsFollowTheRow

\* What was promised to everybody in the window stays as it was, and an ended
\* campaign is over, with any number of operators at work (update, setStatus).
THEOREM OffersKept == Spec => OfferKept
<1>1. IInv /\ [Next]_vars =>
        [\A k \in Campaigns :
           LET old == campaign[k]
               new == campaign'[k]
           IN /\ old.status \notin {"none", "draft"} =>
                   new.amount = old.amount /\ new.from = old.from /\ new.to = old.to
              /\ old.status = "ended" => new = old]_vars
  BY RowSteps DEF RowStep, SameOffer
<1> QED BY <1>1, Inductive, PTL DEF Spec, OfferKept
===============================================================================
