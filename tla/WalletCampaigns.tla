---------------------------- MODULE WalletCampaigns ----------------------------
(***************************************************************************)
(* The welcome gifts of wallet campaigns (wallet-campaigns.service.ts,     *)
(* wallet-campaigns-admin.service.ts, creditCampaign of wallet.service.ts, *)
(* signup and deleteAccount of accounts.service.ts).                       *)
(*                                                                         *)
(* A gift is one Serializable transaction, one step here.  What surrounds  *)
(* it is not: a sweep works for minutes through a list it read at its      *)
(* start, a signup tries the campaigns it read in turn, an operator's edit *)
(* reads, checks and writes in three steps at Read Committed with a write  *)
(* guarded by the status it read, and an account deleted takes its ledger  *)
(* entries with it.                                                        *)
(***************************************************************************)
EXTENDS Integers, FiniteSets

CONSTANTS Accounts, Campaigns,
          Sweeps,       \* hourly sweeps, one in each API server
          Operators,
          Offers,       \* what an operator may type: [amount, from, to]
          Budgets,      \* likewise
          Batch,        \* CAMPAIGN_SWEEP_BATCH
          Horizon,      \* bounds the clock
          None

ASSUME CampaignAssumption ==
  /\ \A offer \in Offers : offer \in [amount : Nat \ {0}, from : Nat, to : Nat]
  /\ Budgets \subseteq Nat
  /\ Batch \in Nat /\ Horizon \in Nat
  /\ None \notin Campaigns \cup Nat

VARIABLES
  now,         \* instants, as the windows compare them
  created,     \* createdAt of each account
  deleted,     \* accounts that are no more
  confirmed,   \* accounts whose owner's address is confirmed
  campaign,    \* wallet_campaigns
  gifts,       \* sum of the entries of an account under a campaign's reference
  spent,       \* sum of all entries under a campaign's reference
  issued,      \* what a campaign has ever paid out
  welcome,     \* campaigns a signup has yet to try; {None}: yet to be read
  sweep,       \* where each sweep is
  edit         \* where each operator's request is

money == <<gifts, spent, issued>>
vars == <<now, created, deleted, confirmed, campaign, money, welcome, sweep, edit>>
-------------------------------------------------------------------------------
Status == {"none", "draft", "live", "paused", "exhausted", "ended"}

Campaign == [status : Status, amount : Nat, from : Nat, to : Nat, budget : Nat]

NoCampaign == [status |-> "none", amount |-> 0, from |-> 0, to |-> 0, budget |-> 0]

Window == [from : Nat, to : Nat]

\* rows: the live campaigns as read at its start, of which only the windows are
\* used; queue: those still to do; at: the one it works on; todo: the
\* candidates left of that one's batch.
Sweep == [rows : [Campaigns -> Window], queue : SUBSET Campaigns,
          at : Campaigns \cup {None}, todo : SUBSET Accounts]

IdleSweep == [rows |-> [k \in Campaigns |-> [from |-> 0, to |-> 0]], queue |-> {}, at |-> None, todo |-> {}]

\* of: the campaign; read: its row when the request began; write: the row it
\* asks for; checked: the spend has been looked at.
Edit == [by : {"none", "setStatus", "update"}, of : Campaigns \cup {None}, read : Campaign,
         write : Campaign, checked : BOOLEAN]

NoEdit == [by |-> "none", of |-> None, read |-> NoCampaign, write |-> NoCampaign, checked |-> FALSE]

TypeOK ==
  /\ now \in Nat
  /\ created \in [Accounts -> Nat \cup {None}]
  /\ deleted \subseteq Accounts
  /\ confirmed \subseteq Accounts
  /\ campaign \in [Campaigns -> Campaign]
  /\ gifts \in [Accounts -> [Campaigns -> Nat]]
  /\ spent \in [Campaigns -> Int]
  /\ issued \in [Campaigns -> Nat]
  /\ welcome \in [Accounts -> SUBSET (Campaigns \cup {None})]
  /\ sweep \in [Sweeps -> Sweep]
  /\ edit \in [Operators -> Edit]

Init ==
  /\ now = 0
  /\ created = [a \in Accounts |-> None]
  /\ deleted = {}
  /\ confirmed = {}
  /\ campaign = [k \in Campaigns |-> NoCampaign]
  /\ gifts = [a \in Accounts |-> [k \in Campaigns |-> 0]]
  /\ spent = [k \in Campaigns |-> 0]
  /\ issued = [k \in Campaigns |-> 0]
  /\ welcome = [a \in Accounts |-> {}]
  /\ sweep = [w \in Sweeps |-> IdleSweep]
  /\ edit = [p \in Operators |-> NoEdit]
-------------------------------------------------------------------------------
(* One gift.                                                               *)

Exists(a) == created[a] # None /\ a \notin deleted

InWindow(a, row) == Exists(a) /\ row.from <= created[a] /\ created[a] < row.to

Affords(k, row) == spent[k] + row.amount <= row.budget

\* Mutant: whoever was a candidate when the sweep read them is credited.
CreditedWhenRead(a, k) == k = None /\ \E j \in Campaigns : gifts[a][j] > 0

\* Any entry whose reference starts with "campaign:", whichever campaign's.
CreditedByACampaign(a, k) == \E j \in Campaigns : gifts[a][j] > 0

\* Mutant: the caller's row, which was live, decides.
AsRead(k) == [campaign[k] EXCEPT !.status = "live"]

\* The row a gift is decided on is read again inside the transaction.
AsItStands(k) == campaign[k]

\* creditCampaign, given whether the caller found the address confirmed.  Every
\* caller's row was live when it read it.
Outcome(a, k, verified) ==
  LET current == AsItStands(k) IN
  IF ~verified \/ current.status # "live" \/ ~InWindow(a, current)
  THEN "not_eligible"
  ELSE IF CreditedByACampaign(a, k) THEN "already_credited"
  ELSE IF ~Affords(k, current) THEN "budget_exhausted"
  ELSE "credited"

Credit(a, k, outcome) ==
  LET amount == AsItStands(k).amount IN
  IF outcome = "credited"
  THEN /\ gifts' = [gifts EXCEPT ![a] = [gifts[a] EXCEPT ![k] = gifts[a][k] + amount]]
       /\ spent' = [spent EXCEPT ![k] = spent[k] + amount]
       /\ issued' = [issued EXCEPT ![k] = issued[k] + amount]
  ELSE UNCHANGED money
-------------------------------------------------------------------------------
(* Accounts.                                                               *)

\* Supabase; with an account or before it.
ConfirmEmail(a) ==
  /\ a \notin confirmed
  /\ confirmed' = confirmed \cup {a}
  /\ UNCHANGED <<now, created, deleted, campaign, money, welcome, sweep, edit>>

Tick ==
  /\ now < Horizon
  /\ now' = now + 1
  /\ UNCHANGED <<created, deleted, confirmed, campaign, money, welcome, sweep, edit>>

\* The gift is tried at once for an address the token shows as confirmed.
Signup(a) ==
  /\ created[a] = None
  /\ now < Horizon
  /\ created' = [created EXCEPT ![a] = now]
  /\ now' = now + 1
  /\ welcome' = [welcome EXCEPT ![a] = IF a \in confirmed THEN {None} ELSE {}]
  /\ UNCHANGED <<deleted, confirmed, campaign, money, sweep, edit>>

\* creditOnSignup reads the live campaigns that are open now,
WelcomeReads(a) ==
  /\ welcome[a] = {None}
  /\ welcome' = [welcome EXCEPT ![a] = {k \in Campaigns : /\ campaign[k].status = "live"
                                                          /\ campaign[k].from <= now
                                                          /\ now < campaign[k].to}]
  /\ UNCHANGED <<now, created, deleted, confirmed, campaign, money, sweep, edit>>

\* and tries them in turn, until one has answered.
CreditOnSignup(a, k) ==
  LET outcome == Outcome(a, k, TRUE) IN
  /\ k \in welcome[a]
  /\ \A j \in welcome[a] : campaign[k].from <= campaign[j].from
  /\ Credit(a, k, outcome)
  /\ welcome' = [welcome EXCEPT ![a] = IF outcome \in {"credited", "already_credited"} THEN {}
                                       ELSE welcome[a] \ {k}]
  /\ UNCHANGED <<now, created, deleted, confirmed, campaign, sweep, edit>>

\* The error is swallowed, or the process stops.
SignupCreditFails(a) ==
  /\ welcome[a] # {}
  /\ welcome' = [welcome EXCEPT ![a] = {}]
  /\ UNCHANGED <<now, created, deleted, confirmed, campaign, money, sweep, edit>>

\* deleteAccount: the ledger entries go with the account, and so the sums over
\* them; the money has been given all the same.
DeleteAccount(a) ==
  /\ Exists(a)
  /\ deleted' = deleted \cup {a}
  /\ gifts' = [gifts EXCEPT ![a] = [k \in Campaigns |-> 0]]
  /\ spent' = [k \in Campaigns |-> spent[k] - gifts[a][k]]
  /\ UNCHANGED <<now, created, confirmed, campaign, issued, welcome, sweep, edit>>
-------------------------------------------------------------------------------
(* The sweep.                                                              *)

SweepBegin(w) ==
  LET live == {k \in Campaigns : campaign[k].status = "live"} IN
  /\ sweep[w] = IdleSweep
  /\ live # {}
  /\ sweep' = [sweep EXCEPT ![w] =
       [rows |-> [k \in Campaigns |-> IF k \in live THEN [from |-> campaign[k].from, to |-> campaign[k].to]
                                      ELSE [from |-> 0, to |-> 0]],
        queue |-> live, at |-> None, todo |-> {}]]
  /\ UNCHANGED <<now, created, deleted, confirmed, campaign, money, welcome, edit>>

\* Mutant: an account that has had its gift stays a candidate.
EligibleAlsoIfCredited(row) == {a \in Accounts : InWindow(a, row)}

Eligible(row) ==
  {a \in Accounts : InWindow(a, row) /\ ~CreditedByACampaign(a, None)}

\* The first Batch of them, in the order they signed up.
Candidates(row) ==
  {a \in Eligible(row) : Cardinality({b \in Eligible(row) : created[b] < created[a]}) < Batch}

SweepNext(w, k) ==
  LET s == sweep[w] IN
  /\ s.at = None /\ k \in s.queue
  /\ \A j \in s.queue : s.rows[k].from <= s.rows[j].from
  /\ sweep' = [sweep EXCEPT ![w] = [rows |-> s.rows, queue |-> s.queue \ {k}, at |-> k,
                                    todo |-> Candidates(s.rows[k])]]
  /\ UNCHANGED <<now, created, deleted, confirmed, campaign, money, welcome, edit>>

First(accounts, a) == a \in accounts /\ \A b \in accounts : created[a] <= created[b]

\* One candidate, as it was looked up; the batch ends with the budget.
SweepCredit(w, a) ==
  LET s == sweep[w]
      outcome == Outcome(a, s.at, a \in confirmed)
  IN /\ s.at # None /\ First(s.todo, a)
     /\ Credit(a, s.at, outcome)
     /\ sweep' = [sweep EXCEPT ![w] = [rows |-> s.rows, queue |-> s.queue, at |-> s.at,
                    todo |-> IF outcome = "budget_exhausted" THEN {} ELSE s.todo \ {a}]]
     /\ UNCHANGED <<now, created, deleted, confirmed, campaign, welcome, edit>>

\* The lookup or the credit throws: the next candidate.
SweepCreditFails(w, a) ==
  LET s == sweep[w] IN
  /\ s.at # None /\ First(s.todo, a)
  /\ sweep' = [sweep EXCEPT ![w] = [rows |-> s.rows, queue |-> s.queue, at |-> s.at,
                                    todo |-> s.todo \ {a}]]
  /\ UNCHANGED <<now, created, deleted, confirmed, campaign, money, welcome, edit>>

\* markExhaustedIfSpent, on the row and the spend as they are now.
MarkExhaustedIfSpent(w) ==
  LET s == sweep[w]
      k == s.at
      spentOut == campaign[k].status = "live" /\ ~Affords(k, campaign[k])
  IN /\ k # None /\ s.todo = {}
     /\ campaign' = IF spentOut
                    THEN [campaign EXCEPT ![k] = [campaign[k] EXCEPT !.status = "exhausted"]]
                    ELSE campaign
     /\ sweep' = [sweep EXCEPT ![w] =
                    IF s.queue = {} THEN IdleSweep
                    ELSE [rows |-> s.rows, queue |-> s.queue, at |-> None, todo |-> {}]]
     /\ UNCHANGED <<now, created, deleted, confirmed, money, welcome, edit>>

\* Its time is up, an error ends it, or the process stops.
SweepStops(w) ==
  /\ sweep[w] # IdleSweep
  /\ sweep' = [sweep EXCEPT ![w] = IdleSweep]
  /\ UNCHANGED <<now, created, deleted, confirmed, campaign, money, welcome, edit>>
-------------------------------------------------------------------------------
(* The operators.                                                          *)

\* LEGAL_TRANSITIONS
LegalTransitions == [none |-> {}, draft |-> {"live", "ended"}, live |-> {"paused", "ended"},
                     paused |-> {"live", "ended"}, exhausted |-> {"ended"}, ended |-> {}]

\* Mutant: the budget is kept as what is left after the first gift.
CreateCampaignLessOne(k, offer, budget) ==
  /\ campaign[k].status = "none"
  /\ offer.from < offer.to
  /\ campaign' = [campaign EXCEPT ![k] = [status |-> "draft", amount |-> offer.amount, from |-> offer.from,
                                          to |-> offer.to, budget |-> budget - offer.amount]]
  /\ UNCHANGED <<now, created, deleted, confirmed, money, welcome, sweep, edit>>

CreateCampaign(k, offer, budget) ==
  /\ campaign[k].status = "none"
  /\ offer.from < offer.to
  /\ campaign' = [campaign EXCEPT ![k] = [status |-> "draft", amount |-> offer.amount, from |-> offer.from,
                                          to |-> offer.to, budget |-> budget]]
  /\ UNCHANGED <<now, created, deleted, confirmed, money, welcome, sweep, edit>>

\* setStatus reads the row and finds the transition legal.
SetStatus(p, k, status) ==
  /\ edit[p] = NoEdit
  /\ status \in LegalTransitions[campaign[k].status]
  /\ edit' = [edit EXCEPT ![p] = [by |-> "setStatus", of |-> k, read |-> campaign[k], checked |-> TRUE,
                                  write |-> [campaign[k] EXCEPT !.status = status]]]
  /\ UNCHANGED <<now, created, deleted, confirmed, campaign, money, welcome, sweep>>

\* Mutant: the offer may be corrected at any time.
MayChangeOfferAlways(row) == TRUE

MayChangeOffer(row) == row.status = "draft"

\* update reads the row.  What the form leaves out is written back as read.
Update(p, k, offer, budget) ==
  LET row == campaign[k] IN
  /\ edit[p] = NoEdit
  /\ row.status \notin {"none", "ended"}
  /\ offer.from < offer.to
  /\ MayChangeOffer(row) \/ offer = [amount |-> row.amount, from |-> row.from, to |-> row.to]
  /\ edit' = [edit EXCEPT ![p] = [by |-> "update", of |-> k, read |-> row, checked |-> FALSE,
                                  write |-> [status |-> row.status, amount |-> offer.amount, from |-> offer.from,
                                             to |-> offer.to, budget |-> budget]]]
  /\ UNCHANGED <<now, created, deleted, confirmed, campaign, money, welcome, sweep>>

\* The spend is read: a budget below it is refused, and a budget that pays for
\* one more gift restarts a campaign that had run out.
UpdateChecksSpend(p) ==
  LET e == edit[p]
      revives == e.read.status = "exhausted" /\ Affords(e.of, e.write)
  IN /\ e.of # None /\ ~e.checked
     /\ edit' = [edit EXCEPT ![p] =
          IF e.write.budget # e.read.budget /\ e.write.budget < spent[e.of] THEN NoEdit
          ELSE [by |-> e.by, of |-> e.of, read |-> e.read, checked |-> TRUE,
                write |-> IF revives THEN [e.write EXCEPT !.status = "live"] ELSE e.write]]
     /\ UNCHANGED <<now, created, deleted, confirmed, campaign, money, welcome, sweep>>

\* Mutant: the write is not guarded by the status it was decided under.
StatusMayHaveChanged(p) == TRUE

StatusIsAsRead(p) == campaign[edit[p].of].status = edit[p].read.status

\* The guarded write; with a count of 0 the request is answered 409.  setStatus
\* writes the status alone, update everything else and the status on a revival.
EditWrites(p) ==
  LET e == edit[p]
      row == campaign[e.of]
      status == IF e.write.status # e.read.status THEN e.write.status ELSE row.status
  IN /\ e.of # None /\ e.checked
     /\ campaign' = IF ~StatusIsAsRead(p) THEN campaign
                    ELSE [campaign EXCEPT ![e.of] =
                            IF e.by = "setStatus" THEN [row EXCEPT !.status = status]
                            ELSE [e.write EXCEPT !.status = status]]
     /\ edit' = [edit EXCEPT ![p] = NoEdit]
     /\ UNCHANGED <<now, created, deleted, confirmed, money, welcome, sweep>>
-------------------------------------------------------------------------------
SweepStep(w) ==
  \/ SweepBegin(w) \/ MarkExhaustedIfSpent(w)
  \/ \E k \in Campaigns : SweepNext(w, k)
  \/ \E a \in Accounts : SweepCredit(w, a) \/ SweepCreditFails(w, a)

Operate(p) ==
  \/ \E k \in Campaigns, status \in Status : SetStatus(p, k, status)
  \/ \E k \in Campaigns, offer \in Offers, budget \in Budgets : Update(p, k, offer, budget)
  \/ UpdateChecksSpend(p) \/ EditWrites(p)

AccountStep(a) ==
  \/ ConfirmEmail(a) \/ Signup(a) \/ WelcomeReads(a) \/ SignupCreditFails(a) \/ DeleteAccount(a)
  \/ \E k \in Campaigns : CreditOnSignup(a, k)

Next ==
  \/ \E w \in Sweeps : SweepStep(w) \/ SweepStops(w)
  \/ \E p \in Operators : Operate(p)
  \/ \E k \in Campaigns, offer \in Offers, budget \in Budgets : CreateCampaign(k, offer, budget)
  \/ \E a \in Accounts : AccountStep(a)
  \/ Tick

Spec == Init /\ [][Next]_vars

\* Sweeps come every hour and go on; not every one is stopped at the same point,
\* and neither Supabase nor the database fails the same account every time.
FairSpec ==
  /\ Spec
  /\ \A w \in Sweeps : WF_vars(SweepStep(w))
  /\ \A w \in Sweeps, k \in Campaigns : SF_vars(SweepNext(w, k))
  /\ \A w \in Sweeps, a \in Accounts : SF_vars(SweepCredit(w, a))
-------------------------------------------------------------------------------
(***************************************************************************)
(* Properties.                                                             *)
(***************************************************************************)

\* However sweeps, signups and edits overlap or repeat: no account has gifts
\* of two campaigns, or more of one than it promised.
CreditedOnce ==
  \A a \in Accounts, k \in Campaigns : gifts[a][k] > 0 =>
    /\ gifts[a][k] = campaign[k].amount
    /\ \A j \in Campaigns : gifts[a][j] > 0 => j = k

\* A pause, an end or a lower budget takes effect at once, also for the sweep
\* that has begun: a gift leaves a campaign that is live then, to an account
\* that is there then, within the budget of then.
GiftsFollowTheRow ==
  [][\A a \in Accounts, k \in Campaigns : gifts'[a][k] > gifts[a][k] =>
       /\ campaign[k].status = "live" /\ InWindow(a, campaign[k])
       /\ spent'[k] <= campaign[k].budget]_vars

\* A campaign shown as out of money has paid out what it was given, whichever
\* edit, sweep or deletion came last.
ExhaustedIsSpent ==
  \A k \in Campaigns :
    campaign[k].status = "exhausted" => issued[k] + campaign[k].amount > campaign[k].budget

\* The offer, once made, is never altered, and an ended campaign never returns.
OfferKept ==
  [][\A k \in Campaigns :
       LET old == campaign[k]
           new == campaign'[k]
       IN /\ old.status \notin {"none", "draft"} =>
               new.amount = old.amount /\ new.from = old.from /\ new.to = old.to
          /\ old.status = "ended" => new = old]_vars

\* An account that is owed a gift: it signed up in the window of a live
\* campaign that can pay, its address is confirmed, and it has had none.
Owed(a, k) ==
  /\ campaign[k].status = "live" /\ Affords(k, campaign[k])
  /\ InWindow(a, campaign[k]) /\ a \in confirmed
  /\ ~CreditedByACampaign(a, k)

\* The candidates before it that no sweep will ever credit: their addresses are
\* not confirmed, and nothing takes them off the list.
HeldUpBy(a, k) ==
  {b \in Eligible(campaign[k]) \ confirmed : created[b] < created[a]}

\* What the signup or a full batch left out, the sweeps make good: nobody stays
\* owed for ever who has fewer than a batch of unconfirmed accounts before it.
NobodyStaysOwed ==
  \A a \in Accounts, k \in Campaigns :
    []<>~(Owed(a, k) /\ Cardinality(HeldUpBy(a, k)) < Batch)

\* The budget is a ceiling on all a campaign ever pays (schema.prisma).
BudgetIsCeiling ==
  \A k \in Campaigns : campaign[k].status # "none" => issued[k] <= campaign[k].budget

\* "Anything left over is still in-window and waits an hour" (the comment on
\* CAMPAIGN_SWEEP_BATCH): a full batch delays a gift and withholds none.
LeftOverWaits == \A a \in Accounts, k \in Campaigns : []<>~Owed(a, k)
===============================================================================
