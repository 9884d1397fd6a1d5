------------------------------- MODULE AutoTopUp -------------------------------
(***************************************************************************)
(* The automatic top-up of one account's wallet (wallet-watch.service.ts,  *)
(* autoTopUp of wallet.service.ts).                                        *)
(*                                                                         *)
(* The 09:00 timer of each server, and an operator by hand, run the watch. *)
(* A run reads the account, then the balance, asks Stripe for a card,      *)
(* makes an invoice, has it paid, credits the ledger in one Serializable   *)
(* transaction and writes the audit log: every one of these is a step, any *)
(* call may fail or lose its answer, and the process may stop in between.  *)
(***************************************************************************)
EXTENDS Integers, FiniteSets

CONSTANTS Run,         \* runs of the watch that may be in flight
          MaxInvoices, \* bounds the invoices that are paid
          Setting,     \* what the customer may fill in: [threshold, amount]
          MaxThreshold, MaxAmount,   \* AUTO_TOP_UP_THRESHOLD_MAX_MINOR, _AMOUNT_
          Price,       \* what an order may cost
          Opening,     \* the balance at first
          MaxFaults,   \* bounds failed calls, lost answers and stopped runs
          None

ASSUME AutoTopUpAssumption ==
  /\ MaxThreshold \in Nat \ {0} /\ MaxAmount \in Nat \ {0}
  /\ Setting \subseteq [threshold : 1..MaxThreshold, amount : 1..MaxAmount]
  /\ Price \subseteq Nat \ {0}
  /\ Opening \in Nat /\ MaxFaults \in Nat /\ MaxInvoices \in Nat
  /\ None \notin Nat \cup Setting
  /\ IsFiniteSet(Run)

VARIABLES
  balance,    \* of the wallet's ledger
  account,    \* the five autoTopUp columns
  card,       \* the card at Stripe, and what the bank says to it
  charged,    \* what each paid invoice took; 0, not paid
  credited,   \* those with a ledger entry of reference topup:<invoice>
  alerted,    \* those HQ was told were charged and not credited
  run,        \* where each run is and what it has read
  faults,     \* how many so far
  tries,      \* charges the bank refused since the form was saved or a run stopped
  lost        \* paid invoices a fault has taken from the run that paid them

wallet == <<balance, credited>>
stripe == <<card, charged>>
history == <<tries, lost>>
vars == <<wallet, account, stripe, alerted, run, faults, history>>
-------------------------------------------------------------------------------
Invoice == 1..MaxInvoices

\* AUTO_TOP_UP_PAUSE_REASONS; what the bank says is one reason here.
Reason == {"no_payment_method", "card_declined", "unknown"}

Step == {"idle", "checked", "low", "charge", "paid", "audit", "alert", "failed"}

Idle == [step |-> "idle", read |-> None, invoice |-> None, reason |-> None]

TypeOK ==
  /\ balance \in Nat
  /\ account \in [enabled : BOOLEAN, paused : BOOLEAN, setting : Setting]
  /\ card \in {"none", "good", "declines"}
  /\ charged \in [Invoice -> 0..MaxAmount]
  /\ credited \subseteq Invoice /\ alerted \subseteq Invoice /\ lost \subseteq Invoice
  /\ run \in [Run -> [step : Step, read : Setting \cup {None},
                      invoice : Invoice \cup {None}, reason : Reason \cup {None}]]
  /\ faults \in 0..MaxFaults /\ tries \in Nat

Init ==
  /\ balance = Opening
  /\ account \in [enabled : {FALSE}, paused : {FALSE}, setting : Setting]
  /\ card = "none"
  /\ charged = [i \in Invoice |-> 0]
  /\ credited = {} /\ alerted = {} /\ lost = {}
  /\ run = [r \in Run |-> Idle]
  /\ faults = 0 /\ tries = 0

Goes(r, step) == run' = [run EXCEPT ![r].step = step]
Ends(r) == run' = [run EXCEPT ![r] = Idle]
FailsWith(r, reason) == run' = [run EXCEPT ![r].step = "failed", ![r].reason = reason]

Fault == faults < MaxFaults /\ faults' = faults + 1
-------------------------------------------------------------------------------
(* autoTopUp, up to the charge.                                            *)

\* Mutant: the pause is left to the query that lists the accounts.
AsksToBeWatched == account.enabled

Asks == account.enabled /\ ~account.paused

\* An account that does not ask is left alone.
ReadAccount(r) ==
  /\ run[r].step = "idle"
  /\ Asks
  /\ run' = [run EXCEPT ![r] = [Idle EXCEPT !.step = "checked", !.read = account.setting]]
  /\ UNCHANGED <<wallet, account, stripe, alerted, faults, history>>

\* Mutant: a balance at the threshold is topped up.
LowOrJustEnough(r) == balance <= run[r].read.threshold

Low(r) == balance < run[r].read.threshold

ReadBalance(r) ==
  /\ run[r].step = "checked"
  /\ IF Low(r) THEN Goes(r, "low") ELSE Ends(r)
  /\ UNCHANGED <<wallet, account, stripe, alerted, faults, history>>

\* resolveCardPaymentMethod
FindCard(r) ==
  /\ run[r].step = "low"
  /\ IF card = "none" THEN FailsWith(r, "no_payment_method") ELSE Goes(r, "charge")
  /\ UNCHANGED <<wallet, account, stripe, alerted, faults, history>>

\* Reading the account, its balance or its card throws: the run goes on to the
\* next account.
LookupFails(r) ==
  /\ run[r].step \in {"checked", "low"}
  /\ Fault /\ Ends(r)
  /\ UNCHANGED <<wallet, account, stripe, alerted, history>>

\* chargeAutoTopUp: create, add the line, finalise and pay.  Only the last call
\* moves money; an invoice the bank refuses stays open and nothing reads it.
Paid(r, i) ==
  /\ run[r].step = "charge" /\ card = "good"
  /\ \A j \in Invoice : charged[j] = 0 <=> j >= i
  /\ charged' = [charged EXCEPT ![i] = run[r].read.amount]

Pay(r, i) ==
  /\ Paid(r, i)
  /\ run' = [run EXCEPT ![r].step = "paid", ![r].invoice = i]
  /\ UNCHANGED <<wallet, account, card, alerted, faults, history>>

\* A card taken off since it was looked up is no card error.
Refuse(r) ==
  /\ run[r].step = "charge"
  /\ \/ card = "declines" /\ FailsWith(r, "card_declined") /\ tries' = tries + 1
     \/ card = "none" /\ FailsWith(r, "unknown") /\ UNCHANGED tries
  /\ UNCHANGED <<wallet, account, stripe, alerted, faults, lost>>

\* One of the calls fails before the bank is asked.
ChargeFails(r) ==
  /\ run[r].step = "charge"
  /\ Fault /\ FailsWith(r, "unknown")
  /\ UNCHANGED <<wallet, account, stripe, alerted, history>>

\* The bank pays and the answer does not arrive.
PaidUnanswered(r, i) ==
  /\ Paid(r, i)
  /\ Fault /\ FailsWith(r, "unknown")
  /\ lost' = lost \cup {i}
  /\ UNCHANGED <<wallet, account, card, alerted, tries>>
-------------------------------------------------------------------------------
(* autoTopUp, past the charge.                                             *)

\* The transaction of creditAutoTopUp: once for an invoice.
Entered(i) ==
  IF i \in credited THEN UNCHANGED wallet
  ELSE balance' = balance + charged[i] /\ credited' = credited \cup {i}

Credit(r) ==
  /\ run[r].step = "paid"
  /\ Entered(run[r].invoice)
  /\ Goes(r, "audit")
  /\ UNCHANGED <<account, stripe, alerted, faults, history>>

\* Mutant: a credit that fails ends the run like any other error.
CreditFailsUnseen(r) ==
  /\ run[r].step = "paid"
  /\ Fault /\ (UNCHANGED wallet \/ Entered(run[r].invoice))
  /\ Ends(r)
  /\ UNCHANGED <<account, stripe, alerted, history>>

\* It throws; it may have been committed all the same.
CreditFails(r) ==
  /\ run[r].step = "paid"
  /\ Fault /\ (UNCHANGED wallet \/ Entered(run[r].invoice))
  /\ Goes(r, "alert")
  /\ UNCHANGED <<account, stripe, alerted, history>>

WriteAudit(r) ==
  /\ run[r].step = "audit"
  /\ Ends(r)
  /\ UNCHANGED <<wallet, account, stripe, alerted, faults, history>>

\* audit.record throws by design, inside the same try.
AuditFails(r) ==
  /\ run[r].step = "audit"
  /\ Fault /\ Goes(r, "alert")
  /\ UNCHANGED <<wallet, account, stripe, alerted, history>>

\* walletTopUpNotCredited, then the error goes on to runDue: no pause.
Alert(r) ==
  /\ run[r].step = "alert"
  /\ alerted' = alerted \cup {run[r].invoice}
  /\ Ends(r)
  /\ UNCHANGED <<wallet, account, stripe, faults, history>>

\* It catches its own errors.
AlertFails(r) ==
  /\ run[r].step = "alert"
  /\ Fault /\ Ends(r)
  /\ lost' = lost \cup {run[r].invoice}
  /\ UNCHANGED <<wallet, account, stripe, alerted, tries>>
-------------------------------------------------------------------------------
(* pause.                                                                  *)

\* Mutant: only a missing card pauses.
PauseIfNoCard(r) ==
  /\ run[r].step = "failed"
  /\ account' = [account EXCEPT !.paused = @ \/ run[r].reason = "no_payment_method"]
  /\ Ends(r)
  /\ UNCHANGED <<wallet, stripe, alerted, faults, history>>

\* The update is guarded on still unpaused; only the run that wins goes on to tell
\* the customer, and HQ when the reason is unknown.
Pause(r) ==
  /\ run[r].step = "failed"
  /\ account' = [account EXCEPT !.paused = TRUE]
  /\ Ends(r)
  /\ UNCHANGED <<wallet, stripe, alerted, faults, history>>

\* The process stops.
Stop(r) ==
  /\ run[r].step # "idle"
  /\ Fault /\ Ends(r)
  /\ lost' = lost \cup (IF run[r].step \in {"paid", "alert"} THEN {run[r].invoice} ELSE {})
  /\ tries' = 0
  /\ UNCHANGED <<wallet, account, stripe, alerted>>
-------------------------------------------------------------------------------
(* The customer.                                                           *)

\* updateAutoTopUp
Save(enabled, s) ==
  /\ account' = [enabled |-> enabled, paused |-> FALSE, setting |-> s]
  /\ tries' = 0
  /\ UNCHANGED <<wallet, stripe, alerted, run, faults, lost>>

ChangeCard(c) ==
  /\ card' = c
  /\ UNCHANGED <<wallet, account, charged, alerted, run, faults, history>>

\* Mutant: an order is paid for whatever the balance.
SpendAnyway(n) ==
  /\ balance' = balance - n
  /\ UNCHANGED <<credited, account, stripe, alerted, run, faults, history>>

\* debitAndSettleOrder, one Serializable transaction.
Spend(n) ==
  /\ n <= balance
  /\ balance' = balance - n
  /\ UNCHANGED <<credited, account, stripe, alerted, run, faults, history>>

RunSteps(r) ==
  \/ ReadAccount(r) \/ ReadBalance(r) \/ FindCard(r)
  \/ \E i \in Invoice : Pay(r, i)
  \/ Refuse(r) \/ Credit(r) \/ WriteAudit(r) \/ Alert(r) \/ Pause(r)

Faults(r) ==
  \/ LookupFails(r) \/ ChargeFails(r) \/ CreditFails(r)
  \/ \E i \in Invoice : PaidUnanswered(r, i)
  \/ AuditFails(r) \/ AlertFails(r) \/ Stop(r)

Next ==
  \/ \E r \in Run : RunSteps(r) \/ Faults(r)
  \/ \E enabled \in BOOLEAN, s \in Setting : Save(enabled, s)
  \/ \E c \in {"none", "good", "declines"} : ChangeCard(c)
  \/ \E n \in Price : Spend(n)

Spec == Init /\ [][Next]_vars

\* The timer fires every day, and a run that is not stopped goes on.
FairSpec == Spec /\ \A r \in Run : WF_vars(RunSteps(r))
-------------------------------------------------------------------------------
(* Properties.                                                             *)

\* A top-up is a floor and not a pump: however the runs overlap, what they read
\* and however late they credit, the wallet never holds more than one amount for
\* each run above a balance that was too low (autoTopUp reads the balance and
\* credits it four calls later, with nothing held in between).
OverfundingBounded ==
  \/ balance <= Opening
  \/ balance <= MaxThreshold - 1 + Cardinality(Run) * MaxAmount

Holds(r, i) == run[r].invoice = i /\ run[r].step \in {"paid", "alert"}

\* Money taken is in the wallet, named to HQ, or still in the hands of a run; only
\* an answer that never came, an alert that failed or a run that stopped can lose
\* it (the two blocks past "the money has moved" in autoTopUp).
NothingForgotten ==
  \A i \in Invoice : charged[i] > 0 =>
    \/ i \in credited \cup alerted \cup lost
    \/ \E r \in Run : Holds(r, i)

\* A bank that refuses is not asked again: until the customer saves the form every
\* run is refused once at most, the runs in flight when another one pauses the
\* account and when the form is saved included (pause, and the guard of autoTopUp).
RefusedOnceEach == tries <= Cardinality(Run)

\* An account that asks and is too low is topped up, paused or, by a save, no
\* longer asking, once faults stop (runDue, every day).
FloorKept ==
  Asks /\ balance < account.setting.threshold
    ~> \/ ~Asks \/ balance >= account.setting.threshold
       \/ \A i \in Invoice : charged[i] > 0
-------------------------------------------------------------------------------
(* What the repository says of it, and the code does not keep.             *)

Charges(i) == charged[i] = 0 /\ charged'[i] > 0

\* "Do NOT re-run the top-up - that would charge them twice" (the alert, and the
\* comment in autoTopUp): while an invoice stands paid and not credited, nothing
\* more is charged.  The account is not paused, so the next morning's run does.
NotRunAgain ==
  [][\A i \in Invoice : Charges(i) => alerted \subseteq credited]_vars

\* "Charged and did not credit the wallet ... credit the wallet by hand": the alert
\* is of an invoice that was not credited.  The audit log is written in the same
\* try, after the credit.
AlertMeansUncredited == alerted \cap credited = {}

\* "unknown" is "told to them and raised with Kudos HQ" (pauseReasonOfStripeError).
\* A run that finds the account paused by another one raises nothing.
UnexplainedIsRaised ==
  [][\A r \in Run : run[r].step = "failed" /\ run[r].reason = "unknown"
                    /\ run'[r].step = "idle" /\ faults' = faults
                      => ~account.paused]_vars

\* "nothing is charged again until you say so" (the e-mail of a pause).  A run that
\* read the account before still charges.
NothingWhilePaused ==
  [][\A i \in Invoice : Charges(i) => ~account.paused]_vars
===============================================================================
