--------------------------- MODULE AutoTopUp_proofs ---------------------------
(* Theorems of AutoTopUp.tla, for every number of runs, invoices and faults *)
(* and every form a customer may fill in.                                   *)
EXTENDS AutoTopUp, FiniteSetTheorems, TLAPS

USE AutoTopUpAssumption

\* What a run carries past each read.
Carries ==
  \A r \in Run :
    /\ run[r].step \in {"checked", "low", "charge"} => run[r].read \in Setting
    /\ run[r].step \in {"paid", "audit", "alert"} => run[r].invoice \in Invoice

Types == TypeOK /\ Carries

\* Runs that may still be refused, and those that were and have not paused yet.
Asking == {r \in Run : run[r].step \in {"checked", "low", "charge"}}
Refused == {r \in Run : run[r].step = "failed"}

\* While the account is not paused, a refusal since the last save or stop is of a
\* run that still has to pause it; from the pause on no run starts anew.
TriesCounted ==
  IF account.paused THEN tries <= Cardinality(Run \ Asking)
                    ELSE tries <= Cardinality(Refused)

\* Runs that found the balance too low and have not credited it.
Pending == {r \in Run : run[r].step \in {"low", "charge", "paid"}}

\* Every one of them may add an amount; while there are any, the balance was below
\* a threshold with all the others still to add theirs.
Below == balance <= MaxThreshold - 1 + (Cardinality(Run) - Cardinality(Pending)) * MaxAmount

Floor == Below \/ (balance <= Opening /\ Pending = {})
-------------------------------------------------------------------------------
(* Types.                                                                  *)

LEMMA InitTypes == Init => Types
<1> SUFFICES ASSUME Init PROVE Types OBVIOUS
<1>1. Idle \in [step : Step, read : Setting \cup {None},
                invoice : Invoice \cup {None}, reason : Reason \cup {None}]
  BY DEF Idle, Step
<1>2. account \in [enabled : BOOLEAN, paused : BOOLEAN, setting : Setting]
  BY DEF Init
<1> QED BY <1>1, <1>2 DEF Init, Types, TypeOK, Carries, Idle

\* What a run becomes when it fails or is paid is a run.
LEMMA Records ==
  ASSUME NEW p \in [step : Step, read : Setting \cup {None},
                    invoice : Invoice \cup {None}, reason : Reason \cup {None}]
  PROVE  /\ \A reason \in Reason :
              /\ [p EXCEPT !.step = "failed", !.reason = reason]
                   \in [step : Step, read : Setting \cup {None},
                        invoice : Invoice \cup {None}, reason : Reason \cup {None}]
              /\ [p EXCEPT !.step = "failed", !.reason = reason].step = "failed"
         /\ \A i \in Invoice :
              /\ [p EXCEPT !.step = "paid", !.invoice = i]
                   \in [step : Step, read : Setting \cup {None},
                        invoice : Invoice \cup {None}, reason : Reason \cup {None}]
              /\ [p EXCEPT !.step = "paid", !.invoice = i].step = "paid"
              /\ [p EXCEPT !.step = "paid", !.invoice = i].invoice = i
BY DEF Step

\* A run that moves on keeps its type.
LEMMA Moves ==
  ASSUME TypeOK, NEW r \in Run
  PROVE  /\ \A step \in Step : Goes(r, step) =>
              /\ run' \in [Run -> [step : Step, read : Setting \cup {None},
                                   invoice : Invoice \cup {None}, reason : Reason \cup {None}]]
              /\ run'[r].step = step
              /\ run'[r].read = run[r].read /\ run'[r].invoice = run[r].invoice
              /\ \A q \in Run : q # r => run'[q] = run[q]
         /\ \A reason \in Reason : FailsWith(r, reason) =>
              /\ run' \in [Run -> [step : Step, read : Setting \cup {None},
                                   invoice : Invoice \cup {None}, reason : Reason \cup {None}]]
              /\ run'[r].step = "failed"
              /\ \A q \in Run : q # r => run'[q] = run[q]
         /\ Ends(r) =>
              /\ run' \in [Run -> [step : Step, read : Setting \cup {None},
                                   invoice : Invoice \cup {None}, reason : Reason \cup {None}]]
              /\ run'[r].step = "idle"
              /\ \A q \in Run : q # r => run'[q] = run[q]
<1>1. ASSUME NEW step \in Step, Goes(r, step)
      PROVE  /\ run' \in [Run -> [step : Step, read : Setting \cup {None},
                                  invoice : Invoice \cup {None}, reason : Reason \cup {None}]]
             /\ run'[r].step = step
             /\ run'[r].read = run[r].read /\ run'[r].invoice = run[r].invoice
             /\ \A q \in Run : q # r => run'[q] = run[q]
  BY <1>1 DEF Goes, TypeOK
<1>2. ASSUME NEW reason \in Reason, FailsWith(r, reason)
      PROVE  /\ run' \in [Run -> [step : Step, read : Setting \cup {None},
                                  invoice : Invoice \cup {None}, reason : Reason \cup {None}]]
             /\ run'[r].step = "failed"
             /\ \A q \in Run : q # r => run'[q] = run[q]
  <2> DEFINE R == [step : Step, read : Setting \cup {None},
                   invoice : Invoice \cup {None}, reason : Reason \cup {None}]
  <2> DEFINE e == [run[r] EXCEPT !.step = "failed", !.reason = reason]
  <2>0. run[r] \in R BY DEF TypeOK
  <2>1. e \in R BY <2>0, Records
  <2>2. e.step = "failed" BY <2>0, Records
  <2>3. run' = [run EXCEPT ![r] = e] BY <1>2 DEF FailsWith, TypeOK
  <2> HIDE DEF e, R
  <2> QED BY <2>1, <2>2, <2>3 DEF TypeOK, R
<1>3. ASSUME Ends(r)
      PROVE  /\ run' \in [Run -> [step : Step, read : Setting \cup {None},
                                  invoice : Invoice \cup {None}, reason : Reason \cup {None}]]
             /\ run'[r].step = "idle"
             /\ \A q \in Run : q # r => run'[q] = run[q]
  BY <1>3 DEF Ends, TypeOK, Idle, Step
<1> QED BY <1>1, <1>2, <1>3

LEMMA EnteredTypes ==
  ASSUME TypeOK, NEW i \in Invoice, Entered(i)
  PROVE  balance' \in Nat /\ credited' \subseteq Invoice
BY DEF Entered, TypeOK, wallet

\* The steps of a run keep the types.
LEMMA RunTypes ==
  ASSUME Types, NEW r \in Run, RunSteps(r)
  PROVE  Types'
<1> USE DEF Types, Carries
<1>0. TypeOK OBVIOUS
<1>1. CASE ReadAccount(r)
  BY <1>1 DEF ReadAccount, Idle, TypeOK, wallet, stripe, history, Step
<1>2. CASE ReadBalance(r)
  BY <1>0, <1>2, Moves DEF ReadBalance, TypeOK, wallet, stripe, history, Step
<1>3. CASE FindCard(r)
  BY <1>0, <1>3, Moves DEF FindCard, TypeOK, wallet, stripe, history, Step, Reason
<1>4. ASSUME NEW i \in Invoice, Pay(r, i) PROVE Types'
  <2>1. charged' \in [Invoice -> 0..MaxAmount]
    BY <1>4 DEF Pay, Paid, TypeOK
  <2> DEFINE e == [run[r] EXCEPT !.step = "paid", !.invoice = i]
  <2>2. /\ e \in [step : Step, read : Setting \cup {None},
                  invoice : Invoice \cup {None}, reason : Reason \cup {None}]
        /\ e.step = "paid" /\ e.invoice = i
    <3>1. run[r] \in [step : Step, read : Setting \cup {None},
                      invoice : Invoice \cup {None}, reason : Reason \cup {None}]
      BY DEF TypeOK
    <3> QED BY <3>1, Records
  <2>3. run' = [run EXCEPT ![r] = e] BY <1>4 DEF Pay, TypeOK
  <2> HIDE DEF e
  <2>4. /\ run' \in [Run -> [step : Step, read : Setting \cup {None},
                             invoice : Invoice \cup {None}, reason : Reason \cup {None}]]
        /\ run'[r].step = "paid" /\ run'[r].invoice = i
        /\ \A q \in Run : q # r => run'[q] = run[q]
    BY <2>2, <2>3 DEF TypeOK
  <2>5. TypeOK' BY <1>4, <2>1, <2>4 DEF Pay, TypeOK, wallet, history
  <2>6. Carries' BY <2>4
  <2> QED BY <2>5, <2>6
<1>5. CASE Refuse(r)
  BY <1>0, <1>5, Moves DEF Refuse, TypeOK, wallet, stripe, Reason
<1>6. CASE Credit(r)
  BY <1>0, <1>6, Moves, EnteredTypes DEF Credit, TypeOK, stripe, history, Step
<1>7. CASE WriteAudit(r)
  BY <1>0, <1>7, Moves DEF WriteAudit, TypeOK, wallet, stripe, history
<1>8. CASE Alert(r)
  BY <1>0, <1>8, Moves DEF Alert, TypeOK, wallet, stripe, history
<1>9. CASE Pause(r)
  BY <1>0, <1>9, Moves DEF Pause, TypeOK, wallet, stripe, history
<1> QED BY <1>1, <1>2, <1>3, <1>4, <1>5, <1>6, <1>7, <1>8, <1>9 DEF RunSteps

\* Its faults keep them.
LEMMA FaultTypes ==
  ASSUME Types, NEW r \in Run, Faults(r)
  PROVE  Types'
<1> USE DEF Types, Carries
<1>0. TypeOK OBVIOUS
<1>a. Fault => faults' \in 0..MaxFaults BY DEF Fault, TypeOK
<1>1. CASE LookupFails(r)
  BY <1>0, <1>1, <1>a, Moves DEF LookupFails, TypeOK, wallet, stripe, history
<1>2. CASE ChargeFails(r)
  BY <1>0, <1>2, <1>a, Moves DEF ChargeFails, TypeOK, wallet, stripe, history, Reason
<1>3. CASE CreditFails(r)
  <2>1. balance' \in Nat /\ credited' \subseteq Invoice
    BY <1>0, <1>3, EnteredTypes DEF CreditFails, TypeOK, wallet
  <2> QED BY <1>0, <1>3, <1>a, <2>1, Moves DEF CreditFails, TypeOK, stripe, history, Step
<1>4. ASSUME NEW i \in Invoice, PaidUnanswered(r, i) PROVE Types'
  <2>1. charged' \in [Invoice -> 0..MaxAmount]
    BY <1>4 DEF PaidUnanswered, Paid, TypeOK
  <2> QED BY <1>0, <1>4, <1>a, <2>1, Moves DEF PaidUnanswered, TypeOK, wallet, Reason
<1>5. CASE AuditFails(r)
  BY <1>0, <1>5, <1>a, Moves DEF AuditFails, TypeOK, wallet, stripe, history, Step
<1>6. CASE AlertFails(r)
  BY <1>0, <1>6, <1>a, Moves DEF AlertFails, TypeOK, wallet, stripe
<1>7. CASE Stop(r)
  BY <1>0, <1>7, <1>a, Moves DEF Stop, TypeOK, wallet, stripe
<1> QED BY <1>1, <1>2, <1>3, <1>4, <1>5, <1>6, <1>7 DEF Faults

\* The customer's steps keep them.
LEMMA CustomerTypes ==
  ASSUME Types,
         \/ \E enabled \in BOOLEAN, s \in Setting : Save(enabled, s)
         \/ \E c \in {"none", "good", "declines"} : ChangeCard(c)
         \/ \E n \in Price : Spend(n)
  PROVE  Types'
<1> USE DEF Types, Carries
<1>1. CASE \E enabled \in BOOLEAN, s \in Setting : Save(enabled, s)
  BY <1>1 DEF Save, TypeOK, wallet, stripe
<1>2. CASE \E c \in {"none", "good", "declines"} : ChangeCard(c)
  BY <1>2 DEF ChangeCard, TypeOK, wallet, history
<1>3. CASE \E n \in Price : Spend(n)
  BY <1>3 DEF Spend, TypeOK, stripe, history
<1> QED BY <1>1, <1>2, <1>3

LEMMA TypesStep == Types /\ [Next]_vars => Types'
<1> SUFFICES ASSUME Types, [Next]_vars PROVE Types' OBVIOUS
<1>1. CASE UNCHANGED vars
  BY <1>1 DEF vars, wallet, stripe, history, Types, TypeOK, Carries
<1> QED BY <1>1, RunTypes, FaultTypes, CustomerTypes DEF Next

\* Wallet, account, runs and what Stripe has taken keep their types.
THEOREM TypeCorrect == Spec => []TypeOK
<1>1. Types => TypeOK BY DEF Types
<1> QED BY <1>1, InitTypes, TypesStep, PTL DEF Spec
-------------------------------------------------------------------------------
(* Money taken is never forgotten.                                         *)

LEMMA ForgottenInit == Init => NothingForgotten
BY DEF Init, NothingForgotten

\* What a run still holds, another run's step leaves to it.
LEMMA StillAccounted ==
  ASSUME NothingForgotten, NEW r \in Run,
         credited \subseteq credited', alerted \subseteq alerted', lost \subseteq lost',
         charged' = charged,
         \A q \in Run : q # r => run'[q] = run[q],
         \A i \in Invoice : Holds(r, i) => Holds(r, i)' \/ i \in credited' \cup alerted' \cup lost'
  PROVE  NothingForgotten'
<1> SUFFICES ASSUME NEW i \in Invoice, charged[i] > 0
             PROVE  \/ i \in credited' \cup alerted' \cup lost'
                    \/ \E q \in Run : Holds(q, i)'
  BY DEF NothingForgotten
<1>1. CASE i \in credited \cup alerted \cup lost BY <1>1
<1>2. ASSUME NEW q \in Run, Holds(q, i)
      PROVE  \/ i \in credited' \cup alerted' \cup lost'
             \/ \E p \in Run : Holds(p, i)'
  BY <1>2 DEF Holds
<1> QED BY <1>1, <1>2 DEF NothingForgotten

\* A charge that is answered is held, one that is not is lost.
LEMMA ChargeAccounted ==
  ASSUME Types, NothingForgotten, NEW r \in Run, NEW i \in Invoice,
         Pay(r, i) \/ PaidUnanswered(r, i)
  PROVE  NothingForgotten'
<1> USE DEF Types
<1>1. /\ run[r].step = "charge" /\ \A j \in Invoice : j # i => charged'[j] = charged[j]
      /\ \A q \in Run : q # r => run'[q] = run[q]
      /\ credited' = credited /\ alerted' = alerted /\ lost \subseteq lost'
  BY Moves DEF Pay, PaidUnanswered, Paid, TypeOK, wallet, history, Reason
<1>2. Holds(r, i)' \/ i \in lost'
  <2>1. CASE Pay(r, i) BY <2>1 DEF Pay, Holds, TypeOK
  <2>2. CASE PaidUnanswered(r, i) BY <2>2 DEF PaidUnanswered
  <2> QED BY <2>1, <2>2
<1> SUFFICES ASSUME NEW j \in Invoice, charged'[j] > 0
             PROVE  \/ j \in credited' \cup alerted' \cup lost'
                    \/ \E q \in Run : Holds(q, j)'
  BY DEF NothingForgotten
<1>3. CASE j = i BY <1>2, <1>3
<1>4. CASE j # i
  <2>1. charged[j] > 0 BY <1>1, <1>4
  <2>2. CASE j \in credited \cup alerted \cup lost BY <1>1, <2>2
  <2>3. ASSUME NEW q \in Run, Holds(q, j) PROVE \E p \in Run : Holds(p, j)'
    BY <1>1, <2>3 DEF Holds
  <2> QED BY <2>1, <2>2, <2>3 DEF NothingForgotten
<1> QED BY <1>3, <1>4

LEMMA ForgottenStep == Types /\ NothingForgotten /\ [Next]_vars => NothingForgotten'
<1> SUFFICES ASSUME Types, NothingForgotten, [Next]_vars PROVE NothingForgotten' OBVIOUS
<1>0. TypeOK BY DEF Types
<1> USE DEF wallet, stripe, history
<1>1. ASSUME NEW r \in Run, RunSteps(r) PROVE NothingForgotten'
  <2>1. CASE ReadAccount(r)
    BY <1>0, <2>1, StillAccounted DEF ReadAccount, Holds, TypeOK
  <2>2. CASE ReadBalance(r)
    BY <1>0, <2>2, Moves, StillAccounted DEF ReadBalance, Holds, Step
  <2>3. CASE FindCard(r)
    BY <1>0, <2>3, Moves, StillAccounted DEF FindCard, Holds, Step, Reason
  <2>4. ASSUME NEW i \in Invoice, Pay(r, i) PROVE NothingForgotten'
    BY <2>4, ChargeAccounted
  <2>5. CASE Refuse(r)
    BY <1>0, <2>5, Moves, StillAccounted DEF Refuse, Holds, Reason
  <2>6. CASE Credit(r)
    BY <1>0, <2>6, Moves, StillAccounted DEF Credit, Entered, Holds, Step
  <2>7. CASE WriteAudit(r)
    BY <1>0, <2>7, Moves, StillAccounted DEF WriteAudit, Holds
  <2>8. CASE Alert(r)
    BY <1>0, <2>8, Moves, StillAccounted DEF Alert, Holds
  <2>9. CASE Pause(r)
    BY <1>0, <2>9, Moves, StillAccounted DEF Pause, Holds
  <2> QED BY <1>1, <2>1, <2>2, <2>3, <2>4, <2>5, <2>6, <2>7, <2>8, <2>9 DEF RunSteps
<1>2. ASSUME NEW r \in Run, Faults(r) PROVE NothingForgotten'
  <2>1. CASE LookupFails(r)
    BY <1>0, <2>1, Moves, StillAccounted DEF LookupFails, Holds
  <2>2. CASE ChargeFails(r)
    BY <1>0, <2>2, Moves, StillAccounted DEF ChargeFails, Holds, Reason
  <2>3. CASE CreditFails(r)
    BY <1>0, <2>3, Moves, StillAccounted DEF CreditFails, Entered, Holds, Step
  <2>4. ASSUME NEW i \in Invoice, PaidUnanswered(r, i) PROVE NothingForgotten'
    BY <2>4, ChargeAccounted
  <2>5. CASE AuditFails(r)
    BY <1>0, <2>5, Moves, StillAccounted DEF AuditFails, Holds, Step
  <2>6. CASE AlertFails(r)
    BY <1>0, <2>6, Moves, StillAccounted DEF AlertFails, Holds
  <2>7. CASE Stop(r)
    BY <1>0, <2>7, Moves, StillAccounted DEF Stop, Holds
  <2> QED BY <1>2, <2>1, <2>2, <2>3, <2>4, <2>5, <2>6, <2>7 DEF Faults
<1>3. CASE \/ \E enabled \in BOOLEAN, s \in Setting : Save(enabled, s)
           \/ \E c \in {"none", "good", "declines"} : ChangeCard(c)
           \/ \E n \in Price : Spend(n)
           \/ UNCHANGED vars
  BY <1>3 DEF Save, ChangeCard, Spend, vars, NothingForgotten, Holds
<1> QED BY <1>1, <1>2, <1>3 DEF Next

\* Whatever fails, and in whatever order runs overlap: money taken is in the wallet,
\* named to HQ, held by a run, or was lost with an answer, an alert or a process.
THEOREM Accounted == Spec => []NothingForgotten
BY InitTypes, TypesStep, ForgottenInit, ForgottenStep, PTL DEF Spec
-------------------------------------------------------------------------------
(* A run is refused once.                                                  *)

LEMMA Sizes ==
  ASSUME NEW S \in SUBSET Run
  PROVE  /\ IsFiniteSet(S) /\ Cardinality(S) \in Nat
         /\ Cardinality(S) <= Cardinality(Run) /\ Cardinality(Run) \in Nat
         /\ \A T \in SUBSET S : Cardinality(T) <= Cardinality(S) /\ Cardinality(T) \in Nat
         /\ \A r \in Run \ S : Cardinality(S \cup {r}) = Cardinality(S) + 1
<1>1. IsFiniteSet(S) /\ Cardinality(S) <= Cardinality(Run) BY FS_Subset
<1>2. Cardinality(S) \in Nat /\ Cardinality(Run) \in Nat BY <1>1, FS_CardinalityType
<1>3. ASSUME NEW T \in SUBSET S PROVE Cardinality(T) <= Cardinality(S) /\ Cardinality(T) \in Nat
  BY <1>1, <1>3, FS_Subset, FS_CardinalityType
<1>4. ASSUME NEW r \in Run \ S PROVE Cardinality(S \cup {r}) = Cardinality(S) + 1
  BY <1>1, <1>4, FS_AddElement
<1> QED BY <1>1, <1>2, <1>3, <1>4

LEMMA TriesInit == Init => TriesCounted
<1> SUFFICES ASSUME Init PROVE TriesCounted OBVIOUS
<1>1. Cardinality(Refused) \in Nat BY Sizes DEF Refused
<1>2. ~account.paused BY DEF Init
<1> QED BY <1>1, <1>2 DEF Init, TriesCounted

\* Nobody is refused and nobody forgets a refusal.
LEMMA TriesQuiet ==
  ASSUME Types, TriesCounted, tries' = tries, account'.paused = account.paused,
         Refused \subseteq Refused', Asking' \subseteq Asking \/ ~account.paused
  PROVE  TriesCounted'
<1>1. CASE account.paused
  <2>1. Run \ Asking \subseteq Run \ Asking' BY <1>1
  <2>2. Cardinality(Run \ Asking) <= Cardinality(Run \ Asking')
        /\ Cardinality(Run \ Asking) \in Nat /\ Cardinality(Run \ Asking') \in Nat
    BY <2>1, Sizes
  <2> QED BY <1>1, <2>2 DEF TriesCounted, Types, TypeOK
<1>2. CASE ~account.paused
  <2>1. Cardinality(Refused) <= Cardinality(Refused')
        /\ Cardinality(Refused) \in Nat /\ Cardinality(Refused') \in Nat
    BY Sizes DEF Refused
  <2> QED BY <1>2, <2>1 DEF TriesCounted, Types, TypeOK
<1> QED BY <1>1, <1>2

\* A save and a stop begin the count anew.
LEMMA TriesAnew == tries' = 0 => TriesCounted'
<1> SUFFICES ASSUME tries' = 0 PROVE TriesCounted' OBVIOUS
<1>1. Cardinality(Refused') \in Nat /\ Cardinality(Run \ Asking') \in Nat
  BY Sizes DEF Refused, Asking
<1> QED BY <1>1 DEF TriesCounted

LEMMA RefuseCounted ==
  ASSUME Types, TriesCounted, NEW r \in Run, Refuse(r)
  PROVE  TriesCounted'
<1> USE DEF Types
<1>1. /\ run'[r].step = "failed" /\ run[r].step = "charge" /\ account' = account
      /\ \A q \in Run : q # r => run'[q] = run[q]
      /\ tries' \in {tries, tries + 1}
  BY Moves DEF Refuse, Reason
<1>2. Refused' = Refused \cup {r} /\ r \notin Refused
  BY <1>1 DEF Refused
<1>3. Run \ Asking' = (Run \ Asking) \cup {r} /\ r \in Asking
  BY <1>1 DEF Asking
<1>4. Cardinality(Refused') = Cardinality(Refused) + 1 /\ Cardinality(Refused) \in Nat
  BY <1>2, Sizes DEF Refused
<1>5. Cardinality(Run \ Asking') = Cardinality(Run \ Asking) + 1
      /\ Cardinality(Run \ Asking) \in Nat
  BY <1>3, Sizes
<1> QED BY <1>1, <1>4, <1>5 DEF TriesCounted, TypeOK

LEMMA PauseCounted ==
  ASSUME Types, TriesCounted, NEW r \in Run, Pause(r)
  PROVE  TriesCounted'
<1> USE DEF Types
<1>1. /\ run'[r].step = "idle" /\ run[r].step = "failed" /\ account'.paused
      /\ \A q \in Run : q # r => run'[q] = run[q]
      /\ tries' = tries
  BY Moves DEF Pause, TypeOK, history
<1>2. Asking' = Asking BY <1>1 DEF Asking
<1>3. Refused \subseteq Run \ Asking BY DEF Refused, Asking
<1>4. Cardinality(Refused) <= Cardinality(Run \ Asking)
      /\ Cardinality(Refused) \in Nat /\ Cardinality(Run \ Asking) \in Nat
  BY <1>3, Sizes
<1> QED BY <1>1, <1>2, <1>4 DEF TriesCounted, TypeOK

\* Where r was and where it goes settle what becomes of the two sets.
LEMMA TriesMove ==
  ASSUME Types, TriesCounted, NEW r \in Run, tries' = tries, account' = account,
         \A q \in Run : q # r => run'[q] = run[q],
         run[r].step # "failed",
         \/ run'[r].step \notin {"checked", "low", "charge"}
         \/ run[r].step \in {"checked", "low", "charge"}
         \/ ~account.paused
  PROVE  TriesCounted'
<1>1. Refused \subseteq Refused' BY DEF Refused
<1>2. Asking' \subseteq Asking \/ ~account.paused BY DEF Asking
<1> QED BY <1>1, <1>2, TriesQuiet

LEMMA TriesStep == Types /\ TriesCounted /\ [Next]_vars => TriesCounted'
<1> SUFFICES ASSUME Types, TriesCounted, [Next]_vars PROVE TriesCounted' OBVIOUS
<1>0. TypeOK BY DEF Types
<1> USE DEF history
<1>1. ASSUME NEW r \in Run, RunSteps(r) PROVE TriesCounted'
  <2>1. CASE ReadAccount(r)
    BY <1>0, <2>1, TriesMove DEF ReadAccount, Asks, TypeOK
  <2>2. CASE ReadBalance(r)
    BY <1>0, <2>2, Moves, TriesMove DEF ReadBalance, Step
  <2>3. CASE FindCard(r)
    BY <1>0, <2>3, Moves, TriesMove DEF FindCard, Step, Reason
  <2>4. ASSUME NEW i \in Invoice, Pay(r, i) PROVE TriesCounted'
    <3>1. /\ run'[r].step = "paid" /\ run[r].step = "charge"
          /\ \A q \in Run : q # r => run'[q] = run[q]
      BY <1>0, <2>4 DEF Pay, Paid, TypeOK
    <3> QED BY <2>4, <3>1, TriesMove DEF Pay
  <2>5. CASE Refuse(r) BY <2>5, RefuseCounted
  <2>6. CASE Credit(r)
    BY <1>0, <2>6, Moves, TriesMove DEF Credit, Step
  <2>7. CASE WriteAudit(r)
    BY <1>0, <2>7, Moves, TriesMove DEF WriteAudit
  <2>8. CASE Alert(r)
    BY <1>0, <2>8, Moves, TriesMove DEF Alert
  <2>9. CASE Pause(r) BY <2>9, PauseCounted
  <2> QED BY <1>1, <2>1, <2>2, <2>3, <2>4, <2>5, <2>6, <2>7, <2>8, <2>9 DEF RunSteps
<1>2. ASSUME NEW r \in Run, Faults(r) PROVE TriesCounted'
  <2>1. CASE LookupFails(r)
    BY <1>0, <2>1, Moves, TriesMove DEF LookupFails
  <2>2. CASE ChargeFails(r)
    BY <1>0, <2>2, Moves, TriesMove DEF ChargeFails, Reason
  <2>3. CASE CreditFails(r)
    BY <1>0, <2>3, Moves, TriesMove DEF CreditFails, Step
  <2>4. ASSUME NEW i \in Invoice, PaidUnanswered(r, i) PROVE TriesCounted'
    BY <1>0, <2>4, Moves, TriesMove DEF PaidUnanswered, Paid, Reason
  <2>5. CASE AuditFails(r)
    BY <1>0, <2>5, Moves, TriesMove DEF AuditFails, Step
  <2>6. CASE AlertFails(r)
    BY <1>0, <2>6, Moves, TriesMove DEF AlertFails
  <2>7. CASE Stop(r)
    BY <2>7, TriesAnew DEF Stop
  <2> QED BY <1>2, <2>1, <2>2, <2>3, <2>4, <2>5, <2>6, <2>7 DEF Faults
<1>3. CASE \E enabled \in BOOLEAN, s \in Setting : Save(enabled, s)
  BY <1>3, TriesAnew DEF Save
<1>4. CASE \/ \E c \in {"none", "good", "declines"} : ChangeCard(c)
           \/ \E n \in Price : Spend(n)
           \/ UNCHANGED vars
  BY <1>4, TriesQuiet DEF ChangeCard, Spend, vars, Asking, Refused
<1> QED BY <1>1, <1>2, <1>3, <1>4 DEF Next

LEMMA CountedBounds == Types /\ TriesCounted => RefusedOnceEach
<1> SUFFICES ASSUME Types, TriesCounted PROVE RefusedOnceEach OBVIOUS
<1>1. /\ Cardinality(Refused) <= Cardinality(Run)
      /\ Cardinality(Run \ Asking) <= Cardinality(Run)
      /\ Cardinality(Refused) \in Nat /\ Cardinality(Run \ Asking) \in Nat
      /\ Cardinality(Run) \in Nat
  BY Sizes DEF Refused
<1> QED BY <1>1 DEF TriesCounted, RefusedOnceEach, Types, TypeOK

\* Between two saves of the form, no run stopping, the bank refuses at most one
\* charge of each run, for any number of runs.
THEOREM RefusedOnce == Spec => []RefusedOnceEach
BY InitTypes, TypesStep, TriesInit, TriesStep, CountedBounds, PTL DEF Spec
-------------------------------------------------------------------------------
(* The wallet is not pumped up.                                            *)

LEMMA Products ==
  ASSUME NEW m \in Int, NEW n \in Int, NEW a \in Nat
  PROVE  /\ m * a \in Int /\ (m <= n => m * a <= n * a)
         /\ (m >= 0 => m * a >= 0) /\ (m + 1) * a = m * a + a
<1>1. m * a \in Int /\ (m + 1) * a = m * a + a OBVIOUS
<1>2. ASSUME m >= 0 PROVE m * a >= 0 BY <1>2
<1>3. ASSUME m <= n PROVE m * a <= n * a
  <2>1. (n - m) * a >= 0 BY <1>3
  <2> QED BY <2>1
<1> QED BY <1>1, <1>2, <1>3

LEMMA FloorInit == Init => Floor
BY DEF Init, Floor, Pending, Idle

\* Nothing is credited and nobody starts.
LEMMA FloorQuiet ==
  ASSUME Types, Floor, balance' \in Nat, balance' <= balance, Pending' \subseteq Pending
  PROVE  Floor'
<1>1. /\ Cardinality(Pending') <= Cardinality(Pending) /\ Cardinality(Pending') \in Nat
      /\ Cardinality(Pending) \in Nat /\ Cardinality(Run) \in Nat
  BY Sizes DEF Pending
<1> DEFINE before == Cardinality(Run) - Cardinality(Pending)
           after == Cardinality(Run) - Cardinality(Pending')
<1>2. before * MaxAmount <= after * MaxAmount
      /\ before * MaxAmount \in Int /\ after * MaxAmount \in Int
  <2>1. before \in Int /\ after \in Int /\ before <= after BY <1>1
  <2> HIDE DEF before, after
  <2> QED BY <2>1, Products
<1>3. CASE Below BY <1>2, <1>3 DEF Below, Floor, Types, TypeOK
<1>4. CASE balance <= Opening /\ Pending = {} BY <1>4 DEF Floor, Types, TypeOK
<1> QED BY <1>3, <1>4 DEF Floor

\* A run starts from a balance below a threshold.
LEMMA FloorLow ==
  ASSUME Types, NEW r \in Run, balance' = balance, balance < run[r].read.threshold,
         run[r].read \in Setting
  PROVE  Floor'
<1>1. Cardinality(Pending') <= Cardinality(Run) /\ Cardinality(Pending') \in Nat
      /\ Cardinality(Run) \in Nat
  BY Sizes DEF Pending
<1> DEFINE rest == Cardinality(Run) - Cardinality(Pending')
<1>2. rest * MaxAmount \in Int /\ rest * MaxAmount >= 0
  <2>1. rest \in Int /\ rest >= 0 BY <1>1
  <2> HIDE DEF rest
  <2> QED BY <2>1, Products
<1>3. balance <= MaxThreshold - 1 BY DEF Types, TypeOK
<1> QED BY <1>2, <1>3 DEF Floor, Below, Types, TypeOK

\* A credit uses up what its run still had to add.
LEMMA FloorCredit ==
  ASSUME Types, Floor, NEW r \in Run, run[r].step = "paid",
         run'[r].step \in {"audit", "alert"}, \A q \in Run : q # r => run'[q] = run[q],
         balance' \in Nat, balance' <= balance + MaxAmount
  PROVE  Floor'
<1>1. Pending = Pending' \cup {r} /\ r \notin Pending' BY DEF Pending
<1>2. Cardinality(Pending) = Cardinality(Pending') + 1 /\ Cardinality(Pending') \in Nat
      /\ Cardinality(Run) \in Nat
  BY <1>1, Sizes DEF Pending
<1> DEFINE before == Cardinality(Run) - Cardinality(Pending)
           after == Cardinality(Run) - Cardinality(Pending')
<1>3. after * MaxAmount = before * MaxAmount + MaxAmount /\ before * MaxAmount \in Int
  <2>1. before \in Int /\ after = before + 1 BY <1>2
  <2> HIDE DEF before, after
  <2> QED BY <2>1, Products
<1>4. Below BY <1>1 DEF Floor
<1> QED BY <1>3, <1>4 DEF Below, Floor, Types, TypeOK

LEMMA EnteredAdds ==
  ASSUME Types, NEW i \in Invoice, UNCHANGED wallet \/ Entered(i)
  PROVE  balance' \in Nat /\ balance' <= balance + MaxAmount
BY DEF Entered, wallet, Types, TypeOK

LEMMA FloorStep == Types /\ Floor /\ [Next]_vars => Floor'
<1> SUFFICES ASSUME Types, Floor, [Next]_vars PROVE Floor' OBVIOUS
<1>0. TypeOK /\ balance \in Nat BY DEF Types, TypeOK
<1> USE DEF wallet
<1>1. ASSUME NEW r \in Run, RunSteps(r) PROVE Floor'
  <2>1. CASE ReadAccount(r)
    <3>1. balance' = balance /\ Pending' \subseteq Pending
      BY <1>0, <2>1 DEF ReadAccount, Idle, Pending, TypeOK
    <3> QED BY <1>0, <3>1, FloorQuiet
  <2>2. CASE ReadBalance(r)
    <3>1. CASE Low(r)
      BY <2>2, <3>1, FloorLow DEF ReadBalance, Low, Types, Carries
    <3>2. CASE ~Low(r)
      <4>1. balance' = balance /\ Pending' \subseteq Pending
        BY <1>0, <2>2, <3>2, Moves DEF ReadBalance, Pending
      <4> QED BY <1>0, <4>1, FloorQuiet
    <3> QED BY <3>1, <3>2
  <2>3. CASE FindCard(r)
    <3>1. balance' = balance /\ Pending' \subseteq Pending
      BY <1>0, <2>3, Moves DEF FindCard, Pending, Step, Reason
    <3> QED BY <1>0, <3>1, FloorQuiet
  <2>4. ASSUME NEW i \in Invoice, Pay(r, i) PROVE Floor'
    <3>1. balance' = balance /\ Pending' \subseteq Pending
      BY <1>0, <2>4 DEF Pay, Paid, Pending, TypeOK
    <3> QED BY <1>0, <3>1, FloorQuiet
  <2>5. CASE Refuse(r)
    <3>1. balance' = balance /\ Pending' \subseteq Pending
      BY <1>0, <2>5, Moves DEF Refuse, Pending, Reason
    <3> QED BY <1>0, <3>1, FloorQuiet
  <2>6. CASE Credit(r)
    <3>1. run[r].invoice \in Invoice BY <2>6 DEF Credit, Types, Carries
    <3>2. balance' \in Nat /\ balance' <= balance + MaxAmount
      BY <2>6, <3>1, EnteredAdds DEF Credit
    <3> QED BY <1>0, <2>6, <3>2, Moves, FloorCredit DEF Credit, Step
  <2>7. CASE WriteAudit(r)
    <3>1. balance' = balance /\ Pending' \subseteq Pending
      BY <1>0, <2>7, Moves DEF WriteAudit, Pending
    <3> QED BY <1>0, <3>1, FloorQuiet
  <2>8. CASE Alert(r)
    <3>1. balance' = balance /\ Pending' \subseteq Pending
      BY <1>0, <2>8, Moves DEF Alert, Pending
    <3> QED BY <1>0, <3>1, FloorQuiet
  <2>9. CASE Pause(r)
    <3>1. balance' = balance /\ Pending' \subseteq Pending
      BY <1>0, <2>9, Moves DEF Pause, Pending
    <3> QED BY <1>0, <3>1, FloorQuiet
  <2> QED BY <1>1, <2>1, <2>2, <2>3, <2>4, <2>5, <2>6, <2>7, <2>8, <2>9 DEF RunSteps
<1>2. ASSUME NEW r \in Run, Faults(r) PROVE Floor'
  <2>1. CASE CreditFails(r)
    <3>1. run[r].invoice \in Invoice BY <2>1 DEF CreditFails, Types, Carries
    <3>2. balance' \in Nat /\ balance' <= balance + MaxAmount
      BY <2>1, <3>1, EnteredAdds DEF CreditFails
    <3> QED BY <1>0, <2>1, <3>2, Moves, FloorCredit DEF CreditFails, Step
  <2>2. CASE \/ LookupFails(r) \/ ChargeFails(r) \/ \E i \in Invoice : PaidUnanswered(r, i)
             \/ AuditFails(r) \/ AlertFails(r) \/ Stop(r)
    <3>1. balance' = balance
      BY <2>2 DEF LookupFails, ChargeFails, PaidUnanswered, AuditFails, AlertFails, Stop
    <3>2. Pending' \subseteq Pending
      BY <1>0, <2>2, Moves
         DEF LookupFails, ChargeFails, PaidUnanswered, AuditFails, AlertFails, Stop,
             Pending, Step, Reason
    <3> QED BY <1>0, <3>1, <3>2, FloorQuiet
  <2> QED BY <1>2, <2>1, <2>2 DEF Faults
<1>3. CASE \/ \E enabled \in BOOLEAN, s \in Setting : Save(enabled, s)
           \/ \E c \in {"none", "good", "declines"} : ChangeCard(c)
           \/ UNCHANGED vars
  <2>1. balance' = balance /\ Pending' = Pending
    BY <1>3 DEF Save, ChangeCard, vars, Pending
  <2> QED BY <1>0, <2>1, FloorQuiet
<1>4. CASE \E n \in Price : Spend(n)
  <2>1. balance' \in Nat /\ balance' <= balance /\ Pending' = Pending
    BY <1>0, <1>4 DEF Spend, Pending
  <2> QED BY <2>1, FloorQuiet
<1> QED BY <1>1, <1>2, <1>3, <1>4 DEF Next

LEMMA FloorBounds == Types /\ Floor => OverfundingBounded
<1> SUFFICES ASSUME Types, Floor PROVE OverfundingBounded OBVIOUS
<1>1. Cardinality(Pending) \in Nat /\ Cardinality(Run) \in Nat
  BY Sizes DEF Pending
<1> DEFINE rest == Cardinality(Run) - Cardinality(Pending)
           all == Cardinality(Run)
<1>2. rest * MaxAmount <= all * MaxAmount /\ rest * MaxAmount \in Int /\ all * MaxAmount \in Int
  <2>1. rest \in Int /\ all \in Int /\ rest <= all BY <1>1
  <2> HIDE DEF rest, all
  <2> QED BY <2>1, Products
<1> QED BY <1>2 DEF Floor, Below, OverfundingBounded, Types, TypeOK

\* However many runs overlap, and whatever they read and when: the wallet never
\* holds more than an amount for each run above a balance that was too low.
THEOREM NotPumpedUp == Spec => []OverfundingBounded
BY InitTypes, TypesStep, FloorInit, FloorStep, FloorBounds, PTL DEF Spec
===============================================================================
