--------------------------- MODULE PaymentsProofs ---------------------------
(* Theorems about Payments for every set of agreements, invoices and tasks,  *)
(* and however often an agreement is reused.                                 *)
(*                                                                           *)
(* That no payment is missed is not inductive: it depends on what a          *)
(* suspended attempt_payment will find when it goes on.  PaymentsInv says it *)
(* of each attempt, and of the AgreementData objects attempts may outlive.   *)
EXTENDS Payments, FiniteSetTheorems, TLAPS

(* What is stored of an agreement: nothing before add_agreement, then at     *)
(* most one invoice, one that has arrived.                                   *)
DataOK ==
  \A a \in Agreements :
    /\ data[a].invoice = {} \/ \E i \in arrived : data[a].invoice = {i}
    /\ data[a].object = 0 => data[a].invoice = {} /\ working[a] = "none"

(* An attempt is for data of its agreement that it has read: when they have  *)
(* not been replaced meanwhile they still are payable and have the invoice.  *)
AttemptsOK ==
  \A r \in attempts :
    /\ r.invoice \in arrived
    /\ r.object <= data[r.agr].object
    /\ r.object = data[r.agr].object => data[r.agr].payable /\ data[r.agr].invoice = {r.invoice}

(* The task of _process_invoices is in an attempt exactly when it is paying. *)
ProcessorOK == \A r \in attempts : r.by = Processor => processor = "paying"

(* The types of the other variables; a task is in one attempt at a time.     *)
Types ==
  /\ working \in [Agreements -> {"none", "starting", "running", "ended"}]
  /\ accepting \subseteq Agreements
  /\ attempts \subseteq Attempt
  /\ \A r, s \in attempts : r.by = s.by => r = s
  /\ arrived \subseteq Invoices /\ accepted \subseteq arrived /\ failed \subseteq arrived
  /\ asserted \in BOOLEAN
  /\ processor \in {"listening", "paying", "finished", "failed", "cancelled"}
  /\ shutdown \in {"none", "waiting", "cancelling", "done", "raised"}

(* Inductive: a paid agreement is one whose own attempt found it payable     *)
(* (AttemptsOK), an agreement that may be paid has the attempt that whoever  *)
(* completed it, the invoice or the right to pay, has started.               *)
PaymentsInv == /\ data \in [Agreements -> Data]
               /\ Types /\ DataOK /\ AttemptsOK /\ ProcessorOK
               /\ PaidForThisUser /\ NoMissedPayment

-----------------------------------------------------------------------------
(* Records, and how an attempt starts *)

LEMMA Assumptions ==
  Processor \notin Payers /\ AwaitPayments \in BOOLEAN /\ MaxStarts \in Nat \ {0}
  BY PayersAssumption, AwaitAssumption, MaxStartsAssumption

LEMMA NewDataFacts ==
  ASSUME NEW n \in 0..MaxStarts
  PROVE  /\ NewData(n) \in Data /\ NewData(n).object = n /\ NewData(n).invoice = {}
         /\ ~NewData(n).payable /\ ~NewData(n).paid
  BY DEF NewData, Data

LEMMA FieldFacts ==
  ASSUME NEW d \in Data
  PROVE  /\ d.object \in 0..MaxStarts /\ d.invoice \subseteq Invoices
         /\ d.payable \in BOOLEAN /\ d.paid \in BOOLEAN
  BY DEF Data

LEMMA PayableFacts ==
  ASSUME NEW d \in Data, NEW e, e = [d EXCEPT !.payable = TRUE]
  PROVE  /\ e \in Data /\ e.object = d.object /\ e.invoice = d.invoice
         /\ e.payable /\ e.paid = d.paid
  BY DEF Data

LEMMA PaidFacts ==
  ASSUME NEW d \in Data, NEW e, e = [d EXCEPT !.paid = TRUE]
  PROVE  /\ e \in Data /\ e.object = d.object /\ e.invoice = d.invoice
         /\ e.payable = d.payable /\ e.paid
  BY DEF Data

LEMMA InvoiceFacts ==
  ASSUME NEW d \in Data, NEW i \in Invoices, NEW e, e = [d EXCEPT !.invoice = {i}]
  PROVE  /\ e \in Data /\ e.object = d.object /\ e.invoice = {i}
         /\ e.payable = d.payable /\ e.paid = d.paid
  BY DEF Data

LEMMA AttemptFacts ==
  ASSUME NEW r \in Attempt
  PROVE  /\ r.by \in Payers \cup {Processor} /\ r.agr \in Agreements /\ r.object \in 1..MaxStarts
         /\ r.invoice \in Invoices
  BY DEF Attempt

(* Data with one invoice at most, and none before add_agreement. *)
Stored(d) == \/ d.invoice = {}
             \/ d.object # 0 /\ \E i \in Invoices : d.invoice = {i}

Attempters == Payers \cup {Processor}

(* attempt_payment returns at once, or starts one attempt with the data it   *)
(* was called for.                                                           *)
LEMMA StartFacts ==
  ASSUME NEW by \in Attempters, NEW a \in Agreements, NEW d \in Data, Stored(d),
         StartAttempt(by, a, d)
  PROVE  \/ attempts' = attempts /\ ~MayAttempt(d)
         \/ \E r \in Attempt :
              /\ attempts' = attempts \cup {r} /\ MayAttempt(d)
              /\ r.by = by /\ r.agr = a /\ r.object = d.object /\ d.invoice = {r.invoice}
<1>1. CASE ~MayAttempt(d)
  BY <1>1 DEF StartAttempt
<1>2. CASE MayAttempt(d)
  <2>1. PICK i \in Invoices : d.invoice = {i} /\ d.object \in 1..MaxStarts
    BY <1>2, Assumptions DEF MayAttempt, Data, Stored
  <2> DEFINE r == [by |-> by, agr |-> a, object |-> d.object, invoice |-> i]
             S == [by : {by}, agr : {a}, object : {d.object}, invoice : d.invoice]
  <2>2. ASSUME NEW x \in S PROVE x = r
    <3>1. x = [by |-> x.by, agr |-> x.agr, object |-> x.object, invoice |-> x.invoice]
      OBVIOUS
    <3> QED
      BY <2>1, <3>1
  <2>3. r \in Attempt /\ r \in S
    BY <2>1 DEF Attempt, Attempters
  <2>4. attempts' = attempts \cup {r}
    <3>1. attempts' = attempts \cup {x \in S : MayAttempt(d)}
      BY DEF StartAttempt
    <3> HIDE DEF S, r
    <3> QED
      BY <1>2, <2>2, <2>3, <3>1
  <2> QED
    BY <1>2, <2>1, <2>3, <2>4
<1> QED
  BY <1>1, <1>2
-----------------------------------------------------------------------------
(* Each action keeps the invariant *)

LEMMA WorkerStartsInv ==
  ASSUME PaymentsInv, NEW a \in Agreements, WorkerStarts(a)
  PROVE  PaymentsInv'
<1> USE Assumptions DEF PaymentsInv, Types, historyVars, vars
<1> USE DEF WorkerStarts
<1>1. /\ data' \in [Agreements -> Data]
      /\ data'[a].object = data[a].object + 1 /\ data'[a].invoice = {}
      /\ ~data'[a].payable /\ ~data'[a].paid
      /\ \A b \in Agreements \ {a} : data'[b] = data[b]
  BY NewDataFacts, FieldFacts
<1>2. Types'
  BY <1>1, AttemptFacts, FieldFacts DEF Attempt, ProcessorOK, AttemptsOK
<1>3. DataOK'
  BY <1>1, AttemptFacts, FieldFacts DEF DataOK
<1>4. AttemptsOK'
  BY <1>1, AttemptFacts, FieldFacts DEF DataOK, AttemptsOK
<1>5. ProcessorOK'
  BY <1>1, AttemptFacts, FieldFacts DEF ProcessorOK
<1>6. PaidForThisUser'
  BY <1>1, AttemptFacts, FieldFacts DEF PaidForThisUser, AttemptsOK
<1>7. NoMissedPayment'
  BY <1>1, AttemptFacts, FieldFacts DEF NoMissedPayment, AttemptsOK, ProcessorOK, MayAttempt
<1>8. data' \in [Agreements -> Data]
  BY <1>1
<1> QED
  BY <1>2, <1>3, <1>4, <1>5, <1>6, <1>7, <1>8

LEMMA ActivityCreatedInv ==
  ASSUME PaymentsInv, NEW a \in Agreements,
         ActivityCreated(a) \/ ActivityCreateFailed(a) \/ WorkerEnds(a)
  PROVE  PaymentsInv'
<1> USE Assumptions DEF PaymentsInv, Types, historyVars, vars
<1> USE DEF ActivityCreated, ActivityCreateFailed, WorkerEnds
<1>1. Types'
  BY AttemptFacts, FieldFacts DEF Attempt, ProcessorOK, AttemptsOK
<1>2. DataOK'
  BY AttemptFacts, FieldFacts DEF DataOK
<1>3. AttemptsOK'
  BY AttemptFacts, FieldFacts DEF DataOK, AttemptsOK
<1>4. ProcessorOK'
  BY AttemptFacts, FieldFacts DEF ProcessorOK
<1>5. PaidForThisUser'
  BY AttemptFacts, FieldFacts DEF PaidForThisUser, AttemptsOK
<1>6. NoMissedPayment'
  BY AttemptFacts, FieldFacts DEF NoMissedPayment, AttemptsOK, ProcessorOK, MayAttempt
<1>7. data' \in [Agreements -> Data]
  OBVIOUS
<1> QED
  BY <1>1, <1>2, <1>3, <1>4, <1>5, <1>6, <1>7

LEMMA AcceptPaymentsInv ==
  ASSUME PaymentsInv, NEW a \in Agreements, NEW p \in Payers, AcceptPayments(a, p)
  PROVE  PaymentsInv'
<1> USE Assumptions DEF PaymentsInv, Types, historyVars, vars
<1> USE DEF AcceptPayments, Busy
<1>1. /\ data' \in [Agreements -> Data]
      /\ data'[a].object = data[a].object /\ data'[a].invoice = data[a].invoice
      /\ data'[a].payable /\ data'[a].paid = data[a].paid
      /\ \A b \in Agreements \ {a} : data'[b] = data[b]
  BY PayableFacts
<1>2. \/ attempts' = attempts /\ ~MayAttempt(data'[a])
      \/ \E r \in Attempt :
           /\ attempts' = attempts \cup {r} /\ MayAttempt(data'[a])
           /\ r.by = p /\ r.agr = a
           /\ r.object = data'[a].object /\ data'[a].invoice = {r.invoice}
  <2>1. data'[a] \in Data /\ Stored(data'[a])
    BY <1>1 DEF DataOK, Stored
  <2>2. StartAttempt(p, a, data'[a])
    OBVIOUS
  <2>3. p \in Attempters
    BY DEF Attempters
  <2> HIDE DEF AcceptPayments, PaymentsInv
  <2> QED
    BY <2>1, <2>2, <2>3, StartFacts
<1>3. Types'
  BY <1>1, <1>2, AttemptFacts, FieldFacts DEF Attempt, ProcessorOK, AttemptsOK
<1>4. DataOK'
  BY <1>1, <1>2, AttemptFacts, FieldFacts DEF DataOK
<1>5. AttemptsOK'
  BY <1>1, <1>2, AttemptFacts, FieldFacts DEF DataOK, AttemptsOK
<1>6. ProcessorOK'
  BY <1>1, <1>2, AttemptFacts, FieldFacts DEF ProcessorOK
<1>7. PaidForThisUser'
  BY <1>1, <1>2, AttemptFacts, FieldFacts DEF PaidForThisUser, AttemptsOK
<1>8. NoMissedPayment'
  BY <1>1, <1>2, AttemptFacts, FieldFacts
     DEF NoMissedPayment, AttemptsOK, ProcessorOK, MayAttempt
<1>9. data' \in [Agreements -> Data]
  BY <1>1
<1> QED
  BY <1>3, <1>4, <1>5, <1>6, <1>7, <1>8, <1>9

LEMMA InvoiceArrivesInv ==
  ASSUME PaymentsInv, NEW i \in Invoices, NEW a \in Agreements, InvoiceArrives(i, a)
  PROVE  PaymentsInv'
<1> USE Assumptions DEF PaymentsInv, Types, historyVars, vars
<1> USE DEF InvoiceArrives, NextInvoice
<1>1. /\ data' \in [Agreements -> Data]
      /\ data'[a].object = data[a].object
      /\ data'[a].payable = data[a].payable /\ data'[a].paid = data[a].paid
      /\ \/ data'[a].invoice = data[a].invoice
         \/ data[a].invoice = {} /\ data[a].object # 0 /\ data'[a].invoice = {i}
      /\ \A b \in Agreements \ {a} : data'[b] = data[b]
  BY InvoiceFacts
<1>2. \/ attempts' = attempts /\ ~MayAttempt(data'[a])
      \/ \E r \in Attempt :
           /\ attempts' = attempts \cup {r} /\ MayAttempt(data'[a])
           /\ r.by = Processor /\ r.agr = a
           /\ r.object = data'[a].object /\ data'[a].invoice = {r.invoice}
  <2>1. data'[a] \in Data /\ Stored(data'[a])
    BY <1>1 DEF DataOK, Stored
  <2>2. StartAttempt(Processor, a, data'[a])
    OBVIOUS
  <2>3. Processor \in Attempters
    BY DEF Attempters
  <2> HIDE DEF InvoiceArrives, PaymentsInv
  <2> QED
    BY <2>1, <2>2, <2>3, StartFacts
<1>3. Types'
  BY <1>1, <1>2, AttemptFacts, FieldFacts DEF Attempt, ProcessorOK, AttemptsOK
<1>4. DataOK'
  BY <1>1, <1>2, AttemptFacts, FieldFacts DEF DataOK
<1>5. AttemptsOK'
  <2>1. ASSUME NEW r \in attempts
        PROVE  /\ r.invoice \in arrived' /\ r.object <= data'[r.agr].object
               /\ r.object = data'[r.agr].object =>
                    data'[r.agr].payable /\ data'[r.agr].invoice = {r.invoice}
    BY <1>1, AttemptFacts DEF AttemptsOK
  <2>2. ASSUME NEW r \in Attempt, MayAttempt(data'[a]), r.agr = a, r.object = data'[a].object,
               data'[a].invoice = {r.invoice}
        PROVE  r.invoice \in arrived' /\ data'[a].payable /\ r.object <= data'[a].object
    BY <1>1, <1>4, <2>2, AttemptFacts, Assumptions DEF MayAttempt, DataOK
  <2> HIDE DEF InvoiceArrives
  <2> QED
    BY <1>2, <2>1, <2>2 DEF AttemptsOK
<1>6. ProcessorOK'
  BY <1>1, <1>2, AttemptFacts, FieldFacts DEF ProcessorOK
<1>7. PaidForThisUser'
  BY <1>1, <1>2, AttemptFacts, FieldFacts DEF PaidForThisUser, AttemptsOK
<1>8. NoMissedPayment'
  BY <1>1, <1>2, AttemptFacts, FieldFacts
     DEF NoMissedPayment, AttemptsOK, ProcessorOK, MayAttempt
<1>9. data' \in [Agreements -> Data]
  BY <1>1
<1> QED
  BY <1>3, <1>4, <1>5, <1>6, <1>7, <1>8, <1>9

LEMMA PaymentFailedInv ==
  ASSUME PaymentsInv, NEW r \in attempts, PaymentFailed(r)
  PROVE  PaymentsInv'
<1> USE Assumptions DEF PaymentsInv, Types, historyVars, vars
<1> USE DEF PaymentFailed, End, NextInvoice
<1>1. r \in Attempt /\ attempts' = attempts \ {r}
  OBVIOUS
<1>2. Types'
  BY <1>1, AttemptFacts, FieldFacts DEF Attempt, ProcessorOK, AttemptsOK
<1>3. DataOK'
  BY <1>1, AttemptFacts, FieldFacts DEF DataOK
<1>4. AttemptsOK'
  BY <1>1, AttemptFacts, FieldFacts DEF DataOK, AttemptsOK
<1>5. ProcessorOK'
  BY <1>1, AttemptFacts, FieldFacts DEF ProcessorOK
<1>6. PaidForThisUser'
  BY <1>1, AttemptFacts, FieldFacts DEF PaidForThisUser, AttemptsOK
<1>7. NoMissedPayment'
  BY <1>1, AttemptFacts, FieldFacts DEF NoMissedPayment, AttemptsOK, ProcessorOK, MayAttempt
<1>8. data' \in [Agreements -> Data]
  BY <1>1
<1> QED
  BY <1>2, <1>3, <1>4, <1>5, <1>6, <1>7, <1>8

LEMMA PayInv ==
  ASSUME PaymentsInv, NEW r \in attempts, NEW accept \in BOOLEAN, Pay(r, accept)
  PROVE  PaymentsInv'
<1> USE Assumptions DEF PaymentsInv, Types, historyVars, vars
<1> USE DEF Pay, End, NextInvoice, MarkPaid
<1>1. /\ data' \in [Agreements -> Data] /\ r \in Attempt
      /\ \A b \in Agreements :
           IF b = r.agr /\ data[b].object = r.object
             THEN /\ data'[b].object = data[b].object /\ data'[b].invoice = data[b].invoice
                  /\ data'[b].payable = data[b].payable /\ data'[b].paid
             ELSE data'[b] = data[b]
  <2>1. CASE data[r.agr].object = r.object
    BY <2>1, PaidFacts, AttemptFacts
  <2>2. CASE data[r.agr].object # r.object
    BY <2>2
  <2> QED
    BY <2>1, <2>2
<1>2. Types'
  BY <1>1, AttemptFacts, FieldFacts DEF Attempt, ProcessorOK, AttemptsOK
<1>3. DataOK'
  BY <1>1, AttemptFacts, FieldFacts DEF DataOK
<1>4. AttemptsOK'
  BY <1>1, AttemptFacts, FieldFacts DEF DataOK, AttemptsOK
<1>5. ProcessorOK'
  BY <1>1, AttemptFacts, FieldFacts DEF ProcessorOK
<1>6. PaidForThisUser'
  <2> SUFFICES ASSUME NEW b \in Agreements, data'[b].paid
               PROVE  data'[b].payable /\ data'[b].invoice # {}
    BY DEF PaidForThisUser
  <2>1. CASE b = r.agr /\ data[b].object = r.object
    BY <1>1, <2>1 DEF AttemptsOK
  <2>2. CASE ~(b = r.agr /\ data[b].object = r.object)
    BY <1>1, <2>2 DEF PaidForThisUser
  <2> QED
    BY <2>1, <2>2
<1>7. NoMissedPayment'
  BY <1>1, AttemptFacts, FieldFacts DEF NoMissedPayment, AttemptsOK, ProcessorOK, MayAttempt
<1>8. data' \in [Agreements -> Data]
  BY <1>1
<1> QED
  BY <1>2, <1>3, <1>4, <1>5, <1>6, <1>7, <1>8

LEMMA IdleInv ==
  ASSUME PaymentsInv, ListeningFails \/ Shutdown \/ UNCHANGED vars
  PROVE  PaymentsInv'
<1> USE Assumptions DEF PaymentsInv, Types, historyVars, vars
<1> USE DEF ListeningFails, Shutdown
<1>1. Types'
  BY AttemptFacts, FieldFacts DEF Attempt, ProcessorOK, AttemptsOK
<1>2. DataOK'
  BY AttemptFacts, FieldFacts DEF DataOK
<1>3. AttemptsOK'
  BY AttemptFacts, FieldFacts DEF DataOK, AttemptsOK
<1>4. ProcessorOK'
  BY AttemptFacts, FieldFacts DEF ProcessorOK
<1>5. PaidForThisUser'
  BY AttemptFacts, FieldFacts DEF PaidForThisUser, AttemptsOK
<1>6. NoMissedPayment'
  BY AttemptFacts, FieldFacts DEF NoMissedPayment, AttemptsOK, ProcessorOK, MayAttempt
<1>7. data' \in [Agreements -> Data]
  OBVIOUS
<1> QED
  BY <1>1, <1>2, <1>3, <1>4, <1>5, <1>6, <1>7

LEMMA ShutdownEndsInv ==
  ASSUME PaymentsInv, ShutdownWaits \/ ShutdownEnds
  PROVE  PaymentsInv'
<1> USE Assumptions DEF PaymentsInv, Types, historyVars, vars
<1> USE DEF ShutdownWaits, ShutdownEnds, CancelProcessor
<1>1. Types'
  BY AttemptFacts, FieldFacts DEF Attempt, ProcessorOK, AttemptsOK
<1>2. DataOK'
  BY AttemptFacts, FieldFacts DEF DataOK
<1>3. AttemptsOK'
  BY AttemptFacts, FieldFacts DEF DataOK, AttemptsOK
<1>4. ProcessorOK'
  BY AttemptFacts, FieldFacts DEF ProcessorOK
<1>5. PaidForThisUser'
  BY AttemptFacts, FieldFacts DEF PaidForThisUser, AttemptsOK
<1>6. NoMissedPayment'
  BY AttemptFacts, FieldFacts DEF NoMissedPayment, AttemptsOK, ProcessorOK, MayAttempt
<1>7. data' \in [Agreements -> Data]
  OBVIOUS
<1> QED
  BY <1>1, <1>2, <1>3, <1>4, <1>5, <1>6, <1>7

-----------------------------------------------------------------------------
(* Theorems *)

LEMMA PaymentsInit == Init => PaymentsInv
<1> SUFFICES ASSUME Init PROVE PaymentsInv
  OBVIOUS
<1>1. data \in [Agreements -> Data] /\ \A a \in Agreements : data[a] = NewData(0)
  BY NewDataFacts, Assumptions DEF Init
<1>2. \A a \in Agreements : /\ data[a].object = 0 /\ data[a].invoice = {}
                            /\ ~data[a].payable /\ ~data[a].paid
  BY <1>1, NewDataFacts, Assumptions
<1>3. Types /\ DataOK
  BY <1>2 DEF Init, Types, DataOK
<1>4. AttemptsOK /\ ProcessorOK /\ PaidForThisUser /\ NoMissedPayment
  BY <1>2 DEF Init, AttemptsOK, ProcessorOK, PaidForThisUser, NoMissedPayment, MayAttempt
<1> QED
  BY <1>1, <1>3, <1>4 DEF PaymentsInv

LEMMA PaymentsNext ==
  ASSUME PaymentsInv, [Next]_vars
  PROVE  PaymentsInv'
<1>1. ASSUME NEW a \in Agreements, WorkerStep(a)
      PROVE  PaymentsInv'
  BY <1>1, WorkerStartsInv, ActivityCreatedInv, AcceptPaymentsInv, InvoiceArrivesInv, Zenon
     DEF WorkerStep
<1>2. CASE AttemptEnds
  BY <1>2, PaymentFailedInv, PayInv, Zenon DEF AttemptEnds
<1>3. CASE ListeningFails \/ Shutdown \/ UNCHANGED vars
  BY <1>3, IdleInv
<1>4. CASE ShutdownWaits \/ ShutdownEnds
  BY <1>4, ShutdownEndsInv
<1> QED
  BY <1>1, <1>2, <1>3, <1>4 DEF Next

(* However workers, batch tasks and the processor of invoices interleave     *)
(* their attempts, PaymentsInv holds.                                        *)
THEOREM PaymentsInvariant == Spec => []PaymentsInv
  BY PaymentsInit, PaymentsNext, PTL DEF Spec

(* Every variable keeps its type; an agreement has at most one invoice, and  *)
(* a task is in at most one attempt at a time.                               *)
THEOREM TypeCorrect == Spec => []TypeOK
<1>1. ASSUME PaymentsInv PROVE TypeOK
  <2>1. ASSUME NEW a \in Agreements PROVE Cardinality(data[a].invoice) <= 1
    <3>1. CASE data[a].invoice = {}
      BY <3>1, FS_EmptySet
    <3>2. CASE \E i : data[a].invoice = {i}
      BY <3>2, FS_Singleton
    <3> QED
      BY <1>1, <3>1, <3>2 DEF PaymentsInv, DataOK
  <2> QED
    BY <1>1, <2>1 DEF PaymentsInv, Types, TypeOK
<1> QED
  BY <1>1, PaymentsInvariant, PTL

(* Whichever comes last of an invoice and of the right to pay it, the        *)
(* payment is attempted, for any number of agreements, payers and reuses.    *)
THEOREM NoneMissed == Spec => []NoMissedPayment
<1>1. PaymentsInv => NoMissedPayment
  BY DEF PaymentsInv
<1> QED
  BY <1>1, PaymentsInvariant, PTL

(* An agreement is never taken for paid because of what an earlier user of   *)
(* it was paid for, even if that attempt ends after the agreement's reuse.   *)
THEOREM ThisUser == Spec => []PaidForThisUser
<1>1. PaymentsInv => PaidForThisUser
  BY DEF PaymentsInv
<1> QED
  BY <1>1, PaymentsInvariant, PTL

LEMMA StopsNext ==
  ASSUME AwaitPayments, PaymentsInv, InvoiceServiceStops, [Next]_vars
  PROVE  InvoiceServiceStops'
<1> USE Assumptions DEF PaymentsInv, InvoiceServiceStops, historyVars
<1>1. ASSUME NEW a \in Agreements, WorkerStep(a)
      PROVE  InvoiceServiceStops'
  <2>1. CASE WorkerStarts(a) \/ ActivityCreated(a) \/ ActivityCreateFailed(a) \/ WorkerEnds(a)
    BY <2>1 DEF WorkerStarts, ActivityCreated, ActivityCreateFailed, WorkerEnds
  <2>2. ASSUME NEW p \in Payers, AcceptPayments(a, p)
        PROVE  InvoiceServiceStops'
    BY <2>2 DEF AcceptPayments
  <2>3. ASSUME NEW i \in Invoices, InvoiceArrives(i, a)
        PROVE  InvoiceServiceStops'
    BY <2>3 DEF InvoiceArrives
  <2> QED
    BY <1>1, <2>1, <2>2, <2>3, Zenon DEF WorkerStep
<1>2. ASSUME NEW r \in attempts, NEW accept \in BOOLEAN, PaymentFailed(r) \/ Pay(r, accept)
      PROVE  InvoiceServiceStops'
  BY <1>2 DEF PaymentFailed, Pay, ProcessorOK
<1>3. CASE ListeningFails \/ Shutdown \/ UNCHANGED vars
  BY <1>3 DEF ListeningFails, Shutdown, vars
<1>4. CASE ShutdownWaits \/ ShutdownEnds
  BY <1>4 DEF ShutdownWaits, ShutdownEnds, CancelProcessor
<1> QED
  BY <1>1, <1>2, <1>3, <1>4, Zenon DEF Next, AttemptEnds

(* After _shutdown the task of _process_invoices does not run, if the engine *)
(* awaits payments: an engine that does not may leave it running.            *)
THEOREM ServiceStops == AwaitPayments => (Spec => []InvoiceServiceStops)
<1> SUFFICES ASSUME AwaitPayments PROVE Spec => []InvoiceServiceStops
  OBVIOUS
<1>1. Init => InvoiceServiceStops
  BY DEF Init, InvoiceServiceStops
<1>2. PaymentsInv /\ InvoiceServiceStops /\ [Next]_vars => InvoiceServiceStops'
  BY StopsNext
<1> QED
  BY <1>1, <1>2, PaymentsInvariant, PTL DEF Spec
=============================================================================
