------------------------------ MODULE Payments ------------------------------
(* Invoices: yapapi/invoice_manager.py and the part of yapapi/engine.py that *)
(* drives it: worker_task (add_agreement, accept_debit_notes_for_agreement), *)
(* accept_payments_for_agreement, _agreement_payment_attempt,                *)
(* _process_invoices and _shutdown.                                          *)
(*                                                                           *)
(* Payments are attempted by the task that processes incoming invoices and   *)
(* by the workers: after every batch, from a task of its own when the worker *)
(* does not wait for the results, and at their end.  An attempt tests the    *)
(* agreement's data, awaits the strategy and the payment API, and marks the  *)
(* agreement paid: it is two steps, and attempts may overlap.                *)
EXTENDS Naturals, FiniteSets

CONSTANTS Agreements,
          Invoices,
          Payers,        \* the worker and batch tasks that may attempt payments
          Processor,     \* the task of _process_invoices
          AwaitPayments, \* _await_payments, the argument of stop()
          MaxStarts      \* bound: how many workers use an agreement in turn

ASSUME PayersAssumption == Processor \notin Payers
ASSUME AwaitAssumption == AwaitPayments \in BOOLEAN
ASSUME MaxStartsAssumption == MaxStarts \in Nat \ {0}

VARIABLES
  data,       \* _agreement_data: see Data
  working,    \* the worker task of each agreement
  accepting,  \* _agreements_accepting_debit_notes of the job
  attempts,   \* calls of attempt_payment that are suspended: see Attempt
  arrived,    \* invoices received so far
  accepted,   \* invoices whose accept() succeeded (history)
  failed,     \* invoices an attempt to pay failed for (history)
  asserted,   \* has the assertion of _agreement_payment_attempt failed?
  processor,  \* the task of _process_invoices
  shutdown    \* where _shutdown is

vars == <<data, working, accepting, attempts, arrived, accepted, failed, asserted, processor,
          shutdown>>
historyVars == <<accepted, failed, asserted>>

(* An AgreementData object; `object` tells apart the objects an agreement    *)
(* had, 0 is none.  The invoice is a set of at most one.                     *)
Data == [object : 0..MaxStarts, invoice : SUBSET Invoices, payable : BOOLEAN, paid : BOOLEAN]
NewData(n) == [object |-> n, invoice |-> {}, payable |-> FALSE, paid |-> FALSE]

Attempt == [by : Payers \cup {Processor}, agr : Agreements, object : 1..MaxStarts,
            invoice : Invoices]

TypeOK ==
  /\ data \in [Agreements -> Data]
  /\ \A a \in Agreements : Cardinality(data[a].invoice) <= 1
  /\ working \in [Agreements -> {"none", "starting", "running", "ended"}]
  /\ accepting \subseteq Agreements
  /\ attempts \subseteq Attempt
  /\ \A r, s \in attempts : r.by = s.by => r = s
  /\ arrived \subseteq Invoices /\ accepted \subseteq arrived /\ failed \subseteq arrived
  /\ asserted \in BOOLEAN
  /\ processor \in {"listening", "paying", "finished", "failed", "cancelled"}
  /\ shutdown \in {"none", "waiting", "cancelling", "done", "raised"}

Init ==
  /\ data = [a \in Agreements |-> NewData(0)]
  /\ working = [a \in Agreements |-> "none"]
  /\ accepting = {} /\ attempts = {} /\ arrived = {}
  /\ accepted = {} /\ failed = {} /\ asserted = FALSE
  /\ processor = "listening"
  /\ shutdown = "none"

-----------------------------------------------------------------------------
(* The worker task *)

(* worker_task: add_agreement, for a new agreement and for a reused one *)
WorkerStarts(a) ==
  /\ shutdown = "none"
  /\ working[a] \in {"none", "ended"}
  /\ data[a].object < MaxStarts
  /\ data' = [data EXCEPT ![a] = NewData(@.object + 1)]
  /\ working' = [working EXCEPT ![a] = "starting"]
  /\ UNCHANGED <<accepting, attempts, arrived, historyVars, processor, shutdown>>

ActivityCreated(a) ==
  /\ working[a] = "starting"
  /\ working' = [working EXCEPT ![a] = "running"]
  /\ accepting' = accepting \cup {a}
  /\ UNCHANGED <<data, attempts, arrived, historyVars, processor, shutdown>>

ActivityCreateFailed(a) ==
  /\ working[a] = "starting"
  /\ working' = [working EXCEPT ![a] = "ended"]
  /\ UNCHANGED <<data, accepting, attempts, arrived, historyVars, processor, shutdown>>

(* Its finally clause has called accept_payments_for_agreement. *)
WorkerEnds(a) ==
  /\ working[a] = "running"
  /\ data[a].payable
  /\ working' = [working EXCEPT ![a] = "ended"]
  /\ UNCHANGED <<data, accepting, attempts, arrived, historyVars, processor, shutdown>>

-----------------------------------------------------------------------------
(* attempt_payment, up to its first suspension point *)

MayAttempt(d) == d.invoice # {} /\ d.payable /\ ~d.paid

(* The attempt `by` starts for agreement a, whose data are now d, or returns *)
(* False at once.                                                            *)
StartAttempt(by, a, d) ==
  attempts' = attempts \cup
    {r \in [by : {by}, agr : {a}, object : {d.object}, invoice : d.invoice] : MayAttempt(d)}

Busy(by) == \E r \in attempts : r.by = by

(* Mutated form: the agreement gets payable, and nothing is attempted. *)
AcceptPaymentsLater(a, p) ==
  /\ ~Busy(p) /\ data[a].object > 0
  /\ data' = [data EXCEPT ![a].payable = TRUE]
  /\ UNCHANGED <<working, accepting, attempts, arrived, historyVars, processor, shutdown>>

(* accept_payments_for_agreement, by the worker or a batch task; that of an  *)
(* earlier worker may still be running when the agreement is reused.         *)
AcceptPayments(a, p) ==
  /\ ~Busy(p)
  /\ working[a] \in {"running", "ended"} \/ data[a].object > 1
  /\ data' = [data EXCEPT ![a].payable = TRUE]
  /\ StartAttempt(p, a, data'[a])
  /\ UNCHANGED <<working, accepting, arrived, historyVars, processor, shutdown>>

-----------------------------------------------------------------------------
(* _process_invoices *)

Unpaid(d) == \E a \in Agreements : d[a].payable /\ ~d[a].paid

(* The condition of its break *)
Break(d) == shutdown # "none" /\ ~(AwaitPayments /\ Unpaid(d))

NextInvoice(d) == IF Break(d) THEN "finished" ELSE "listening"

(* Mutated form: the invoice is stored, and nothing is attempted. *)
InvoiceArrivesOnly(i, a) ==
  LET d == data[a]
  IN /\ processor = "listening"
     /\ i \notin arrived
     /\ arrived' = arrived \cup {i}
     /\ data' = IF d.object = 0 \/ d.invoice # {} \/ d.paid THEN data
                ELSE [data EXCEPT ![a].invoice = {i}]
     /\ processor' = NextInvoice(data')
     /\ UNCHANGED <<working, accepting, attempts, historyVars, shutdown>>

(* Mutated form: a second invoice of an agreement is kept too. *)
InvoiceArrivesAgain(i, a) ==
  /\ processor = "listening"
  /\ i \notin arrived
  /\ arrived' = arrived \cup {i}
  /\ data' = [data EXCEPT ![a].invoice = @ \cup {i}]
  /\ StartAttempt(Processor, a, data[a])
  /\ processor' = IF attempts' # attempts THEN "paying" ELSE NextInvoice(data')
  /\ UNCHANGED <<working, accepting, historyVars, shutdown>>

(* add_invoice and the attempt that follows; the invoice is dropped when the *)
(* agreement is unknown, has one or is paid.                                 *)
InvoiceArrives(i, a) ==
  LET d == data[a]
  IN /\ processor = "listening"
     /\ i \notin arrived
     /\ arrived' = arrived \cup {i}
     /\ data' = IF d.object = 0 \/ d.invoice # {} \/ d.paid THEN data
                ELSE [data EXCEPT ![a].invoice = {i}]
     /\ StartAttempt(Processor, a, data'[a])
     /\ processor' = IF attempts' # attempts THEN "paying" ELSE NextInvoice(data')
     /\ UNCHANGED <<working, accepting, historyVars, shutdown>>

(* incoming_invoices() raises: only intermittent errors are suppressed. *)
ListeningFails ==
  /\ processor = "listening"
  /\ processor' = "failed"
  /\ UNCHANGED <<data, working, accepting, attempts, arrived, historyVars, shutdown>>

-----------------------------------------------------------------------------
(* attempt_payment, from its suspension point on, and what follows it in     *)
(* _agreement_payment_attempt                                                *)

End(r) == attempts' = attempts \ {r}

(* Mutated form: the data of the agreement is looked up again. *)
MarkPaidAnyObject(r) == data' = [data EXCEPT ![r.agr].paid = TRUE]

(* The object may have been replaced meanwhile, by add_agreement. *)
MarkPaid(r) ==
  data' = IF data[r.agr].object = r.object THEN [data EXCEPT ![r.agr].paid = TRUE] ELSE data

(* The invoice is accepted, or ignored when the strategy wants to pay less:  *)
(* paid either way; the agreement's debit notes are not accepted any more.   *)
Pay(r, accept) ==
  /\ r \in attempts /\ End(r)
  /\ MarkPaid(r)
  /\ accepted' = IF accept THEN accepted \cup {r.invoice} ELSE accepted
  /\ accepting' = accepting \ {r.agr}
  /\ asserted' = (asserted \/ r.agr \notin accepting)
  /\ processor' = IF r.by # Processor THEN processor
                  ELSE IF r.agr \notin accepting THEN "failed" ELSE NextInvoice(data')
  /\ UNCHANGED <<working, arrived, failed, shutdown>>

(* No allocation, or an exception of the strategy or of the API *)
PaymentFailed(r) ==
  /\ r \in attempts /\ End(r)
  /\ failed' = failed \cup {r.invoice}
  /\ processor' = IF r.by = Processor THEN NextInvoice(data) ELSE processor
  /\ UNCHANGED <<data, working, accepting, arrived, accepted, asserted, shutdown>>

-----------------------------------------------------------------------------
(* _shutdown *)

CancelProcessor ==
  /\ processor' = IF processor \in {"listening", "paying"} THEN "cancelled" ELSE processor
  /\ attempts' = {r \in attempts : r.by # Processor}

(* All jobs have finished; it waits for invoices of unpaid agreements, if    *)
(* there are any.                                                            *)
Shutdown ==
  /\ shutdown = "none"
  /\ \A a \in Agreements : working[a] \notin {"starting", "running"}
  /\ shutdown' = IF AwaitPayments /\ Unpaid(data) THEN "waiting" ELSE "cancelling"
  /\ UNCHANGED <<data, working, accepting, attempts, arrived, historyVars, processor>>

(* wait_for(_process_invoices_job) returns, raises what the job raised, or   *)
(* cancels it after 30 s.                                                    *)
ShutdownWaits ==
  /\ shutdown = "waiting"
  /\ shutdown' = IF processor = "failed" THEN "raised" ELSE "cancelling"
  /\ CancelProcessor
  /\ UNCHANGED <<data, working, accepting, arrived, historyVars>>

(* Mutated form: the job is cancelled only if it was waited for. *)
ShutdownEndsEarly ==
  /\ shutdown = "cancelling"
  /\ shutdown' = "done"
  /\ UNCHANGED <<data, working, accepting, attempts, arrived, historyVars, processor>>

(* The job is cancelled if payments are awaited; the services have 10 s to   *)
(* finish.                                                                   *)
ShutdownEnds ==
  /\ shutdown = "cancelling"
  /\ shutdown' = "done"
  /\ IF AwaitPayments THEN CancelProcessor ELSE UNCHANGED <<attempts, processor>>
  /\ UNCHANGED <<data, working, accepting, arrived, historyVars>>

-----------------------------------------------------------------------------
WorkerStep(a) ==
  \/ WorkerStarts(a) \/ ActivityCreated(a) \/ ActivityCreateFailed(a) \/ WorkerEnds(a)
  \/ \E p \in Payers : AcceptPayments(a, p)
  \/ \E i \in Invoices : InvoiceArrives(i, a)

AttemptEnds ==
  \E r \in attempts : PaymentFailed(r) \/ \E accept \in BOOLEAN : Pay(r, accept)

Next ==
  \/ \E a \in Agreements : WorkerStep(a)
  \/ AttemptEnds \/ ListeningFails
  \/ Shutdown \/ ShutdownWaits \/ ShutdownEnds

Spec == Init /\ [][Next]_vars

(* The strategy and the payment API answer. *)
FairSpec ==
  /\ Spec
  /\ \A r \in Attempt : WF_vars(PaymentFailed(r) \/ \E accept \in BOOLEAN : Pay(r, accept))

-----------------------------------------------------------------------------
(* Correctness *)

(* Whichever comes last of the invoice and of the right to pay it, it is     *)
(* attempted: an agreement that has both and is not paid has an attempt      *)
(* under way, or one that failed, or one that _shutdown cancelled.           *)
NoMissedPayment ==
  \A a \in Agreements :
    MayAttempt(data[a]) =>
      \/ \E r \in attempts : r.agr = a /\ r.object = data[a].object
      \/ data[a].invoice \subseteq failed
      \/ processor = "cancelled"

(* An agreement that is paid has an invoice, and it was dealt with for the   *)
(* agreement's current user: an attempt of an earlier one does not count.    *)
PaidForThisUser ==
  \A a \in Agreements : data[a].paid => data[a].payable /\ data[a].invoice # {}

(* "then cancel the invoices service": after _shutdown it does not run.      *)
InvoiceServiceStops == shutdown = "done" => processor \notin {"listening", "paying"}

(* An invoice that may be paid is dealt with: unless _shutdown cancels the   *)
(* attempt, it is paid, ignored or reported as failed, or its agreement is   *)
(* given to another worker, whose add_agreement forgets it.                  *)
PaymentSettled ==
  \A a \in Agreements, n \in 1..MaxStarts :
    MayAttempt(data[a]) /\ data[a].object = n ~>
      \/ ~(MayAttempt(data[a]) /\ data[a].object = n)
      \/ data[a].invoice \subseteq failed
      \/ processor = "cancelled"

(* The assertion of _agreement_payment_attempt: when an invoice is accepted  *)
(* the agreement's debit notes were still being accepted.                    *)
AcceptingWhenPaid == ~asserted
=============================================================================
