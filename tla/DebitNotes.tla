----------------------------- MODULE DebitNotes -----------------------------
(* Debit notes: the service _process_debit_notes of yapapi/engine.py, which  *)
(* starts a task for each note, ten at a time, and the checks of such a task *)
(* that terminate the agreement of a provider who sends notes too often.     *)
(* One agreement has one activity here, so what the engine counts for each   *)
(* activity is counted for the agreement.                                    *)
(*                                                                           *)
(* The closing branch of the service (engine.py:528-534) is not modelled: it *)
(* is never taken, since _shutdown sets _payment_closing and cancels the     *)
(* service in one step.                                                      *)
EXTENDS Naturals, FiniteSets

CONSTANTS Notes,
          Agreements,
          For,            \* the agreement of each note
          NoteInterval,   \* debit-note.interval-sec of mid-agreement payments
          PayInterval,     \* payment-timeout-sec of mid-agreement payments
          Grace,          \* DEBIT_NOTE_INTERVAL_GRACE_PERIOD
          MaxNotes,       \* MAX_CONCURRENTLY_PROCESSED_DEBIT_NOTES
          MaxCalls,       \* max_tries of repeat_on_error
          Never,          \* no time
          MaxTime         \* bound: the clock

ASSUME DebitNotesAssumption ==
  /\ IsFiniteSet(Notes) /\ For \in [Notes -> Agreements]
  /\ {NoteInterval, PayInterval, Grace, MaxTime} \subseteq Nat
  /\ {MaxNotes, MaxCalls} \subseteq Nat \ {0}
  /\ Never \notin Nat

VARIABLES
  now,         \* the requestor's clock
  midAgreement, \* agreements with terms of mid-agreement payments
  service,     \* _process_debit_notes runs, or has been cancelled
  note,        \* where each note is
  waiting,     \* the note the service holds while it waits for the semaphore
  permits,     \* the semaphore
  calls,       \* calls made of the API method that is retried
  payable,     \* notes with a payment_due_date
  activity,    \* "none", "creating", "running" or "ended"
  began,       \* when the creation of the activity began
  createdAt,   \* _activity_created_at
  accepts,     \* _agreements_accepting_debit_notes
  terminated,  \* agreements that are terminated
  numNotes,    \* _num_debit_notes
  numPayable,  \* _num_payable_debit_notes
  lastNote,    \* when the provider sent its last note, until it is hasty (history)
  lastPayable, \* ... and its last payable one
  hasty        \* agreements whose provider has not kept to the intervals (history)

clockVars == <<now, hasty, lastNote, lastPayable, midAgreement>>
noteVars == <<note, permits, calls>>
workerVars == <<activity, began, createdAt>>
countVars == <<numNotes, numPayable>>
debitVars == <<clockVars, service, noteVars, waiting, payable, workerVars, accepts, terminated,
               countVars>>

Active == {"fetching", "terminating", "deciding", "accepting"}
NoteStates == {"unsent", "incoming", "waiting", "ignored", "accepted", "failed"} \cup Active
Times == 0..MaxTime \cup {Never}
Counts == 0..Cardinality(Notes)

DebitNotesTypeOK ==
  /\ now \in 0..MaxTime /\ midAgreement \subseteq Agreements /\ service \in {"running", "cancelled"}
  /\ note \in [Notes -> NoteStates] /\ waiting \subseteq Notes /\ permits \in 0..MaxNotes
  /\ calls \in [Notes -> 0..MaxCalls] /\ payable \subseteq Notes
  /\ activity \in [Agreements -> {"none", "creating", "running", "ended"}]
  /\ began \in [Agreements -> Times] /\ createdAt \in [Agreements -> Times]
  /\ accepts \subseteq Agreements /\ terminated \subseteq Agreements /\ hasty \subseteq Agreements
  /\ numNotes \in [Agreements -> Counts] /\ numPayable \in [Agreements -> Counts]
  /\ lastNote \in [Agreements -> Times] /\ lastPayable \in [Agreements -> Times]

DebitNotesInit ==
  /\ now = 0 /\ midAgreement \in SUBSET Agreements /\ service = "running"
  /\ note = [n \in Notes |-> "unsent"] /\ waiting = {} /\ permits = MaxNotes
  /\ calls = [n \in Notes |-> 0] /\ payable = {}
  /\ activity = [a \in Agreements |-> "none"]
  /\ began = [a \in Agreements |-> Never] /\ createdAt = [a \in Agreements |-> Never]
  /\ accepts = {} /\ terminated = {} /\ hasty = {}
  /\ numNotes = [a \in Agreements |-> 0] /\ numPayable = [a \in Agreements |-> 0]
  /\ lastNote = [a \in Agreements |-> Never] /\ lastPayable = [a \in Agreements |-> Never]

Tick ==
  /\ now < MaxTime /\ now' = now + 1
  /\ UNCHANGED <<hasty, lastNote, lastPayable, midAgreement, service, noteVars, waiting, payable, workerVars,
                 accepts, terminated, countVars>>

----------------------------------------------------------------------------
(* The worker of the agreement, and the provider                             *)

(* worker_task: the start is noted before the activity is created, and kept  *)
(* from its creation until it is destroyed.                                  *)
WorkerStep(a) ==
  /\ \/ activity[a] = "none" /\ activity' = [activity EXCEPT ![a] = "creating"]
        /\ began' = [began EXCEPT ![a] = now] /\ UNCHANGED <<createdAt, accepts>>
     \/ activity[a] = "creating" /\ activity' = [activity EXCEPT ![a] = "running"]
        /\ createdAt' = [createdAt EXCEPT ![a] = began[a]] /\ accepts' = accepts \cup {a}
        /\ UNCHANGED began
     \/ activity[a] = "running" /\ activity' = [activity EXCEPT ![a] = "ended"]
        /\ began' = [began EXCEPT ![a] = Never]
        /\ createdAt' = [createdAt EXCEPT ![a] = Never] /\ UNCHANGED accepts
  /\ UNCHANGED <<clockVars, service, noteVars, waiting, payable, terminated, countVars>>

(* The final invoice is accepted: no debit note is from now on.              *)
InvoicePaid(a) ==
  /\ a \in accepts /\ accepts' = accepts \ {a}
  /\ UNCHANGED <<clockVars, service, noteVars, waiting, payable, workerVars, terminated,
                 countVars>>

TooSoon(last, interval) == last # Never /\ now < last + interval

(* The provider sends a note, payable or not, sooner or later.  The events   *)
(* of the payment API bring them in the order of their dates, but a burst of *)
(* them may come late.                                                       *)
SendNote(n, due) ==
  LET a == For[n]
  IN /\ note[n] = "unsent" /\ activity[a] # "none" /\ a \notin terminated
     /\ note' = [note EXCEPT ![n] = "incoming"]
     /\ payable' = IF due THEN payable \cup {n} ELSE payable
     /\ IF \/ a \in hasty
           \/ a \in midAgreement /\ TooSoon(lastNote[a], NoteInterval)
           \/ due /\ (a \notin midAgreement \/ TooSoon(lastPayable[a], PayInterval))
        THEN /\ hasty' = hasty \cup {a}
             /\ lastNote' = [lastNote EXCEPT ![a] = Never]
             /\ lastPayable' = [lastPayable EXCEPT ![a] = Never]
        ELSE /\ lastNote' = [lastNote EXCEPT ![a] = now]
             /\ lastPayable' = IF due THEN [lastPayable EXCEPT ![a] = now] ELSE lastPayable
             /\ UNCHANGED hasty
     /\ UNCHANGED <<now, midAgreement, service, permits, calls, waiting, workerVars, accepts, terminated,
                    countVars>>

----------------------------------------------------------------------------
(* _process_debit_notes                                                      *)

ReceiveNote(n) ==
  /\ service = "running" /\ waiting = {} /\ note[n] = "incoming"
  /\ waiting' = {n} /\ note' = [note EXCEPT ![n] = "waiting"]
  /\ UNCHANGED <<clockVars, service, permits, calls, payable, workerVars, accepts, terminated,
                 countVars>>

StartNote(n) ==
  /\ service = "running" /\ n \in waiting /\ permits > 0
  /\ waiting' = {} /\ permits' = permits - 1 /\ note' = [note EXCEPT ![n] = "fetching"]
  /\ UNCHANGED <<clockVars, service, calls, payable, workerVars, accepts, terminated, countVars>>

(* _shutdown cancels the service; the tasks it has started go on.            *)
CancelService ==
  /\ service = "running" /\ service' = "cancelled" /\ waiting' = {}
  /\ UNCHANGED <<clockVars, noteVars, payable, workerVars, accepts, terminated, countVars>>

----------------------------------------------------------------------------
(* _process_debit_note                                                       *)

NoteGoes(n, state) ==
  /\ note' = [note EXCEPT ![n] = state] /\ UNCHANGED permits
  /\ calls' = [calls EXCEPT ![n] = 0]

(* Mutated form: only a task that ends well releases the semaphore.          *)
MutNoteEnds(n, state) ==
  /\ note' = [note EXCEPT ![n] = state]
  /\ permits' = IF state = "failed" THEN permits ELSE permits + 1
  /\ calls' = [calls EXCEPT ![n] = 0]

(* The wrapper releases the semaphore, however the task ends.                *)
NoteEnds(n, state) ==
  /\ note' = [note EXCEPT ![n] = state] /\ permits' = permits + 1
  /\ calls' = [calls EXCEPT ![n] = 0]

(* Mutated form: the first note counts as an interval.                       *)
MutTooOften(a, num, interval) == now - createdAt[a] + Grace < num * interval

(* _check_for_termination_reason                                             *)
TooOften(a, num, interval) == now - createdAt[a] + Grace < (num - 1) * interval

(* An API call that times out is repeated, up to max_tries times.            *)
CallFails(n) ==
  /\ note[n] \in {"fetching", "accepting"}
  /\ \/ calls[n] + 1 < MaxCalls /\ calls' = [calls EXCEPT ![n] = @ + 1]
        /\ UNCHANGED <<note, permits>>
     \/ NoteEnds(n, "failed")
  /\ UNCHANGED <<clockVars, service, waiting, payable, workerVars, accepts, terminated,
                 countVars>>

(* The note is there: is it to be accepted, and is its provider in a hurry?  *)
(* Notes of an agreement that is terminated are not counted, those that come *)
(* before the activity is known are counted and ignored.                     *)
CheckNote(n) ==
  LET a == For[n]
      notes == numNotes[a] + 1
      payables == IF n \in payable THEN numPayable[a] + 1 ELSE numPayable[a]
      reason == \/ a \in midAgreement /\ TooOften(a, notes, NoteInterval)
                \/ n \in payable /\ (a \notin midAgreement \/ TooOften(a, payables, PayInterval))
      counted == a \in accepts /\ a \notin terminated
  IN /\ note[n] = "fetching"
     /\ IF counted THEN numNotes' = [numNotes EXCEPT ![a] = notes]
                        /\ numPayable' = [numPayable EXCEPT ![a] = payables]
        ELSE UNCHANGED countVars
     /\ IF ~counted \/ createdAt[a] = Never THEN NoteEnds(n, "ignored")
        ELSE NoteGoes(n, IF reason THEN "terminating" ELSE "deciding")
     /\ UNCHANGED <<clockVars, service, waiting, payable, workerVars, accepts, terminated>>

(* _terminate_agreement, which may fail.                                     *)
TerminateAgreement(n) ==
  /\ note[n] = "terminating" /\ NoteEnds(n, "ignored")
  /\ terminated' \in {terminated, terminated \cup {For[n]}}
  /\ UNCHANGED <<clockVars, service, waiting, payable, workerVars, accepts, countVars>>

(* The allocation and the amount the strategy accepts: less than the note    *)
(* asks for and it is ignored.                                               *)
DecideNote(n) ==
  /\ note[n] = "deciding"
  /\ NoteGoes(n, "accepting") \/ NoteEnds(n, "ignored") \/ NoteEnds(n, "failed")
  /\ UNCHANGED <<clockVars, service, waiting, payable, workerVars, accepts, terminated,
                 countVars>>

NoteAccepted(n) ==
  /\ note[n] = "accepting" /\ NoteEnds(n, "accepted")
  /\ UNCHANGED <<clockVars, service, waiting, payable, workerVars, accepts, terminated,
                 countVars>>

NoteTask(n) ==
  CallFails(n) \/ CheckNote(n) \/ TerminateAgreement(n) \/ DecideNote(n) \/ NoteAccepted(n)

DebitNotesNext ==
  \/ Tick \/ CancelService
  \/ \E a \in Agreements : WorkerStep(a) \/ InvoicePaid(a)
  \/ \E n \in Notes : \/ \E due \in BOOLEAN : SendNote(n, due)
                      \/ ReceiveNote(n) \/ StartNote(n) \/ NoteTask(n)

(* Fairness: the tasks run, and calls of the API return or fail.             *)
DebitNotesFairness ==
  \A n \in Notes : /\ SF_debitVars(ReceiveNote(n)) /\ WF_debitVars(StartNote(n))
                   /\ WF_debitVars(NoteTask(n))

DebitNotesSpec == DebitNotesInit /\ [][DebitNotesNext]_debitVars /\ DebitNotesFairness

----------------------------------------------------------------------------
(* Properties                                                                *)

(* A provider that keeps to the intervals it agreed to never has its         *)
(* agreement terminated for too many notes, in whatever order, burst or      *)
(* delay the notes are processed (engine.py:414-507).                        *)
WellPacedNotTerminated == terminated \subseteq hasty

(* The permits of the semaphore and the running tasks always make up the     *)
(* limit: no error takes a permit away for good (engine.py:514-526).         *)
PermitsReturned == permits + Cardinality({n \in Notes : note[n] \in Active}) = MaxNotes

(* All notes that come are dealt with some time, unless the engine shuts     *)
(* down: no task keeps the semaphore from the others (engine.py:509-533).    *)
Unsettled == \E n \in Notes : note[n] \in {"incoming", "waiting"} \cup Active
NoteSettles == Unsettled ~> ~Unsettled \/ service = "cancelled"
=============================================================================
