--------------------------- MODULE BatchesProofs ---------------------------
(* Theorems about Batches and Gftp, for every set of scripts, commands,      *)
(* files and URLs.                                                           *)
(*                                                                           *)
(* The counts of the provider are right whatever it is asked, even when the  *)
(* lines of the pipe are not those of the requests; what has to be known     *)
(* besides is who holds the provider's lock while an URL is published or     *)
(* closed (LocksOK), and that an URL being closed has no source (ClosingOK). *)
(* How far a line can be trusted depends on how many nobody has read: with   *)
(* one at most, an URL it names is still served (LineOK).                    *)
EXTENDS Batches, FiniteSetTheorems, WellFoundedInduction, TLAPS

(* The parts of BatchesTypeOK *)
StageTypes ==
  /\ stage \in [Scripts -> Stages]
  /\ pos \in [Scripts -> Nat] /\ \A s \in Scripts : pos[s] \in 1..Size(s) + 1
  /\ last \in [Scripts -> Nat] /\ \A s \in Scripts : last[s] \in 0..Size(s)
  /\ executed \in [Scripts -> Nat] /\ \A s \in Scripts : executed[s] \in 0..Size(s)
  /\ failedCmd \subseteq Scripts

OtherTypes ==
  /\ tries \in [Scripts -> 1..MaxTries]
  /\ yields \in [Scripts -> Nat] /\ \A s \in Scripts : yields[s] \in 0..MaxYields[s]
  /\ spent \subseteq Commands /\ resolved \subseteq Commands
  /\ truncated \subseteq Scripts /\ ended \subseteq Workers
  /\ streaming \in BOOLEAN

SourceTypes == source \in [Commands -> Urls \cup Replies \cup {NoSource}]

Types == StageTypes /\ OtherTypes /\ SourceTypes /\ GftpTypeOK

(* A hook is one of a command of its kind; no hook runs before the script is *)
(* yielded or after it has ended.                                            *)
StageOK(s) ==
  /\ stage[s] \in {"publishing", "closing"} => pos[s] <= Size(s) /\ Sends(Cmd(s))
  /\ stage[s] = "receiving" => pos[s] <= Size(s) /\ Cmd(s).kind = "receive"
  /\ stage[s] \in {"new", "failed"} => pos[s] = 1

(* The provider's lock is held over a publish and over a close, from before  *)
(* their request to its reply.                                               *)
LocksOK(s) ==
  /\ stage[s] \in {"publishing", "closing"} <=> gftpLock = s
  /\ pipe = s => stage[s] \in {"publishing", "receiving", "closing"}

(* Nobody counts on an URL that is being closed. *)
ClosingOK(s) ==
  stage[s] = "closing" => source[<<s, pos[s]>>] \in Urls /\ count[source[<<s, pos[s]>>]] = 0

(* An URL that has a source has an entry, and is served, as far as the line  *)
(* that named it can be trusted.                                             *)
CountOK(u) ==
  /\ count[u] >= Cardinality(Sending(u))
  /\ u \notin entries => count[u] = 0
  /\ Len(unread) <= 1 /\ count[u] > 0 => u \in served

(* The only line that nobody waits for is not of a closed URL. *)
LineOK == Len(unread) = 1 /\ unread[1] \in Urls => unread[1] \in served

(* The sources of a script are there from the `before` hook to the end of    *)
(* its results.                                                              *)
Uploads(s, k) ==
  \/ stage[s] = "results"
  \/ stage[s] \in {"before", "publishing", "receiving"} /\ k < pos[s]

SourceOK(s) == \A k \in 1..Size(s) : Sends(Program[s][k]) /\ Uploads(s, k) =>
  /\ source[<<s, k>>] \in Urls
  /\ Program[s][k].kind = "bytes" => <<s, k>> \in temporary[source[<<s, k>>]]
  /\ unread = <<>> => source[<<s, k>>] = Program[s][k].url

StorageOK ==
  /\ \A s \in Scripts : StageOK(s) /\ LocksOK(s) /\ ClosingOK(s) /\ SourceOK(s)
  /\ \A u \in Urls : CountOK(u)
  /\ LineOK

(* What the requestor knows of the batch, and what the provider has done.    *)
ResultsOK(s) ==
  /\ last[s] <= executed[s]
  /\ stage[s] # "results" => last[s] = 0 /\ executed[s] = 0
  /\ stage[s] \notin {"results", "after", "closing", "done"} => s \notin failedCmd
  /\ stage[s] = "results" /\ s \notin truncated =>
       /\ \A k \in 1..last[s] : <<s, k>> \in resolved
       /\ s \in failedCmd => last[s] < executed[s]
  /\ stage[s] \in {"after", "closing", "done"} /\ s \notin truncated =>
       /\ \A k \in 1..Size(s) : <<s, k>> \in resolved
       /\ s \notin failedCmd

BatchesInv == Types /\ StorageOK /\ \A s \in Scripts : ResultsOK(s)

-----------------------------------------------------------------------------
(* The model's operators *)

LEMMA Element == ASSUME NEW T, NEW q \in Seq(T), NEW k \in 1..Len(q) PROVE q[k] \in T
  OBVIOUS

LEMMA TailFacts ==
  ASSUME NEW T, NEW q \in Seq(T), q # <<>>
  PROVE  /\ Head(q) = q[1] /\ q[1] \in T /\ Tail(q) \in Seq(T)
         /\ Len(q) \in Nat \ {0} /\ Len(Tail(q)) = Len(q) - 1
         /\ \A k \in 1..Len(q) - 1 : Tail(q)[k] = q[k + 1]
  OBVIOUS

LEMMA CommandFacts ==
  /\ \A s \in Scripts, k \in Nat : k \in 1..Size(s) => <<s, k>> \in Commands
  /\ \A c \in Commands : /\ c[1] \in Scripts /\ c[2] \in 1..Size(c[1]) /\ c = <<c[1], c[2]>>
                         /\ Program[c[1]][c[2]].url \in Urls
  /\ \A s \in Scripts : Size(s) \in Nat
<1>1. \A s \in Scripts : Size(s) \in Nat
  BY ProgramAssumption DEF Size
<1>2. ASSUME NEW s \in Scripts, NEW k \in 1..Size(s)
      PROVE  Program[s][k].url \in Urls
  <2>1. Program[s] \in Seq([kind : Kinds, url : Urls])
    BY ProgramAssumption
  <2>2. Program[s][k] \in [kind : Kinds, url : Urls]
    BY <2>1, Element DEF Size
  <2> QED
    BY <2>2
<1> QED
  BY <1>1, <1>2 DEF Commands

LEMMA SendingFinite ==
  ASSUME NEW u \in Urls
  PROVE  IsFiniteSet(Sending(u)) /\ Cardinality(Sending(u)) \in Nat
<1>1. Sending(u) \in SUBSET Commands
  BY DEF Sending
<1> QED
  BY <1>1, CommandsAssumption, FS_Subset, FS_CardinalityType

(* An URL somebody sends has a count. *)
LEMMA InUse ==
  ASSUME NEW u \in Urls, NEW c \in Sending(u), count[u] >= Cardinality(Sending(u)),
         count[u] \in Nat
  PROVE  count[u] > 0
<1>1. Cardinality(Sending(u)) # 0
  BY SendingFinite, FS_EmptySet
<1> QED
  BY <1>1, SendingFinite

(* The lines of the pipe: in their order, one for each request. *)
LEMMA Lines ==
  ASSUME unread \in Seq(Urls \cup Replies), NEW own \in Urls \cup Replies
  PROVE  /\ Reply(own) \in Urls \cup Replies
         /\ Tail(Append(unread, own)) \in Seq(Urls \cup Replies)
         /\ Append(unread, own) \in Seq(Urls \cup Replies)
         /\ Len(Tail(Append(unread, own))) = Len(unread)
         /\ Len(Append(unread, own)) = Len(unread) + 1
         /\ Len(unread) \in Nat
         /\ unread = <<>> => Reply(own) = own /\ Tail(Append(unread, own)) = <<>>
         /\ unread = <<>> => Append(unread, own)[1] = own
         /\ Len(unread) = 1 => /\ Reply(own) = unread[1]
                               /\ Tail(Append(unread, own))[1] = own
         /\ Append(unread, own) # <<>>
         /\ Len(unread) = 0 <=> unread = <<>>
         /\ Tail(Append(unread, own)) = <<>> <=> unread = <<>>
<1> DEFINE T    == Urls \cup Replies
           more == Append(unread, own)
<1>1. /\ unread \in Seq(T) /\ own \in T /\ more \in Seq(T) /\ Len(more) = Len(unread) + 1
      /\ Len(unread) \in Nat /\ more[Len(unread) + 1] = own
      /\ \A k \in 1..Len(unread) : more[k] = unread[k]
      /\ Len(unread) = 0 <=> unread = <<>>
  OBVIOUS
<1> HIDE DEF T
<1>2. /\ more # <<>> /\ Head(more) = more[1] /\ more[1] \in T
      /\ Tail(more) \in Seq(T) /\ Len(Tail(more)) = Len(unread)
      /\ \A k \in 1..Len(unread) : Tail(more)[k] = more[k + 1]
  <2>1. more # <<>>
    BY <1>1
  <2> QED
    BY <1>1, <2>1, TailFacts
<1> HIDE DEF more
<1>3. Tail(more) = <<>> <=> unread = <<>>
  BY <1>1, <1>2
<1>4. Len(unread) = 1 => more[1] = unread[1] /\ Tail(more)[1] = own
  <2>1. ASSUME Len(unread) = 1
        PROVE  1 \in 1..Len(unread) /\ 1 + 1 = 2
    BY <2>1
  <2> QED
    BY <1>1, <1>2, <2>1
<1> QED
  BY <1>1, <1>2, <1>3, <1>4 DEF Reply, more, T

(* A set of numbers has a least one. *)
LEMMA Least ==
  ASSUME NEW S, S \subseteq Nat, S # {}
  PROVE  \E m \in S : \A n \in S : m <= n
<1>1. \E R : IsWellFoundedOn(R, Nat) /\ \A m, n \in Nat : <<n, m>> \in R <=> n < m
  <2>1. \A m, n \in Nat : <<n, m>> \in OpToRel(<, Nat) <=> n < m
    BY DEF OpToRel
  <2> QED
    BY <2>1, NatLessThanWellFounded, Zenon
<1>2. PICK R : IsWellFoundedOn(R, Nat) /\ \A m, n \in Nat : <<n, m>> \in R <=> n < m
  BY <1>1
<1>3. PICK m \in S : \A n \in S : ~ (<<n, m>> \in R)
  BY <1>2, WFMin
<1>4. \A n \in S : m \in Nat /\ n \in Nat /\ ~(n < m)
  BY <1>2, <1>3
<1> QED
  BY <1>4

(* process_batch_event stops at the first result that raises, if any does.   *)
LEMMA FirstErrorFacts ==
  ASSUME NEW s \in Scripts, NEW n \in Nat, last[s] \in Nat, last[s] <= n
  PROVE  /\ FirstError(s, n) \in last[s] + 1..n + 1
         /\ FirstError(s, n) = n + 1 /\ s \in failedCmd => executed[s] \notin last[s] + 1..n
<1> DEFINE Raises(j) == (j = executed[s] /\ s \in failedCmd) \/ <<s, j>> \in resolved
           stops     == {j \in last[s] + 1..n + 1 : j = n + 1 \/ Raises(j)}
           First(k)  == /\ k = n + 1 \/ (k = executed[s] /\ s \in failedCmd) \/ <<s, k>> \in resolved
                        /\ \A j \in last[s] + 1..k - 1 : ~(j = executed[s] /\ s \in failedCmd)
                                                         /\ <<s, j>> \notin resolved
<1>1. stops \subseteq Nat /\ n + 1 \in stops
  OBVIOUS
<1>2. PICK k \in stops : \A j \in stops : k <= j
  BY <1>1, Least
<1>3. k \in last[s] + 1..n + 1 /\ First(k)
  <2>1. ASSUME NEW j \in last[s] + 1..k - 1
        PROVE  j \in last[s] + 1..n + 1 /\ ~(k <= j)
    BY <2>1
  <2> QED
    BY <1>2, <2>1
<1>4. FirstError(s, n) = CHOOSE m \in last[s] + 1..n + 1 : First(m)
  BY DEF FirstError
<1> HIDE DEF First
<1>5. FirstError(s, n) \in last[s] + 1..n + 1 /\ First(FirstError(s, n))
  BY <1>3, <1>4
<1>6. last[s] + 1..(n + 1) - 1 = last[s] + 1..n
  OBVIOUS
<1> QED
  BY <1>5, <1>6 DEF First

-----------------------------------------------------------------------------
(* The steps of a script *)

(* A step of script s leaves the others where they are. *)
Alone(s) == \A r \in Scripts \ {s} :
  /\ stage'[r] = stage[r] /\ pos'[r] = pos[r]
  /\ last'[r] = last[r] /\ executed'[r] = executed[r]
  /\ r \in failedCmd' <=> r \in failedCmd

(* Where a step leads script s. *)
Leads(s, new, p, l, e) ==
  /\ StageTypes' /\ Alone(s)
  /\ stage'[s] = new /\ pos'[s] = p /\ last'[s] = l /\ executed'[s] = e

LEMMA FailsLeads ==
  ASSUME StageTypes, NEW s \in Scripts, Fails(s)
  PROVE  /\ Leads(s, "failed", 1, 0, 0) /\ s \notin failedCmd'
         /\ tries' = [tries EXCEPT ![s] = MaxTries]
<1>1. Size(s) \in Nat
  BY CommandFacts
<1> QED
  BY <1>1 DEF StageTypes, Fails, Goto, Leads, Alone, Stages

LEMMA IteratedLeads ==
  ASSUME StageTypes, NEW s \in Scripts, Iterated(s)
  PROVE  /\ Leads(s, "after", 1, 0, 0) /\ failedCmd' = failedCmd
         /\ tries' = [tries EXCEPT ![s] = MaxTries]
<1>1. Size(s) \in Nat
  BY CommandFacts
<1> QED
  BY <1>1 DEF StageTypes, Iterated, Goto, Leads, Alone, Stages

LEMMA GotoLeads ==
  ASSUME StageTypes, NEW s \in Scripts, NEW new \in Stages, Goto(s, new),
         UNCHANGED <<last, executed, failedCmd>>
  PROVE  /\ UNCHANGED pos => Leads(s, new, pos[s], last[s], executed[s])
         /\ NextHook(s) /\ pos[s] <= Size(s) =>
              Leads(s, new, pos[s] + 1, last[s], executed[s])
         /\ pos' = [pos EXCEPT ![s] = 1] => Leads(s, new, 1, last[s], executed[s])
<1>1. Size(s) \in Nat
  BY CommandFacts
<1> QED
  BY <1>1 DEF StageTypes, Goto, NextHook, Leads, Alone

LEMMA StayLeads ==
  ASSUME StageTypes, NEW s \in Scripts, UNCHANGED <<stage, failedCmd, last, executed>>
  PROVE  /\ UNCHANGED pos => Leads(s, stage[s], pos[s], last[s], executed[s])
         /\ NextHook(s) /\ pos[s] <= Size(s) =>
              Leads(s, stage[s], pos[s] + 1, last[s], executed[s])
<1>1. Size(s) \in Nat
  BY CommandFacts
<1> QED
  BY <1>1 DEF StageTypes, NextHook, Leads, Alone

-----------------------------------------------------------------------------
(* What a step has to show *)

(* A script that is not in the provider, and does not go there. *)
Busy == {"publishing", "receiving", "closing"}
Quiet(s, new, p) ==
  /\ stage[s] \notin Busy /\ new \notin {"publishing", "closing"}
  /\ new = "receiving" => p <= Size(s) /\ Program[s][p].kind = "receive"
  /\ new \in {"new", "failed"} => p = 1
  /\ new = "results" \/ new \in {"before", "receiving"} =>
       \A k \in 1..Size(s) :
         Sends(Program[s][k]) /\ (new = "results" \/ k < p) => Uploads(s, k)
  /\ UNCHANGED <<source, gftpVars>>

LEMMA ClosingStays ==
  ASSUME NEW s \in Scripts, Alone(s), NEW c \in Commands, c[1] # s
  PROVE  Closing(c)' <=> Closing(c)
<1>1. c[1] \in Scripts \ {s}
  BY CommandFacts
<1> QED
  BY <1>1 DEF Alone, Closing

LEMMA QuietKeeps ==
  ASSUME Types, StorageOK, NEW s \in Scripts, NEW new, NEW p, NEW l, NEW e,
         Leads(s, new, p, l, e), Quiet(s, new, p)
  PROVE  GftpTypeOK' /\ SourceTypes' /\ StorageOK'
<1>1. GftpTypeOK' /\ SourceTypes'
  BY DEF Types, Quiet, GftpTypeOK, SourceTypes, gftpVars, pipeVars
<1>2. \A u \in Urls : Sending(u)' = Sending(u)
  <2>1. \A c \in Commands : Closing(c)' <=> Closing(c)
    BY ClosingStays DEF Leads, Quiet, Closing, Busy
  <2> QED
    BY <2>1 DEF Sending, Quiet
<1>3. (\A u \in Urls : CountOK(u)') /\ LineOK'
  BY <1>2 DEF StorageOK, CountOK, LineOK, Quiet, gftpVars, pipeVars
<1>4. ASSUME NEW r \in Scripts, r # s
      PROVE  StageOK(r)' /\ LocksOK(r)' /\ ClosingOK(r)' /\ SourceOK(r)'
  <2>1. stage'[r] = stage[r] /\ pos'[r] = pos[r]
    BY <1>4 DEF Leads, Alone
  <2> QED
    BY <2>1
       DEF StorageOK, StageOK, LocksOK, ClosingOK, SourceOK, Uploads, Cmd, Quiet, gftpVars,
           pipeVars
<1>5. StageOK(s)' /\ LocksOK(s)' /\ ClosingOK(s)' /\ SourceOK(s)'
  <2>1. StageOK(s)'
    BY DEF StageOK, Leads, Quiet, Cmd
  <2>2. LocksOK(s)' /\ ClosingOK(s)'
    BY DEF StorageOK, LocksOK, ClosingOK, Leads, Quiet, Busy, gftpVars, pipeVars
  <2>3. ASSUME NEW k \in 1..Size(s), Sends(Program[s][k]), Uploads(s, k)'
        PROVE  Uploads(s, k)
    BY <2>3 DEF Uploads, Leads, Quiet
  <2>4. SourceOK(s)'
    BY <2>3 DEF StorageOK, SourceOK, Quiet, gftpVars, pipeVars
  <2> QED
    BY <2>1, <2>2, <2>4
<1> QED
  BY <1>1, <1>3, <1>4, <1>5 DEF StorageOK

(* Knowledge of results is not lost. *)
LEMMA Together ==
  ASSUME BatchesInv, NEW s \in Scripts, NEW new, NEW p, NEW l, NEW e,
         Leads(s, new, p, l, e), OtherTypes', GftpTypeOK', SourceTypes', StorageOK',
         resolved \subseteq resolved', \A r \in Scripts : r # s /\ r \in truncated => r \in truncated',
         ResultsOK(s)'
  PROVE  BatchesInv'
<1>1. ASSUME NEW r \in Scripts, r # s
      PROVE  ResultsOK(r)'
  <2>1. /\ stage'[r] = stage[r] /\ last'[r] = last[r] /\ executed'[r] = executed[r]
        /\ r \in failedCmd' <=> r \in failedCmd
    BY <1>1 DEF Leads, Alone
  <2> QED
    BY <1>1, <2>1 DEF BatchesInv, ResultsOK
<1> QED
  BY <1>1 DEF BatchesInv, Types, Leads

(* A script that fails is known to have no result. *)
LEMMA FailedResults ==
  ASSUME StageTypes, NEW s \in Scripts, Fails(s)
  PROVE  ResultsOK(s)'
  BY FailsLeads DEF Leads, ResultsOK

LEMMA FailsKeeps ==
  ASSUME BatchesInv, NEW s \in Scripts, Fails(s), stage[s] \notin Busy,
         UNCHANGED <<source, gftpVars>>, OtherTypes',
         resolved \subseteq resolved', UNCHANGED truncated
  PROVE  BatchesInv'
<1>1. Leads(s, "failed", 1, 0, 0) /\ ResultsOK(s)'
  BY FailsLeads, FailedResults DEF BatchesInv, Types
<1>2. Quiet(s, "failed", 1)
  BY DEF Quiet
<1>3. GftpTypeOK' /\ SourceTypes' /\ StorageOK'
  BY <1>1, <1>2, QuietKeeps DEF BatchesInv
<1> QED
  BY <1>1, <1>3, Together

LEMMA FailsTypes ==
  ASSUME BatchesInv, NEW s \in Scripts, Fails(s),
         UNCHANGED <<spent, resultVars, engineVars>>
  PROVE  OtherTypes'
  BY TriesAssumption, FailsLeads DEF BatchesInv, Types, OtherTypes, resultVars, engineVars

-----------------------------------------------------------------------------
(* The actions that do not call the provider *)

LEMMA YieldKeeps ==
  ASSUME BatchesInv, NEW s \in Scripts, Yield(s)
  PROVE  BatchesInv'
<1>1. /\ stage[s] \in {"new", "failed"} /\ pos[s] = 1 /\ ResultsOK(s)
      /\ UNCHANGED <<pos, last, tries, executed, failedCmd, source, spent, resolved,
                     truncated, gftpVars>>
  BY DEF Yield, BatchesInv, StorageOK, StageOK, localVars, hookVars, resultVars
<1>2. Leads(s, "before", 1, last[s], executed[s])
  BY <1>1, GotoLeads DEF Yield, BatchesInv, Types, Stages
<1>3. Quiet(s, "before", 1)
  BY <1>1 DEF Quiet, Busy
<1>4. OtherTypes'
  <2>1. /\ yields' = [yields EXCEPT ![s] = @ + 1] /\ yields[s] < MaxYields[s]
        /\ \A r \in Scripts : MaxYields[r] \in Nat
        /\ UNCHANGED <<ended, streaming>>
    BY YieldsAssumption DEF Yield
  <2>2. /\ yields' \in [Scripts -> Nat]
        /\ \A r \in Scripts : yields'[r] \in 0..MaxYields[r]
    BY <2>1 DEF BatchesInv, Types, OtherTypes
  <2> QED
    BY <1>1, <2>1, <2>2 DEF BatchesInv, Types, OtherTypes
<1>5. ResultsOK(s)'
  BY <1>1, <1>2 DEF ResultsOK, Leads
<1> QED
  BY <1>1, <1>2, <1>3, <1>4, <1>5, QuietKeeps, Together DEF BatchesInv

LEMMA SendKeeps ==
  ASSUME BatchesInv, NEW s \in Scripts, Send(s)
  PROVE  BatchesInv'
<1>1. /\ stage[s] = "before" /\ pos[s] > Size(s) /\ ResultsOK(s) /\ Size(s) \in Nat
      /\ pos[s] \in Nat
      /\ UNCHANGED <<source, spent, resolved, truncated, resultVars, engineVars, gftpVars>>
  BY CommandFacts DEF Send, BatchesInv, Types, StageTypes, hookVars, resultVars
<1>2. CASE Fails(s)
  BY <1>1, <1>2, FailsKeeps, FailsTypes DEF Busy
<1>3. CASE Goto(s, "results") /\ UNCHANGED localVars
  <2>1. UNCHANGED <<pos, last, tries, executed, failedCmd>>
    BY <1>3 DEF localVars
  <2>2. Leads(s, "results", pos[s], last[s], executed[s])
    BY <1>3, <2>1, GotoLeads DEF BatchesInv, Types, Stages
  <2>3. Quiet(s, "results", pos[s])
    BY <1>1 DEF Quiet, Busy, Uploads
  <2>4. OtherTypes'
    BY <1>1, <2>1 DEF BatchesInv, Types, OtherTypes, engineVars
  <2>5. ResultsOK(s)'
    BY <1>1, <2>1, <2>2 DEF ResultsOK, Leads
  <2> QED
    BY <1>1, <2>2, <2>3, <2>4, <2>5, QuietKeeps, Together DEF BatchesInv
<1> QED
  BY <1>2, <1>3 DEF Send

LEMMA DeadlineKeeps ==
  ASSUME BatchesInv, NEW s \in Scripts, Deadline(s)
  PROVE  BatchesInv'
  BY FailsKeeps, FailsTypes DEF Deadline, Busy, hookVars, resultVars

(* A step of the provider or the client of the results that stays there.     *)
LEMMA ResultsStep ==
  ASSUME BatchesInv, NEW s \in Scripts, stage[s] = "results", UNCHANGED <<stage, pos>>,
         StageTypes', Alone(s), OtherTypes', UNCHANGED <<source, gftpVars>>,
         resolved \subseteq resolved',
         \A r \in Scripts : r # s /\ r \in truncated => r \in truncated',
         ResultsOK(s)'
  PROVE  BatchesInv'
<1>1. Leads(s, stage[s], pos[s], last'[s], executed'[s])
  BY DEF Leads
<1>2. Quiet(s, stage[s], pos[s])
  BY DEF Quiet, Busy, Uploads
<1> QED
  BY <1>1, <1>2, QuietKeeps, Together DEF BatchesInv

LEMMA ExecuteKeeps ==
  ASSUME BatchesInv, NEW s \in Scripts, Execute(s)
  PROVE  BatchesInv'
<1>1. /\ stage[s] = "results" /\ executed[s] < Size(s) /\ s \notin failedCmd
      /\ executed' = [executed EXCEPT ![s] = @ + 1]
      /\ failedCmd' \in {failedCmd, failedCmd \cup {s}}
      /\ UNCHANGED <<stage, pos, last, tries, source, spent, resolved, truncated, engineVars, gftpVars>>
      /\ ResultsOK(s) /\ Size(s) \in Nat /\ last[s] <= executed[s]
  BY CommandFacts DEF Execute, hookVars, resultVars, BatchesInv, ResultsOK
<1>2. StageTypes' /\ Alone(s)
  BY <1>1 DEF StageTypes, Alone, BatchesInv, Types
<1>3. OtherTypes'
  BY <1>1 DEF BatchesInv, Types, OtherTypes, engineVars
<1>4. ResultsOK(s)'
  BY <1>1 DEF ResultsOK, BatchesInv, Types, StageTypes
<1> QED
  BY <1>1, <1>2, <1>3, <1>4, ResultsStep

LEMMA IteratedKeeps ==
  ASSUME BatchesInv, NEW s \in Scripts, Iterated(s), stage[s] = "results",
         UNCHANGED <<source, gftpVars>>, OtherTypes',
         resolved \subseteq resolved',
         \A r \in Scripts : r # s /\ r \in truncated => r \in truncated',
         s \notin truncated' => s \notin failedCmd /\ \A k \in 1..Size(s) : <<s, k>> \in resolved'
  PROVE  BatchesInv'
<1>1. Leads(s, "after", 1, 0, 0) /\ failedCmd' = failedCmd
  BY IteratedLeads DEF BatchesInv, Types
<1>2. Quiet(s, "after", 1)
  BY DEF Quiet, Busy
<1>3. ResultsOK(s)'
  BY <1>1 DEF ResultsOK, Leads
<1> QED
  BY <1>1, <1>2, <1>3, QuietKeeps, Together DEF BatchesInv

LEMMA EventsKeep ==
  ASSUME BatchesInv, NEW s \in Scripts, stage[s] = "results", NEW n \in Nat,
         last[s] < n, n <= executed[s], Events(s, n), UNCHANGED <<source, gftpVars>>,
         UNCHANGED <<spent, truncated, engineVars>>
  PROVE  BatchesInv'
<1> DEFINE k == FirstError(s, n)
<1>1. /\ last[s] \in Nat /\ executed[s] \in Nat /\ executed[s] <= Size(s) /\ Size(s) \in Nat
      /\ ResultsOK(s)
  BY CommandFacts DEF BatchesInv, Types, StageTypes
<1>2. /\ k \in last[s] + 1..n + 1
      /\ k = n + 1 /\ s \in failedCmd => executed[s] \notin last[s] + 1..n
  BY <1>1, FirstErrorFacts
<1>3. /\ resolved' = resolved \cup {<<s, j>> : j \in last[s] + 1..k - 1}
      /\ \/ k # n + 1 /\ Fails(s)
         \/ k = n + 1 /\ n = Size(s) /\ Iterated(s)
         \/ /\ k = n + 1 /\ n # Size(s)
            /\ last' = [last EXCEPT ![s] = n] /\ tries' = [tries EXCEPT ![s] = MaxTries]
            /\ UNCHANGED <<stage, pos, executed, failedCmd>>
  BY DEF Events
<1> HIDE DEF k
<1>4. resolved \subseteq resolved' /\ resolved' \subseteq Commands
  <2>1. \A j \in last[s] + 1..k - 1 : j \in Nat /\ j \in 1..Size(s)
    BY <1>1, <1>2
  <2>2. \A j \in last[s] + 1..k - 1 : <<s, j>> \in Commands
    BY <2>1, CommandFacts
  <2> QED
    BY <1>3, <2>2 DEF BatchesInv, Types, OtherTypes
<1>5. OtherTypes'
  <2>1. tries' = [tries EXCEPT ![s] = MaxTries]
    BY <1>3, FailsLeads, IteratedLeads DEF BatchesInv, Types
  <2> QED
    BY <1>4, <2>1, TriesAssumption DEF BatchesInv, Types, OtherTypes, engineVars
<1>6. k = n + 1 /\ s \notin truncated => \A j \in 1..n : <<s, j>> \in resolved'
  <2>1. ASSUME k = n + 1, s \notin truncated, NEW j \in 1..n
        PROVE  <<s, j>> \in resolved'
    <3>1. CASE j \in 1..last[s]
      BY <1>1, <1>4, <2>1, <3>1 DEF ResultsOK
    <3>2. CASE j \in last[s] + 1..k - 1
      BY <1>3, <3>2
    <3> QED
      BY <1>1, <2>1, <3>1, <3>2
  <2> QED
    BY <2>1
<1>7. k = n + 1 /\ s \notin truncated /\ s \in failedCmd => n < executed[s]
  BY <1>1, <1>2
<1>8. CASE k # n + 1
  <2>1. Fails(s) /\ UNCHANGED truncated
    BY <1>3, <1>8
  <2> QED
    BY <1>4, <1>5, <2>1, FailsKeeps DEF Busy
<1>9. CASE k = n + 1 /\ n = Size(s)
  <2>1. Iterated(s) /\ UNCHANGED truncated
    BY <1>3, <1>9
  <2> QED
    BY <1>1, <1>4, <1>5, <1>6, <1>7, <1>9, <2>1, IteratedKeeps
<1>10. CASE k = n + 1 /\ n # Size(s)
  <2>1. /\ last' = [last EXCEPT ![s] = n]
        /\ UNCHANGED <<stage, pos, executed, failedCmd, truncated>>
    BY <1>3, <1>10
  <2>2. StageTypes' /\ Alone(s)
    BY <1>1, <2>1 DEF BatchesInv, Types, StageTypes, Alone
  <2>3. last'[s] = n
    BY <2>1 DEF BatchesInv, Types, StageTypes
  <2>4. ResultsOK(s)'
    BY <1>1, <1>6, <1>7, <1>10, <2>1, <2>3 DEF ResultsOK
  <2> QED
    BY <1>4, <1>5, <2>1, <2>2, <2>4, ResultsStep
<1> QED
  BY <1>8, <1>9, <1>10

LEMMA PollKeeps ==
  ASSUME BatchesInv, NEW s \in Scripts, Poll(s)
  PROVE  BatchesInv'
<1>1. executed[s] \in Nat /\ last[s] \in Nat
  BY DEF BatchesInv, Types, StageTypes
<1> QED
  BY <1>1, EventsKeep DEF Poll, hookVars

LEMMA PollFailsKeeps ==
  ASSUME BatchesInv, NEW s \in Scripts, PollFails(s)
  PROVE  BatchesInv'
<1>1. /\ stage[s] = "results"
      /\ UNCHANGED <<source, spent, resolved, truncated, resultVars, engineVars, gftpVars>>
  BY DEF PollFails, hookVars, resultVars
<1>2. CASE Fails(s)
  BY <1>1, <1>2, FailsKeeps, FailsTypes DEF Busy
<1>3. CASE /\ \/ CanRetry(s) /\ tries' = [tries EXCEPT ![s] = @ - 1]
              \/ tries[s] < MaxTries /\ tries' = [tries EXCEPT ![s] = MaxTries]
           /\ UNCHANGED <<stage, pos, last, executed, failedCmd>>
  <2>1. StageTypes' /\ Alone(s) /\ ResultsOK(s)'
    BY <1>1, <1>3 DEF BatchesInv, Types, StageTypes, Alone, ResultsOK
  <2>2. tries' \in [Scripts -> 1..MaxTries]
    BY <1>3, TriesAssumption DEF BatchesInv, Types, OtherTypes, CanRetry
  <2>3. OtherTypes'
    BY <1>1, <2>2 DEF BatchesInv, Types, OtherTypes, engineVars
  <2> QED
    BY <1>1, <1>3, <2>1, <2>3, ResultsStep
<1> QED
  BY <1>2, <1>3 DEF PollFails

LEMMA StreamEventKeeps ==
  ASSUME BatchesInv, NEW s \in Scripts, StreamEvent(s)
  PROVE  BatchesInv'
<1>1. /\ stage[s] = "results" /\ executed[s] > last[s]
      /\ UNCHANGED <<source, spent, engineVars, gftpVars>>
  BY DEF StreamEvent, hookVars
<1>2. /\ executed[s] \in Nat /\ last[s] \in Nat /\ executed[s] <= Size(s) /\ Size(s) \in Nat
      /\ ResultsOK(s)
  BY CommandFacts DEF BatchesInv, Types, StageTypes
<1>3. CASE Events(s, last[s] + 1) /\ UNCHANGED truncated
  BY <1>1, <1>2, <1>3, EventsKeep
<1>4. CASE /\ truncated' = truncated \cup {s}
           /\ last' = [last EXCEPT ![s] = @ + 1]
           /\ UNCHANGED <<stage, pos, tries, executed, failedCmd, resolved>>
  <2>1. StageTypes' /\ Alone(s) /\ last'[s] = last[s] + 1
    BY <1>1, <1>2, <1>4 DEF BatchesInv, Types, StageTypes, Alone
  <2>2. ResultsOK(s)'
    BY <1>1, <1>2, <1>4, <2>1 DEF ResultsOK
  <2>3. OtherTypes'
    BY <1>1, <1>4 DEF BatchesInv, Types, OtherTypes, engineVars
  <2> QED
    BY <1>1, <1>4, <2>1, <2>2, <2>3, ResultsStep
<1> QED
  BY <1>3, <1>4 DEF StreamEvent

LEMMA StreamBreaksKeeps ==
  ASSUME BatchesInv, NEW s \in Scripts, StreamBreaks(s)
  PROVE  BatchesInv'
<1>1. stage[s] = "results" /\ UNCHANGED <<source, spent, resolved, engineVars, gftpVars>>
  BY DEF StreamBreaks, hookVars
<1>2. CASE Fails(s) /\ UNCHANGED truncated
  <2>1. UNCHANGED <<source, spent, resultVars, engineVars, gftpVars, truncated, resolved>>
    BY <1>1, <1>2 DEF resultVars
  <2> QED
    BY <1>1, <1>2, <2>1, FailsKeeps, FailsTypes DEF Busy
<1>3. CASE Iterated(s) /\ truncated' = truncated \cup {s}
  <2>1. OtherTypes'
    BY <1>1, <1>3, IteratedLeads, TriesAssumption
       DEF BatchesInv, Types, OtherTypes, engineVars
  <2> QED
    BY <1>1, <1>3, <2>1, IteratedKeeps
<1> QED
  BY <1>2, <1>3 DEF StreamBreaks

LEMMA AfterDoneKeeps ==
  ASSUME BatchesInv, NEW s \in Scripts, AfterDone(s)
  PROVE  BatchesInv'
<1>1. /\ stage[s] = "after" /\ ResultsOK(s)
      /\ UNCHANGED <<source, spent, resolved, truncated, resultVars, engineVars, gftpVars>>
  BY DEF AfterDone, hookVars, resultVars, BatchesInv
<1>2. CASE Fails(s)
  BY <1>1, <1>2, FailsKeeps, FailsTypes DEF Busy
<1>3. CASE /\ Goto(s, "done") /\ pos' = [pos EXCEPT ![s] = 1]
           /\ UNCHANGED <<last, tries, executed, failedCmd>>
  <2>1. Leads(s, "done", 1, last[s], executed[s])
    BY <1>3, GotoLeads DEF BatchesInv, Types, Stages
  <2>2. Quiet(s, "done", 1)
    BY <1>1 DEF Quiet, Busy
  <2>3. OtherTypes'
    BY <1>1, <1>3 DEF BatchesInv, Types, OtherTypes, engineVars
  <2>4. ResultsOK(s)'
    BY <1>1, <1>3, <2>1 DEF ResultsOK, Leads
  <2> QED
    BY <1>1, <2>1, <2>2, <2>3, <2>4, QuietKeeps, Together DEF BatchesInv
<1> QED
  BY <1>2, <1>3 DEF AfterDone

-----------------------------------------------------------------------------
(* What a step that changes the provider or the pipe has to show *)

(* A step of s sets the source of its present command at most. *)
Sets(s) == \A c \in Commands : c # <<s, pos[s]>> => source'[c] = source[c]

LEMMA SendingMoves ==
  ASSUME Types, NEW s \in Scripts, NEW new, NEW p, NEW l, NEW e, Leads(s, new, p, l, e),
         new = "closing" => p = pos[s], Sets(s), NEW u \in Urls
  PROVE  LET c == <<s, pos[s]>>
         IN /\ Cardinality(Sending(u))' <= Cardinality(Sending(u)) + 1
            /\ (c \in Sending(u)' => c \in Sending(u)) =>
                 Cardinality(Sending(u))' <= Cardinality(Sending(u))
            /\ c \in Sending(u) /\ c \notin Sending(u)' =>
                 Cardinality(Sending(u))' = Cardinality(Sending(u)) - 1
<1> DEFINE c == <<s, pos[s]>>
           S == Sending(u)
           T == Sending(u)'
<1>1. S \subseteq Commands /\ T \subseteq Commands
  BY DEF Sending
<1>2. S \ {c} = T \ {c}
  <2>1. ASSUME NEW d \in Commands, d # c
        PROVE  Closing(d)' <=> Closing(d)
    <3>1. d[1] = s => d[2] # pos[s]
      BY <2>1, CommandFacts
    <3>2. CASE d[1] = s
      BY <3>1, <3>2 DEF Closing, Leads
    <3>3. CASE d[1] # s
      BY <3>3, ClosingStays DEF Leads
    <3> QED
      BY <3>2, <3>3
  <2> QED
    BY <2>1 DEF Sending, Sets
<1>3. IsFiniteSet(S) /\ IsFiniteSet(T)
  BY <1>1, CommandsAssumption, FS_Subset
<1>4. Cardinality(S)' = Cardinality(T)
  OBVIOUS
<1> HIDE DEF S, T, c
<1>5. /\ Cardinality(S) \in Nat /\ Cardinality(T) \in Nat
      /\ Cardinality(S \ {c}) = IF c \in S THEN Cardinality(S) - 1 ELSE Cardinality(S)
      /\ Cardinality(T \ {c}) = IF c \in T THEN Cardinality(T) - 1 ELSE Cardinality(T)
  BY <1>3, FS_RemoveElement, FS_CardinalityType
<1>6. /\ Cardinality(T) <= Cardinality(S) + 1
      /\ (c \in T => c \in S) => Cardinality(T) <= Cardinality(S)
      /\ c \in S /\ c \notin T => Cardinality(T) = Cardinality(S) - 1
  <2>1. Cardinality(S \ {c}) = Cardinality(T \ {c})
    BY <1>2, Zenon
  <2>2. (IF c \in S THEN Cardinality(S) - 1 ELSE Cardinality(S))
          = IF c \in T THEN Cardinality(T) - 1 ELSE Cardinality(T)
    BY <1>5, <2>1
  <2> QED
    BY <1>5, <2>2
<1> QED
  BY <1>6 DEF S, T, c

(* A temporary file is deleted, and a line added, at nobody's cost. *)
Spares ==
  /\ \A u \in Urls : temporary[u] \subseteq temporary'[u] \/ count'[u] = 0
  /\ unread' = <<>> => unread = <<>>

LEMMA SourceStays ==
  ASSUME Types, GftpTypeOK', Spares, \A u \in Urls : CountOK(u)',
         NEW r \in Scripts, NEW k \in 1..Size(r), Sends(Program[r][k]),
         SourceOK(r), Uploads(r, k), Uploads(r, k)', source'[<<r, k>>] = source[<<r, k>>]
  PROVE  /\ source'[<<r, k>>] \in Urls
         /\ Program[r][k].kind = "bytes" => <<r, k>> \in temporary'[source'[<<r, k>>]]
         /\ unread' = <<>> => source'[<<r, k>>] = Program[r][k].url
<1> DEFINE c == <<r, k>>
           u == source[<<r, k>>]
<1>1. /\ u \in Urls
      /\ Program[r][k].kind = "bytes" => c \in temporary[u]
      /\ unread = <<>> => u = Program[r][k].url
  BY DEF SourceOK
<1>2. c \in Sending(u)'
  <2>1. c \in Commands
    BY CommandFacts
  <2>2. ~Closing(c)'
    BY DEF Uploads, Closing
  <2> QED
    BY <2>1, <2>2 DEF Sending
<1>3. count'[u] # 0
  <2>1. CountOK(u)' /\ count'[u] \in Nat
    BY <1>1 DEF GftpTypeOK
  <2>2. IsFiniteSet(Sending(u)') /\ Sending(u)' # {}
    <3>1. Sending(u)' \in SUBSET Commands
      BY DEF Sending
    <3> QED
      BY <1>2, <3>1, CommandsAssumption, FS_Subset
  <2>3. Cardinality(Sending(u)') \in Nat /\ Cardinality(Sending(u)') # 0
    BY <2>2, FS_EmptySet, FS_CardinalityType
  <2> QED
    BY <2>1, <2>3 DEF CountOK
<1> QED
  BY <1>1, <1>3 DEF Spares

LEMMA OthersKeep ==
  ASSUME Types, StorageOK, NEW s \in Scripts, NEW new, NEW p, NEW l, NEW e,
         Leads(s, new, p, l, e), Sets(s), GftpTypeOK', Spares, \A u \in Urls : CountOK(u)',
         \A r \in Scripts : r # s => /\ gftpLock' = r <=> gftpLock = r
                                     /\ pipe' = r => pipe = r,
         count' = count \/ \A r \in Scripts : r # s => gftpLock # r
  PROVE  \A r \in Scripts : r # s =>
           StageOK(r)' /\ LocksOK(r)' /\ ClosingOK(r)' /\ SourceOK(r)'
<1> SUFFICES ASSUME NEW r \in Scripts, r # s
             PROVE  StageOK(r)' /\ LocksOK(r)' /\ ClosingOK(r)' /\ SourceOK(r)'
  OBVIOUS
<1>1. stage'[r] = stage[r] /\ pos'[r] = pos[r]
  BY DEF Leads, Alone
<1>2. StageOK(r) /\ LocksOK(r) /\ ClosingOK(r) /\ SourceOK(r)
  BY DEF StorageOK
<1>3. \A k \in 1..Size(r) : source'[<<r, k>>] = source[<<r, k>>]
  <2>1. \A k \in 1..Size(r) : <<r, k>> \in Commands /\ <<r, k>> # <<s, pos[s]>>
    BY CommandFacts
  <2> QED
    BY <2>1 DEF Sets
<1>4. StageOK(r)' /\ LocksOK(r)'
  BY <1>1, <1>2 DEF StageOK, LocksOK, Cmd
<1>5. ClosingOK(r)'
  <2>1. ASSUME stage[r] = "closing"
        PROVE  count' = count /\ pos[r] \in 1..Size(r)
    BY <1>2, <2>1, CommandFacts DEF LocksOK, StageOK, Types, StageTypes
  <2> QED
    BY <1>1, <1>2, <1>3, <2>1 DEF ClosingOK
<1>6. SourceOK(r)'
  <2>1. ASSUME NEW k \in 1..Size(r), Sends(Program[r][k]), Uploads(r, k)'
        PROVE  /\ source'[<<r, k>>] \in Urls
               /\ Program[r][k].kind = "bytes" => <<r, k>> \in temporary'[source'[<<r, k>>]]
               /\ unread' = <<>> => source'[<<r, k>>] = Program[r][k].url
    <3>1. Uploads(r, k)
      BY <1>1, <2>1 DEF Uploads
    <3> QED
      BY <1>2, <1>3, <2>1, <3>1, SourceStays
  <2> QED
    BY <2>1 DEF SourceOK
<1> QED
  BY <1>4, <1>5, <1>6

LEMMA OwnSources ==
  ASSUME Types, NEW s \in Scripts, SourceOK(s), Sets(s), GftpTypeOK', Spares,
         \A u \in Urls : CountOK(u)',
         \A k \in 1..Size(s) :
           k # pos[s] /\ Sends(Program[s][k]) /\ Uploads(s, k)' => Uploads(s, k),
         \A k \in 1..Size(s) : k = pos[s] /\ Sends(Program[s][k]) /\ Uploads(s, k)' =>
           /\ source'[<<s, k>>] \in Urls
           /\ Program[s][k].kind = "bytes" => <<s, k>> \in temporary'[source'[<<s, k>>]]
           /\ unread' = <<>> => source'[<<s, k>>] = Program[s][k].url
  PROVE  SourceOK(s)'
<1>1. ASSUME NEW k \in 1..Size(s), Sends(Program[s][k]), Uploads(s, k)'
      PROVE  /\ source'[<<s, k>>] \in Urls
             /\ Program[s][k].kind = "bytes" => <<s, k>> \in temporary'[source'[<<s, k>>]]
             /\ unread' = <<>> => source'[<<s, k>>] = Program[s][k].url
  <2>1. CASE k = pos[s]
    BY <1>1, <2>1
  <2>2. CASE k # pos[s]
    <3>1. source'[<<s, k>>] = source[<<s, k>>]
      <4>1. <<s, k>> \in Commands /\ <<s, k>> # <<s, pos[s]>>
        BY <2>2, CommandFacts
      <4> QED
        BY <4>1 DEF Sets
    <3> QED
      BY <1>1, <2>2, <3>1, SourceStays
  <2> QED
    BY <2>1, <2>2
<1> QED
  BY <1>1 DEF SourceOK

-----------------------------------------------------------------------------
(* The actions that call the provider *)

LEMMA CallServerKeeps ==
  ASSUME BatchesInv, NEW s \in Scripts, CallServer(s)
  PROVE  BatchesInv'
<1>1. /\ stage[s] \in Busy /\ pipe = NoClient /\ pipe' = s
      /\ UNCHANGED <<entries, count, temporary, served, gftpLock, closeUrls, unread, checksIds,
                     stage, pos, last, tries, executed, failedCmd, source, spent, resolved,
                     truncated, engineVars>>
      /\ StageOK(s) /\ LocksOK(s) /\ ClosingOK(s) /\ SourceOK(s) /\ ResultsOK(s)
  BY DEF CallServer, Request, Busy, localVars, hookVars, resultVars, BatchesInv, StorageOK
<1>2. Leads(s, stage[s], pos[s], last[s], executed[s])
  BY <1>1, StayLeads DEF BatchesInv, Types
<1>3. GftpTypeOK' /\ SourceTypes' /\ OtherTypes'
  BY <1>1, ClientsAssumption
     DEF BatchesInv, Types, GftpTypeOK, SourceTypes, OtherTypes, engineVars
<1>4. (\A u \in Urls : CountOK(u)') /\ LineOK'
  <2>1. \A u \in Urls : Sending(u)' = Sending(u)
    BY <1>1 DEF Sending, Closing
  <2> QED
    BY <1>1, <2>1 DEF BatchesInv, StorageOK, CountOK, LineOK
<1>5. Sets(s) /\ Spares
  BY <1>1 DEF Sets, Spares
<1>6. \A r \in Scripts : r # s =>
        StageOK(r)' /\ LocksOK(r)' /\ ClosingOK(r)' /\ SourceOK(r)'
  BY <1>1, <1>2, <1>3, <1>4, <1>5, OthersKeep DEF BatchesInv
<1>7. StageOK(s)' /\ LocksOK(s)' /\ ClosingOK(s)' /\ SourceOK(s)'
  BY <1>1 DEF StageOK, LocksOK, ClosingOK, SourceOK, Uploads, Cmd, Busy
<1>8. ResultsOK(s)'
  BY <1>1 DEF ResultsOK
<1> QED
  BY <1>1, <1>2, <1>3, <1>4, <1>6, <1>7, <1>8, Together DEF BatchesInv, StorageOK

LEMMA BeforeHookKeeps ==
  ASSUME BatchesInv, NEW s \in Scripts, BeforeHook(s)
  PROVE  BatchesInv'
<1>1. /\ stage[s] = "before" /\ pos[s] <= Size(s) /\ pos[s] \in 1..Size(s) /\ Size(s) \in Nat
      /\ UNCHANGED <<source, spent, resolved, truncated, resultVars, engineVars>>
      /\ StageOK(s) /\ LocksOK(s) /\ ClosingOK(s) /\ SourceOK(s) /\ ResultsOK(s)
  BY CommandFacts
     DEF BeforeHook, hookVars, resultVars, BatchesInv, Types, StageTypes, StorageOK
<1>2. CASE /\ Cmd(s).kind = "run" /\ NextHook(s)
           /\ UNCHANGED <<stage, last, tries, executed, failedCmd, gftpVars>>
  <2>1. Leads(s, "before", pos[s] + 1, last[s], executed[s])
    BY <1>1, <1>2, StayLeads DEF BatchesInv, Types
  <2>2. Quiet(s, "before", pos[s] + 1)
    <3>1. ASSUME NEW k \in 1..Size(s), Sends(Program[s][k]), k < pos[s] + 1
          PROVE  Uploads(s, k)
      BY <1>1, <1>2, <3>1 DEF Uploads, Sends, Cmd
    <3> QED
      BY <1>1, <1>2, <3>1 DEF Quiet, Busy
  <2>3. OtherTypes'
    BY <1>1, <1>2 DEF BatchesInv, Types, OtherTypes, engineVars
  <2>4. ResultsOK(s)'
    BY <1>1, <1>2 DEF ResultsOK
  <2> QED
    BY <1>1, <2>1, <2>2, <2>3, <2>4, QuietKeeps, Together DEF BatchesInv
<1>3. CASE Cmd(s).kind = "receive" /\ Goto(s, "receiving") /\ UNCHANGED <<localVars, gftpVars>>
  <2>1. UNCHANGED <<pos, last, tries, executed, failedCmd, gftpVars>>
    BY <1>3 DEF localVars
  <2>2. Leads(s, "receiving", pos[s], last[s], executed[s])
    BY <1>3, <2>1, GotoLeads DEF BatchesInv, Types, Stages
  <2>3. Quiet(s, "receiving", pos[s])
    BY <1>1, <1>3, <2>1 DEF Quiet, Busy, Uploads, Cmd
  <2>4. OtherTypes'
    BY <1>1, <2>1 DEF BatchesInv, Types, OtherTypes, engineVars
  <2>5. ResultsOK(s)'
    BY <1>1, <2>1, <2>2 DEF ResultsOK, Leads
  <2> QED
    BY <1>1, <2>2, <2>3, <2>4, <2>5, QuietKeeps, Together DEF BatchesInv
<1>4. CASE Fails(s) /\ UNCHANGED gftpVars
  BY <1>1, <1>4, FailsKeeps, FailsTypes DEF Busy
<1>5. CASE Sends(Cmd(s)) /\ Publish(s) /\ Goto(s, "publishing") /\ UNCHANGED localVars
  <2>1. /\ gftpLock = NoClient /\ gftpLock' = s
        /\ UNCHANGED <<pos, last, tries, executed, failedCmd>>
        /\ UNCHANGED <<entries, count, temporary, served, closeUrls, pipe, unread, checksIds>>
    BY <1>5 DEF Publish, CanLock, pipeVars, localVars
  <2>2. Leads(s, "publishing", pos[s], last[s], executed[s])
    BY <1>5, <2>1, GotoLeads DEF BatchesInv, Types, Stages
  <2>3. GftpTypeOK' /\ SourceTypes' /\ OtherTypes'
    BY <1>1, <2>1, ClientsAssumption
       DEF BatchesInv, Types, GftpTypeOK, SourceTypes, OtherTypes, engineVars
  <2>4. (\A u \in Urls : CountOK(u)') /\ LineOK'
    <3>1. \A c \in Commands : Closing(c)' <=> Closing(c)
      BY <1>1, <2>2, ClosingStays DEF Leads, Closing
    <3>2. \A u \in Urls : Sending(u)' = Sending(u)
      BY <1>1, <3>1 DEF Sending
    <3> QED
      BY <2>1, <3>2 DEF BatchesInv, StorageOK, CountOK, LineOK
  <2>5. Sets(s) /\ Spares
    BY <1>1, <2>1 DEF Sets, Spares
  <2>6. \A r \in Scripts : r # s => gftpLock # r /\ gftpLock' # r
    BY <2>1, ClientsAssumption, NoClientAssumption
  <2>7. \A r \in Scripts : r # s =>
          StageOK(r)' /\ LocksOK(r)' /\ ClosingOK(r)' /\ SourceOK(r)'
    BY <2>1, <2>2, <2>3, <2>4, <2>5, <2>6, OthersKeep DEF BatchesInv
  <2>8. StageOK(s)' /\ LocksOK(s)' /\ ClosingOK(s)'
    BY <1>1, <1>5, <2>1, <2>2 DEF StageOK, LocksOK, ClosingOK, Leads, Cmd
  <2>9. SourceOK(s)'
    <3>1. \A k \in 1..Size(s) : Uploads(s, k)' => k # pos[s] /\ Uploads(s, k)
      BY <1>1, <2>2 DEF Leads, Uploads
    <3> QED
      BY <1>1, <2>3, <2>4, <2>5, <3>1, OwnSources DEF BatchesInv
  <2>10. ResultsOK(s)'
    BY <1>1, <2>1, <2>2 DEF ResultsOK, Leads
  <2> QED
    BY <1>1, <2>2, <2>3, <2>4, <2>7, <2>8, <2>9, <2>10, Together DEF BatchesInv, StorageOK
<1> QED
  BY <1>2, <1>3, <1>4, <1>5 DEF BeforeHook

LEMMA AnswersFacts ==
  ASSUME NEW s \in Scripts, Size(s) \in Nat, pos[s] \in 1..Size(s), NEW own \in Answers(s)
  PROVE  /\ own \in Urls \cup Replies /\ "error" \notin Urls
         /\ stage[s] = "publishing" => own \in {"error", Cmd(s).url}
         /\ stage[s] = "receiving" => own \in {"error", "destination"} /\ own \notin Urls
         /\ stage[s] = "closing" => own \in {"error", "ok"} /\ own \notin Urls
<1>1. Cmd(s).url \in Urls
  <2>1. <<s, pos[s]>> \in Commands
    BY CommandFacts
  <2> QED
    BY <2>1, CommandFacts DEF Cmd
<1> QED
  BY <1>1, UrlsAssumption DEF Answers, Replies

(* A line that is read, by whoever waits for it. *)
LEMMA ReadFacts ==
  ASSUME GftpTypeOK, NEW own \in Urls \cup Replies, Read(own)
  PROVE  /\ pipe' = NoClient /\ unread' \in Seq(Urls \cup Replies)
         /\ Len(unread) \in Nat /\ Len(unread') = Len(unread)
         /\ unread' = <<>> <=> unread = <<>>
         /\ Len(unread) = 0 => unread = <<>>
         /\ unread = <<>> => Reply(own) = own
         /\ Len(unread) = 1 => Reply(own) = unread[1] /\ unread'[1] = own
  BY Lines DEF GftpTypeOK, Read

LEMMA PublishedKeeps ==
  ASSUME BatchesInv, NEW s \in Scripts, stage[s] = "publishing", pipe = s,
         NEW own \in Answers(s),
         Published(Reply(own), own, <<s, pos[s]>>, Cmd(s).kind = "bytes"),
         SetSource(s, Reply(own)),
         spent' = IF Cmd(s).kind = "bytes" THEN spent \cup {<<s, pos[s]>>} ELSE spent,
         HookDone(s, "before"), UNCHANGED <<resultVars, engineVars>>
  PROVE  BatchesInv'
<1> DEFINE u == Reply(own)
           c == <<s, pos[s]>>
<1>1. /\ pos[s] \in 1..Size(s) /\ Size(s) \in Nat /\ Sends(Cmd(s)) /\ c \in Commands
      /\ StageOK(s) /\ LocksOK(s) /\ ClosingOK(s) /\ SourceOK(s) /\ ResultsOK(s)
      /\ GftpTypeOK /\ source \in [Commands -> Urls \cup Replies \cup {NoSource}]
  BY CommandFacts DEF BatchesInv, Types, StageTypes, SourceTypes, StorageOK, StageOK
<1>2. own \in {"error", Cmd(s).url} /\ own \in Urls \cup Replies /\ "error" \notin Urls
  BY <1>1, AnswersFacts
<1>3. /\ u \in Urls /\ count[u] < MaxSources
      /\ entries' = entries \cup {u}
      /\ count' = [count EXCEPT ![u] = IF u \in entries THEN @ + 1 ELSE 1]
      /\ temporary' = [temporary EXCEPT ![u] = IF Cmd(s).kind = "bytes" THEN @ \cup {c} ELSE @]
      /\ served' = served \cup ({own} \cap Urls) /\ gftpLock' = NoClient
      /\ Read(own) /\ UNCHANGED <<closeUrls, checksIds>>
  BY DEF Published, ServedAfter
<1>4. /\ source' = [source EXCEPT ![c] = u]
      /\ UNCHANGED <<last, tries, executed, failedCmd, resolved, truncated>>
  BY DEF SetSource, HookDone, resultVars
<1>5. Leads(s, "before", pos[s] + 1, last[s], executed[s])
  BY <1>1, <1>4, GotoLeads DEF BatchesInv, Types, HookDone, Stages
<1>6. /\ pipe' = NoClient /\ unread' \in Seq(Urls \cup Replies)
      /\ Len(unread) \in Nat /\ Len(unread') = Len(unread)
      /\ unread' = <<>> <=> unread = <<>>
      /\ Len(unread) = 0 => unread = <<>>
      /\ unread = <<>> => Reply(own) = own
      /\ Len(unread) = 1 => Reply(own) = unread[1] /\ unread'[1] = own
  BY <1>1, <1>2, <1>3, ReadFacts
<1> HIDE DEF u
<1>7. count'[u] = count[u] + 1 /\ \A v \in Urls : v # u => count'[v] = count[v]
  BY <1>1, <1>3 DEF BatchesInv, StorageOK, CountOK, GftpTypeOK
<1>8. GftpTypeOK' /\ SourceTypes' /\ OtherTypes'
  <2>1. count' \in [Urls -> 0..MaxSources]
    <3>1. count[u] + 1 \in 0..MaxSources
      BY <1>1, <1>3, MaxSourcesAssumption DEF GftpTypeOK
    <3> QED
      BY <1>1, <1>3, <1>7, <3>1 DEF GftpTypeOK
  <2>2. temporary' \in [Urls -> SUBSET Files]
    BY <1>1, <1>3, CommandsAssumption DEF GftpTypeOK
  <2>3. GftpTypeOK'
    BY <1>1, <1>3, <1>6, <2>1, <2>2 DEF GftpTypeOK
  <2>4. SourceTypes' /\ spent' \subseteq Commands
    BY <1>1, <1>3, <1>4 DEF SourceTypes, BatchesInv, Types, OtherTypes
  <2> QED
    BY <1>4, <2>3, <2>4 DEF OtherTypes, BatchesInv, Types, engineVars
<1>9. Sets(s) /\ source'[c] = u
  BY <1>1, <1>4 DEF Sets
<1>10. ASSUME NEW v \in Urls
       PROVE  CountOK(v)'
  <2>1. /\ CountOK(v) /\ count[v] \in Nat /\ count'[v] \in Nat
        /\ Cardinality(Sending(v)) \in Nat
    BY <1>1, <1>8, SendingFinite DEF BatchesInv, StorageOK, GftpTypeOK
  <2>2. /\ Cardinality(Sending(v))' <= Cardinality(Sending(v)) + 1
        /\ (c \in Sending(v)' => c \in Sending(v)) =>
             Cardinality(Sending(v))' <= Cardinality(Sending(v))
    BY <1>5, <1>9, SendingMoves DEF BatchesInv
  <2>3. v # u => c \notin Sending(v)'
    BY <1>9 DEF Sending
  <2>4. Cardinality(Sending(v))' \in Nat
    <3>1. Sending(v)' \in SUBSET Commands
      BY DEF Sending
    <3> QED
      BY <3>1, CommandsAssumption, FS_Subset, FS_CardinalityType
  <2>5. count'[v] >= Cardinality(Sending(v))'
    BY <1>7, <2>1, <2>2, <2>3, <2>4 DEF CountOK
  <2>6. v \notin entries' => count'[v] = 0
    BY <1>3, <1>7, <2>1 DEF CountOK
  <2>7. ASSUME Len(unread') <= 1, count'[v] > 0
        PROVE  v \in served'
    <3>1. CASE v # u
      BY <1>3, <1>6, <1>7, <2>1, <2>7, <3>1 DEF CountOK
    <3>2. CASE v = u /\ unread = <<>>
      BY <1>3, <1>6, <3>2 DEF u
    <3>3. CASE v = u /\ Len(unread) = 1
      BY <1>3, <1>6, <3>3 DEF u, BatchesInv, StorageOK, LineOK
    <3> QED
      BY <1>6, <2>7, <3>1, <3>2, <3>3
  <2> QED
    BY <2>5, <2>6, <2>7 DEF CountOK
<1>11. LineOK'
  BY <1>3, <1>6 DEF LineOK
<1>12. Spares
  BY <1>1, <1>3, <1>6 DEF Spares, GftpTypeOK
<1>13. \A r \in Scripts : r # s => gftpLock # r /\ gftpLock' # r /\ pipe' # r
  BY <1>1, <1>3, <1>6, ClientsAssumption, NoClientAssumption DEF LocksOK
<1>14. \A r \in Scripts : r # s =>
        StageOK(r)' /\ LocksOK(r)' /\ ClosingOK(r)' /\ SourceOK(r)'
  BY <1>5, <1>8, <1>9, <1>10, <1>12, <1>13, OthersKeep DEF BatchesInv
<1>15. StageOK(s)' /\ LocksOK(s)' /\ ClosingOK(s)'
  BY <1>3, <1>5, <1>6, ClientsAssumption, NoClientAssumption
     DEF StageOK, LocksOK, ClosingOK, Leads
<1>16. SourceOK(s)'
  <2>1. \A k \in 1..Size(s) : k # pos[s] /\ Uploads(s, k)' => Uploads(s, k)
    BY <1>1, <1>5 DEF Leads, Uploads
  <2>2. /\ u \in Urls
        /\ Cmd(s).kind = "bytes" => c \in temporary'[u]
        /\ unread' = <<>> => u = Cmd(s).url
    BY <1>1, <1>2, <1>3, <1>6 DEF u, GftpTypeOK
  <2> QED
    BY <1>1, <1>8, <1>9, <1>10, <1>12, <2>1, <2>2, OwnSources DEF BatchesInv, Cmd
<1>17. ResultsOK(s)'
  BY <1>1, <1>4, <1>5 DEF ResultsOK, Leads
<1> QED
  BY <1>4, <1>5, <1>8, <1>10, <1>11, <1>14, <1>15, <1>16, <1>17, Together
     DEF BatchesInv, StorageOK

(* A script that leaves the provider, with a reply or without, and counts on *)
(* no source it did not have.                                                *)
LEMMA LeavesServer ==
  ASSUME BatchesInv, NEW s \in Scripts, NEW new, NEW p, NEW l, NEW e,
         Leads(s, new, p, l, e), new \notin Busy, new \in {"new", "failed"} => p = 1,
         Sets(s),
         \A u \in Urls : <<s, pos[s]>> \in Sending(u)' => <<s, pos[s]>> \in Sending(u),
         \A k \in 1..Size(s) : Sends(Program[s][k]) /\ Uploads(s, k)' =>
                                 k # pos[s] /\ Uploads(s, k),
         GftpTypeOK', UNCHANGED count,
         \A u \in Urls : count[u] = 0 \/ /\ u \in entries => u \in entries'
                                         /\ u \in served => u \in served'
                                         /\ temporary[u] \subseteq temporary'[u],
         Len(unread') <= 1 => Len(unread) <= 1, unread' = <<>> => unread = <<>>, LineOK',
         gftpLock' = IF gftpLock = s THEN NoClient ELSE gftpLock,
         pipe' = IF pipe = s THEN NoClient ELSE pipe
  PROVE  StorageOK'
<1>1. ASSUME NEW u \in Urls
      PROVE  CountOK(u)'
  <2>1. Cardinality(Sending(u))' <= Cardinality(Sending(u))
    BY <1>1, SendingMoves DEF BatchesInv, Busy
  <2>2. CountOK(u) /\ count[u] \in Nat /\ Cardinality(Sending(u)) \in Nat
    BY SendingFinite DEF BatchesInv, StorageOK, Types, GftpTypeOK
  <2>3. Cardinality(Sending(u))' \in Nat
    <3>1. Sending(u)' \in SUBSET Commands
      BY DEF Sending
    <3> QED
      BY <3>1, CommandsAssumption, FS_Subset, FS_CardinalityType
  <2> QED
    BY <2>1, <2>2, <2>3 DEF CountOK
<1>2. Spares
  BY DEF Spares
<1>3. s # NoClient /\ \A r \in Scripts : r # NoClient
  BY ClientsAssumption, NoClientAssumption
<1>4. \A r \in Scripts : r # s => /\ gftpLock' = r <=> gftpLock = r
                                  /\ pipe' = r => pipe = r
  BY <1>3
<1>5. \A r \in Scripts : r # s =>
        StageOK(r)' /\ LocksOK(r)' /\ ClosingOK(r)' /\ SourceOK(r)'
  BY <1>1, <1>2, <1>4, OthersKeep DEF BatchesInv, Busy
<1>6. StageOK(s)' /\ LocksOK(s)' /\ ClosingOK(s)'
  BY <1>3 DEF StageOK, LocksOK, ClosingOK, Leads, Busy
<1>7. SourceOK(s)'
  BY <1>1, <1>2, OwnSources DEF BatchesInv, StorageOK
<1> QED
  BY <1>1, <1>5, <1>6, <1>7 DEF StorageOK

(* A step over the server, for the pipe. *)
LEMMA LineRead ==
  ASSUME GftpTypeOK, NEW own \in Urls \cup Replies, Read(own), own \in Urls => own \in served'
  PROVE  /\ pipe' = NoClient /\ unread' \in Seq(Urls \cup Replies)
         /\ Len(unread') <= 1 => Len(unread) <= 1
         /\ unread' = <<>> => unread = <<>>
         /\ LineOK'
  BY ReadFacts DEF LineOK

LEMMA LineLeft ==
  ASSUME GftpTypeOK, NEW own \in Urls \cup Replies, Abandon(own), own \in Urls => own \in served'
  PROVE  /\ pipe' = NoClient /\ unread' \in Seq(Urls \cup Replies)
         /\ Len(unread') <= 1 => Len(unread) <= 1
         /\ unread' = <<>> => unread = <<>>
         /\ LineOK'
<1>1. /\ unread' = Append(unread, own) /\ pipe' = NoClient /\ unread \in Seq(Urls \cup Replies)
      /\ Len(unread) \in Nat /\ Len(unread') = Len(unread) + 1 /\ unread' # <<>>
      /\ unread' \in Seq(Urls \cup Replies)
      /\ Len(unread) = 0 => unread'[1] = own
  BY Lines DEF Abandon, GftpTypeOK
<1> QED
  BY <1>1 DEF LineOK

LEMMA PublishFailsKeeps ==
  ASSUME BatchesInv, NEW s \in Scripts, stage[s] = "publishing", pipe = s,
         NEW own \in Answers(s), PublishFails(own), Fails(s),
         UNCHANGED <<hookVars, resultVars, engineVars>>
  PROVE  BatchesInv'
<1>1. /\ pos[s] \in 1..Size(s) /\ Size(s) \in Nat /\ GftpTypeOK /\ gftpLock = s
  BY CommandFacts DEF BatchesInv, Types, StageTypes, StorageOK, StageOK, LocksOK
<1>2. own \in Urls \cup Replies
  BY <1>1, AnswersFacts
<1>3. /\ UNCHANGED <<entries, count, temporary, closeUrls, checksIds, source, spent, resolved,
                     truncated>>
      /\ served' = served \cup ({own} \cap Urls) /\ gftpLock' = NoClient /\ Read(own)
  BY DEF PublishFails, ServedAfter, hookVars, resultVars
<1>4. Leads(s, "failed", 1, 0, 0) /\ ResultsOK(s)' /\ OtherTypes'
  BY FailsLeads, FailsTypes, FailedResults DEF BatchesInv, Types, hookVars
<1>5. /\ pipe' = NoClient /\ unread' \in Seq(Urls \cup Replies)
      /\ Len(unread') <= 1 => Len(unread) <= 1
      /\ unread' = <<>> => unread = <<>>
      /\ LineOK'
  BY <1>1, <1>2, <1>3, LineRead
<1>6. GftpTypeOK' /\ SourceTypes'
  BY <1>1, <1>3, <1>5 DEF GftpTypeOK, BatchesInv, Types, SourceTypes
<1>7. Sets(s) /\ \A u \in Urls : <<s, pos[s]>> \in Sending(u)' => <<s, pos[s]>> \in Sending(u)
  BY <1>3 DEF Sets, Sending, Closing
<1>8. \A k \in 1..Size(s) : ~Uploads(s, k)'
  BY <1>4 DEF Leads, Uploads
<1>9. StorageOK'
  BY <1>1, <1>3, <1>4, <1>5, <1>6, <1>7, <1>8, LeavesServer DEF Busy
<1> QED
  BY <1>3, <1>4, <1>6, <1>9, Together

LEMMA UploadedKeeps ==
  ASSUME BatchesInv, NEW s \in Scripts, Uploaded(s)
  PROVE  BatchesInv'
<1>1. PICK own \in Answers(s) :
       \/ /\ Published(Reply(own), own, <<s, pos[s]>>, Cmd(s).kind = "bytes")
          /\ SetSource(s, Reply(own))
          /\ spent' = IF Cmd(s).kind = "bytes" THEN spent \cup {<<s, pos[s]>>} ELSE spent
          /\ HookDone(s, "before")
       \/ PublishFails(own) /\ Fails(s) /\ UNCHANGED hookVars
  BY DEF Uploaded
<1>2. stage[s] = "publishing" /\ pipe = s /\ UNCHANGED <<resultVars, engineVars>>
  BY DEF Uploaded
<1> QED
  BY <1>1, <1>2, PublishedKeeps, PublishFailsKeeps

LEMMA DestinedKeeps ==
  ASSUME BatchesInv, NEW s \in Scripts, Destined(s)
  PROVE  BatchesInv'
<1>1. PICK own \in Answers(s) :
       /\ Received(own)
       /\ IF Refused(own) THEN Fails(s) /\ UNCHANGED source
          ELSE SetSource(s, Reply(own)) /\ HookDone(s, "before")
  BY DEF Destined
<1>2. /\ stage[s] = "receiving" /\ pipe = s
      /\ UNCHANGED <<spent, resolved, truncated, resultVars, engineVars>>
      /\ pos[s] \in 1..Size(s) /\ Size(s) \in Nat /\ GftpTypeOK /\ gftpLock # s
      /\ <<s, pos[s]>> \in Commands /\ ~Sends(Cmd(s)) /\ ResultsOK(s)
  BY CommandFacts
     DEF Destined, BatchesInv, Types, StageTypes, StorageOK, StageOK, LocksOK, resultVars,
         Sends
<1>3. own \in Urls \cup Replies /\ own \notin Urls
  BY <1>2, AnswersFacts
<1>4. /\ Read(own)
      /\ UNCHANGED <<entries, count, temporary, served, gftpLock, closeUrls, checksIds>>
  BY <1>1 DEF Received
<1>5. /\ pipe' = NoClient /\ unread' \in Seq(Urls \cup Replies)
      /\ Len(unread') <= 1 => Len(unread) <= 1
      /\ unread' = <<>> => unread = <<>>
      /\ LineOK'
  BY <1>2, <1>3, <1>4, LineRead
<1>6. Reply(own) \in Urls \cup Replies
  BY <1>2, <1>3, Lines DEF GftpTypeOK
<1>7. /\ \/ UNCHANGED source
         \/ source' = [source EXCEPT ![<<s, pos[s]>>] = Reply(own)]
      /\ GftpTypeOK'
  BY <1>1, <1>2, <1>4, <1>5 DEF SetSource, GftpTypeOK
<1>8. SourceTypes' /\ Sets(s)
  BY <1>2, <1>6, <1>7 DEF SourceTypes, Sets, BatchesInv, Types
<1>9. \A u \in Urls : <<s, pos[s]>> \notin Sending(u)'
  BY <1>2 DEF Sending, Cmd
<1>10. CASE Fails(s)
  <2>1. Leads(s, "failed", 1, 0, 0) /\ ResultsOK(s)' /\ OtherTypes'
    BY <1>2, <1>10, FailsLeads, FailsTypes, FailedResults DEF BatchesInv, Types
  <2>2. \A k \in 1..Size(s) : ~Uploads(s, k)'
    BY <2>1 DEF Leads, Uploads
  <2>3. StorageOK'
    BY <1>2, <1>4, <1>5, <1>7, <1>8, <1>9, <2>1, <2>2, LeavesServer DEF Busy
  <2> QED
    BY <1>2, <1>7, <1>8, <2>1, <2>3, Together
<1>11. CASE HookDone(s, "before")
  <2>1. Leads(s, "before", pos[s] + 1, last[s], executed[s])
        /\ UNCHANGED <<last, tries, executed, failedCmd>>
    BY <1>2, <1>11, GotoLeads DEF HookDone, BatchesInv, Types, Stages
  <2>2. ASSUME NEW k \in 1..Size(s), Sends(Program[s][k]), Uploads(s, k)'
        PROVE  k # pos[s] /\ Uploads(s, k)
    BY <1>2, <2>1, <2>2 DEF Leads, Uploads, Cmd
  <2>3. StorageOK'
    BY <1>2, <1>4, <1>5, <1>7, <1>8, <1>9, <2>1, <2>2, LeavesServer DEF Busy
  <2>4. OtherTypes' /\ ResultsOK(s)'
    BY <1>2, <2>1 DEF OtherTypes, BatchesInv, Types, engineVars, ResultsOK, Leads
  <2> QED
    BY <1>2, <1>7, <1>8, <2>1, <2>3, <2>4, Together
<1> QED
  BY <1>1, <1>10, <1>11

LEMMA ReleaseKeeps ==
  ASSUME BatchesInv, NEW s \in Scripts, stage[s] = "after", pos[s] <= Size(s), Sends(Cmd(s)),
         Release(s, source[<<s, pos[s]>>]),
         IF IsLastSource(source[<<s, pos[s]>>])
         THEN Goto(s, "closing") /\ UNCHANGED <<localVars, source>>
         ELSE HookDone(s, "after") /\ SetSource(s, NoSource),
         UNCHANGED <<spent, resultVars, engineVars>>
  PROVE  BatchesInv'
<1> DEFINE c == <<s, pos[s]>>
           u == source[c]
<1>1. /\ pos[s] \in 1..Size(s) /\ Size(s) \in Nat /\ c \in Commands /\ GftpTypeOK
      /\ LocksOK(s) /\ ResultsOK(s) /\ source \in [Commands -> Urls \cup Replies \cup {NoSource}]
      /\ UNCHANGED <<resolved, truncated>>
  BY CommandFacts DEF BatchesInv, Types, StageTypes, SourceTypes, StorageOK, resultVars
<1>2. /\ gftpLock = NoClient /\ u \in entries /\ u \in Urls
      /\ count' = [count EXCEPT ![u] = @ - 1]
      /\ UNCHANGED <<served, closeUrls, pipe, unread, checksIds>>
  BY <1>1 DEF Release, CanLock, GftpTypeOK, pipeVars
<1>3. \/ /\ count[u] = 1 /\ gftpLock' = s /\ UNCHANGED <<entries, temporary, source>>
         /\ Goto(s, "closing") /\ UNCHANGED <<pos, last, tries, executed, failedCmd>>
      \/ /\ gftpLock' = gftpLock /\ HookDone(s, "after") /\ source' = [source EXCEPT ![c] = NoSource]
         /\ UNCHANGED <<last, tries, executed, failedCmd>>
         /\ \/ /\ count[u] = 1 /\ entries' = entries \ {u}
               /\ temporary' = [temporary EXCEPT ![u] = {}]
            \/ count[u] # 1 /\ UNCHANGED <<entries, temporary>>
  BY DEF Release, IsLastSource, DeleteEntry, SetSource, HookDone, localVars
<1> HIDE DEF u
<1>4. c \in Sending(u)
  <2>1. source[c] = u
    BY DEF u
  <2> QED
    BY <1>1, <2>1 DEF Sending, Closing, Cmd
<1>5. count[u] \in Nat /\ count[u] > 0
  BY <1>1, <1>2, <1>4, InUse DEF GftpTypeOK, BatchesInv, StorageOK, CountOK
<1>6. count'[u] = count[u] - 1 /\ \A v \in Urls : v # u => count'[v] = count[v]
  BY <1>1, <1>2 DEF GftpTypeOK
<1>7. /\ GftpTypeOK'
      /\ source'[c] \in {u, NoSource} /\ Sets(s) /\ SourceTypes'
  <2>1. count' \in [Urls -> 0..MaxSources]
    <3>1. count[u] - 1 \in 0..MaxSources
      BY <1>1, <1>2, <1>5, MaxSourcesAssumption DEF GftpTypeOK
    <3> QED
      BY <1>1, <1>2, <3>1 DEF GftpTypeOK
  <2>2. GftpTypeOK'
    BY <1>1, <1>2, <1>3, <2>1, ClientsAssumption DEF GftpTypeOK
  <2> QED
    BY <1>1, <1>3, <2>2 DEF u, Sets, SourceTypes
<1>8. \E new \in {"closing", "after"}, p \in Nat :
        /\ Leads(s, new, p, last[s], executed[s]) /\ UNCHANGED <<last, tries, executed, failedCmd>>
        /\ new = "closing" => p = pos[s] /\ gftpLock' = s /\ count[u] = 1 /\ UNCHANGED source
        /\ new = "after" => gftpLock' = NoClient /\ source'[c] = NoSource
  <2>1. CASE Goto(s, "closing") /\ gftpLock' = s
    BY <1>1, <1>2, <1>3, <2>1, ClientsAssumption, NoClientAssumption, GotoLeads
       DEF BatchesInv, Types, Stages, HookDone
  <2>2. CASE HookDone(s, "after") /\ gftpLock' = gftpLock
    BY <1>1, <1>2, <1>3, <2>2, ClientsAssumption, NoClientAssumption, GotoLeads
       DEF BatchesInv, Types, Stages, HookDone
  <2> QED
    BY <1>3, <2>1, <2>2
<1>9. PICK new \in {"closing", "after"}, p \in Nat :
        /\ Leads(s, new, p, last[s], executed[s]) /\ UNCHANGED <<last, tries, executed, failedCmd>>
        /\ new = "closing" => p = pos[s] /\ gftpLock' = s /\ count[u] = 1 /\ UNCHANGED source
        /\ new = "after" => gftpLock' = NoClient /\ source'[c] = NoSource
  BY <1>8
<1>10. ASSUME NEW v \in Urls
       PROVE  CountOK(v)'
  <2>1. /\ CountOK(v) /\ count[v] \in Nat /\ count'[v] \in Nat
        /\ Cardinality(Sending(v)) \in Nat
    BY <1>1, <1>7, SendingFinite DEF BatchesInv, StorageOK, GftpTypeOK
  <2>2. /\ (c \in Sending(v)' => c \in Sending(v)) =>
             Cardinality(Sending(v))' <= Cardinality(Sending(v))
        /\ c \in Sending(v) /\ c \notin Sending(v)' =>
             Cardinality(Sending(v))' = Cardinality(Sending(v)) - 1
    BY <1>7, <1>9, SendingMoves DEF BatchesInv
  <2>3. c \notin Sending(v)'
    <3>1. CASE new = "closing"
      BY <1>1, <1>9, <3>1 DEF Sending, Closing, Leads
    <3>2. CASE new = "after"
      BY <1>9, <3>2, NoSourceAssumption DEF Sending
    <3> QED
      BY <3>1, <3>2
  <2>4. Cardinality(Sending(v))' \in Nat
    <3>1. Sending(v)' \in SUBSET Commands
      BY DEF Sending
    <3> QED
      BY <3>1, CommandsAssumption, FS_Subset, FS_CardinalityType
  <2>5. count'[v] >= Cardinality(Sending(v))'
    <3>1. CASE v = u
      BY <1>4, <1>6, <2>1, <2>2, <2>3, <2>4, <3>1 DEF CountOK
    <3>2. CASE v # u
      BY <1>6, <2>1, <2>2, <2>3, <2>4, <3>2 DEF CountOK
    <3> QED
      BY <3>1, <3>2
  <2>6. v \notin entries' => count'[v] = 0
    BY <1>2, <1>3, <1>5, <1>6, <2>1 DEF CountOK
  <2>7. Len(unread') <= 1 /\ count'[v] > 0 => v \in served'
    BY <1>2, <1>5, <1>6, <2>1 DEF CountOK
  <2> QED
    BY <2>5, <2>6, <2>7 DEF CountOK
<1>11. LineOK' /\ Spares
  <2>1. \A v \in Urls : temporary[v] \subseteq temporary'[v] \/ count'[v] = 0
    BY <1>1, <1>3, <1>6 DEF GftpTypeOK
  <2> QED
    BY <1>2, <2>1 DEF LineOK, BatchesInv, StorageOK, Spares
<1>12. s # NoClient /\ \A r \in Scripts : r # s => gftpLock # r /\ gftpLock' # r
  BY <1>2, <1>9, ClientsAssumption, NoClientAssumption
<1>13. \A r \in Scripts : r # s =>
        StageOK(r)' /\ LocksOK(r)' /\ ClosingOK(r)' /\ SourceOK(r)'
  BY <1>2, <1>7, <1>9, <1>10, <1>11, <1>12, OthersKeep DEF BatchesInv
<1>14. StageOK(s)' /\ LocksOK(s)' /\ SourceOK(s)'
  BY <1>1, <1>2, <1>9, <1>12 DEF StageOK, LocksOK, SourceOK, Uploads, Leads, Cmd
<1>15. ClosingOK(s)'
  BY <1>2, <1>5, <1>6, <1>9 DEF ClosingOK, Leads, u
<1>16. OtherTypes' /\ ResultsOK(s)'
  BY <1>1, <1>9 DEF OtherTypes, BatchesInv, Types, engineVars, ResultsOK, Leads
<1> QED
  BY <1>1, <1>7, <1>9, <1>10, <1>11, <1>13, <1>14, <1>15, <1>16, Together
     DEF BatchesInv, StorageOK

LEMMA AfterHookKeeps ==
  ASSUME BatchesInv, NEW s \in Scripts, AfterHook(s)
  PROVE  BatchesInv'
<1>1. /\ stage[s] = "after" /\ pos[s] <= Size(s) /\ ResultsOK(s)
      /\ UNCHANGED <<spent, resolved, truncated, resultVars, engineVars>>
  BY DEF AfterHook, resultVars, BatchesInv
<1>2. CASE HookDone(s, "after") /\ UNCHANGED <<source, gftpVars>>
  <2>1. /\ Leads(s, "after", pos[s] + 1, last[s], executed[s])
        /\ UNCHANGED <<last, tries, executed, failedCmd>>
    BY <1>1, <1>2, GotoLeads DEF HookDone, BatchesInv, Types, Stages
  <2>2. Quiet(s, "after", pos[s] + 1)
    BY <1>1, <1>2 DEF Quiet, Busy
  <2>3. OtherTypes' /\ ResultsOK(s)'
    BY <1>1, <2>1 DEF OtherTypes, BatchesInv, Types, engineVars, ResultsOK, Leads
  <2> QED
    BY <1>1, <2>1, <2>2, <2>3, QuietKeeps, Together DEF BatchesInv
<1>3. CASE Fails(s) /\ UNCHANGED <<source, gftpVars>>
  BY <1>1, <1>3, FailsKeeps, FailsTypes DEF Busy
<1>4. CASE /\ Sends(Cmd(s)) /\ Release(s, source[<<s, pos[s]>>])
           /\ IF IsLastSource(source[<<s, pos[s]>>])
              THEN Goto(s, "closing") /\ UNCHANGED <<localVars, source>>
              ELSE HookDone(s, "after") /\ SetSource(s, NoSource)
  BY <1>1, <1>4, ReleaseKeeps
<1> QED
  BY <1>2, <1>3, <1>4 DEF AfterHook

LEMMA UrlClosedKeeps ==
  ASSUME BatchesInv, NEW s \in Scripts, UrlClosed(s)
  PROVE  BatchesInv'
<1> DEFINE c == <<s, pos[s]>>
           u == source[c]
<1>1. PICK own \in Answers(s) : \/ Closed(u, own) /\ HookDone(s, "after")
                                \/ CloseFails(u, own) /\ Fails(s)
  BY DEF UrlClosed
<1>2. /\ stage[s] = "closing" /\ pipe = s /\ gftpLock = s /\ u \in Urls /\ count[u] = 0
      /\ source' = [source EXCEPT ![c] = NoSource]
      /\ UNCHANGED <<spent, resolved, truncated, resultVars, engineVars>>
      /\ pos[s] \in 1..Size(s) /\ Size(s) \in Nat /\ GftpTypeOK /\ c \in Commands /\ ResultsOK(s)
  BY CommandFacts
     DEF UrlClosed, SetSource, BatchesInv, Types, StageTypes, StorageOK, StageOK, LocksOK,
         ClosingOK, resultVars
<1>3. own \in Urls \cup Replies /\ own \notin Urls
  BY <1>2, AnswersFacts
<1>4. /\ Read(own) /\ gftpLock' = NoClient /\ UNCHANGED <<count, closeUrls, checksIds>>
      /\ served' = IF own = "ok" THEN served \ {u} ELSE served
      /\ \/ entries' = entries \ {u} /\ temporary' = [temporary EXCEPT ![u] = {}]
         \/ UNCHANGED <<entries, temporary>>
  BY <1>1 DEF Closed, CloseFails, DeleteEntry
<1> HIDE DEF u
<1>5. /\ pipe' = NoClient /\ unread' \in Seq(Urls \cup Replies)
      /\ Len(unread') <= 1 => Len(unread) <= 1
      /\ unread' = <<>> => unread = <<>>
      /\ LineOK'
  BY <1>2, <1>3, <1>4, LineRead
<1>6. GftpTypeOK' /\ SourceTypes' /\ Sets(s)
  BY <1>2, <1>4, <1>5 DEF GftpTypeOK, SourceTypes, Sets, BatchesInv, Types
<1>7. \A v \in Urls : c \notin Sending(v)'
  BY <1>2, NoSourceAssumption DEF Sending, BatchesInv, Types, SourceTypes
<1>8. \A v \in Urls : count[v] = 0 \/ /\ v \in entries => v \in entries'
                                      /\ v \in served => v \in served'
                                      /\ temporary[v] \subseteq temporary'[v]
  BY <1>2, <1>4 DEF GftpTypeOK
<1>9. /\ gftpLock' = IF gftpLock = s THEN NoClient ELSE gftpLock
      /\ pipe' = IF pipe = s THEN NoClient ELSE pipe
      /\ UNCHANGED count
  BY <1>2, <1>4, <1>5
<1>10. CASE Fails(s)
  <2>1. Leads(s, "failed", 1, 0, 0) /\ ResultsOK(s)' /\ OtherTypes'
    BY <1>2, <1>10, FailsLeads, FailsTypes, FailedResults DEF BatchesInv, Types
  <2>2. \A k \in 1..Size(s) : ~Uploads(s, k)'
    BY <2>1 DEF Leads, Uploads
  <2>3. StorageOK'
    BY <1>5, <1>6, <1>7, <1>8, <1>9, <2>1, <2>2, LeavesServer DEF Busy
  <2> QED
    BY <1>2, <1>6, <2>1, <2>3, Together
<1>11. CASE HookDone(s, "after")
  <2>1. Leads(s, "after", pos[s] + 1, last[s], executed[s])
        /\ UNCHANGED <<last, tries, executed, failedCmd>>
    BY <1>2, <1>11, GotoLeads DEF HookDone, BatchesInv, Types, Stages
  <2>2. \A k \in 1..Size(s) : ~Uploads(s, k)'
    BY <2>1 DEF Leads, Uploads
  <2>3. StorageOK'
    BY <1>5, <1>6, <1>7, <1>8, <1>9, <2>1, <2>2, LeavesServer DEF Busy
  <2>4. OtherTypes' /\ ResultsOK(s)'
    BY <1>2, <2>1 DEF OtherTypes, BatchesInv, Types, engineVars, ResultsOK, Leads
  <2> QED
    BY <1>2, <1>6, <2>1, <2>3, <2>4, Together
<1> QED
  BY <1>1, <1>10, <1>11

(* A worker that is cancelled over one of its scripts, in any stage. *)
LEMMA CutKeeps ==
  ASSUME BatchesInv, NEW s \in Scripts, NEW own \in Answers(s), own \in Urls \cup Replies,
         Fails(s),
         IF stage[s] = "closing" THEN SetSource(s, NoSource) ELSE UNCHANGED source,
         Cancelled(s, source[<<s, pos[s]>>], stage[s] = "publishing", own),
         OtherTypes', UNCHANGED resultVars
  PROVE  BatchesInv'
<1> DEFINE c == <<s, pos[s]>>
           u == source[c]
<1>1. /\ GftpTypeOK /\ StageOK(s) /\ LocksOK(s) /\ ClosingOK(s) /\ Size(s) \in Nat
      /\ pos[s] \in 1..Size(s) + 1 /\ UNCHANGED <<resolved, truncated>>
  BY CommandFacts DEF BatchesInv, Types, StageTypes, StorageOK, resultVars
<1>2. /\ gftpLock' = IF gftpLock = s THEN NoClient ELSE gftpLock
      /\ UNCHANGED <<entries, count, temporary, closeUrls, checksIds>>
      /\ \/ /\ pipe = s /\ Abandon(own)
            /\ served' = IF stage[s] = "publishing" THEN served \cup ({own} \cap Urls)
                         ELSE IF own = "ok" THEN served \ {u} ELSE served
         \/ pipe # s /\ UNCHANGED <<pipe, unread, served>>
  BY DEF Cancelled, ServedAfter, pipeVars
<1> HIDE DEF u
<1>3. ASSUME pipe = s
      PROVE  /\ pos[s] \in 1..Size(s) /\ stage[s] \in Busy
             /\ own \in Urls => own \in served'
             /\ \A v \in Urls : v \in served => v \in served' \/ count[v] = 0
  <2>1. pos[s] \in 1..Size(s) /\ stage[s] \in Busy
    BY <1>1, <1>3 DEF StageOK, LocksOK, Busy
  <2>2. CASE stage[s] = "publishing"
    BY <1>2, <1>3, <2>1, <2>2
  <2>3. CASE stage[s] = "receiving"
    <3>1. own \in {"error", "destination"} /\ own \notin Urls
      BY <1>1, <2>1, <2>3, AnswersFacts
    <3> QED
      BY <1>2, <1>3, <2>1, <2>3, <3>1
  <2>4. CASE stage[s] = "closing"
    <3>1. own \notin Urls
      BY <1>1, <2>1, <2>4, AnswersFacts
    <3>2. count[u] = 0
      BY <1>1, <2>4 DEF ClosingOK, u
    <3> QED
      BY <1>2, <1>3, <2>1, <2>4, <3>1, <3>2
  <2> QED
    BY <2>1, <2>2, <2>3, <2>4 DEF Busy
<1>4. /\ pipe' = IF pipe = s THEN NoClient ELSE pipe
      /\ unread' \in Seq(Urls \cup Replies)
      /\ Len(unread') <= 1 => Len(unread) <= 1
      /\ unread' = <<>> => unread = <<>>
      /\ LineOK'
  <2>1. CASE pipe = s
    BY <1>1, <1>2, <1>3, <2>1, LineLeft
  <2>2. CASE pipe # s
    BY <1>1, <1>2, <2>2 DEF GftpTypeOK, LineOK, BatchesInv, StorageOK
  <2> QED
    BY <2>1, <2>2
<1>5. GftpTypeOK'
  BY <1>1, <1>2, <1>4 DEF GftpTypeOK
<1>6. \A v \in Urls : v \in served => v \in served' \/ count[v] = 0
  BY <1>2, <1>3
<1>7. SourceTypes' /\ Sets(s)
  BY DEF SourceTypes, Sets, SetSource, BatchesInv, Types
<1>8. Leads(s, "failed", 1, 0, 0) /\ ResultsOK(s)'
  BY FailsLeads, FailedResults DEF BatchesInv, Types
<1>9. ASSUME NEW v \in Urls, c \in Sending(v)'
      PROVE  c \in Sending(v)
  <2>1. c \in Commands /\ source'[c] = v /\ Sends(Program[c[1]][c[2]])
    BY <1>9 DEF Sending
  <2>2. CASE stage[s] = "closing"
    BY <2>1, <2>2, NoSourceAssumption DEF SetSource, BatchesInv, Types, SourceTypes
  <2>3. CASE stage[s] # "closing"
    BY <2>1, <2>3 DEF Sending, Closing
  <2> QED
    BY <2>2, <2>3
<1>10. \A k \in 1..Size(s) : ~Uploads(s, k)'
  BY <1>8 DEF Leads, Uploads
<1>11. StorageOK'
  BY <1>2, <1>4, <1>5, <1>6, <1>7, <1>8, <1>9, <1>10, LeavesServer DEF Busy
<1> QED
  BY <1>1, <1>5, <1>7, <1>8, <1>11, Together

(* BatchesInv does not depend on who has ended, or how often scripts were    *)
(* yielded.                                                                  *)
LEMMA BatchesStutter ==
  ASSUME BatchesInv, UNCHANGED <<stage, localVars, source, resultVars, gftpVars>>, OtherTypes'
  PROVE  BatchesInv'
<1>1. UNCHANGED <<stage, pos, last, executed, failedCmd, source, resolved, truncated, entries,
                  count, temporary, served, gftpLock, closeUrls, pipe, unread, checksIds>>
  BY DEF localVars, resultVars, gftpVars
<1>2. StageTypes' /\ SourceTypes' /\ GftpTypeOK'
  BY <1>1 DEF BatchesInv, Types, StageTypes, SourceTypes, GftpTypeOK
<1>3. \A u \in Urls : CountOK(u)'
  <2>1. \A u \in Urls : Sending(u)' = Sending(u)
    BY <1>1 DEF Sending, Closing
  <2> QED
    BY <1>1, <2>1 DEF CountOK, BatchesInv, StorageOK
<1>4. \A s \in Scripts : StageOK(s)' /\ LocksOK(s)' /\ ClosingOK(s)'
  BY <1>1 DEF BatchesInv, StorageOK, StageOK, LocksOK, ClosingOK, Cmd
<1>5. (\A s \in Scripts : SourceOK(s)') /\ LineOK'
  BY <1>1 DEF BatchesInv, StorageOK, SourceOK, Uploads, LineOK
<1>6. \A s \in Scripts : ResultsOK(s)'
  BY <1>1 DEF BatchesInv, ResultsOK
<1> QED
  BY <1>2, <1>3, <1>4, <1>5, <1>6 DEF BatchesInv, Types, StorageOK

LEMMA WorkerEndsKeeps ==
  ASSUME BatchesInv, NEW w \in Workers, WorkerEnds(w)
  PROVE  BatchesInv'
<1>1. /\ ended' = ended \cup {w}
      /\ UNCHANGED <<yields, spent, resolved, truncated, resultVars, streaming>>
  BY DEF WorkerEnds, resultVars
<1>2. CASE UNCHANGED <<stage, localVars, source, gftpVars>>
  <2>1. OtherTypes'
    BY <1>1, <1>2 DEF OtherTypes, BatchesInv, Types, localVars
  <2> QED
    BY <1>1, <1>2, <2>1, BatchesStutter
<1>3. CASE \E s \in Scripts, own \in Urls \cup Replies :
             /\ own \in Answers(s)
             /\ Fails(s)
             /\ IF stage[s] = "closing" THEN SetSource(s, NoSource) ELSE UNCHANGED source
             /\ Cancelled(s, source[<<s, pos[s]>>], stage[s] = "publishing", own)
  <2>1. PICK s \in Scripts, own \in Urls \cup Replies :
             /\ own \in Answers(s)
             /\ Fails(s)
             /\ IF stage[s] = "closing" THEN SetSource(s, NoSource) ELSE UNCHANGED source
             /\ Cancelled(s, source[<<s, pos[s]>>], stage[s] = "publishing", own)
    BY <1>3
  <2>2. tries' = [tries EXCEPT ![s] = MaxTries]
    BY <2>1 DEF Fails
  <2>3. OtherTypes'
    BY <1>1, <2>2, TriesAssumption DEF OtherTypes, BatchesInv, Types
  <2> QED
    BY <1>1, <2>1, <2>3, CutKeeps
<1> QED
  BY <1>2, <1>3 DEF WorkerEnds

LEMMA ScriptKeeps ==
  ASSUME BatchesInv, NEW s \in Scripts, ScriptStep(s)
  PROVE  BatchesInv'
  BY YieldKeeps, BeforeHookKeeps, CallServerKeeps, UploadedKeeps, DestinedKeeps, SendKeeps,
     ExecuteKeeps, PollKeeps, PollFailsKeeps, StreamEventKeeps, StreamBreaksKeeps,
     DeadlineKeeps, AfterHookKeeps, UrlClosedKeeps, AfterDoneKeeps
     DEF ScriptStep

-----------------------------------------------------------------------------
(* Theorems of the specification *)

LEMMA BatchesStart == BatchesInit => BatchesInv
<1> SUFFICES ASSUME BatchesInit
             PROVE  BatchesInv
  OBVIOUS
<1>1. \A s \in Scripts : Size(s) \in Nat /\ MaxYields[s] \in Nat
  BY CommandFacts, YieldsAssumption
<1>2. StageTypes /\ OtherTypes /\ SourceTypes
  BY <1>1, TriesAssumption DEF BatchesInit, StageTypes, OtherTypes, SourceTypes, Stages
<1>3. GftpTypeOK
  BY MaxSourcesAssumption DEF BatchesInit, GftpInit, GftpTypeOK
<1>4. ASSUME NEW u \in Urls
      PROVE  CountOK(u)
  <2>1. Sending(u) = {}
    BY NoSourceAssumption DEF BatchesInit, Sending
  <2> QED
    BY <2>1, FS_EmptySet DEF BatchesInit, GftpInit, CountOK
<1>5. LineOK
  BY DEF BatchesInit, GftpInit, LineOK
<1>6. \A s \in Scripts : StageOK(s) /\ LocksOK(s) /\ ClosingOK(s) /\ SourceOK(s)
  BY ClientsAssumption, NoClientAssumption
     DEF BatchesInit, GftpInit, StageOK, LocksOK, ClosingOK, SourceOK, Uploads
<1>7. \A s \in Scripts : ResultsOK(s)
  BY DEF BatchesInit, ResultsOK
<1> QED
  BY <1>2, <1>3, <1>4, <1>5, <1>6, <1>7 DEF BatchesInv, Types, StorageOK

(* However scripts, their results, releases and cancellations interleave,    *)
(* BatchesInv holds: what the gftp provider counts, serves and deletes, what *)
(* each script relies on, and what it knows of its results.                  *)
THEOREM BatchesInvariant == BatchesSpec => []BatchesInv
<1>1. BatchesInv /\ [BatchesNext]_batchVars => BatchesInv'
  <2> SUFFICES ASSUME BatchesInv, [BatchesNext]_batchVars
               PROVE  BatchesInv'
    OBVIOUS
  <2>1. CASE UNCHANGED batchVars
    <3>1. OtherTypes'
      BY <2>1
         DEF batchVars, localVars, hookVars, resultVars, engineVars, OtherTypes, BatchesInv,
             Types
    <3>2. UNCHANGED <<stage, localVars, source, resultVars, gftpVars>>
      BY <2>1 DEF batchVars, hookVars
    <3> QED
      BY <3>1, <3>2, BatchesStutter
  <2>2. CASE BatchesNext
    BY <2>2, ScriptKeeps, WorkerEndsKeeps DEF BatchesNext
  <2> QED
    BY <2>1, <2>2
<1> QED
  BY <1>1, BatchesStart, PTL DEF BatchesSpec

(* Every variable of the scripts and of the storage keeps its type; no       *)
(* script is counted below zero, and no result outside its commands is set.  *)
THEOREM TypeCorrect == BatchesSpec => []BatchesTypeOK
<1>1. BatchesInv => BatchesTypeOK
  BY DEF BatchesInv, Types, StageTypes, OtherTypes, SourceTypes, BatchesTypeOK
<1> QED
  BY <1>1, BatchesInvariant, PTL

(* The count of an URL is never below the number of sources in use, whoever  *)
(* publishes, releases or is cancelled, and whichever line answers.          *)
THEOREM SourcesCounted == BatchesSpec => []SourceCount
<1>1. BatchesInv => SourceCount
  BY DEF BatchesInv, StorageOK, CountOK, SourceCount
<1> QED
  BY <1>1, BatchesInvariant, PTL

(* What a script sends is there while it waits for its results: in the       *)
(* provider's entries, with its temporary file, and served, as long as the   *)
(* lines of the pipe can be trusted so far.                                  *)
THEOREM SourcesAvailable == BatchesSpec => []SourceAvailable
<1>1. BatchesInv => SourceAvailable
  <2> SUFFICES ASSUME BatchesInv, NEW s \in Scripts, NEW k \in executed[s] + 1..Size(s),
                      stage[s] = "results", Sends(Program[s][k])
               PROVE  /\ source[<<s, k>>] \in entries
                      /\ Program[s][k].kind = "bytes" => <<s, k>> \in temporary[source[<<s, k>>]]
                      /\ Len(unread) <= 1 => source[<<s, k>>] \in served
                      /\ unread = <<>> => source[<<s, k>>] = Program[s][k].url
    BY DEF SourceAvailable
  <2> DEFINE u == source[<<s, k>>]
  <2>1. k \in 1..Size(s) /\ <<s, k>> \in Commands
    BY CommandFacts DEF BatchesInv, Types, StageTypes
  <2>2. /\ u \in Urls
        /\ Program[s][k].kind = "bytes" => <<s, k>> \in temporary[u]
        /\ unread = <<>> => u = Program[s][k].url
    BY <2>1 DEF BatchesInv, StorageOK, SourceOK, Uploads
  <2>3. <<s, k>> \in Sending(u)
    BY <2>1 DEF Sending, Closing
  <2>4. CountOK(u) /\ count[u] \in Nat
    BY <2>2 DEF BatchesInv, StorageOK, Types, GftpTypeOK
  <2>5. count[u] > 0
    BY <2>2, <2>3, <2>4, InUse DEF CountOK
  <2> QED
    BY <2>2, <2>4, <2>5 DEF CountOK
<1> QED
  BY <1>1, BatchesInvariant, PTL

(* A script ends well only with a successful result for every command it     *)
(* yielded, unless its stream lost an event: for any program, any batches of *)
(* replies and any number of retries.                                        *)
THEOREM DoneIsExecuted == BatchesSpec => []DoneMeansExecuted
<1>1. BatchesInv => DoneMeansExecuted
  BY DEF BatchesInv, ResultsOK, DoneMeansExecuted
<1> QED
  BY <1>1, BatchesInvariant, PTL
=============================================================================
