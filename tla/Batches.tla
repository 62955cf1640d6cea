------------------------------ MODULE Batches ------------------------------
(* Scripts on their way to a provider and back: process_batches of           *)
(* yapapi/engine.py, yapapi/script/ (Script, the `before` and `after` hooks  *)
(* of its commands) and the two ways of yapapi/rest/activity.py to get the   *)
(* results of a batch, polling and streaming.  The commands that send        *)
(* content publish it with the Gftp provider, which all workers share.       *)
(*                                                                           *)
(* A worker yields its scripts one after the other; it does not wait for the *)
(* results of a script with wait_for_results unset, whose results come from  *)
(* a task of its own.                                                        *)
EXTENDS Gftp

CONSTANTS Scripts,
          Program,     \* the commands of each script: [kind, url]
          Waits,       \* the scripts with wait_for_results
          Worker,      \* the worker that yields each script
          NoSource,    \* _src or _dst_slot is None
          MaxYields,   \* bound: how often each script object is yielded
          MaxTries     \* GET_EXEC_BATCH_RESULTS_MAX_TRIES

(* What deploy, start, terminate and run are, the downloads, upload_file, and *)
(* the uploads of data.                                                      *)
Kinds == {"run", "receive", "file", "bytes"}

ASSUME ProgramAssumption == \A s \in Scripts : Program[s] \in Seq([kind : Kinds, url : Urls])
ASSUME NoSourceAssumption == NoSource \notin Urls \cup Replies
ASSUME YieldsAssumption == MaxYields \in [Scripts -> Nat \ {0}]
ASSUME TriesAssumption == MaxTries \in Nat \ {0}

VARIABLES
  stage,      \* where the script is: see Stages
  pos,        \* the command whose hook runs
  last,       \* last_idx: results the requestor has seen
  tries,      \* attempts of _get_results left
  yields,     \* how often it was yielded
  source,     \* of <<script, command>>: the link of _src, until it is released, or _dst_slot
  spent,      \* SendBytes commands whose data are gone
  resolved,   \* <<script, command>> whose result future is set
  executed,   \* commands the provider has executed, in this yield
  failedCmd,  \* scripts whose last executed command has failed
  truncated,  \* scripts whose event stream lost an event (history)
  ended,      \* workers that have ended: their activity is destroyed
  streaming   \* _stream_output

localVars == <<pos, last, tries, executed, failedCmd>>
hookVars == <<source, spent>>
resultVars == <<resolved, truncated>>
engineVars == <<yields, ended, streaming>>
batchVars == <<stage, localVars, hookVars, resultVars, engineVars, gftpVars>>

Stages == {"new", "before", "publishing", "receiving", "results", "after", "closing", "done", "failed"}
Size(s) == Len(Program[s])
Cmd(s) == Program[s][pos[s]]
Commands == UNION {{<<s, k>> : k \in 1..Size(s)} : s \in Scripts}
Sends(c) == c.kind \in {"file", "bytes"}
Workers == {Worker[s] : s \in Scripts}
Closing(c) == stage[c[1]] = "closing" /\ pos[c[1]] = c[2]

(* A script is a client of the provider, the data of a command a temporary   *)
(* file.                                                                     *)
ASSUME ClientsAssumption == Scripts \subseteq Clients
ASSUME CommandsAssumption == IsFiniteSet(Commands) /\ Commands \subseteq Files

BatchesTypeOK ==
  /\ GftpTypeOK
  /\ stage \in [Scripts -> Stages]
  /\ \A s \in Scripts : /\ pos[s] \in 1..Size(s) + 1 /\ last[s] \in 0..Size(s)
                        /\ executed[s] \in 0..Size(s)
  /\ tries \in [Scripts -> 1..MaxTries] /\ \A s \in Scripts : yields[s] \in 0..MaxYields[s]
  /\ source \in [Commands -> Urls \cup Replies \cup {NoSource}] /\ spent \subseteq Commands /\ resolved \subseteq Commands
  /\ failedCmd \subseteq Scripts /\ truncated \subseteq Scripts /\ ended \subseteq Workers
  /\ streaming \in BOOLEAN

BatchesInit ==
  /\ GftpInit
  /\ stage = [s \in Scripts |-> "new"]
  /\ pos = [s \in Scripts |-> 1] /\ last = [s \in Scripts |-> 0]
  /\ tries = [s \in Scripts |-> MaxTries] /\ yields = [s \in Scripts |-> 0]
  /\ executed = [s \in Scripts |-> 0]
  /\ source = [c \in Commands |-> NoSource] /\ spent = {} /\ resolved = {} /\ failedCmd = {} /\ truncated = {} /\ ended = {}
  /\ streaming \in BOOLEAN

Goto(s, new) == stage' = [stage EXCEPT ![s] = new]
NextHook(s) == pos' = [pos EXCEPT ![s] = @ + 1]

(* The script fails, or is cut: nobody reads the locals of the iteration,    *)
(* and what the provider does with the batch, any more.                      *)
Fails(s) ==
  /\ Goto(s, "failed")
  /\ pos' = [pos EXCEPT ![s] = 1] /\ last' = [last EXCEPT ![s] = 0]
  /\ tries' = [tries EXCEPT ![s] = MaxTries]
  /\ executed' = [executed EXCEPT ![s] = 0] /\ failedCmd' = failedCmd \ {s}

----------------------------------------------------------------------------
(* process_batches: the script                                               *)

(* process_batches is through with the script, as far as the worker goes.    *)
Left(s) == \/ stage[s] \in {"new", "done", "failed"}
           \/ s \notin Waits /\ stage[s] \in {"results", "after", "closing"}

(* The generator yields a script: a new one, or one that has failed, again.  *)
Yield(s) ==
  /\ Worker[s] \notin ended
  /\ \A r \in Scripts : Worker[r] = Worker[s] => Left(r)
  /\ stage[s] \in {"new", "failed"} /\ yields[s] < MaxYields[s]
  /\ Goto(s, "before")
  /\ yields' = [yields EXCEPT ![s] = @ + 1]
  /\ UNCHANGED <<ended, streaming, localVars, hookVars, resultVars, gftpVars>>

(* What the server answers to the request of the script.                     *)
Answers(s) ==
  {"error"} \cup (CASE stage[s] = "publishing" -> {Cmd(s).url}
                  [] stage[s] = "receiving" -> {"destination"}
                  [] stage[s] = "closing" -> {"ok"}
                  [] OTHER -> {})

SetSource(s, link) == source' = [source EXCEPT ![<<s, pos[s]>>] = link]

(* The worker is done, or cancelled in the middle of a script, over a call   *)
(* of the gftp server perhaps.  The activity is destroyed; result tasks of   *)
(* other scripts go on.                                                      *)
WorkerEnds(w) ==
  LET cut == {s \in Scripts : Worker[s] = w /\ ~Left(s)}
  IN /\ w \notin ended
     /\ ended' = ended \cup {w}
     /\ \/ cut = {} /\ UNCHANGED <<stage, localVars, source, gftpVars>>
        \/ \E s \in cut, own \in Urls \cup Replies :
             /\ own \in Answers(s)
             /\ Fails(s)
             /\ IF stage[s] = "closing" THEN SetSource(s, NoSource) ELSE UNCHANGED source
             /\ Cancelled(s, source[<<s, pos[s]>>], stage[s] = "publishing", own)
     /\ UNCHANGED <<yields, spent, resultVars, streaming>>

(* The `before` hooks, in order: an upload, or new_destination.              *)
BeforeHook(s) ==
  /\ stage[s] = "before" /\ pos[s] <= Size(s)
  /\ \/ Cmd(s).kind = "run" /\ NextHook(s)
        /\ UNCHANGED <<stage, last, tries, executed, failedCmd, gftpVars>>
     \/ Cmd(s).kind = "receive" /\ Goto(s, "receiving") /\ UNCHANGED <<localVars, gftpVars>>
     \/ Sends(Cmd(s)) /\ <<s, pos[s]>> \notin spent /\ Publish(s)
        /\ Goto(s, "publishing") /\ UNCHANGED localVars
     \/ <<s, pos[s]>> \in spent /\ Fails(s) /\ UNCHANGED gftpVars
  /\ UNCHANGED <<hookVars, resultVars, engineVars>>

CallServer(s) ==
  /\ stage[s] \in {"publishing", "receiving", "closing"} /\ Request(s)
  /\ UNCHANGED <<stage, localVars, hookVars, resultVars, engineVars>>

(* The hook is through: the next one.                                        *)
HookDone(s, hooks) ==
  /\ Goto(s, hooks) /\ NextHook(s) /\ UNCHANGED <<last, tries, executed, failedCmd>>

(* The source is published: _src is set, over the one of an earlier yield,   *)
(* and SendBytes forgets its data; or publish has failed.                    *)
Uploaded(s) ==
  /\ stage[s] = "publishing" /\ pipe = s
  /\ \E own \in Answers(s) :
       \/ /\ Published(Reply(own), own, <<s, pos[s]>>, Cmd(s).kind = "bytes")
          /\ SetSource(s, Reply(own))
          /\ spent' = IF Cmd(s).kind = "bytes" THEN spent \cup {<<s, pos[s]>>} ELSE spent
          /\ HookDone(s, "before")
       \/ PublishFails(own) /\ Fails(s) /\ UNCHANGED hookVars
  /\ UNCHANGED <<resultVars, engineVars>>

(* new_destination has returned the link in the reply, or failed.            *)
Destined(s) ==
  /\ stage[s] = "receiving" /\ pipe = s
  /\ \E own \in Answers(s) :
       /\ Received(own)
       /\ IF Refused(own) THEN Fails(s) /\ UNCHANGED source
          ELSE SetSource(s, Reply(own)) /\ HookDone(s, "before")
  /\ UNCHANGED <<spent, resultVars, engineVars>>

(* evaluate, for which a destination has to be one, and send; an error of    *)
(* either is thrown into the generator.                                      *)
Send(s) ==
  /\ stage[s] = "before" /\ pos[s] > Size(s)
  /\ \/ /\ \A k \in 1..Size(s) : Program[s][k].kind = "receive" => source[<<s, k>>] = "destination"
        /\ Goto(s, "results") /\ UNCHANGED localVars
     \/ Fails(s)
  /\ UNCHANGED <<hookVars, resultVars, engineVars, gftpVars>>

----------------------------------------------------------------------------
(* rest/activity.py: the results                                             *)

(* The provider executes the commands of a batch in order, up to a failure.  *)
Execute(s) ==
  /\ stage[s] = "results" /\ Worker[s] \notin ended
  /\ executed[s] < Size(s) /\ s \notin failedCmd
  /\ executed' = [executed EXCEPT ![s] = @ + 1]
  /\ failedCmd' \in {failedCmd, failedCmd \cup {s}}
  /\ UNCHANGED <<stage, pos, last, tries, hookVars, resultVars, engineVars, gftpVars>>

(* Mutated form: a failed command is reported like the others.               *)
MutFirstError(s, n) == CHOOSE k \in last[s] + 1..n + 1 : k = n + 1

(* process_batch_event, for the results last+1..n: the first that raises.    *)
(* A result whose future is set already cannot be set again.                 *)
FirstError(s, n) ==
  CHOOSE k \in last[s] + 1..n + 1 :
    /\ k = n + 1 \/ (k = executed[s] /\ s \in failedCmd) \/ <<s, k>> \in resolved
    /\ \A j \in last[s] + 1..k - 1 : ~(j = executed[s] /\ s \in failedCmd)
                                     /\ <<s, j>> \notin resolved

(* All hooks run once the iteration over the results is over.                *)
Iterated(s) ==
  /\ Goto(s, "after")
  /\ pos' = [pos EXCEPT ![s] = 1] /\ last' = [last EXCEPT ![s] = 0]
  /\ tries' = [tries EXCEPT ![s] = MaxTries]
  /\ executed' = [executed EXCEPT ![s] = 0] /\ UNCHANGED failedCmd

(* The results last+1..n are handled; a reply starts a new round of tries.   *)
Events(s, n) ==
  LET k == FirstError(s, n)
  IN /\ resolved' = resolved \cup {<<s, j>> : j \in last[s] + 1..k - 1}
     /\ IF k # n + 1 THEN Fails(s)
        ELSE IF n = Size(s) THEN Iterated(s)
        ELSE /\ last' = [last EXCEPT ![s] = n] /\ tries' = [tries EXCEPT ![s] = MaxTries]
             /\ UNCHANGED <<stage, pos, executed, failedCmd>>

(* PollingBatch: a reply has all results so far.                             *)
Poll(s) ==
  /\ stage[s] = "results" /\ ~streaming /\ executed[s] > last[s]
  /\ Events(s, executed[s])
  /\ UNCHANGED <<hookVars, truncated, engineVars, gftpVars>>

(* Mutated form: an off-by-one in the count of the tries.                    *)
MutCanRetry(s) == tries[s] >= 1

CanRetry(s) == tries[s] > 1

(* An error of the call: a GSB error is retried some times, an intermittent  *)
(* one starts a new round, and the others raise.                             *)
PollFails(s) ==
  /\ stage[s] = "results" /\ ~streaming
  /\ \/ /\ \/ CanRetry(s) /\ tries' = [tries EXCEPT ![s] = @ - 1]
           \/ tries[s] < MaxTries /\ tries' = [tries EXCEPT ![s] = MaxTries]
        /\ UNCHANGED <<stage, pos, last, executed, failedCmd>>
     \/ Fails(s)
  /\ UNCHANGED <<hookVars, resultVars, engineVars, gftpVars>>

(* StreamingBatch: an event per result; one that cannot be read is logged    *)
(* and dropped, and a payload error ends the iteration as if it were over.   *)
StreamEvent(s) ==
  /\ stage[s] = "results" /\ streaming /\ executed[s] > last[s]
  /\ \/ Events(s, last[s] + 1) /\ UNCHANGED truncated
     \/ /\ truncated' = truncated \cup {s}
        /\ last' = [last EXCEPT ![s] = @ + 1]
        /\ UNCHANGED <<stage, pos, tries, executed, failedCmd, resolved>>
  /\ UNCHANGED <<hookVars, engineVars, gftpVars>>

StreamBreaks(s) ==
  /\ stage[s] = "results" /\ streaming
  /\ \/ Iterated(s) /\ truncated' = truncated \cup {s}
     \/ Fails(s) /\ UNCHANGED truncated
  /\ UNCHANGED <<resolved, hookVars, engineVars, gftpVars>>

(* The deadline of the script: BatchTimeoutError.                            *)
Deadline(s) ==
  /\ stage[s] = "results" /\ Fails(s)
  /\ UNCHANGED <<hookVars, resultVars, engineVars, gftpVars>>

----------------------------------------------------------------------------
(* The `after` hooks, and the payment                                        *)

AfterHook(s) ==
  /\ stage[s] = "after" /\ pos[s] <= Size(s)
  /\ \/ Cmd(s).kind \in {"run", "receive"} /\ HookDone(s, "after") /\ UNCHANGED <<source, gftpVars>>
     \/ Cmd(s).kind = "receive" /\ Fails(s) /\ UNCHANGED <<source, gftpVars>>
     \/ /\ Sends(Cmd(s)) /\ Release(s, source[<<s, pos[s]>>])
        /\ IF IsLastSource(source[<<s, pos[s]>>])
           THEN Goto(s, "closing") /\ UNCHANGED <<localVars, source>>
           ELSE HookDone(s, "after") /\ SetSource(s, NoSource)
  /\ UNCHANGED <<spent, resultVars, engineVars>>

UrlClosed(s) ==
  /\ stage[s] = "closing" /\ pipe = s
  /\ SetSource(s, NoSource)
  /\ \E own \in Answers(s) :
       \/ Closed(source[<<s, pos[s]>>], own) /\ HookDone(s, "after")
       \/ CloseFails(source[<<s, pos[s]>>], own) /\ Fails(s)
  /\ UNCHANGED <<spent, resultVars, engineVars>>

(* The hooks are through: accept_payments_for_agreement, whose error makes   *)
(* the batch fail.                                                           *)
AfterDone(s) ==
  /\ stage[s] = "after" /\ pos[s] > Size(s)
  /\ \/ Goto(s, "done") /\ pos' = [pos EXCEPT ![s] = 1]
        /\ UNCHANGED <<last, tries, executed, failedCmd>>
     \/ Fails(s)
  /\ UNCHANGED <<hookVars, resultVars, engineVars, gftpVars>>

Hooks(s) == BeforeHook(s) \/ CallServer(s) \/ Uploaded(s) \/ Destined(s) \/ Send(s)
            \/ AfterHook(s) \/ UrlClosed(s) \/ AfterDone(s)

ScriptStep(s) ==
  \/ Yield(s) \/ BeforeHook(s) \/ CallServer(s) \/ Uploaded(s) \/ Destined(s)
  \/ Send(s)
  \/ Execute(s) \/ Poll(s) \/ PollFails(s) \/ StreamEvent(s) \/ StreamBreaks(s) \/ Deadline(s)
  \/ AfterHook(s) \/ UrlClosed(s) \/ AfterDone(s)

BatchesNext == (\E s \in Scripts : ScriptStep(s)) \/ (\E w \in Workers : WorkerEnds(w))

(* Fairness: calls of the server return or fail, asyncio.Lock is first come  *)
(* first served, scripts have a timeout.  Nothing is assumed of the provider *)
(* and of the worker's generator.                                            *)
BatchesFairness == \A s \in Scripts : SF_batchVars(Hooks(s)) /\ WF_batchVars(Deadline(s))

BatchesSpec == BatchesInit /\ [][BatchesNext]_batchVars
BatchesFairSpec == BatchesSpec /\ BatchesFairness

----------------------------------------------------------------------------
(* Properties                                                                *)

Sending(u) ==
  {c \in Commands : source[c] = u /\ Sends(Program[c[1]][c[2]]) /\ ~Closing(c)}

(* Whatever the order of uploads, releases and calls of the server: the      *)
(* count of an URL is never below the number of sources in use, so no        *)
(* release by one script closes what another still needs (gftp.py:359-430).  *)
SourceCount == \A u \in Urls : count[u] >= Cardinality(Sending(u))

(* While a script waits for its results, the content it sends has an entry   *)
(* with the URL it was given, and the temporary file behind it is not        *)
(* deleted, even if another script has published and released the same       *)
(* content meanwhile (gftp.py:366-437).  A worker cancelled over a request   *)
(* leaves its line to the next caller (gftp.py:138-153): until that happens  *)
(* the URL is the one of the script's own content; until it happens a second *)
(* time it is at least served, for no URL can be closed before the line that *)
(* names it is read.                                                         *)
SourceAvailable ==
  \A s \in Scripts : \A k \in executed[s] + 1..Size(s) :
    stage[s] = "results" /\ Sends(Program[s][k]) =>
      /\ source[<<s, k>>] \in entries
      /\ Program[s][k].kind = "bytes" => <<s, k>> \in temporary[source[<<s, k>>]]
      /\ Len(unread) <= 1 => source[<<s, k>>] \in served
      /\ unread = <<>> => source[<<s, k>>] = Program[s][k].url

(* A script ends well only with a successful result for every command it     *)
(* yielded, unless its event stream has lost one (activity.py:286-352 goes   *)
(* on to the `after` hooks and the payment then).                            *)
DoneMeansExecuted ==
  \A s \in Scripts : stage[s] \in {"after", "closing", "done"} /\ s \notin truncated =>
    s \notin failedCmd /\ \A k \in 1..Size(s) : <<s, k>> \in resolved

(* Every script a worker yields comes to an end: its hooks, its results or   *)
(* its deadline leave the requestor waiting for nothing.                     *)
ScriptSettles ==
  \A s \in Scripts : stage[s] = "before" ~> stage[s] \in {"done", "failed"}
=============================================================================
