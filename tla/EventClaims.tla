----------------------------- MODULE EventClaims -----------------------------
(***************************************************************************)
(* Event-driven tasks, scheduled_tasks/service.py and                      *)
(* storage/event_claim_storage.py: an event that matches a task is claimed *)
(* in a file, one claim for each task and event, the task runs in the      *)
(* process that claimed it, and the outcome is written into the claim.     *)
(*                                                                         *)
(* Every call of the claim store holds its file lock and is a step, so is  *)
(* every write of an execution record.  Code without an await keeps the    *)
(* event loop of its process: Busy.  Other processes come between all of   *)
(* its steps, and so do crashes.  Time is abstract: a claim ages until its *)
(* last update is older than the timeout of the task.                      *)
(***************************************************************************)
EXTENDS Integers, FiniteSets

CONSTANTS
  Workers,         \* processes that start the service: they recover and resume
  Webs,            \* processes that only serve requests
  Callers,         \* processes in which a user can ask for a manual run
  Claims,          \* pairs of a task and an event
  None,            \* no execution in the claim
  Substitute,      \* the record of _create_failed_event_execution in a handler
  MaxConcurrent,   \* SCHEDULED_EVENT_MAX_CONCURRENT_TASKS
  MaxRuns,         \* bound: coroutines of _execute_event_task
  MaxAttempts,     \* bound: attempts of a claim
  MaxMishaps       \* bound: crashes, shutdowns and failing writes of records

ASSUME EventAssumption ==
  /\ Workers \cap Webs = {}
  /\ Callers \subseteq Workers \cup Webs
  /\ {MaxRuns, MaxAttempts, MaxMishaps} \subseteq Nat
  /\ MaxConcurrent \in Nat \ {0}
  /\ {None, Substitute} \cap (1 .. MaxRuns) = {} /\ None # Substitute

VARIABLES
  claim,    \* the claim files
  aged,     \* the last update of a claim is older than the timeout
  record,   \* status of the execution record of each run
  run,      \* the coroutines
  main,     \* what the process does outside of its runs
  mishaps   \* number of mishaps so far

store == <<claim, aged>>
vars == <<claim, aged, record, run, main, mishaps>>

Processes == Workers \cup Webs
Runs == 1 .. MaxRuns
Results == {"success", "failed"}

Statuses == {"none", "claimed", "running", "failed", "succeeded"}

(* Outside of its runs a process is down, starts, serves, or is within     *)
(* publish_event.                                                          *)
Recovering == [at : {"recovering"}, todo : SUBSET Runs]
Sweeping == [at : {"looking", "failing"}, todo : SUBSET Runs, swept : Runs]
Resuming == [at : {"resuming"}, todo : SUBSET Claims]
Publishing == [at : {"publishing"}, claim : Claims, force : BOOLEAN, seen : Statuses]

(* A run: waits for the semaphore, has marked its claim running, has its   *)
(* record and executes, has the result, has reported the record, is about  *)
(* to fail the claim; or is over, broken by an exception, lost in a crash. *)
Waiting == {"marked", "executing"}
Settling == {"ended", "reported", "failing"}
Running == Waiting \cup Settling
Points == {"free", "queued", "done", "broken", "lost"} \cup Running

TypeOK ==
  /\ \A c \in Claims :
       /\ claim[c].status \in Statuses
       /\ claim[c].attempt \in 0 .. MaxAttempts
       /\ claim[c].exec \in Runs \cup {None, Substitute}
  /\ aged \in [Claims -> BOOLEAN]
  /\ record \in [Runs -> {"none", "running"} \cup Results]
  /\ \A r \in Runs : /\ run[r].at \in Points
                     /\ run[r].at # "free" => /\ run[r].proc \in Processes
                                              /\ run[r].claim \in Claims
                                              /\ run[r].attempt \in 1 .. MaxAttempts
  /\ \A p \in Processes : main[p] \in [at : {"down", "up"}] \cup Recovering \cup Sweeping
                                        \cup Resuming \cup Publishing
  /\ mishaps \in 0 .. MaxMishaps

Down == [at |-> "down"]
Up == [at |-> "up"]

Init ==
  /\ claim = [c \in Claims |-> [status |-> "none", attempt |-> 0, exec |-> None]]
  /\ aged = [c \in Claims |-> FALSE]
  /\ record = [r \in Runs |-> "none"]
  /\ run = [r \in Runs |-> [at |-> "free"]]
  /\ main = [p \in Processes |-> Down]
  /\ mishaps = 0

-----------------------------------------------------------------------------
(* Helpers.                                                                *)

Live(r) == run[r].at \in {"queued"} \cup Running
RunsOf(c) == {r \in Runs : run[r].at # "free" /\ run[r].claim = c}
LiveRunsOf(c) == {r \in RunsOf(c) : Live(r)}
Within(p) == {r \in Runs : Live(r) /\ run[r].proc = p}

Pending(c) == claim[c].status \in {"claimed", "running"}
Settled(c) == claim[c].status \in {"failed", "succeeded"}

(* The event loop of the process is kept by code without an await.         *)
Busy(p) == main[p] # Up \/ \E r \in Within(p) : run[r].at \in Settling

Mishap == mishaps < MaxMishaps /\ mishaps' = mishaps + 1

(* mark_status writes whatever status it is given, and the execution if    *)
(* there is one; every write of a claim sets updated_at.                   *)
Mark(c, status, exec) ==
  /\ claim' = [claim EXCEPT ![c].status = status,
                            ![c].exec = IF exec = None THEN @ ELSE exec]
  /\ aged' = [aged EXCEPT ![c] = FALSE]

(* try_claim, retry_failed and reopen leave a claim of a new attempt.      *)
(* Two processes may take the same claim in turn: MaxAttempts bounds it.   *)
Reclaim(c) ==
  /\ claim[c].attempt < MaxAttempts
  /\ claim' = [claim EXCEPT ![c] = [status |-> "claimed", attempt |-> @.attempt + 1,
                                    exec |-> None]]
  /\ aged' = [aged EXCEPT ![c] = FALSE]

(* _track_event_task: the next coroutine, which waits for the semaphore.   *)
(* MaxRuns bounds them.                                                    *)
NextRun == CHOOSE r \in Runs : /\ run[r].at = "free"
                               /\ \A s \in Runs : run[s].at = "free" => r <= s

Track(p, c, attempt) ==
  /\ \E r \in Runs : run[r].at = "free"
  /\ run' = [run EXCEPT ![NextRun] = [at |-> "queued", proc |-> p, claim |-> c,
                                      attempt |-> attempt, result |-> "none"]]

Move(r, point) == run' = [run EXCEPT ![r].at = point]

-----------------------------------------------------------------------------
(* Processes.                                                              *)

(* A worker lists the records left running and then the claims; the web    *)
(* role does neither.                                                      *)
Boot(p) ==
  /\ main[p] = Down
  /\ main' = [main EXCEPT ![p] =
                IF p \in Webs THEN Up
                ELSE [at |-> "recovering", todo |-> {r \in Runs : record[r] = "running"}]]
  /\ UNCHANGED <<store, record, run, mishaps>>

(* _recover_interrupted_executions: the listed record is written failed,   *)
(* then its claim is read, and failed if it was pending.                   *)
Sweep(p, r) ==
  /\ main[p].at = "recovering" /\ r \in main[p].todo
  /\ record' = [record EXCEPT ![r] = "failed"]
  /\ main' = [main EXCEPT ![p] = [at |-> "looking", todo |-> @.todo \ {r}, swept |-> r]]
  /\ UNCHANGED <<store, run, mishaps>>

(* Mutant: every claim of an interrupted execution fails.                  *)
AnyClaim(c) == claim[c].status # "none"

Interrupted(c) == Pending(c)

LookAtClaim(p) ==
  /\ main[p].at = "looking"
  /\ main' = [main EXCEPT ![p] =
                IF Interrupted(run[@.swept].claim) THEN [@ EXCEPT !.at = "failing"]
                ELSE [at |-> "recovering", todo |-> @.todo]]
  /\ UNCHANGED <<store, record, run, mishaps>>

FailSwept(p) ==
  /\ main[p].at = "failing"
  /\ Mark(run[main[p].swept].claim, "failed", main[p].swept)
  /\ main' = [main EXCEPT ![p] = [at |-> "recovering", todo |-> @.todo]]
  /\ UNCHANGED <<record, run, mishaps>>

(* _resume_claimed_event_tasks: list_by_status, then each claim runs, or   *)
(* fails if its task has been disabled or does not match any more.         *)
(* Mutant: the claims that run are listed too.                             *)
ListPending == {c \in Claims : claim[c].status \in {"claimed", "running"}}

(* Mutant: none is listed.                                                 *)
ListNone == {c \in Claims : claim[c].status = "lost"}

Listed == {c \in Claims : claim[c].status = "claimed"}

List(p) ==
  /\ main[p].at = "recovering" /\ main[p].todo = {}
  /\ main' = [main EXCEPT ![p] = [at |-> "resuming", todo |-> Listed]]
  /\ UNCHANGED <<store, record, run, mishaps>>

Resume(p, c) ==
  /\ main[p].at = "resuming" /\ c \in main[p].todo
  /\ main' = [main EXCEPT ![p].todo = @ \ {c}]
  /\ \/ Track(p, c, claim[c].attempt) /\ UNCHANGED store
     \/ Mark(c, "failed", None) /\ UNCHANGED run
  /\ UNCHANGED <<record, mishaps>>

Serve(p) ==
  /\ main[p].at = "resuming" /\ main[p].todo = {}
  /\ main' = [main EXCEPT ![p] = Up]
  /\ UNCHANGED <<store, record, run, mishaps>>

(* A crash takes the runs of the process along.                            *)
Stopped(p) ==
  /\ run' = [r \in Runs |-> IF r \in Within(p) THEN [run[r] EXCEPT !.at = "lost"] ELSE run[r]]
  /\ main' = [main EXCEPT ![p] = Down]

Crash(p) ==
  /\ main[p] # Down
  /\ Mishap
  /\ Stopped(p)
  /\ UNCHANGED <<store, record>>

(* stop_async cancels the runs.  CancelledError passes the handlers; the   *)
(* finally of execute_task stores the record as it is, running, or failed  *)
(* when the publication of the conversation fails.                         *)
Stop(p) ==
  /\ ~ Busy(p)
  /\ Mishap
  /\ Stopped(p)
  /\ \E broken \in SUBSET {r \in Within(p) : run[r].at = "executing"} :
       record' = [r \in Runs |-> IF r \in broken THEN "failed" ELSE record[r]]
  /\ UNCHANGED store

-----------------------------------------------------------------------------
(* publish_event for one matching task: the claim is read, and then the    *)
(* call is chosen by what was read.                                        *)

Publish(p, c, force) ==
  /\ ~ Busy(p)
  /\ force => p \in Callers
  /\ claim[c].attempt < MaxAttempts
  /\ main' = [main EXCEPT ![p] = [at |-> "publishing", claim |-> c, force |-> force,
                                  seen |-> claim[c].status]]
  /\ UNCHANGED <<store, record, run, mishaps>>

(* fail_stale_running, whose result replaces what was read if it failed    *)
(* the claim; if not, the event is a duplicate.                            *)
FailStale(p) ==
  LET c == main[p].claim IN
  /\ main[p].at = "publishing" /\ main[p].force /\ main[p].seen = "running"
  /\ IF claim[c].status = "running" /\ aged[c]
     THEN Mark(c, "failed", None) /\ main' = [main EXCEPT ![p].seen = "failed"]
     ELSE main' = [main EXCEPT ![p] = Up] /\ UNCHANGED store
  /\ UNCHANGED <<record, run, mishaps>>

(* The status that retry_failed, reopen and try_claim ask for, the last    *)
(* two under the lock that also writes.                                    *)
Admits(seen, status) ==
  CASE seen = "failed" -> status = "failed"
    [] seen = "succeeded" -> status \in {"failed", "succeeded"}
    [] OTHER -> status = "none"

(* The claim is taken and its run tracked, without an await between; or    *)
(* the event is a duplicate, or retry_failed and reopen raise.             *)
Take(p) ==
  LET c == main[p].claim
      seen == main[p].seen
      wanted == seen = "none" \/ (main[p].force /\ seen \in {"failed", "succeeded"})
  IN
  /\ main[p].at = "publishing" /\ ~ (main[p].force /\ seen = "running")
  /\ main' = [main EXCEPT ![p] = Up]
  /\ IF wanted /\ Admits(seen, claim[c].status)
     THEN Reclaim(c) /\ Track(p, c, claim[c].attempt + 1)
     ELSE UNCHANGED <<store, run>>
  /\ UNCHANGED <<record, mishaps>>

-----------------------------------------------------------------------------
(* _execute_event_task.                                                    *)

(* The semaphore of the process, and mark_status running.                  *)
(* Mutant: a run keeps its slot.                                           *)
NeverFreed(p) ==
  Cardinality({r \in Runs : run[r].at \notin {"free", "queued"} /\ run[r].proc = p})
    < MaxConcurrent

SlotFree(p) == Cardinality({r \in Within(p) : run[r].at \in Running}) < MaxConcurrent

Start(r) ==
  /\ run[r].at = "queued" /\ ~ Busy(run[r].proc)
  /\ SlotFree(run[r].proc)
  /\ Mark(run[r].claim, "running", None)
  /\ Move(r, "marked")
  /\ UNCHANGED <<record, main, mishaps>>

(* No recipients: a failed record, then the claim.                         *)
NoRecipients(r) ==
  /\ run[r].at = "marked" /\ ~ Busy(run[r].proc)
  /\ record' = [record EXCEPT ![r] = "failed"]
  /\ Move(r, "failing")
  /\ UNCHANGED <<store, main, mishaps>>

(* execute_task creates the record and runs the agent.                     *)
Create(r) ==
  /\ run[r].at = "marked" /\ ~ Busy(run[r].proc)
  /\ record' = [record EXCEPT ![r] = "running"]
  /\ Move(r, "executing")
  /\ UNCHANGED <<store, main, mishaps>>

(* The agent or workflow ends, fails or runs into its timeout, the         *)
(* conversation is published, and the final state of the record is stored. *)
Finish(r, result) ==
  /\ run[r].at = "executing" /\ ~ Busy(run[r].proc)
  /\ record' = [record EXCEPT ![r] = result]
  /\ run' = [run EXCEPT ![r].at = "ended", ![r].result = result]
  /\ UNCHANGED <<store, main, mishaps>>

(* mark_status running again, with the execution of this run.              *)
Report(r) ==
  /\ run[r].at = "ended"
  /\ Mark(run[r].claim, "running", r)
  /\ Move(r, "reported")
  /\ UNCHANGED <<record, main, mishaps>>

(* Mutant: an execution that has returned has succeeded.                   *)
Returned(result) == "succeeded"

(* Mutant: the status of the execution is written as it is.                *)
SameWord(result) == result

Outcome(result) == IF result = "success" THEN "succeeded" ELSE "failed"

Settle(r) ==
  /\ run[r].at = "reported"
  /\ Mark(run[r].claim, Outcome(run[r].result), None)
  /\ Move(r, "done")
  /\ UNCHANGED <<record, main, mishaps>>

(* The claim fails, with the record of the run or its substitute.          *)
FailClaim(r) ==
  /\ run[r].at = "failing"
  /\ Mark(run[r].claim, "failed", IF record[r] = "failed" THEN r ELSE Substitute)
  /\ Move(r, "done")
  /\ UNCHANGED <<record, main, mishaps>>

(* The store of records refuses to create or to update: the handler of     *)
(* the service writes a failed record of its own, or that fails as well    *)
(* and the exception ends the run.                                         *)
RecordFails(r) ==
  /\ run[r].at \in Waiting /\ ~ Busy(run[r].proc)
  /\ Mishap
  /\ \/ Move(r, "failing")
     \/ Move(r, "broken")
  /\ UNCHANGED <<store, record, main>>

(* The timeout of the task has passed since the last update of its claim.  *)
Age(c) ==
  /\ claim[c].status = "running" /\ ~ aged[c]
  /\ aged' = [aged EXCEPT ![c] = TRUE]
  /\ UNCHANGED <<claim, record, run, main, mishaps>>

-----------------------------------------------------------------------------

MainStep(p) ==
  \/ LookAtClaim(p) \/ FailSwept(p) \/ List(p) \/ Serve(p) \/ FailStale(p) \/ Take(p)
  \/ \E r \in Runs : Sweep(p, r)
  \/ \E c \in Claims : Resume(p, c)

RunStep(r) ==
  \/ Start(r) \/ NoRecipients(r) \/ Create(r)
  \/ \E result \in Results : Finish(r, result)
  \/ Report(r) \/ Settle(r) \/ FailClaim(r)

Fault ==
  \/ \E p \in Processes : Crash(p) \/ Stop(p)
  \/ \E r \in Runs : RecordFails(r)

Next ==
  \/ \E p \in Processes : Boot(p) \/ MainStep(p)
  \/ \E p \in Processes, c \in Claims, force \in BOOLEAN : Publish(p, c, force)
  \/ \E r \in Runs : RunStep(r)
  \/ \E c \in Claims : Age(c)
  \/ Fault

Spec == Init /\ [][Next]_vars

(* A process that stopped is started again by its operator, and its code   *)
(* runs.  The event loop gives every ready run its turn, however many      *)
(* events are published meanwhile, and an execution ends by its timeout.   *)
(* Events, users and the clock owe nothing.                                *)
FairSpec ==
  /\ Spec
  /\ \A p \in Processes : WF_vars(Boot(p)) /\ WF_vars(MainStep(p))
  /\ \A r \in Runs : SF_vars(RunStep(r))

-----------------------------------------------------------------------------
(* Properties.                                                             *)

(* One attempt of a claim is executed at most once, over restarts, two     *)
(* publishers and manual runs (service.py:445 "exactly once per event";    *)
(* a retry is a new attempt, event_claim_storage.py:165).                  *)
AttemptRunsOnce ==
  \A c \in Claims : \A r, s \in RunsOf(c) :
    r # s /\ run[r].attempt = run[s].attempt => "none" \in {record[r], record[s]}

(* A claim that says succeeded names an execution whose record says        *)
(* success, and no settled claim names one that still runs: the claim and  *)
(* the record are two stores, written one after the other, by runs that    *)
(* may have been overtaken (service.py:581-593).                           *)
SettledHasResult ==
  \A c \in Claims :
    /\ claim[c].status = "succeeded" =>
         claim[c].exec \in Runs /\ record[claim[c].exec] = "success"
    /\ Settled(c) /\ claim[c].exec \in Runs => record[claim[c].exec] \in Results

(* A worker that serves has left nothing of its past behind: each claimed  *)
(* event has a run of this attempt, and no execution of a lost run is      *)
(* still marked running (service.py:107-135 and 201-229).                  *)
NothingLeftBehind ==
  (\A p \in Processes : main[p] = Up) =>
    /\ \A c \in Claims : claim[c].status = "claimed" =>
         \E r \in LiveRunsOf(c) : run[r].attempt = claim[c].attempt
    /\ \A r \in Runs : run[r].at = "lost" => record[r] # "running"

(* A success is kept: only a manual run, which is a new attempt, or a run  *)
(* of another attempt that was given up after its timeout and ends late,   *)
(* replaces it; a restart, which fails what it finds interrupted, does     *)
(* not (service.py:124, event_claim_storage.py:132 asks nobody).           *)
SuccessKept ==
  [][\A c \in Claims : claim[c].status = "succeeded" /\ claim'[c].status # "succeeded" =>
       \/ claim'[c].attempt > claim[c].attempt
       \/ \E r \in LiveRunsOf(c) : /\ run'[r] # run[r]
                                   /\ run[r].attempt # run[claim[c].exec].attempt]_vars

(* A pending claim is settled, unless nobody attends to it: it is marked   *)
(* running, no run of it lives and no record tells a restart of it.        *)
Abandoned(c) ==
  /\ claim[c].status = "running"
  /\ LiveRunsOf(c) = {}
  /\ \A r \in RunsOf(c) : run[r].at = "lost" => record[r] # "running"

ClaimSettles ==
  \A c \in Claims : Pending(c) ~> (Settled(c) \/ Abandoned(c))

(* service.py:445: "Match and execute enabled event tasks exactly once per *)
(* event."  Nobody asks for a manual run.                                  *)
OncePerEvent ==
  \A c \in Claims : Cardinality({r \in RunsOf(c) : record[r] # "none"}) <= 1
=============================================================================
