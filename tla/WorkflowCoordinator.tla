------------------------ MODULE WorkflowCoordinator ------------------------
(***************************************************************************)
(* One agent workflow from its first run to its last resume:               *)
(* agent/workflow/coordinator.py with the runs of agent/workflow/runtime.py *)
(* that it drives.  A coordinator is one asyncio program: the main task    *)
(* (run/_run), one task per started node (_run_node) and at times an API   *)
(* call (cancel).  A step is the code from one await to the next.          *)
(*                                                                         *)
(* The coordinator's fields live in co and die with its process; what the  *)
(* persist callback wrote last is saved, and a resume builds a new         *)
(* coordinator from it (__init__, _restore, _prepare_snapshot_resume).     *)
(* node_results is not a field of its own: a node has a result exactly     *)
(* when its graph status is succeeded.  Extensions, the node cache,        *)
(* findings, escalations, usage and lineage are left out.                  *)
(***************************************************************************)
EXTENDS Naturals, FiniteSets

CONSTANTS
  Nodes,            \* task ids of the definition
  Dependencies,     \* dependencies of each node
  AllowPartial,     \* nodes with dependency_policy allow_partial
  Required,         \* nodes with required = true
  Source,           \* source_task_id of the node's when, or NoNode
  NoNode,
  ResourceGaps,     \* nodes whose output misses its contract, not fatally
  MaxAttempts,      \* max_attempts of each node
  MaxRetries,       \* budget.max_retries
  MaxConcurrency,   \* limit of the governor
  Failures,         \* kinds of failure an execution may end with
  MaxStarts,        \* bound: coordinators built for this workflow
  MaxCrashes        \* bound: killed processes

(* What an exception of a node is to _run_node: worth a retry; an error of *)
(* the program; a model failure that stops the node, or stops it until a   *)
(* quota returns, at a known time or not.                                  *)
FailureKinds == {"transient", "local", "stop", "quota", "quota_untimed"}

(* A definition lists its nodes, and WorkflowGraph refuses a cycle.        *)
ASSUME CoordinatorAssumption ==
  /\ IsFiniteSet(Nodes)
  /\ Dependencies \in [Nodes -> SUBSET Nodes]
  /\ \A some \in (SUBSET Nodes) \ {{}} : \E n \in some : Dependencies[n] \cap some = {}
  /\ {AllowPartial, Required, ResourceGaps} \subseteq SUBSET Nodes
  /\ NoNode \notin Nodes
  /\ \A n \in Nodes : Source[n] \in Dependencies[n] \cup {NoNode}
  /\ MaxAttempts \in [Nodes -> Nat \ {0}]
  /\ MaxConcurrency \in Nat \ {0}
  /\ Failures \subseteq FailureKinds
  /\ {MaxRetries, MaxStarts, MaxCrashes} \subseteq Nat

VARIABLES
  co,           \* the coordinator and its runtime
  saved,        \* the last persisted snapshot
  main,         \* where the task of run() is
  task,         \* the asyncio task of each node
  cancelling,   \* node tasks on which Task.cancel() was called
  canceller,    \* where an API call of cancel() is
  trigger,      \* what built the current coordinator
  selects,      \* what each node's condition says of its source's result
  invoked,      \* history: executor calls of each node
  failure,      \* history: kind of the last failure of each node
  starts, crashes

vars == <<co, saved, main, task, cancelling, canceller, trigger, selects,
          invoked, failure, starts, crashes>>

-----------------------------------------------------------------------------
Settled == {"succeeded", "failed", "blocked", "skipped", "cancelled"}
Statuses == Settled \cup {"pending", "running"}
RunStatuses == {"queued", "running", "succeeded", "failed", "cancelled", "skipped", "partial"}
TERMINAL_STATUSES == RunStatuses \ {"queued", "running"}

Allowed ==
  [from \in RunStatuses |->
     CASE from = "queued" -> {"running", "cancelled", "skipped"}
       [] from = "running" -> {"succeeded", "failed", "cancelled", "partial"}
       [] from = "failed" -> {"queued", "cancelled"}
       [] OTHER -> {}]

Coordinator ==
  [status : {"queued", "running", "succeeded", "partial", "failed", "cancelled"},
   graph : [Nodes -> Statuses],
   run : [Nodes -> RunStatuses],      \* status of the node's WorkflowRun
   attempt : [Nodes -> Nat],
   limit : [Nodes -> Nat],            \* max_attempts of the node's run
   retryable : [Nodes -> BOOLEAN],    \* node_retryable, TRUE by default
   stopped : SUBSET Nodes,            \* node_failure_policies says stop_quota
   executions : [Nodes -> Nat],
   retries : Nat,                     \* budget_state.retries_used
   exhausted : BOOLEAN,
   quota : BOOLEAN,                   \* quota_pause is set
   cancel : BOOLEAN,                  \* cancel_requested
   wf : RunStatuses,                  \* the workflow's own run
   wfAttempt : Nat,
   wfLimit : Nat]

NewCoordinator ==
  [status |-> "queued",
   graph |-> [n \in Nodes |-> "pending"],
   run |-> [n \in Nodes |-> "queued"],
   attempt |-> [n \in Nodes |-> 0],
   limit |-> MaxAttempts,
   retryable |-> [n \in Nodes |-> TRUE],
   stopped |-> {},
   executions |-> [n \in Nodes |-> 0],
   retries |-> 0, exhausted |-> FALSE, quota |-> FALSE, cancel |-> FALSE,
   wf |-> "queued", wfAttempt |-> 0, wfLimit |-> 1]

(* A node task that waits for a slot of the governor is "queued"; it is    *)
(* "done" until the main task or a canceller removes it from _active_tasks.*)
Tasks == {"none", "created", "queued", "executing", "backoff", "done"}

TypeOK ==
  /\ {co, saved} \subseteq Coordinator
  /\ main \in {"off", "waiting", "cancelling", "stopping", "closing", "done"}
  /\ task \in [Nodes -> Tasks]
  /\ cancelling \in SUBSET Nodes
  /\ canceller \in {"none", "gathering"}
  /\ trigger \in {"submitted", "takeover", "resume", "quota"}
  /\ selects \in [Nodes -> {"yes", "no", "unknown"}]
  /\ invoked \in [Nodes -> Nat]
  /\ failure \in [Nodes -> FailureKinds \cup {"none"}]
  /\ {starts, crashes} \subseteq Nat

Init ==
  /\ co = NewCoordinator /\ saved = NewCoordinator
  /\ main = "off"
  /\ task = [n \in Nodes |-> "none"]
  /\ cancelling = {} /\ canceller = "none"
  /\ trigger = "submitted"
  /\ selects \in [Nodes -> {"yes", "no", "unknown"}]
  /\ \A n \in Nodes : (Source[n] = NoNode) => (selects[n] = "yes")
  /\ invoked = [n \in Nodes |-> 0]
  /\ failure = [n \in Nodes |-> "none"]
  /\ starts = 0 /\ crashes = 0

-----------------------------------------------------------------------------
(* WorkflowRuntime.                                                        *)

(* Mutant: start leaves a failed run as it is.                             *)
StartableOnce(c, n) == c.run[n] = "queued"

Startable(c, n) ==
  \/ c.run[n] = "queued"
  \/ c.run[n] = "failed" /\ c.attempt[n] < c.limit[n]

(* start: a failed run goes through retry, queued, running.                *)
StartRun(c, n) ==
  IF Startable(c, n)
    THEN [c EXCEPT !.run[n] = "running", !.attempt[n] = @ + 1]
    ELSE c

StartWorkflowRun(c) ==
  IF c.wf = "queued" \/ (c.wf = "failed" /\ c.wfAttempt < c.wfLimit)
    THEN [c EXCEPT !.wf = "running", !.wfAttempt = @ + 1]
    ELSE c

(* transition of a node's run, refused unless Allowed (RunsFollowNodes).   *)
Transition(c, n, status) ==
  [c EXCEPT !.run[n] = IF status \in Allowed[@] THEN status ELSE @]

(* transition of the workflow's run to a final status: where the runtime   *)
(* refuses it, the coordinator logs the error and goes on.                 *)
EndWorkflowRun(c, status) ==
  [c EXCEPT !.wf = IF status \in Allowed[@] THEN status ELSE @]

(* Mutant: the run gets the name of the event as its status.               *)
CancelRunRequested(c, n) ==
  [c EXCEPT !.run[n] = IF @ \in TERMINAL_STATUSES THEN @ ELSE "cancel_requested"]

(* request_cancel of one run.                                              *)
CancelRun(c, n) ==
  [c EXCEPT !.run[n] = IF @ \in TERMINAL_STATUSES THEN @ ELSE "cancelled"]

-----------------------------------------------------------------------------
(* _ready_tasks.                                                           *)

Idle == {n \in Nodes : task[n] = "none"}

With(c, n, statuses) == \E d \in Dependencies[n] : c.graph[d] \in statuses

Resolvable(c, idle) ==
  {n \in idle : c.graph[n] = "pending" /\ ~With(c, n, {"pending", "running"})}

(* Mutant: allow_partial runs whatever became of its dependencies.         *)
BlockedStrictly(c, n) == n \notin AllowPartial /\ With(c, n, {"failed", "blocked", "cancelled"})

(* "dependency failed" or "no successful upstream evidence".               *)
BlockedBy(c, n) ==
  IF n \in AllowPartial
    THEN ~With(c, n, {"succeeded"}) /\ With(c, n, Settled \ {"succeeded", "skipped"})
    ELSE With(c, n, {"failed", "blocked", "cancelled"})

SkippedBy(c, n) ==
  /\ ~BlockedBy(c, n)
  /\ With(c, n, {"skipped"})
  /\ n \in AllowPartial => ~With(c, n, {"succeeded"})

Routed(c, n) == Source[n] # NoNode /\ ~BlockedBy(c, n) /\ ~SkippedBy(c, n)

(* evaluate_condition raises when the evidence is missing.                 *)
Unroutable(c, n) ==
  Routed(c, n) /\ (c.graph[Source[n]] # "succeeded" \/ selects[n] = "unknown")

(* Mutant: what the condition says is noted but not acted upon.            *)
UnselectedIgnored(c, n) == Routed(c, n) /\ Unroutable(c, n) /\ selects[n] = "no"

Unselected(c, n) == Routed(c, n) /\ ~Unroutable(c, n) /\ selects[n] = "no"

(* One pass of the loop over the nodes.                                    *)
Resolve(c, idle) ==
  LET here == Resolvable(c, idle)
      blocked == {n \in here : BlockedBy(c, n)}
      skipped == {n \in here : SkippedBy(c, n) \/ Unselected(c, n)}
      failed == {n \in here : Unroutable(c, n)}
  IN  [c EXCEPT
        !.graph = [n \in Nodes |-> IF n \in blocked THEN "blocked"
                                   ELSE IF n \in skipped THEN "skipped"
                                   ELSE IF n \in failed THEN "failed" ELSE @[n]],
        !.run = [n \in Nodes |-> IF n \in skipped THEN Transition(c, n, "skipped").run[n]
                                 ELSE IF n \in failed
                                 THEN Transition(StartRun(c, n), n, "failed").run[n] ELSE @[n]],
        !.attempt = [n \in Nodes |-> IF n \in failed /\ Startable(c, n) THEN @[n] + 1 ELSE @[n]],
        !.retryable = [n \in Nodes |-> n \notin failed /\ @[n]]]

(* while changed.                                                          *)
Resolved(c, idle) ==
  LET pass[k \in 0..Cardinality(Nodes)] ==
        IF k = 0 THEN c ELSE Resolve(pass[k - 1], idle)
  IN  pass[Cardinality(Nodes)]

PolicyMet(c, n) ==
  IF n \in AllowPartial
    THEN ~With(c, n, {"pending", "running"})
    ELSE ~With(c, n, Statuses \ {"succeeded"})

Ready(c, idle) == {n \in idle : c.graph[n] = "pending" /\ PolicyMet(c, n)}

-----------------------------------------------------------------------------
(* _run: the scheduling loop.                                              *)

AllNodesSettled(c) ==
  \A n \in Nodes : c.graph[n] \in {"succeeded", "skipped", "failed", "blocked"}

(* Mutant: a failed optional node does not make the result partial.        *)
StatusWithoutGaps(c) ==
  IF \E n \in Required : c.graph[n] \in {"failed", "blocked"} THEN "failed" ELSE "succeeded"

(* The final status; the last two branches of the loop end in "failed".    *)
FinalStatus(c) ==
  LET results == {n \in Nodes : c.graph[n] = "succeeded"}
      missing == {n \in Nodes : c.graph[n] \in {"failed", "blocked"}}
      gaps == missing \cup (results \cap ResourceGaps)
  IN  IF \/ ~AllNodesSettled(c)
         \/ missing \cap Required # {}
         \/ c.exhausted
         \/ gaps # {} /\ results = {}
        THEN "failed"
        ELSE IF gaps # {} THEN "partial" ELSE "succeeded"

Finished(c) == EndWorkflowRun([c EXCEPT !.status = FinalStatus(c)], FinalStatus(c))

(* The end of cancel(): request_cancel cascades to every open run, and     *)
(* _cancel_pending cancels what never started.                             *)
Cancelled(c) ==
  [c EXCEPT
    !.status = "cancelled",
    !.wf = IF @ \in TERMINAL_STATUSES THEN @ ELSE "cancelled",
    !.run = [n \in Nodes |-> IF @[n] \in TERMINAL_STATUSES THEN @[n] ELSE "cancelled"],
    !.graph = [n \in Nodes |-> IF @[n] = "pending" THEN "cancelled" ELSE @[n]]]

Persist(c) == co' = c /\ saved' = c

(* From the top of the loop to its next await: cancel, start what is ready *)
(* and wait, or finish.  left are the tasks still in _active_tasks.        *)
Loop(c, left) ==
  \/ /\ c.cancel
     /\ left # {}
     /\ co' = c /\ UNCHANGED saved
     /\ cancelling' = left
     /\ task' = [n \in Nodes |-> IF n \in left THEN task[n] ELSE "none"]
     /\ main' = "cancelling"
  \/ /\ c.cancel
     /\ left = {}
     /\ Persist(Cancelled(c))
     /\ cancelling' = {}
     /\ task' = [n \in Nodes |-> "none"]
     /\ main' = "stopping"
  \/ /\ ~c.cancel
     /\ LET r == Resolved(c, Nodes \ left)
            ready == Ready(r, Nodes \ left)
        IN  /\ task' = [n \in Nodes |-> IF n \in ready THEN "created"
                                        ELSE IF n \in left THEN task[n] ELSE "none"]
            /\ IF left \cup ready # {}
                 THEN Persist(r) /\ main' = "waiting"
                 ELSE Persist(Finished(r)) /\ main' = "stopping"
     /\ UNCHANGED cancelling

(* asyncio.wait returns with every task that is done by then.              *)
Wake ==
  /\ main = "waiting"
  /\ \/ \E n \in Nodes : task[n] = "done"
     \/ Idle = Nodes
  /\ Loop(co, {n \in Nodes : task[n] \notin {"none", "done"}})
  /\ UNCHANGED <<canceller, trigger, selects, invoked, failure, starts, crashes>>

(* The gather of cancel(), called by the main task itself.                 *)
CancelEnds ==
  /\ main = "cancelling"
  /\ \A n \in Nodes : task[n] \in {"none", "done"}
  /\ Loop(co, {})
  /\ UNCHANGED <<canceller, trigger, selects, invoked, failure, starts, crashes>>

-----------------------------------------------------------------------------
(* _run_node: the task of one node.                                        *)

Body == <<main, canceller, trigger, selects, starts, crashes>>

At(n, t) == task' = [task EXCEPT ![n] = t]

Executing == {n \in Nodes : task[n] = "executing"}

(* Mutant: a slot that nobody gets.                                        *)
LastSlotKept == Cardinality(Executing) + 1 < MaxConcurrency

SlotFree == Cardinality(Executing) < MaxConcurrency

Retrying(c, n, kind) == kind = "transient" /\ c.attempt[n] < c.limit[n]

(* The handler of an exception.  The runtime persists when the run fails,  *)
(* before the verdict on the failure is noted.                             *)
Fails(c, n, kind) ==
  LET seen == Transition(c, n, "failed")
      policy == [seen EXCEPT
                   !.retryable[n] = Retrying(c, n, kind),
                   !.stopped = CASE kind \in {"quota", "quota_untimed"} -> @ \cup {n}
                                 [] kind = "stop" -> @ \ {n}
                                 [] OTHER -> @,
                   !.quota = @ \/ kind = "quota"]
  IN  /\ saved' = seen
      /\ failure' = [failure EXCEPT ![n] = kind]
      /\ IF Retrying(c, n, kind)
           THEN co' = policy /\ At(n, "backoff")
           ELSE co' = [policy EXCEPT !.graph[n] = "failed"] /\ At(n, "done")

(* Mutant: a node is counted as executed only when it has returned.        *)
ExecuteUncounted(c, n) ==
  /\ Persist(c)
  /\ invoked' = [invoked EXCEPT ![n] = @ + 1]
  /\ At(n, "executing")
  /\ UNCHANGED failure

(* Inside the governor: the workflow's retry budget, then the executor.    *)
Execute(c, n) ==
  IF c.executions[n] > 0 /\ c.retries >= MaxRetries
    THEN /\ Fails([c EXCEPT !.exhausted = TRUE], n, "local")
         /\ UNCHANGED invoked
    ELSE /\ Persist([c EXCEPT !.executions[n] = @ + 1,
                              !.retries = @ + (IF c.executions[n] > 0 THEN 1 ELSE 0)])
         /\ invoked' = [invoked EXCEPT ![n] = @ + 1]
         /\ At(n, "executing")
         /\ UNCHANGED failure

Begun(n) == StartRun([co EXCEPT !.graph[n] = "running"], n)

(* The node takes a slot of the governor at once, or waits for one;        *)
(* runtime.start persists when it starts the run.                          *)
NodeStart(n) ==
  /\ task[n] = "created" /\ n \notin cancelling
  /\ IF SlotFree
       THEN Execute(Begun(n), n)
       ELSE /\ co' = Begun(n)
            /\ saved' = IF Startable(co, n) THEN Begun(n) ELSE saved
            /\ At(n, "queued")
            /\ UNCHANGED <<invoked, failure>>
  /\ UNCHANGED <<cancelling, Body>>

(* A fatal violation of the node's input contracts.                        *)
ContractFails(n) ==
  /\ task[n] = "created" /\ n \notin cancelling
  /\ "local" \in Failures
  /\ Dependencies[n] # {}
  /\ Fails(Begun(n), n, "local")
  /\ UNCHANGED <<invoked, cancelling, Body>>

Acquire(n) ==
  /\ task[n] = "queued" /\ n \notin cancelling
  /\ SlotFree
  /\ Execute(co, n)
  /\ UNCHANGED <<cancelling, Body>>

Return(n) ==
  /\ task[n] = "executing" /\ n \notin cancelling
  /\ Persist([Transition(co, n, "succeeded") EXCEPT
                !.graph[n] = "succeeded", !.retryable[n] = TRUE])
  /\ At(n, "done")
  /\ UNCHANGED <<invoked, failure, cancelling, Body>>

Fail(n) ==
  /\ task[n] = "executing" /\ n \notin cancelling
  /\ \E kind \in Failures : Fails(co, n, kind)
  /\ UNCHANGED <<invoked, cancelling, Body>>

BackoffEnds(n) ==
  /\ task[n] = "backoff" /\ n \notin cancelling
  /\ Persist(StartRun([co EXCEPT !.graph[n] = "pending"], n))
  /\ At(n, "done")
  /\ UNCHANGED <<invoked, failure, cancelling, Body>>

(* except asyncio.CancelledError.                                          *)
CancelledNode(c, n) ==
  IF c.cancel
    THEN CancelRun([c EXCEPT !.graph[n] = "cancelled"], n)
    ELSE [c EXCEPT !.graph[n] = "pending"]

(* CancelledError reaches the node: a task that has not begun never runs,  *)
(* and the sleep of the backoff is outside the try statement.              *)
Interrupted(n) ==
  /\ n \in cancelling
  /\ task[n] \notin {"none", "done"}
  /\ IF task[n] \in {"queued", "executing"}
       THEN Persist(CancelledNode(co, n))
       ELSE UNCHANGED <<co, saved>>
  /\ At(n, "done")
  /\ cancelling' = cancelling \ {n}
  /\ UNCHANGED <<invoked, failure, Body>>

-----------------------------------------------------------------------------
(* cancel, called by the API while the coordinator is registered.          *)

Unfinished == {n \in Nodes : task[n] \notin {"none", "done"}}

(* Mutant: cancel reaches only the nodes that hold a slot.                 *)
InterruptExecuting == Executing

Interruptible == Unfinished

Cancel ==
  /\ main # "off" /\ canceller = "none"
  /\ LET c == [co EXCEPT !.cancel = TRUE]
     IN  IF Idle = Nodes
           THEN Persist(Cancelled(c)) /\ UNCHANGED <<cancelling, canceller>>
           ELSE /\ co' = c /\ UNCHANGED saved
                /\ cancelling' = cancelling \cup Interruptible
                /\ canceller' = "gathering"
  /\ UNCHANGED <<main, task, trigger, selects, invoked, failure, starts, crashes>>

CancelFinishes ==
  /\ canceller = "gathering"
  /\ Unfinished = {}
  /\ task' = [n \in Nodes |-> "none"]
  /\ Persist(Cancelled(co))
  /\ canceller' = "none"
  /\ UNCHANGED <<main, cancelling, trigger, selects, invoked, failure, starts, crashes>>

-----------------------------------------------------------------------------
(* run: the end of the main task.                                          *)

Coroutines == <<task, canceller, trigger, selects, invoked, failure, starts, crashes>>

(* asyncio.timeout over _run: the workflow's budget of active time.        *)
Timeout ==
  /\ main \in {"waiting", "cancelling"}
  /\ LET c == [co EXCEPT !.exhausted = TRUE, !.status = "failed"]
     IN  IF c.wf \in TERMINAL_STATUSES
           THEN co' = c /\ UNCHANGED saved
           ELSE Persist(EndWorkflowRun(c, "failed"))
  /\ main' = "stopping"
  /\ UNCHANGED <<cancelling, Coroutines>>

(* The parent's task is cancelled: shutdown, or a lost lease.              *)
Shutdown ==
  /\ main \in {"waiting", "cancelling"}
  /\ main' = "stopping"
  /\ UNCHANGED <<co, saved, cancelling, Coroutines>>

(* finally: once the stall watch has stopped, no node task is left behind. *)
Close ==
  /\ main = "stopping"
  /\ cancelling' = cancelling \cup Unfinished
  /\ main' = "closing"
  /\ UNCHANGED <<co, saved, Coroutines>>

Finish ==
  /\ main = "closing"
  /\ Unfinished = {}
  /\ Persist([co EXCEPT !.graph = [n \in Nodes |->
        IF co.exhausted /\ @[n] = "pending" THEN "blocked" ELSE @[n]]])
  /\ task' = [n \in Nodes |-> "none"]
  /\ main' = "done"
  /\ UNCHANGED <<cancelling, canceller, trigger, selects, invoked, failure, starts, crashes>>

(* The registry and the caller let the coordinator go.                     *)
Unregister ==
  /\ main = "done" /\ canceller = "none"
  /\ main' = "off" /\ co' = saved
  /\ UNCHANGED <<saved, cancelling, Coroutines>>

Crash ==
  /\ main # "off"
  /\ crashes < MaxCrashes
  /\ crashes' = crashes + 1
  /\ main' = "off" /\ co' = saved
  /\ task' = [n \in Nodes |-> "none"]
  /\ cancelling' = {} /\ canceller' = "none"
  /\ UNCHANGED <<saved, trigger, selects, invoked, failure, starts>>
-----------------------------------------------------------------------------
(* A new coordinator over the last snapshot.                               *)

(* _restore, and the statuses the runs carry.                              *)
Restored(c) ==
  [c EXCEPT !.graph = [n \in Nodes |->
     IF c.run[n] \in {"succeeded", "failed", "cancelled"} THEN c.run[n]
     ELSE IF @[n] = "running" THEN "pending" ELSE @[n]]]

Paused(c, n) == c.quota /\ n \in c.stopped

(* Mutant: a node that a quota stopped is reset whatever became of it.     *)
AgainWhenPaused(c, n) ==
  \/ c.graph[n] = "blocked"
  \/ Paused(c, n)
  \/ c.graph[n] = "failed" /\ c.retryable[n] /\ c.attempt[n] < c.limit[n]

(* The nodes that _prepare_snapshot_resume makes pending.                  *)
Again(c, n) ==
  \/ c.graph[n] = "blocked"
  \/ /\ c.graph[n] = "failed"
     /\ Paused(c, n) \/ (c.retryable[n] /\ c.attempt[n] < c.limit[n])

Bigger(a, b) == IF a < b THEN b ELSE a

Reopened(c) ==
  IF c.wf = "partial"
    THEN [c EXCEPT !.status = "queued", !.wf = "queued", !.wfAttempt = 0, !.wfLimit = 1]
    ELSE [c EXCEPT !.status = "queued", !.wfLimit = Bigger(@, 2)]

(* _prepare_snapshot_resume.                                               *)
Prepared(c) ==
  LET p == [c EXCEPT
              !.graph = [n \in Nodes |-> IF Again(c, n) THEN "pending" ELSE @[n]],
              !.retryable = [n \in Nodes |-> @[n] \/ Paused(c, n)],
              !.limit = [n \in Nodes |->
                IF c.graph[n] = "failed" /\ Paused(c, n) /\ c.run[n] = "failed"
                  THEN Bigger(@[n], c.attempt[n] + 1) ELSE @[n]]]
  IN  IF c.cancel \/ c.status = "cancelled" \/ c.exhausted
        THEN c
        ELSE IF c.status \in {"failed", "partial"} /\ \E n \in Nodes : p.graph[n] = "pending"
        THEN Reopened(p)
        ELSE p

(* _has_retryable_nodes of the resume route.                               *)
HasRetryableNodes(c) ==
  \E n \in Nodes : c.run[n] = "failed" /\ c.retryable[n] /\ c.attempt[n] < c.limit[n]

(* Who builds a coordinator: the first job, a worker that takes over a job *)
(* whose lease expired, the resume route, the scan of paused workflows.    *)
MayStart(by) ==
  CASE by = "submitted" -> starts = 0
    [] by = "takeover" -> starts > 0 /\ saved.status \in {"queued", "running"}
    [] by = "resume" ->
         /\ starts > 0
         /\ ~saved.exhausted
         /\ saved.status \in {"failed", "partial", "running", "queued"}
         /\ saved.status \in {"failed", "partial"} => (saved.quota \/ HasRetryableNodes(saved))
    [] by = "quota" ->
         starts > 0 /\ saved.quota /\ saved.status # "cancelled" /\ ~saved.exhausted

(* __init__ and run up to its first await.                                 *)
Start(by) ==
  /\ main = "off" /\ starts < MaxStarts
  /\ MayStart(by)
  /\ LET c == Prepared(Restored(saved))
     IN  \/ /\ c.exhausted
            /\ main' = "done" /\ co' = c
            /\ UNCHANGED <<saved, task, cancelling>>
         \/ /\ ~c.exhausted /\ c.status \in {"succeeded", "partial"}
            /\ main' = "stopping" /\ co' = c
            /\ UNCHANGED <<saved, task, cancelling>>
         \/ /\ ~c.exhausted /\ c.status \notin {"succeeded", "partial"}
            /\ Loop(StartWorkflowRun([c EXCEPT !.status = "running"]), {})
  /\ trigger' = by
  /\ starts' = starts + 1
  /\ UNCHANGED <<canceller, selects, invoked, failure, crashes>>

-----------------------------------------------------------------------------
Node(n) ==
  \/ NodeStart(n) \/ ContractFails(n) \/ Acquire(n)
  \/ Return(n) \/ Fail(n) \/ BackoffEnds(n) \/ Interrupted(n)

Main == Wake \/ CancelEnds \/ Close \/ Finish

Next ==
  \/ Main
  \/ \E n \in Nodes : Node(n)
  \/ Cancel \/ CancelFinishes
  \/ Timeout \/ Shutdown
  \/ Unregister \/ Crash
  \/ \E by \in {"submitted", "takeover", "resume", "quota"} : Start(by)

Spec == Init /\ [][Next]_vars

(* The event loop runs every task that can go on; executors return, and a  *)
(* waiter of the governor's semaphore gets a slot in its turn.             *)
FairSpec ==
  /\ Spec
  /\ WF_vars(Main)
  /\ WF_vars(CancelFinishes)
  /\ \A n \in Nodes : WF_vars(Node(n))

(* A node executes only with the evidence its definition asks for: all its *)
(* dependencies succeeded, or (allow_partial) all settled and at least one *)
(* succeeded; and its condition selected it.  _ready_tasks decides this in *)
(* one step and the node begins, waits for a slot and executes in later    *)
(* ones, after failures, retries, crashes and resumes (coordinator.py:479).*)
EvidenceBeforeExecution ==
  \A n \in Executing :
    LET succeeded == {d \in Dependencies[n] : co.graph[d] = "succeeded"}
    IN  /\ IF n \in AllowPartial
             THEN /\ ~With(co, n, {"pending", "running"})
                  /\ (Dependencies[n] # {}) => (succeeded # {})
             ELSE succeeded = Dependencies[n]
        /\ (Source[n] # NoNode) => (Source[n] \in succeeded /\ selects[n] = "yes")

(* The graph and the runtime are two ledgers of the same nodes, written at *)
(* different lines.  They agree on every settled node and on every node    *)
(* that executes, so the runtime never refuses a transition with           *)
(* ValueError in the middle of a step (runtime.py:203).                    *)
RunsFollowNodes ==
  \A n \in Nodes :
    /\ n \in Executing => (co.graph[n] = "running" /\ co.run[n] = "running")
    /\ co.graph[n] \in {"succeeded", "skipped", "failed"} => (co.run[n] = co.graph[n])
    /\ co.graph[n] = "blocked" => (co.run[n] \notin {"succeeded", "skipped"})

(* Only a user's cancel is terminal: a shutdown, a timeout or a crash      *)
(* cancels no node, no run and no workflow, in memory or in the snapshot   *)
(* (coordinator.py:911).                                                   *)
OnlyCancelIsTerminal ==
  \A c \in {co, saved} :
    ~c.cancel => /\ "cancelled" \notin {c.status, c.wf}
                 /\ \A n \in Nodes : "cancelled" \notin {c.graph[n], c.run[n]}

(* Each final status is earned.  A run that ends by itself has settled     *)
(* every node, and its status is what the delivery promises: succeeded has *)
(* no gap; partial has every required node, at least one result and a gap; *)
(* failed misses a required node or has nothing to deliver                 *)
(* (coordinator.py:625).  And only a user's cancel cancels.                *)
StatusMatchesGraph ==
  LET results == {n \in Nodes : co.graph[n] = "succeeded"}
      missing == {n \in Nodes : co.graph[n] \in {"failed", "blocked"}}
      gaps == missing \cup (results \cap ResourceGaps)
  IN  /\ (main \in {"stopping", "closing", "done"} /\ ~co.exhausted /\ ~co.cancel)
           => /\ co.status = "succeeded" => (gaps = {} /\ AllNodesSettled(co))
              /\ co.status = "partial" =>
                   (gaps # {} /\ missing \cap Required = {} /\ results # {} /\ AllNodesSettled(co))
              /\ co.status = "failed" =>
                   ((missing \cap Required # {} \/ results = {}) /\ AllNodesSettled(co))
      /\ OnlyCancelIsTerminal

(* A result that was saved is never lost and its node never executes       *)
(* again, whatever fails, crashes or is resumed later.                     *)
ResultsKept ==
  [][\A n \in Nodes : saved.graph[n] = "succeeded"
       => (saved'.graph[n] = "succeeded" /\ invoked'[n] = invoked[n])]_vars

(* The executions of a node after its first, one by one.                   *)
Repeats == UNION {{n} \X (2 .. invoked[n]) : n \in Nodes}

(* The budget of repeated executions holds over the whole life of the      *)
(* workflow: its counters are saved before the executor is called, so a    *)
(* crash or a resume does not refund them (coordinator.py:836).            *)
RetryBudget == Cardinality(Repeats) <= MaxRetries

(* Once cancel() has set cancel_requested this coordinator calls no        *)
(* executor again: not from tasks created before, nor from tasks that wait *)
(* for a slot of the governor (coordinator.py:665).                        *)
NoWorkAfterCancel == [][co.cancel => (invoked' = invoked)]_vars

(* run() returns: no wait for a slot, gather or final clean-up hangs.      *)
RunReturns == (main \notin {"off", "done"}) ~> (main \in {"off", "done"})

(* What the sources say and the code does not do.                          *)

(* "explicit user cancel is terminal" (coordinator.py:911): a cancelled    *)
(* workflow leaves no node pending or running.                             *)
CancelledGraphSettled ==
  (main = "done" /\ co.status = "cancelled") =>
    \A n \in Nodes : co.graph[n] \in Settled

(* "The durable source remains ``WorkflowRuntime`` in the session          *)
(* snapshot" (background_tasks.py): the run of a workflow that has         *)
(* succeeded says so.                                                      *)
RunMatchesStatus ==
  (main = "done" /\ co.status = "succeeded") => (co.wf = "succeeded")

(* Local failures (parameters, types, permissions) are not retried without *)
(* a user's request (workflow/README.md).                                  *)
LocalFailuresNotRetried ==
  [][\A n \in Nodes :
       (failure[n] = "local" /\ invoked'[n] > invoked[n]) => (trigger = "resume")]_vars
=============================================================================
