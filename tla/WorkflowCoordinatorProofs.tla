----------------------- MODULE WorkflowCoordinatorProofs -----------------------
(***************************************************************************)
(* Proofs about WorkflowCoordinator, for any finite acyclic workflow, any  *)
(* policies, routes and resource gaps, any failures and any values of the  *)
(* bounds.                                                                 *)
(*                                                                         *)
(* The coordinator keeps two ledgers of a node, its status in the graph    *)
(* and its run, beside the task that executes it, and saves all of it at   *)
(* every step, so that the next run can restore it.  The invariant says    *)
(* what each of the three owes to the others (Ledger, TaskOK), that the    *)
(* copy which is saved obeys the same rules (Sound) and holds no result    *)
(* the coordinator does not have (Kept), and which tasks are told to stop  *)
(* (Control).  Two arguments carry it: a node is ready only when no pass   *)
(* of _ready_tasks can resolve it any more, which |Nodes| passes achieve   *)
(* (ResolvedQuiet), and an acyclic graph in which nothing is ready or      *)
(* running is settled (NothingReady).                                      *)
(*                                                                         *)
(* The budget of retries has an invariant of its own (Counted): what is    *)
(* saved before an executor is called counts every call made so far.       *)
(***************************************************************************)
EXTENDS WorkflowCoordinator, WellFoundedInduction, FiniteSetTheorems, TLAPS

-----------------------------------------------------------------------------
(* What is invariant of a coordinator.                                     *)

(* The states of a task that has not ended.                                *)
Unended == {"created", "queued", "executing", "backoff"}

(* What a node needs before an executor may be called for it: its          *)
(* dependencies succeeded, or some of them if it takes a partial result,   *)
(* and its route selected it.                                              *)
Earned(c, n, sel) ==
  /\ IF n \in AllowPartial
       THEN Dependencies[n] # {} => With(c, n, {"succeeded"})
       ELSE \A d \in Dependencies[n] : c.graph[d] = "succeeded"
  /\ Source[n] # NoNode => c.graph[Source[n]] = "succeeded" /\ sel[n] = "yes"

(* The status of a node agrees with its run; a node that has begun, was    *)
(* interrupted, may be retried or stopped has earned its execution.        *)
Ledger(c, n, sel) ==
  /\ c.graph[n] \in {"succeeded", "skipped", "failed"} => c.run[n] = c.graph[n]
  /\ c.graph[n] \in {"pending", "blocked"} =>
       c.run[n] = "running" \/ Startable(c, n) \/ (c.cancel /\ c.run[n] = "cancelled")
  /\ c.graph[n] = "running" =>
       c.run[n] \in {"running", "failed"} \/ (c.cancel /\ c.run[n] = "cancelled")
  /\ c.graph[n] \in {"pending", "blocked", "running", "cancelled"}
     /\ c.run[n] \notin {"queued", "cancelled"} =>
       Earned(c, n, sel)
  /\ (c.graph[n] = "failed" /\ c.retryable[n]) \/ n \in c.stopped => Earned(c, n, sel)

(* Nothing is cancelled before a cancel.                                   *)
CancelOnly(c) ==
  ~c.cancel => /\ "cancelled" \notin {c.status, c.wf}
               /\ \A n \in Nodes : "cancelled" \notin {c.graph[n], c.run[n]}

(* The workflow may still execute nodes, or how it ends is settled.        *)
Open(c) == c.status \in {"queued", "running"} \/ c.exhausted \/ c.cancel

(* A final status is earned by the nodes, as in StatusMatchesGraph.        *)
Delivered(c) ==
  LET results == {n \in Nodes : c.graph[n] = "succeeded"}
      missing == {n \in Nodes : c.graph[n] \in {"failed", "blocked"}}
      gaps == missing \cup (results \cap ResourceGaps)
  IN  ~c.exhausted /\ ~c.cancel =>
        /\ c.status = "succeeded" => (gaps = {} /\ AllNodesSettled(c))
        /\ c.status = "partial" =>
             (gaps # {} /\ missing \cap Required = {} /\ results # {} /\ AllNodesSettled(c))
        /\ c.status = "failed" =>
             ((missing \cap Required # {} \/ results = {}) /\ AllNodesSettled(c))

(* What holds of the coordinator in memory and of the one that is saved.   *)
Sound(c, sel) ==
  /\ c \in Coordinator
  /\ \A n \in Nodes : Ledger(c, n, sel)
  /\ CancelOnly(c)
  /\ Delivered(c)

(* d has every result that c has.                                          *)
Kept(c, d) == \A n \in Nodes : c.graph[n] = "succeeded" => d.graph[n] = "succeeded"

-----------------------------------------------------------------------------
(* The frame: a step owes the ledgers only to the nodes it touches.        *)

(* The types of the fields of a coordinator.                               *)
LEMMA FieldTypes ==
  ASSUME NEW c \in Coordinator
  PROVE  /\ c.graph \in [Nodes -> Statuses]
         /\ c.run \in [Nodes -> RunStatuses]
         /\ c.attempt \in [Nodes -> Nat]
         /\ c.limit \in [Nodes -> Nat]
         /\ c.retryable \in [Nodes -> BOOLEAN]
         /\ c.stopped \in SUBSET Nodes
         /\ c.executions \in [Nodes -> Nat]
         /\ c.retries \in Nat
         /\ c.wf \in RunStatuses
         /\ c.wfAttempt \in Nat
         /\ c.wfLimit \in Nat
  BY DEF Coordinator

(* An execution stays earned while results are kept.                       *)
LEMMA EarnedKept ==
  ASSUME NEW c, NEW d, NEW sel, NEW n \in Nodes,
         Kept(c, d), Earned(c, n, sel)
  PROVE  Earned(d, n, sel)
  BY CoordinatorAssumption DEF Kept, Earned, With

(* A node that is left alone keeps its ledger.                             *)
LEMMA LedgerFrame ==
  ASSUME NEW c \in Coordinator, NEW d \in Coordinator, NEW sel, NEW n \in Nodes,
         Kept(c, d), Ledger(c, n, sel),
         d.graph[n] = c.graph[n], d.run[n] = c.run[n], d.attempt[n] = c.attempt[n],
         d.limit[n] = c.limit[n], d.retryable[n] = c.retryable[n],
         (n \in d.stopped) = (n \in c.stopped), c.cancel => d.cancel
  PROVE  Ledger(d, n, sel)
<1>1. Earned(c, n, sel) => Earned(d, n, sel)
  BY EarnedKept
<1> QED BY <1>1 DEF Ledger, Startable

(* A step that leaves the nodes alone and reopens the status, or keeps it. *)
LEMMA SameNodes ==
  ASSUME NEW c, NEW d \in Coordinator, NEW sel,
         Sound(c, sel),
         d.graph = c.graph, d.run = c.run, d.attempt = c.attempt, d.limit = c.limit,
         d.retryable = c.retryable, d.stopped = c.stopped,
         c.cancel => d.cancel, c.exhausted => d.exhausted,
         d.status = c.status \/ Open(d),
         {d.status, d.wf} \subseteq {c.status, c.wf} \/ d.cancel \/ "cancelled" \notin {d.status, d.wf}
  PROVE  Sound(d, sel) /\ Kept(c, d)
<1>1. Kept(c, d)
  BY DEF Kept
<1>2. \A n \in Nodes : Ledger(d, n, sel)
  BY <1>1, LedgerFrame DEF Sound
<1>3. CancelOnly(d)
  BY DEF Sound, CancelOnly
<1>4. Delivered(d)
  BY DEF Sound, Delivered, AllNodesSettled, Open
<1> QED BY <1>1, <1>2, <1>3, <1>4 DEF Sound

(* d differs from c in what it says of n, and may be exhausted.            *)
OnlyNode(c, d, n) ==
  /\ \A m \in Nodes \ {n} :
       /\ d.graph[m] = c.graph[m] /\ d.run[m] = c.run[m] /\ d.attempt[m] = c.attempt[m]
       /\ d.limit[m] = c.limit[m] /\ d.retryable[m] = c.retryable[m]
       /\ (m \in d.stopped) = (m \in c.stopped)
  /\ d.cancel = c.cancel /\ (c.exhausted => d.exhausted) /\ d.status = c.status /\ d.wf = c.wf

(* A step on one node only owes the ledger of that node.                   *)
LEMMA OneNode ==
  ASSUME NEW c, NEW d \in Coordinator, NEW sel, NEW n \in Nodes,
         Sound(c, sel), Open(c),
         c.graph[n] # "succeeded",
         OnlyNode(c, d, n),
         Ledger(d, n, sel),
         "cancelled" \in {d.graph[n], d.run[n]} => d.cancel
  PROVE  Sound(d, sel) /\ Kept(c, d) /\ Open(d)
<1>1. Kept(c, d)
  BY DEF Kept, OnlyNode
<1>2. \A m \in Nodes : Ledger(d, m, sel)
  BY <1>1, LedgerFrame DEF Sound, OnlyNode
<1>3. CancelOnly(d)
  BY DEF Sound, CancelOnly, OnlyNode
<1>4. Delivered(d) /\ Open(d)
  BY DEF Sound, Delivered, Open, OnlyNode
<1> QED BY <1>1, <1>2, <1>3, <1>4 DEF Sound

-----------------------------------------------------------------------------
(* The updates of a coordinator.                                           *)

(* The field equations of the updates that the handlers are built from.    *)
LEMMA StartRunIs ==
  ASSUME NEW c \in Coordinator, NEW n \in Nodes
  PROVE  LET d == StartRun(c, n) IN
         /\ d \in Coordinator
         /\ d.run = IF Startable(c, n) THEN [c.run EXCEPT ![n] = "running"] ELSE c.run
         /\ d.graph = c.graph /\ d.limit = c.limit /\ d.retryable = c.retryable
         /\ d.attempt = IF Startable(c, n) THEN [c.attempt EXCEPT ![n] = c.attempt[n] + 1]
                                           ELSE c.attempt
         /\ d.stopped = c.stopped /\ d.status = c.status /\ d.wf = c.wf
         /\ d.cancel = c.cancel /\ d.exhausted = c.exhausted /\ d.quota = c.quota
         /\ d.executions = c.executions /\ d.retries = c.retries
<1>0. "running" \in RunStatuses
  BY DEF RunStatuses
<1>1. CASE Startable(c, n)
  <2> DEFINE run == [c.run EXCEPT ![n] = "running"]
             attempt == [c.attempt EXCEPT ![n] = c.attempt[n] + 1]
  <2>1. StartRun(c, n) = [c EXCEPT !.run = run, !.attempt = attempt]
    BY <1>1 DEF StartRun
  <2>2. run \in [Nodes -> RunStatuses] /\ attempt \in [Nodes -> Nat]
    BY <1>0, FieldTypes
  <2> HIDE DEF run, attempt
  <2>3. [c EXCEPT !.run = run, !.attempt = attempt] \in Coordinator
    BY <2>2 DEF Coordinator
  <2>4. LET d == [c EXCEPT !.run = run, !.attempt = attempt] IN
         /\ d.run = run /\ d.attempt = attempt
         /\ d.graph = c.graph /\ d.limit = c.limit /\ d.retryable = c.retryable
         /\ d.stopped = c.stopped /\ d.status = c.status /\ d.wf = c.wf
         /\ d.cancel = c.cancel /\ d.exhausted = c.exhausted /\ d.quota = c.quota
         /\ d.executions = c.executions /\ d.retries = c.retries
    BY DEF Coordinator
  <2> QED BY <1>1, <2>1, <2>3, <2>4 DEF run, attempt
<1>2. CASE ~Startable(c, n)
  BY <1>2 DEF StartRun
<1> QED BY <1>1, <1>2

LEMMA TransitionIs ==
  ASSUME NEW c \in Coordinator, NEW n \in Nodes, NEW status \in RunStatuses
  PROVE  LET d == Transition(c, n, status) IN
         /\ d \in Coordinator
         /\ d.run = [c.run EXCEPT ![n] = IF status \in Allowed[c.run[n]] THEN status ELSE c.run[n]]
         /\ d.graph = c.graph /\ d.limit = c.limit /\ d.retryable = c.retryable
         /\ d.attempt = c.attempt
         /\ d.stopped = c.stopped /\ d.status = c.status /\ d.wf = c.wf
         /\ d.cancel = c.cancel /\ d.exhausted = c.exhausted /\ d.quota = c.quota
         /\ d.executions = c.executions /\ d.retries = c.retries
  BY DEF Transition, Coordinator

LEMMA CancelRunIs ==
  ASSUME NEW c \in Coordinator, NEW n \in Nodes
  PROVE  LET d == CancelRun(c, n) IN
         /\ d \in Coordinator
         /\ d.run = [c.run EXCEPT ![n] = IF c.run[n] \in TERMINAL_STATUSES THEN c.run[n] ELSE "cancelled"]
         /\ d.graph = c.graph /\ d.limit = c.limit /\ d.retryable = c.retryable
         /\ d.attempt = c.attempt
         /\ d.stopped = c.stopped /\ d.status = c.status /\ d.wf = c.wf
         /\ d.cancel = c.cancel /\ d.exhausted = c.exhausted /\ d.quota = c.quota
         /\ d.executions = c.executions /\ d.retries = c.retries
  BY DEF CancelRun, Coordinator, RunStatuses

LEMMA SetGraphIs ==
  ASSUME NEW c \in Coordinator, NEW n \in Nodes, NEW status \in Statuses
  PROVE  LET d == [c EXCEPT !.graph[n] = status] IN
         /\ d \in Coordinator
         /\ d.graph = [c.graph EXCEPT ![n] = status]
         /\ d.run = c.run /\ d.limit = c.limit /\ d.retryable = c.retryable
         /\ d.attempt = c.attempt
         /\ d.stopped = c.stopped /\ d.status = c.status /\ d.wf = c.wf
         /\ d.cancel = c.cancel /\ d.exhausted = c.exhausted /\ d.quota = c.quota
         /\ d.executions = c.executions /\ d.retries = c.retries
  BY DEF Coordinator

(* A node is resolved in at most one way.                                  *)
LEMMA RoutesApart ==
  ASSUME NEW c, NEW n \in Nodes
  PROVE  /\ BlockedBy(c, n) => ~SkippedBy(c, n) /\ ~Unselected(c, n) /\ ~Unroutable(c, n)
         /\ SkippedBy(c, n) \/ Unselected(c, n) => ~Unroutable(c, n)
  BY DEF SkippedBy, Unselected, Unroutable, Routed

(* What a pass of _ready_tasks does to each node.                          *)
LEMMA ResolveIs ==
  ASSUME NEW c \in Coordinator, NEW idle
  PROVE  LET d == Resolve(c, idle) IN
         /\ d \in Coordinator
         /\ d.limit = c.limit /\ d.stopped = c.stopped /\ d.status = c.status /\ d.wf = c.wf
         /\ d.cancel = c.cancel /\ d.exhausted = c.exhausted /\ d.quota = c.quota
         /\ d.executions = c.executions /\ d.retries = c.retries
         /\ \A n \in Nodes :
              /\ n \in Resolvable(c, idle) /\ BlockedBy(c, n) =>
                   /\ d.graph[n] = "blocked" /\ d.run[n] = c.run[n] /\ d.attempt[n] = c.attempt[n]
              /\ n \in Resolvable(c, idle) /\ (SkippedBy(c, n) \/ Unselected(c, n)) =>
                   /\ d.graph[n] = "skipped"
                   /\ c.run[n] = "queued" => d.run[n] = "skipped"
              /\ n \in Resolvable(c, idle) /\ Unroutable(c, n) =>
                   /\ d.graph[n] = "failed" /\ ~d.retryable[n]
                   /\ Startable(c, n) => d.run[n] = "failed"
              /\ n \notin Resolvable(c, idle)
                 \/ ~(BlockedBy(c, n) \/ SkippedBy(c, n) \/ Unselected(c, n) \/ Unroutable(c, n)) =>
                   /\ d.graph[n] = c.graph[n] /\ d.run[n] = c.run[n]
                   /\ d.attempt[n] = c.attempt[n] /\ d.retryable[n] = c.retryable[n]
              /\ c.run[n] # "cancelled" => d.run[n] # "cancelled"
<1> DEFINE here == Resolvable(c, idle)
           blocked == {n \in here : BlockedBy(c, n)}
           skipped == {n \in here : SkippedBy(c, n) \/ Unselected(c, n)}
           failed == {n \in here : Unroutable(c, n)}
           graph == [n \in Nodes |-> IF n \in blocked THEN "blocked"
                                     ELSE IF n \in skipped THEN "skipped"
                                     ELSE IF n \in failed THEN "failed" ELSE c.graph[n]]
           run == [n \in Nodes |-> IF n \in skipped THEN Transition(c, n, "skipped").run[n]
                                   ELSE IF n \in failed
                                   THEN Transition(StartRun(c, n), n, "failed").run[n]
                                   ELSE c.run[n]]
           attempt == [n \in Nodes |-> IF n \in failed /\ Startable(c, n)
                                       THEN c.attempt[n] + 1 ELSE c.attempt[n]]
           retryable == [n \in Nodes |-> n \notin failed /\ c.retryable[n]]
           d == [c EXCEPT !.graph = graph, !.run = run, !.attempt = attempt,
                          !.retryable = retryable]
<1>1. Resolve(c, idle) = d
  BY DEF Resolve
<1>2. \A n \in Nodes :
        /\ Transition(c, n, "skipped").run[n] \in RunStatuses
        /\ c.run[n] = "queued" => Transition(c, n, "skipped").run[n] = "skipped"
        /\ c.run[n] # "cancelled" => Transition(c, n, "skipped").run[n] # "cancelled"
  <2>1. "skipped" \in RunStatuses /\ "skipped" \in Allowed["queued"]
    BY DEF Allowed, RunStatuses
  <2>2. c.run \in [Nodes -> RunStatuses]
    BY FieldTypes
  <2>3. \A n \in Nodes : Transition(c, n, "skipped").run
          = [c.run EXCEPT ![n] = IF "skipped" \in Allowed[c.run[n]] THEN "skipped" ELSE c.run[n]]
    BY <2>1, TransitionIs
  <2> QED BY <2>1, <2>2, <2>3
<1>3. \A n \in Nodes :
        /\ Transition(StartRun(c, n), n, "failed").run[n] \in RunStatuses
        /\ Startable(c, n) => Transition(StartRun(c, n), n, "failed").run[n] = "failed"
        /\ c.run[n] # "cancelled" => Transition(StartRun(c, n), n, "failed").run[n] # "cancelled"
  <2> TAKE n \in Nodes
  <2> DEFINE s == StartRun(c, n)
  <2>1. /\ s \in Coordinator /\ s.run \in [Nodes -> RunStatuses]
        /\ s.run = IF Startable(c, n) THEN [c.run EXCEPT ![n] = "running"] ELSE c.run
    BY StartRunIs, FieldTypes
  <2>2. "failed" \in RunStatuses
    BY DEF RunStatuses
  <2> HIDE DEF s
  <2>3. Transition(s, n, "failed").run
          = [s.run EXCEPT ![n] = IF "failed" \in Allowed[s.run[n]] THEN "failed" ELSE s.run[n]]
    BY <2>1, <2>2, TransitionIs
  <2>4. "failed" \in Allowed["running"]
    BY DEF Allowed, RunStatuses
  <2>5. /\ Transition(s, n, "failed").run[n] \in RunStatuses
        /\ Startable(c, n) => Transition(s, n, "failed").run[n] = "failed"
        /\ c.run[n] # "cancelled" => Transition(s, n, "failed").run[n] # "cancelled"
    BY <2>1, <2>2, <2>3, <2>4, FieldTypes
  <2> QED BY <2>5 DEF s
<1> HIDE DEF here
<1>5. graph \in [Nodes -> Statuses]
  BY FieldTypes DEF Statuses, Settled
<1>6. run \in [Nodes -> RunStatuses]
  BY <1>2, <1>3, FieldTypes
<1>7. attempt \in [Nodes -> Nat]
  BY FieldTypes
<1>8. retryable \in [Nodes -> BOOLEAN]
  BY FieldTypes
<1>9. \A n \in Nodes :
        /\ n \in skipped /\ c.run[n] = "queued" => run[n] = "skipped"
        /\ n \in failed /\ n \notin skipped /\ Startable(c, n) => run[n] = "failed"
        /\ n \notin skipped \cup failed => run[n] = c.run[n]
        /\ c.run[n] # "cancelled" => run[n] # "cancelled"
  BY <1>2, <1>3
<1>10. \A n \in Nodes :
        /\ n \notin failed => attempt[n] = c.attempt[n] /\ retryable[n] = c.retryable[n]
        /\ n \in failed => ~retryable[n]
  BY FieldTypes
<1> HIDE DEF run, attempt, retryable, blocked, skipped, failed
<1>11. /\ d \in Coordinator
       /\ d.graph = graph /\ d.run = run /\ d.attempt = attempt /\ d.retryable = retryable
       /\ d.limit = c.limit /\ d.stopped = c.stopped /\ d.status = c.status /\ d.wf = c.wf
       /\ d.cancel = c.cancel /\ d.exhausted = c.exhausted /\ d.quota = c.quota
       /\ d.executions = c.executions /\ d.retries = c.retries
  <2> HIDE DEF graph
  <2> QED BY <1>5, <1>6, <1>7, <1>8 DEF Coordinator
<1>12. \A n \in Nodes :
         /\ n \in here /\ BlockedBy(c, n) <=> n \in blocked
         /\ n \in here /\ (SkippedBy(c, n) \/ Unselected(c, n)) <=> n \in skipped
         /\ n \in here /\ Unroutable(c, n) <=> n \in failed
         /\ n \in blocked => n \notin skipped \cup failed
         /\ n \in skipped => n \notin failed
  BY RoutesApart DEF blocked, skipped, failed
<1> HIDE DEF d
<1>13. \A n \in Nodes :
              /\ n \in here /\ BlockedBy(c, n) =>
                   /\ d.graph[n] = "blocked" /\ d.run[n] = c.run[n] /\ d.attempt[n] = c.attempt[n]
              /\ n \in here /\ (SkippedBy(c, n) \/ Unselected(c, n)) =>
                   /\ d.graph[n] = "skipped"
                   /\ c.run[n] = "queued" => d.run[n] = "skipped"
              /\ n \in here /\ Unroutable(c, n) =>
                   /\ d.graph[n] = "failed" /\ ~d.retryable[n]
                   /\ Startable(c, n) => d.run[n] = "failed"
              /\ n \notin here
                 \/ ~(BlockedBy(c, n) \/ SkippedBy(c, n) \/ Unselected(c, n) \/ Unroutable(c, n)) =>
                   /\ d.graph[n] = c.graph[n] /\ d.run[n] = c.run[n]
                   /\ d.attempt[n] = c.attempt[n] /\ d.retryable[n] = c.retryable[n]
              /\ c.run[n] # "cancelled" => d.run[n] # "cancelled"
  BY <1>9, <1>10, <1>11, <1>12 DEF graph
<1> QED BY <1>1, <1>11, <1>13 DEF here

(* What has earned its execution is not blocked, skipped or failed by its  *)
(* dependencies or its route.                                              *)
LEMMA EarnedRoutes ==
  ASSUME NEW c, NEW n \in Nodes, Earned(c, n, selects)
  PROVE  ~BlockedBy(c, n) /\ ~SkippedBy(c, n) /\ ~Unselected(c, n) /\ ~Unroutable(c, n)
<1>1. CASE n \in AllowPartial
  <2>1. Dependencies[n] # {} => With(c, n, {"succeeded"})
    BY <1>1 DEF Earned
  <2>2. ~BlockedBy(c, n) /\ ~SkippedBy(c, n)
    BY <1>1, <2>1 DEF BlockedBy, SkippedBy, With
  <2> QED BY <2>2 DEF Earned, Unselected, Unroutable, Routed
<1>2. CASE n \notin AllowPartial
  <2>1. ~BlockedBy(c, n) /\ ~SkippedBy(c, n)
    BY <1>2 DEF Earned, BlockedBy, SkippedBy, With
  <2> QED BY <2>1 DEF Earned, Unselected, Unroutable, Routed
<1> QED BY <1>1, <1>2

(* A pass keeps a coordinator sound.                                       *)
LEMMA ResolveSound ==
  ASSUME NEW c, NEW idle, Sound(c, selects), ~c.cancel, Open(c)
  PROVE  LET d == Resolve(c, idle) IN
         /\ Sound(d, selects) /\ Kept(c, d) /\ Open(d) /\ d.cancel = c.cancel
         /\ d.exhausted = c.exhausted /\ d.status = c.status
         /\ \A n \in Nodes : /\ c.graph[n] # "pending" \/ n \notin idle =>
                                  d.graph[n] = c.graph[n] /\ d.run[n] = c.run[n] /\ d.attempt[n] = c.attempt[n]
                             /\ d.graph[n] = "pending" => c.graph[n] = "pending"
                             /\ d.graph[n] = "running" => c.graph[n] = "running"
         /\ d.limit = c.limit
<1> DEFINE d == Resolve(c, idle)
           here == Resolvable(c, idle)
<1>0. c \in Coordinator
  BY DEF Sound
<1>1. d \in Coordinator /\ d.cancel = c.cancel /\ d.exhausted = c.exhausted
      /\ d.status = c.status /\ d.wf = c.wf /\ d.limit = c.limit /\ d.stopped = c.stopped
  BY <1>0, ResolveIs DEF d
<1>2. \A n \in Nodes :
        /\ n \in here /\ BlockedBy(c, n) =>
             /\ d.graph[n] = "blocked" /\ d.run[n] = c.run[n] /\ d.attempt[n] = c.attempt[n]
        /\ n \in here /\ (SkippedBy(c, n) \/ Unselected(c, n)) =>
             /\ d.graph[n] = "skipped"
             /\ c.run[n] = "queued" => d.run[n] = "skipped"
        /\ n \in here /\ Unroutable(c, n) =>
             /\ d.graph[n] = "failed" /\ ~d.retryable[n]
             /\ Startable(c, n) => d.run[n] = "failed"
        /\ n \notin here \/ ~(BlockedBy(c, n) \/ SkippedBy(c, n) \/ Unselected(c, n) \/ Unroutable(c, n)) =>
             /\ d.graph[n] = c.graph[n] /\ d.run[n] = c.run[n]
             /\ d.attempt[n] = c.attempt[n] /\ d.retryable[n] = c.retryable[n]
        /\ c.run[n] # "cancelled" => d.run[n] # "cancelled"
  BY <1>0, ResolveIs DEF d, here
<1>3. \A n \in Nodes : n \in here <=> n \in idle /\ c.graph[n] = "pending" /\ ~With(c, n, {"pending", "running"})
  BY DEF Resolvable
<1> HIDE DEF d, here
<1>4. Kept(c, d)
  BY <1>2, <1>3, RoutesApart DEF Kept
<1>5. ASSUME NEW n \in Nodes PROVE Ledger(d, n, selects)
  <2>0. Ledger(c, n, selects) /\ c.run[n] # "cancelled"
    BY DEF Sound, CancelOnly
  <2>1. CASE n \in here /\ BlockedBy(c, n)
    <3>1. Earned(c, n, selects) => Earned(d, n, selects)
      BY <1>4, EarnedKept
    <3> QED BY <2>0, <2>1, <1>1, <1>2, <1>3, <3>1 DEF Ledger, Startable
  <2>2. CASE n \in here /\ (SkippedBy(c, n) \/ Unselected(c, n))
    <3>1. ~Earned(c, n, selects)
      BY <2>2, EarnedRoutes
    <3>2. c.run[n] = "queued"
      BY <2>0, <2>2, <1>3, <3>1 DEF Ledger
    <3>3. n \notin c.stopped
      BY <2>0, <3>1 DEF Ledger
    <3> QED BY <3>2, <3>3, <2>2, <1>1, <1>2 DEF Ledger
  <2>3. CASE n \in here /\ Unroutable(c, n)
    <3>1. ~Earned(c, n, selects)
      BY <2>3, EarnedRoutes
    <3>2. c.run[n] = "queued"
      BY <2>0, <2>3, <1>3, <3>1 DEF Ledger
    <3>3. Startable(c, n) /\ n \notin c.stopped
      BY <2>0, <3>1, <3>2 DEF Startable, Ledger
    <3> QED BY <3>2, <3>3, <2>3, <1>1, <1>2 DEF Ledger, Startable
  <2>4. CASE n \notin here \/ ~(BlockedBy(c, n) \/ SkippedBy(c, n) \/ Unselected(c, n) \/ Unroutable(c, n))
    BY <2>4, <2>0, <1>0, <1>1, <1>2, <1>4, LedgerFrame
  <2> QED BY <2>1, <2>2, <2>3, <2>4
<1>6. CancelOnly(d)
  BY <1>1, <1>2, RoutesApart DEF Sound, CancelOnly
<1>7. Delivered(d) /\ Open(d)
  BY <1>1 DEF Open, Delivered
<1>8. Sound(d, selects)
  BY <1>1, <1>5, <1>6, <1>7 DEF Sound
<1>9. \A n \in Nodes : /\ c.graph[n] # "pending" \/ n \notin idle =>
                            d.graph[n] = c.graph[n] /\ d.run[n] = c.run[n] /\ d.attempt[n] = c.attempt[n]
                       /\ d.graph[n] = "pending" => c.graph[n] = "pending"
                       /\ d.graph[n] = "running" => c.graph[n] = "running"
  BY <1>2, <1>3
<1> QED BY <1>1, <1>4, <1>7, <1>8, <1>9 DEF d

-----------------------------------------------------------------------------
(* The passes of _ready_tasks and their fixpoint.                          *)

(* Induction over the numbers, as a set that contains zero and successors. *)
LEMMA SetInduction ==
  ASSUME NEW S \in SUBSET Nat, 0 \in S, \A n \in S : n + 1 \in S
  PROVE  S = Nat
<1> SUFFICES ASSUME S # Nat PROVE FALSE
  OBVIOUS
<1> DEFINE T == Nat \ S
           R == OpToRel(<, Nat)
<1>1. T \subseteq Nat /\ T # {}
  OBVIOUS
<1>a. IsWellFoundedOn(R, Nat)
  BY NatLessThanWellFounded
<1> HIDE DEF R, T
<1>2. PICK m \in T : \A k \in T : ~(<<k, m>> \in R)
  BY <1>1, <1>a, WFMin, Zenon
<1> USE DEF R, T
<1>b. \A x, y \in Nat : x < y => <<x, y>> \in R
  BY DEF OpToRel
<1>3. m # 0 /\ m \in Nat
  OBVIOUS
<1>4. m - 1 \in Nat /\ (m - 1) + 1 = m /\ (m - 1 < m)
  BY <1>3
<1>5. m - 1 \in S
  BY <1>2, <1>4, <1>b, <1>3
<1>6. QED
  BY <1>4, <1>5

(* p is the sequence of the first N passes of _ready_tasks.                *)
Passes(c, idle, p, N) ==
  p = [k \in 0 .. N |-> IF k = 0 THEN c ELSE Resolve(p[k - 1], idle)]

(* The recursive function of Resolved exists.                              *)
LEMMA PassesExist ==
  ASSUME NEW c, NEW idle, NEW N \in Nat
  PROVE  \E p : Passes(c, idle, p, N)
<1> DEFINE S == {k \in Nat : \E p : Passes(c, idle, p, k)}
<1>1. 0 \in S
  <2> DEFINE p == [k \in 0 .. 0 |-> c]
  <2>1. p = [k \in 0 .. 0 |-> IF k = 0 THEN c ELSE Resolve(p[k - 1], idle)]
    OBVIOUS
  <2> QED BY <2>1 DEF Passes
<1>2. ASSUME NEW k \in S PROVE k + 1 \in S
  <2>1. PICK p : Passes(c, idle, p, k)
    OBVIOUS
  <2>2. p = [i \in 0 .. k |-> IF i = 0 THEN c ELSE Resolve(p[i - 1], idle)]
    BY <2>1 DEF Passes
  <2> DEFINE q == [i \in 0 .. k + 1 |-> IF i = k + 1 THEN Resolve(p[k], idle) ELSE p[i]]
  <2>3. \A i \in 0 .. k + 1 : q[i] = IF i = 0 THEN c ELSE Resolve(q[i - 1], idle)
    <3> TAKE i \in 0 .. k + 1
    <3>1. CASE i = k + 1
      BY <3>1
    <3>2. CASE i = 0
      BY <3>2, <2>2
    <3>3. CASE i \in 1 .. k
      <4>1. q[i] = p[i] /\ q[i - 1] = p[i - 1]
        BY <3>3
      <4>2. p[i] = Resolve(p[i - 1], idle)
        BY <3>3, <2>2
      <4> QED BY <4>1, <4>2, <3>3
    <3> QED BY <3>1, <3>2, <3>3
  <2>4. q = [i \in 0 .. k + 1 |-> IF i = 0 THEN c ELSE Resolve(q[i - 1], idle)]
    BY <2>3
  <2> HIDE DEF q
  <2> QED BY <2>4 DEF Passes
<1> HIDE DEF S
<1>3. S \in SUBSET Nat
  BY DEF S
<1>4. S = Nat
  BY <1>1, <1>2, <1>3, SetInduction
<1> QED BY <1>4 DEF S

(* The workflow has finitely many nodes.                                   *)
LEMMA NodeCount == Cardinality(Nodes) \in Nat /\ IsFiniteSet(Nodes)
  BY CoordinatorAssumption, FS_CardinalityType

(* Resolved is the last of the passes.                                     *)
LEMMA ResolvedPasses ==
  ASSUME NEW c, NEW idle
  PROVE  \E p : Passes(c, idle, p, Cardinality(Nodes)) /\ Resolved(c, idle) = p[Cardinality(Nodes)]
<1> DEFINE N == Cardinality(Nodes)
           pass == CHOOSE p : p = [k \in 0 .. N |-> IF k = 0 THEN c ELSE Resolve(p[k - 1], idle)]
<1>1. \E p : p = [k \in 0 .. N |-> IF k = 0 THEN c ELSE Resolve(p[k - 1], idle)]
  <2>1. PICK p : Passes(c, idle, p, N)
    BY PassesExist, NodeCount
  <2>2. p = [k \in 0 .. N |-> IF k = 0 THEN c ELSE Resolve(p[k - 1], idle)]
    BY <2>1 DEF Passes
  <2> QED BY <2>2
<1>2. pass = [k \in 0 .. N |-> IF k = 0 THEN c ELSE Resolve(pass[k - 1], idle)]
  BY <1>1
<1>3. Resolved(c, idle) = pass[N]
  BY DEF Resolved
<1> QED BY <1>2, <1>3 DEF Passes

(* A set of coordinators that a pass does not leave is not left by all.    *)
LEMMA ResolvedIn ==
  ASSUME NEW c, NEW idle, NEW S, c \in S, \A d \in S : Resolve(d, idle) \in S
  PROVE  Resolved(c, idle) \in S
<1> DEFINE N == Cardinality(Nodes)
<1>1. PICK p : Passes(c, idle, p, N) /\ Resolved(c, idle) = p[N]
  BY ResolvedPasses
<1>2. p = [k \in 0 .. N |-> IF k = 0 THEN c ELSE Resolve(p[k - 1], idle)]
  BY <1>1 DEF Passes
<1>0. N \in Nat
  BY NodeCount
<1> HIDE DEF N
<1> DEFINE T == {k \in Nat : k \in 0 .. N => p[k] \in S}
<1>3. 0 \in T
  BY <1>2, <1>0
<1>4. ASSUME NEW k \in T PROVE k + 1 \in T
  <2>1. CASE k + 1 \in 0 .. N
    <3>1. p[k + 1] = Resolve(p[k], idle) /\ p[k] \in S
      BY <2>1, <1>2, <1>0
    <3> QED BY <3>1
  <2> QED BY <2>1
<1> HIDE DEF T
<1>5. T \in SUBSET Nat
  BY DEF T
<1>6. T = Nat
  BY <1>3, <1>4, <1>5, SetInduction
<1>7. p[N] \in S
  BY <1>6, <1>0 DEF T
<1> QED BY <1>1, <1>7 DEF N

(* No node that could be resolved is blocked, skipped or failed.           *)
Quiet(c, idle) ==
  \A n \in Resolvable(c, idle) :
    ~BlockedBy(c, n) /\ ~SkippedBy(c, n) /\ ~Unselected(c, n) /\ ~Unroutable(c, n)

(* The nodes that have not begun.                                          *)
PendingIn(c) == {n \in Nodes : c.graph[n] = "pending"}

(* A pass over a quiet coordinator changes no node.                        *)
LEMMA QuietStays ==
  ASSUME NEW c \in Coordinator, NEW idle, Quiet(c, idle)
  PROVE  Quiet(Resolve(c, idle), idle)
<1> DEFINE d == Resolve(c, idle)
<1>1. d \in Coordinator
  BY ResolveIs
<1>2. \A n \in Nodes : d.graph[n] = c.graph[n]
  BY ResolveIs DEF Quiet
<1> HIDE DEF d
<1>3. d.graph = c.graph
  BY <1>1, <1>2, FieldTypes
<1>4. Quiet(d, idle)
  BY <1>3 DEF Quiet, Resolvable, BlockedBy, SkippedBy, Unselected, Unroutable, Routed, With
<1> QED BY <1>4 DEF d

(* Only idle pending nodes are resolved.                                   *)
LEMMA ResolvableNodes ==
  ASSUME NEW c, NEW idle, NEW n \in Resolvable(c, idle)
  PROVE  n \in idle /\ (n \in Nodes => n \in PendingIn(c))
  BY DEF Resolvable, PendingIn

(* The pending nodes can be counted.                                       *)
LEMMA PendingFinite ==
  ASSUME NEW c
  PROVE  /\ IsFiniteSet(PendingIn(c)) /\ Cardinality(PendingIn(c)) \in Nat
         /\ Cardinality(PendingIn(c)) <= Cardinality(Nodes)
<1>1. PendingIn(c) \in SUBSET Nodes
  BY DEF PendingIn
<1> QED BY <1>1, NodeCount, FS_Subset, FS_CardinalityType

(* A pass that finds something to resolve leaves fewer pending nodes.      *)
LEMMA PendingShrinks ==
  ASSUME NEW c \in Coordinator, NEW idle \in SUBSET Nodes, ~Quiet(c, idle)
  PROVE  Cardinality(PendingIn(Resolve(c, idle))) < Cardinality(PendingIn(c))
<1> DEFINE d == Resolve(c, idle)
<1>1. PICK n \in Resolvable(c, idle) :
        BlockedBy(c, n) \/ SkippedBy(c, n) \/ Unselected(c, n) \/ Unroutable(c, n)
  BY DEF Quiet
<1>2. n \in Nodes => d.graph[n] # "pending"
  BY <1>1, ResolveIs
<1>3. \A m \in Nodes : d.graph[m] = "pending" => c.graph[m] = "pending"
  BY ResolveIs DEF Resolvable
<1> HIDE DEF d
<1>4. PendingIn(d) \in SUBSET PendingIn(c)
  BY <1>3 DEF PendingIn
<1>5. n \in PendingIn(c)
  BY <1>1, ResolvableNodes
<1>6. n \notin PendingIn(d)
  BY <1>2 DEF PendingIn
<1>7. Cardinality(PendingIn(d)) <= Cardinality(PendingIn(c))
      /\ Cardinality(PendingIn(d)) # Cardinality(PendingIn(c))
  BY <1>4, <1>5, <1>6, PendingFinite, FS_Subset
<1> QED BY <1>7, PendingFinite DEF d

(* As many passes as there are nodes reach the fixpoint of _ready_tasks.   *)
LEMMA ResolvedQuiet ==
  ASSUME NEW c \in Coordinator, NEW idle \in SUBSET Nodes
  PROVE  Quiet(Resolved(c, idle), idle)
<1> DEFINE N == Cardinality(Nodes)
<1>1. PICK p : Passes(c, idle, p, N) /\ Resolved(c, idle) = p[N]
  BY ResolvedPasses
<1>2. p = [k \in 0 .. N |-> IF k = 0 THEN c ELSE Resolve(p[k - 1], idle)]
  BY <1>1 DEF Passes
<1>0. N \in Nat /\ Cardinality(PendingIn(c)) <= N
  BY NodeCount, PendingFinite
<1> HIDE DEF N
<1> DEFINE T == {k \in Nat : k \in 0 .. N =>
                   /\ p[k] \in Coordinator
                   /\ Quiet(p[k], idle) \/ Cardinality(PendingIn(p[k])) + k <= N}
<1>3. 0 \in T
  BY <1>2, <1>0, PendingFinite
<1>4. ASSUME NEW k \in T PROVE k + 1 \in T
  <2>1. CASE k + 1 \in 0 .. N
    <3>1. p[k + 1] = Resolve(p[k], idle) /\ p[k] \in Coordinator
      BY <2>1, <1>2, <1>0
    <3>2. p[k + 1] \in Coordinator
      BY <3>1, ResolveIs
    <3>3. CASE Quiet(p[k], idle)
      BY <3>1, <3>2, <3>3, QuietStays
    <3>4. CASE ~Quiet(p[k], idle)
      <4>1. Cardinality(PendingIn(p[k + 1])) < Cardinality(PendingIn(p[k]))
        BY <3>1, <3>4, PendingShrinks
      <4>2. Cardinality(PendingIn(p[k])) + k <= N
        BY <3>4, <2>1, <1>0
      <4>3. Cardinality(PendingIn(p[k])) \in Nat /\ Cardinality(PendingIn(p[k + 1])) \in Nat
        BY PendingFinite
      <4>4. Cardinality(PendingIn(p[k + 1])) + (k + 1) <= N
        BY <4>1, <4>2, <4>3, <1>0
      <4> QED BY <3>2, <4>4
    <3> QED BY <3>3, <3>4
  <2> QED BY <2>1
<1> HIDE DEF T
<1>5. T \in SUBSET Nat
  BY DEF T
<1>6. T = Nat
  BY <1>3, <1>4, <1>5, SetInduction
<1>7. /\ p[N] \in Coordinator
      /\ Quiet(p[N], idle) \/ Cardinality(PendingIn(p[N])) + N <= N
  BY <1>6, <1>0 DEF T
<1>8. Quiet(p[N], idle)
  <2>1. CASE Cardinality(PendingIn(p[N])) + N <= N
    <3>1. Cardinality(PendingIn(p[N])) = 0
      BY <2>1, <1>0, PendingFinite
    <3>2. PendingIn(p[N]) = {}
      BY <3>1, PendingFinite, FS_EmptySet
    <3> QED BY <3>2, ResolvableNodes DEF Quiet
  <2> QED BY <2>1, <1>7
<1> QED BY <1>1, <1>8 DEF N

(* What _ready_tasks leaves alone.                                         *)
Extends(c, d, idle) ==
  /\ Kept(c, d) /\ Open(d) /\ d.cancel = c.cancel
  /\ d.exhausted = c.exhausted /\ d.status = c.status /\ d.limit = c.limit
  /\ \A n \in Nodes :
       /\ c.graph[n] # "pending" \/ n \notin idle =>
            d.graph[n] = c.graph[n] /\ d.run[n] = c.run[n] /\ d.attempt[n] = c.attempt[n]
       /\ d.graph[n] = "pending" => c.graph[n] = "pending"
       /\ d.graph[n] = "running" => c.graph[n] = "running"

(* The passes keep a coordinator sound and leave the rest of it alone.     *)
LEMMA ResolvedSound ==
  ASSUME NEW c, NEW idle, Sound(c, selects), ~c.cancel, Open(c)
  PROVE  Sound(Resolved(c, idle), selects) /\ Extends(c, Resolved(c, idle), idle)
<1> DEFINE S == {d \in Coordinator : Sound(d, selects) /\ Extends(c, d, idle)}
<1>1. c \in S
  BY DEF Sound, Extends, Kept
<1>2. ASSUME NEW d \in S PROVE Resolve(d, idle) \in S
  <2> DEFINE e == Resolve(d, idle)
  <2>1. Sound(d, selects) /\ ~d.cancel /\ Open(d) /\ Extends(c, d, idle)
    BY DEF Extends
  <2>2. /\ Sound(e, selects) /\ Extends(d, e, idle)
    BY <2>1, ResolveSound DEF Extends
  <2> HIDE DEF e
  <2>3. Extends(c, e, idle)
    BY <2>1, <2>2 DEF Extends, Kept
  <2>4. e \in S
    BY <2>2, <2>3 DEF Sound
  <2> QED BY <2>4 DEF e
<1> HIDE DEF S
<1>3. Resolved(c, idle) \in S
  BY <1>1, <1>2, ResolvedIn
<1> QED BY <1>3 DEF S

(* A node is ready only if it has earned its execution, once no pass can   *)
(* resolve it any more.                                                    *)
LEMMA ReadyEarned ==
  ASSUME NEW c \in Coordinator, NEW idle \in SUBSET Nodes, NEW n \in Ready(c, idle),
         Quiet(c, idle), selects \in [Nodes -> {"yes", "no", "unknown"}]
  PROVE  Earned(c, n, selects) /\ PolicyMet(c, n) /\ c.graph[n] = "pending" /\ n \in idle
<1>1. PolicyMet(c, n) /\ c.graph[n] = "pending" /\ n \in idle /\ n \in Nodes
  BY DEF Ready
<1>2. \A d \in Dependencies[n] : d \in Nodes /\ c.graph[d] \in Statuses
  BY <1>1, CoordinatorAssumption, FieldTypes
<1>3. ~With(c, n, {"pending", "running"})
  BY <1>1 DEF PolicyMet, With, Statuses, Settled
<1>4. n \in Resolvable(c, idle)
  BY <1>1, <1>3 DEF Resolvable
<1>5. ~BlockedBy(c, n) /\ ~SkippedBy(c, n) /\ ~Unselected(c, n) /\ ~Unroutable(c, n)
  BY <1>4 DEF Quiet
<1>6. IF n \in AllowPartial
       THEN Dependencies[n] # {} => With(c, n, {"succeeded"})
       ELSE \A d \in Dependencies[n] : c.graph[d] = "succeeded"
  <2>1. CASE n \in AllowPartial
    <3>1. SUFFICES ASSUME NEW d \in Dependencies[n], ~With(c, n, {"succeeded"}) PROVE FALSE
      BY <2>1
    <3>2. c.graph[d] \in Settled \ {"succeeded"}
      BY <3>1, <1>2, <1>3 DEF With, Statuses
    <3>3. c.graph[d] # "skipped"
      BY <3>1, <1>5, <2>1 DEF SkippedBy, With
    <3> QED BY <3>1, <3>2, <3>3, <1>5, <2>1 DEF BlockedBy, With
  <2>2. CASE n \notin AllowPartial
    BY <2>2, <1>1, <1>2 DEF PolicyMet, With
  <2> QED BY <2>1, <2>2
<1>7. Source[n] # NoNode => c.graph[Source[n]] = "succeeded" /\ selects[n] = "yes"
  BY <1>1, <1>5 DEF Unselected, Unroutable, Routed
<1> QED BY <1>1, <1>6, <1>7 DEF Earned

(* In an acyclic graph in which nothing runs or is ready, every node is    *)
(* settled: the first pending node would be resolved or ready.             *)
LEMMA NothingReady ==
  ASSUME NEW c \in Coordinator, Quiet(c, Nodes), Ready(c, Nodes) = {},
         \A n \in Nodes : c.graph[n] \notin {"running", "cancelled"}
  PROVE  AllNodesSettled(c)
<1>1. SUFFICES ASSUME PendingIn(c) # {} PROVE FALSE
  BY FieldTypes DEF AllNodesSettled, PendingIn, Statuses, Settled
<1>2. PICK n \in PendingIn(c) : Dependencies[n] \cap PendingIn(c) = {}
  <2>1. PendingIn(c) \in (SUBSET Nodes) \ {{}}
    BY <1>1 DEF PendingIn
  <2> QED BY <2>1, CoordinatorAssumption
<1>3. n \in Nodes /\ c.graph[n] = "pending"
  BY DEF PendingIn
<1>4. \A d \in Dependencies[n] : d \in Nodes /\ c.graph[d] \in Settled \ {"cancelled"}
  BY <1>2, <1>3, CoordinatorAssumption, FieldTypes DEF PendingIn, Statuses
<1>5. ~With(c, n, {"pending", "running"})
  BY <1>4 DEF With, Settled
<1>6. ~BlockedBy(c, n) /\ ~SkippedBy(c, n)
  BY <1>3, <1>5 DEF Quiet, Resolvable
<1>7. PolicyMet(c, n)
  <2>1. CASE n \in AllowPartial
    BY <2>1, <1>5 DEF PolicyMet
  <2>2. CASE n \notin AllowPartial
    BY <2>2, <1>4, <1>6 DEF PolicyMet, BlockedBy, SkippedBy, With, Settled
  <2> QED BY <2>1, <2>2
<1> QED BY <1>3, <1>7 DEF Ready

-----------------------------------------------------------------------------
(* The ends of a run and the ways back into one.                           *)

(* The status that the end of the loop computes is earned.                 *)
LEMMA FinishedSound ==
  ASSUME NEW c, NEW sel, Sound(c, sel), ~c.cancel, AllNodesSettled(c)
  PROVE  LET d == Finished(c) IN
         Sound(d, sel) /\ Kept(c, d) /\ d.graph = c.graph /\ d.cancel = c.cancel /\ d.status = FinalStatus(c)
<1> DEFINE s == FinalStatus(c)
           wf == IF s \in Allowed[c.wf] THEN s ELSE c.wf
           d == [c EXCEPT !.status = s, !.wf = wf]
<1>0. c \in Coordinator
  BY DEF Sound
<1>1. s \in {"failed", "partial", "succeeded"}
  BY DEF FinalStatus
<1>2. Finished(c) = d
  BY <1>0 DEF Finished, EndWorkflowRun, Coordinator
<1>3. wf \in RunStatuses /\ (c.wf # "cancelled" => wf # "cancelled")
  BY <1>0, <1>1, FieldTypes DEF RunStatuses
<1> HIDE DEF wf
<1>4. AllNodesSettled(c) /\ Delivered([c EXCEPT !.status = s])
  <2> DEFINE e == [c EXCEPT !.status = s]
  <2>1. e.graph = c.graph /\ e.exhausted = c.exhausted /\ e.cancel = c.cancel /\ e.status = s
    BY <1>0 DEF Coordinator
  <2> HIDE DEF e, s
  <2> SUFFICES ASSUME ~c.exhausted PROVE Delivered(e)
    BY <2>1 DEF Delivered, e
  <2> DEFINE results == {n \in Nodes : c.graph[n] = "succeeded"}
             missing == {n \in Nodes : c.graph[n] \in {"failed", "blocked"}}
             gaps == missing \cup (results \cap ResourceGaps)
  <2>2. s = IF missing \cap Required # {} \/ (gaps # {} /\ results = {})
              THEN "failed" ELSE IF gaps # {} THEN "partial" ELSE "succeeded"
    BY DEF s, FinalStatus
  <2>3. AllNodesSettled(e)
    BY <2>1 DEF AllNodesSettled
  <2>4. Delivered(e) <=>
        /\ s = "succeeded" => gaps = {}
        /\ s = "partial" => (gaps # {} /\ missing \cap Required = {} /\ results # {})
        /\ s = "failed" => (missing \cap Required # {} \/ results = {})
    BY <2>1, <2>3 DEF Delivered
  <2> HIDE DEF results, missing, gaps
  <2> QED BY <2>2, <2>4
<1> HIDE DEF s
<1>5. /\ d \in Coordinator /\ d.graph = c.graph /\ d.run = c.run /\ d.attempt = c.attempt
      /\ d.limit = c.limit /\ d.retryable = c.retryable /\ d.stopped = c.stopped
      /\ d.cancel = c.cancel /\ d.exhausted = c.exhausted /\ d.status = s /\ d.wf = wf
      /\ [c EXCEPT !.status = s].graph = c.graph /\ [c EXCEPT !.status = s].status = s
      /\ [c EXCEPT !.status = s].cancel = c.cancel /\ [c EXCEPT !.status = s].exhausted = c.exhausted
  BY <1>0, <1>1, <1>3 DEF Coordinator
<1> DEFINE e == [c EXCEPT !.status = s]
<1> HIDE DEF d, e
<1>6. Delivered(d)
  BY <1>4, <1>5 DEF Delivered, AllNodesSettled, e
<1>7. CancelOnly(d)
  BY <1>1, <1>3, <1>5 DEF Sound, CancelOnly, s
<1>8. Kept(c, d)
  BY <1>5 DEF Kept
<1>9. \A n \in Nodes : Ledger(d, n, sel)
  BY <1>0, <1>5, <1>8, LedgerFrame DEF Sound
<1> QED BY <1>2, <1>5, <1>6, <1>7, <1>8, <1>9 DEF Sound, s

(* A cancel leaves a sound coordinator.                                    *)
LEMMA CancelledSound ==
  ASSUME NEW c, NEW sel, Sound(c, sel), c.cancel
  PROVE  LET d == Cancelled(c) IN
         /\ Sound(d, sel) /\ Kept(c, d) /\ d.cancel
         /\ \A n \in Nodes : d.graph[n] = IF c.graph[n] = "pending" THEN "cancelled" ELSE c.graph[n]
<1> DEFINE wf == IF c.wf \in TERMINAL_STATUSES THEN c.wf ELSE "cancelled"
           run == [n \in Nodes |-> IF c.run[n] \in TERMINAL_STATUSES THEN c.run[n] ELSE "cancelled"]
           graph == [n \in Nodes |-> IF c.graph[n] = "pending" THEN "cancelled" ELSE c.graph[n]]
           d == [c EXCEPT !.status = "cancelled", !.wf = wf, !.run = run, !.graph = graph]
<1>0. c \in Coordinator
  BY DEF Sound
<1>1. Cancelled(c) = d
  BY DEF Cancelled
<1>2. wf \in RunStatuses /\ run \in [Nodes -> RunStatuses]
  BY <1>0, FieldTypes DEF RunStatuses
<1>3. graph \in [Nodes -> Statuses]
  BY <1>0, FieldTypes DEF Statuses, Settled
<1>4. \A n \in Nodes :
        /\ run[n] = IF c.run[n] \in {"queued", "running"} THEN "cancelled" ELSE c.run[n]
        /\ graph[n] = IF c.graph[n] = "pending" THEN "cancelled" ELSE c.graph[n]
  BY <1>0, FieldTypes DEF TERMINAL_STATUSES
<1> HIDE DEF wf, run, graph
<1>5. /\ d \in Coordinator /\ d.graph = graph /\ d.run = run /\ d.attempt = c.attempt
      /\ d.limit = c.limit /\ d.retryable = c.retryable /\ d.stopped = c.stopped
      /\ d.cancel = c.cancel /\ d.status = "cancelled"
  BY <1>0, <1>2, <1>3 DEF Coordinator
<1> HIDE DEF d
<1>6. Kept(c, d)
  BY <1>4, <1>5 DEF Kept
<1>7. ASSUME NEW n \in Nodes PROVE Ledger(d, n, sel)
  <2>1. Ledger(c, n, sel) /\ (Earned(c, n, sel) => Earned(d, n, sel))
    BY <1>6, EarnedKept DEF Sound
  <2> QED BY <2>1, <1>4, <1>5 DEF Ledger, Startable
<1>8. CancelOnly(d) /\ Delivered(d)
  BY <1>5 DEF CancelOnly, Delivered
<1> QED BY <1>1, <1>4, <1>5, <1>6, <1>7, <1>8 DEF Sound

(* What is restored from a sound snapshot is sound.                        *)
LEMMA RestoredSound ==
  ASSUME NEW c, NEW sel, Sound(c, sel)
  PROVE  LET d == Restored(c) IN
         /\ Sound(d, sel) /\ Kept(c, d)
         /\ \A n \in Nodes : d.graph[n] # "running"
<1> DEFINE graph == [n \in Nodes |->
                       IF c.run[n] \in {"succeeded", "failed", "cancelled"} THEN c.run[n]
                       ELSE IF c.graph[n] = "running" THEN "pending" ELSE c.graph[n]]
           d == [c EXCEPT !.graph = graph]
<1>0. c \in Coordinator
  BY DEF Sound
<1>1. Restored(c) = d
  BY DEF Restored
<1>2. graph \in [Nodes -> Statuses]
  BY <1>0, FieldTypes DEF Statuses, Settled
<1>3. \A n \in Nodes :
        graph[n] = IF c.run[n] \in {"succeeded", "failed", "cancelled"} THEN c.run[n]
                   ELSE IF c.graph[n] = "running" THEN "pending" ELSE c.graph[n]
  OBVIOUS
<1> HIDE DEF graph
<1>4. /\ d \in Coordinator /\ d.graph = graph /\ d.run = c.run /\ d.attempt = c.attempt
      /\ d.limit = c.limit /\ d.retryable = c.retryable /\ d.stopped = c.stopped
      /\ d.cancel = c.cancel /\ d.status = c.status /\ d.wf = c.wf /\ d.exhausted = c.exhausted
  BY <1>0, <1>2 DEF Coordinator
<1> HIDE DEF d
<1>5. Kept(c, d)
  BY <1>3, <1>4 DEF Kept, Sound, Ledger
<1>6. ASSUME NEW n \in Nodes PROVE Ledger(d, n, sel)
  <2>1. Ledger(c, n, sel) /\ (Earned(c, n, sel) => Earned(d, n, sel))
    BY <1>5, EarnedKept DEF Sound
  <2>2. c.graph[n] \in Statuses /\ c.run[n] \in RunStatuses
    BY <1>0, FieldTypes
  <2> QED BY <2>1, <2>2, <1>3, <1>4 DEF Ledger, Startable, Statuses, Settled, RunStatuses
<1>7. CancelOnly(d)
  BY <1>3, <1>4 DEF Sound, CancelOnly
<1>8. Delivered(d)
  <2> SUFFICES ASSUME ~c.exhausted, ~c.cancel, c.status \in {"succeeded", "partial", "failed"}
               PROVE  Delivered(d)
    BY <1>4 DEF Delivered
  <2>1. AllNodesSettled(c) /\ Delivered(c)
    BY DEF Sound, Delivered
  <2>2. \A n \in Nodes :
          /\ d.graph[n] = "succeeded" <=> c.graph[n] = "succeeded"
          /\ d.graph[n] = "skipped" <=> c.graph[n] = "skipped"
          /\ d.graph[n] \in {"failed", "blocked"} <=> c.graph[n] \in {"failed", "blocked"}
    <3> TAKE n \in Nodes
    <3>1. Ledger(c, n, sel) /\ c.graph[n] \in {"succeeded", "skipped", "failed", "blocked"}
      BY <2>1 DEF Sound, AllNodesSettled
    <3>2. c.graph[n] = "blocked" => c.run[n] \in {"running", "queued", "failed"}
      BY <3>1 DEF Ledger, Startable
    <3> QED BY <3>1, <3>2, <1>3, <1>4 DEF Ledger
  <2>3. AllNodesSettled(d)
    BY <2>1, <2>2 DEF AllNodesSettled
  <2>4. /\ {n \in Nodes : d.graph[n] = "succeeded"} = {n \in Nodes : c.graph[n] = "succeeded"}
        /\ {n \in Nodes : d.graph[n] \in {"failed", "blocked"}}
             = {n \in Nodes : c.graph[n] \in {"failed", "blocked"}}
    BY <2>2
  <2> QED BY <2>1, <2>3, <2>4, <1>4 DEF Delivered
<1>9. \A n \in Nodes : d.graph[n] # "running"
  BY <1>3, <1>4
<1> QED BY <1>1, <1>4, <1>5, <1>6, <1>7, <1>8, <1>9 DEF Sound

(* A takeover, a resume and the quota resume leave a sound coordinator,    *)
(* with every result.                                                      *)
LEMMA PreparedSound ==
  ASSUME NEW c, NEW sel, Sound(c, sel), \A n \in Nodes : c.graph[n] # "running"
  PROVE  LET d == Prepared(c) IN
         /\ Sound(d, sel) /\ Kept(c, d) /\ d.cancel = c.cancel
         /\ \A n \in Nodes : d.graph[n] # "running"
<1> DEFINE graph == [n \in Nodes |-> IF Again(c, n) THEN "pending" ELSE c.graph[n]]
           retryable == [n \in Nodes |-> c.retryable[n] \/ Paused(c, n)]
           limit == [n \in Nodes |->
                       IF c.graph[n] = "failed" /\ Paused(c, n) /\ c.run[n] = "failed"
                         THEN Bigger(c.limit[n], c.attempt[n] + 1) ELSE c.limit[n]]
           p == [c EXCEPT !.graph = graph, !.retryable = retryable, !.limit = limit]
<1>0. c \in Coordinator
  BY DEF Sound
<1>1. Prepared(c) = IF c.cancel \/ c.status = "cancelled" \/ c.exhausted THEN c
                    ELSE IF c.status \in {"failed", "partial"} /\ \E n \in Nodes : p.graph[n] = "pending"
                    THEN Reopened(p) ELSE p
  BY DEF Prepared
<1>2. graph \in [Nodes -> Statuses] /\ retryable \in [Nodes -> BOOLEAN] /\ limit \in [Nodes -> Nat]
  BY <1>0, FieldTypes DEF Statuses, Settled, Paused, Bigger
<1>3. \A n \in Nodes :
        /\ graph[n] = IF Again(c, n) THEN "pending" ELSE c.graph[n]
        /\ retryable[n] <=> c.retryable[n] \/ Paused(c, n)
        /\ c.limit[n] <= limit[n]
        /\ c.graph[n] = "failed" /\ Paused(c, n) /\ c.run[n] = "failed" => c.attempt[n] < limit[n]
        /\ c.attempt[n] \in Nat /\ c.limit[n] \in Nat /\ limit[n] \in Nat
  <2>1. \A n \in Nodes :
          /\ graph[n] = IF Again(c, n) THEN "pending" ELSE c.graph[n]
          /\ retryable[n] <=> c.retryable[n] \/ Paused(c, n)
    OBVIOUS
  <2> HIDE DEF graph, retryable
  <2>2. \A n \in Nodes :
          /\ c.limit[n] <= limit[n]
          /\ c.graph[n] = "failed" /\ Paused(c, n) /\ c.run[n] = "failed" => c.attempt[n] < limit[n]
          /\ c.attempt[n] \in Nat /\ c.limit[n] \in Nat /\ limit[n] \in Nat
    BY <1>0, FieldTypes DEF Bigger
  <2> QED BY <2>1, <2>2
<1> HIDE DEF graph, retryable, limit
<1>4. /\ p \in Coordinator /\ p.graph = graph /\ p.run = c.run /\ p.attempt = c.attempt
      /\ p.limit = limit /\ p.retryable = retryable /\ p.stopped = c.stopped
      /\ p.cancel = c.cancel /\ p.status = c.status /\ p.wf = c.wf /\ p.exhausted = c.exhausted
  BY <1>0, <1>2 DEF Coordinator
<1>5. LET d == Reopened(p) IN
      /\ d \in Coordinator /\ d.graph = graph /\ d.run = c.run /\ d.attempt = c.attempt
      /\ d.limit = limit /\ d.retryable = retryable /\ d.stopped = c.stopped
      /\ d.cancel = c.cancel /\ d.status = "queued" /\ d.wf \in {c.wf, "queued"}
      /\ d.exhausted = c.exhausted
  <2> HIDE DEF p
  <2> QED BY <1>4 DEF Reopened, Coordinator, Bigger, RunStatuses
<1> HIDE DEF p
<1>6. ASSUME NEW d, d \in Coordinator, d.graph = graph, d.run = c.run, d.attempt = c.attempt,
             d.limit = limit, d.retryable = retryable, d.stopped = c.stopped, d.cancel = c.cancel,
             ~c.cancel
      PROVE  Kept(c, d) /\ \A n \in Nodes : Ledger(d, n, sel) /\ d.graph[n] # "running"
  <2>1. Kept(c, d)
    BY <1>3, <1>6 DEF Kept, Again
  <2>2. ASSUME NEW n \in Nodes PROVE Ledger(d, n, sel) /\ d.graph[n] # "running"
    <3>1. Ledger(c, n, sel) /\ (Earned(c, n, sel) => Earned(d, n, sel))
      BY <2>1, EarnedKept DEF Sound
    <3>2. c.graph[n] \in Statuses /\ c.run[n] \in RunStatuses
      BY <1>0, FieldTypes
    <3>3. CASE Again(c, n)
      <4>1. d.graph[n] = "pending"
        BY <1>3, <1>6, <3>3
      <4>2. c.graph[n] = "blocked" \/ (c.graph[n] = "failed" /\ c.run[n] = "failed")
        BY <3>1, <3>3 DEF Again, Ledger
      <4>3. c.graph[n] = "failed" => Startable(d, n) /\ Earned(d, n, sel)
        BY <1>3, <1>6, <3>1, <3>3, <4>2 DEF Again, Ledger, Paused, Startable
      <4>4. Startable(c, n) => Startable(d, n)
        BY <1>3, <1>6 DEF Startable
      <4>5. n \in d.stopped => Earned(d, n, sel)
        BY <1>6, <3>1 DEF Ledger
      <4> QED BY <4>1, <4>2, <4>3, <4>4, <4>5, <1>6, <3>1 DEF Ledger
    <3>4. CASE ~Again(c, n)
      <4>1. d.graph[n] = c.graph[n]
        BY <1>3, <1>6, <3>4
      <4>2. Startable(c, n) => Startable(d, n)
        BY <1>3, <1>6 DEF Startable
      <4>3. d.graph[n] = "failed" /\ d.retryable[n] => c.retryable[n]
        BY <1>3, <1>6, <3>4, <4>1 DEF Again
      <4> QED BY <4>1, <4>2, <4>3, <1>6, <3>1 DEF Ledger
    <3> QED BY <3>3, <3>4
  <2> QED BY <2>1, <2>2
<1>7. CASE c.cancel \/ c.status = "cancelled" \/ c.exhausted
  BY <1>1, <1>7 DEF Kept
<1>8. CASE ~(c.cancel \/ c.status = "cancelled" \/ c.exhausted)
  <2>1. /\ \A n \in Nodes : "cancelled" \notin {c.graph[n], c.run[n]}
        /\ c.wf # "cancelled"
    BY <1>8 DEF Sound, CancelOnly
  <2>2. CASE c.status \in {"failed", "partial"} /\ \E n \in Nodes : p.graph[n] = "pending"
    <3> DEFINE d == Reopened(p)
    <3>1. Prepared(c) = d
      BY <1>1, <1>8, <2>2
    <3> HIDE DEF d
    <3>2. Kept(c, d) /\ \A n \in Nodes : Ledger(d, n, sel) /\ d.graph[n] # "running"
      BY <1>5, <1>6, <1>8 DEF d
    <3>3. CancelOnly(d) /\ Delivered(d)
      BY <1>3, <1>5, <2>1 DEF CancelOnly, Delivered, d
    <3>4. d \in Coordinator /\ d.cancel = c.cancel
      BY <1>5 DEF d
    <3> QED BY <3>1, <3>2, <3>3, <3>4 DEF Sound
  <2>3. CASE ~(c.status \in {"failed", "partial"} /\ \E n \in Nodes : p.graph[n] = "pending")
    <3>1. Prepared(c) = p
      BY <1>1, <1>8, <2>3
    <3>2. Kept(c, p) /\ \A n \in Nodes : Ledger(p, n, sel) /\ p.graph[n] # "running"
      BY <1>4, <1>6, <1>8
    <3>3. CancelOnly(p)
      BY <1>3, <1>4, <1>8, <2>1 DEF CancelOnly
    <3>4. Delivered(p)
      <4> SUFFICES ASSUME c.status \in {"succeeded", "partial", "failed"} PROVE Delivered(p)
        BY <1>4 DEF Delivered
      <4>1. Delivered(c)
        BY DEF Sound
      <4>2. \A n \in Nodes : ~Again(c, n)
        <5>1. CASE c.status = "succeeded"
          BY <4>1, <5>1, <1>8 DEF Delivered, Again
        <5>2. CASE c.status # "succeeded"
          BY <5>2, <2>3, <1>3, <1>4
        <5> QED BY <5>1, <5>2
      <4>3. \A n \in Nodes : p.graph[n] = c.graph[n]
        BY <4>2, <1>3, <1>4
      <4>4. p.graph = c.graph
        BY <4>3, <1>0, <1>4, FieldTypes
      <4> QED BY <4>1, <4>4, <1>4 DEF Delivered, AllNodesSettled
    <3> QED BY <3>1, <3>2, <3>3, <3>4, <1>4 DEF Sound
  <2> QED BY <2>2, <2>3
<1> QED BY <1>7, <1>8

-----------------------------------------------------------------------------
(* The coordinator with its tasks.                                         *)

(* The task of a node agrees with both ledgers, and has earned what it     *)
(* does.                                                                   *)
TaskOK(c, t, n, sel) ==
  /\ t = "created" => c.graph[n] = "pending"
  /\ t \in {"queued", "executing", "backoff"} => c.graph[n] = "running"
  /\ t \in {"queued", "executing"} => c.run[n] = "running"
  /\ t = "backoff" => Startable(c, n) /\ c.run[n] = "failed"
  /\ t \in Unended => Earned(c, n, sel) /\ PolicyMet(c, n)

(* The nodes whose task has not ended.                                     *)
UnendedTasks == {n \in Nodes : task[n] \in Unended}

(* Who is told to stop, and what the main coroutine finds when it goes on: *)
(* no node is marked running without a task.                               *)
Control ==
  /\ cancelling \subseteq UnendedTasks
  /\ co.cancel => UnendedTasks \subseteq cancelling
  /\ main \in {"off", "done"} => \A n \in Nodes : task[n] = "none"
  /\ UnendedTasks # {} \/ main \in {"waiting", "cancelling"} => Open(co)
  /\ main \in {"waiting", "cancelling"} /\ ~co.cancel =>
       /\ cancelling = {}
       /\ \A n \in Nodes : co.graph[n] = "running" => n \in UnendedTasks

(* The invariant of the coordinator and of its tasks.                      *)
Core ==
  /\ main \in {"off", "waiting", "cancelling", "stopping", "closing", "done"}
  /\ task \in [Nodes -> Tasks]
  /\ selects \in [Nodes -> {"yes", "no", "unknown"}]
  /\ Sound(co, selects) /\ Sound(saved, selects) /\ Kept(saved, co)
  /\ \A n \in Nodes : TaskOK(co, task[n], n, selects)
  /\ Control

(* A node that has ended stays as it is.                                   *)
Onward(c, d) ==
  \A n \in Nodes : c.graph[n] \notin {"pending", "running"} => d.graph[n] = c.graph[n]

(* Then no result is lost,                                                 *)
LEMMA OnwardKept ==
  ASSUME NEW c, NEW d, Onward(c, d)
  PROVE  Kept(c, d)
  BY DEF Onward, Kept

(* the policy of a node stays met,                                         *)
LEMMA PolicyKept ==
  ASSUME NEW c \in Coordinator, NEW d, NEW n \in Nodes, Onward(c, d), PolicyMet(c, n)
  PROVE  PolicyMet(d, n)
<1>1. \A m \in Dependencies[n] : m \in Nodes /\ c.graph[m] \in Statuses
  BY CoordinatorAssumption, FieldTypes
<1> QED BY <1>1 DEF PolicyMet, With, Onward, Statuses, Settled

(* and a task whose node is left alone keeps its invariant.                *)
LEMMA TaskFrame ==
  ASSUME NEW c \in Coordinator, NEW d \in Coordinator, NEW sel, NEW n \in Nodes, NEW t,
         Onward(c, d), TaskOK(c, t, n, sel),
         d.graph[n] = c.graph[n], d.run[n] = c.run[n],
         d.attempt[n] = c.attempt[n], d.limit[n] = c.limit[n]
  PROVE  TaskOK(d, t, n, sel)
<1>1. Earned(c, n, sel) => Earned(d, n, sel)
  BY OnwardKept, EarnedKept
<1>2. PolicyMet(c, n) => PolicyMet(d, n)
  BY PolicyKept
<1> QED BY <1>1, <1>2 DEF TaskOK, Startable

(* A step of the task of one node.                                         *)
LEMMA NodeStep ==
  ASSUME Core, NEW n \in Nodes, task[n] \in Unended,
         NEW d \in Coordinator, NEW t \in Tasks, co' = d, task' = [task EXCEPT ![n] = t],
         co.graph[n] \in {"pending", "running"},
         OnlyNode(co, d, n),
         Ledger(d, n, selects),
         "cancelled" \in {d.graph[n], d.run[n]} => d.cancel,
         TaskOK(d, t, n, selects),
         \/ n \notin cancelling /\ cancelling' = cancelling
            /\ (d.graph[n] = "running" => t \in Unended)
         \/ n \in cancelling /\ cancelling' = cancelling \ {n} /\ t = "done",
         main' = main, selects' = selects,
         Sound(saved', selects), Kept(saved', d), Kept(saved, saved')
  PROVE  Core' /\ (co.cancel => co'.cancel) /\ Kept(saved, saved')
<1>0. co \in Coordinator /\ Sound(co, selects)
  BY DEF Core, Sound
<1>1. Open(co)
  BY DEF Core, Control, UnendedTasks
<1>2. Sound(d, selects) /\ Kept(co, d) /\ Open(d)
  BY <1>0, <1>1, OneNode
<1>3. Onward(co, d)
  BY DEF Onward, OnlyNode
<1>4. task' \in [Nodes -> Tasks]
  BY DEF Core
<1>5. ASSUME NEW m \in Nodes PROVE TaskOK(d, task'[m], m, selects)
  <2>1. CASE m = n
    BY <2>1 DEF Core
  <2>2. CASE m # n
    <3>1. task'[m] = task[m] /\ TaskOK(co, task[m], m, selects)
      BY <2>2 DEF Core
    <3> QED BY <3>1, <2>2, <1>0, <1>3, TaskFrame DEF OnlyNode
  <2> QED BY <2>1, <2>2
<1>6. /\ UnendedTasks' = IF t \in Unended THEN UnendedTasks ELSE UnendedTasks \ {n}
      /\ n \in UnendedTasks
  BY DEF UnendedTasks, Core
<1>7. "done" \notin Unended
  BY DEF Unended
<1>8. main \notin {"off", "done"}
  BY DEF Core, Control, Unended
<1>9. CASE n \notin cancelling /\ cancelling' = cancelling /\ (d.graph[n] = "running" => t \in Unended)
  <2>1. ~co.cancel
    BY <1>6, <1>9 DEF Core, Control
  <2>2. cancelling' \subseteq UnendedTasks'
    BY <1>6, <1>9 DEF Core, Control
  <2>3. main' \in {"waiting", "cancelling"} =>
          /\ cancelling' = {}
          /\ \A m \in Nodes : co'.graph[m] = "running" => m \in UnendedTasks'
    BY <1>6, <1>9, <2>1 DEF Core, Control, OnlyNode
  <2>4. Control'
    BY <1>2, <1>8, <2>1, <2>2, <2>3 DEF Control, Open, OnlyNode
  <2> QED BY <1>2, <1>4, <1>5, <2>4 DEF Core, OnlyNode
<1>10. CASE n \in cancelling /\ cancelling' = cancelling \ {n} /\ t = "done"
  <2>1. UnendedTasks' = UnendedTasks \ {n}
    BY <1>6, <1>7, <1>10
  <2>2. main \in {"waiting", "cancelling"} => co.cancel
    BY <1>10 DEF Core, Control
  <2>3. Control'
    BY <1>2, <1>8, <1>10, <2>1, <2>2 DEF Core, Control, Open, OnlyNode
  <2> QED BY <1>2, <1>4, <1>5, <2>3 DEF Core, OnlyNode
<1> QED BY <1>9, <1>10

(* n runs in d, after co.                                                  *)
Runs(d, n) ==
  /\ d \in Coordinator /\ OnlyNode(co, d, n)
  /\ d.graph[n] = "running" /\ d.run[n] = "running"
  /\ Earned(d, n, selects) /\ PolicyMet(d, n)

(* The handler of _run_node for a failure: the node is retried, pauses the *)
(* workflow or fails.                                                      *)
LEMMA FailsStep ==
  ASSUME Core, NEW n \in Nodes, task[n] \in Unended, n \notin cancelling,
         co.graph[n] \in {"pending", "running"},
         NEW c, Runs(c, n), NEW kind, Fails(c, n, kind),
         UNCHANGED <<main, cancelling, selects>>
  PROVE  Core' /\ (co.cancel => co'.cancel) /\ Kept(saved, saved')
<1> DEFINE seen == Transition(c, n, "failed")
           again == Retrying(c, n, kind)
           retryable == [c.retryable EXCEPT ![n] = again]
           stopped == CASE kind \in {"quota", "quota_untimed"} -> c.stopped \cup {n}
                        [] kind = "stop" -> c.stopped \ {n}
                        [] OTHER -> c.stopped
           quota == c.quota \/ kind = "quota"
           policy == [seen EXCEPT !.retryable = retryable, !.stopped = stopped, !.quota = quota]
           d == IF again THEN policy ELSE [policy EXCEPT !.graph[n] = "failed"]
           t == IF again THEN "backoff" ELSE "done"
<1>0. c \in Coordinator /\ co \in Coordinator
  BY DEF Runs, Core, Sound
<1>1. "failed" \in RunStatuses /\ "failed" \in Allowed["running"] /\ "failed" \in Statuses
  BY DEF RunStatuses, Allowed, Statuses, Settled
<1>2. /\ seen \in Coordinator
      /\ seen.run = [c.run EXCEPT ![n] = "failed"]
      /\ seen.graph = c.graph /\ seen.limit = c.limit /\ seen.retryable = c.retryable
      /\ seen.attempt = c.attempt /\ seen.stopped = c.stopped /\ seen.status = c.status
      /\ seen.wf = c.wf /\ seen.cancel = c.cancel /\ seen.exhausted = c.exhausted
      /\ seen.quota = c.quota
  BY <1>0, <1>1, TransitionIs DEF Runs
<1> HIDE DEF seen
<1>3. retryable \in [Nodes -> BOOLEAN] /\ stopped \in SUBSET Nodes /\ quota \in BOOLEAN /\ again \in BOOLEAN
  BY <1>0, FieldTypes DEF Retrying, Coordinator
<1>4. \A m \in Nodes \ {n} : retryable[m] = c.retryable[m] /\ (m \in stopped <=> m \in c.stopped)
  BY <1>0, FieldTypes
<1>5. again => c.attempt[n] < c.limit[n]
  BY DEF Retrying
<1> HIDE DEF retryable, stopped, quota, again
<1>6. /\ policy \in Coordinator /\ policy.graph = c.graph /\ policy.run = seen.run
      /\ policy.attempt = c.attempt /\ policy.limit = c.limit /\ policy.retryable = retryable
      /\ policy.stopped = stopped /\ policy.status = c.status /\ policy.wf = c.wf
      /\ policy.cancel = c.cancel /\ policy.exhausted = c.exhausted
  BY <1>2, <1>3 DEF Coordinator
<1>7. saved' = seen /\ co' = d /\ task' = [task EXCEPT ![n] = t]
  <2>1. policy = [seen EXCEPT !.retryable[n] = again,
                   !.stopped = CASE kind \in {"quota", "quota_untimed"} -> @ \cup {n}
                                 [] kind = "stop" -> @ \ {n}
                                 [] OTHER -> @,
                   !.quota = @ \/ kind = "quota"]
    BY <1>2 DEF retryable, stopped, quota, Coordinator
  <2> HIDE DEF policy
  <2> QED BY <2>1 DEF Fails, At, seen, again
<1> HIDE DEF policy
<1>8. /\ d \in Coordinator /\ d.run = seen.run
      /\ d.graph = IF again THEN c.graph ELSE [c.graph EXCEPT ![n] = "failed"]
      /\ d.attempt = c.attempt /\ d.limit = c.limit /\ d.retryable = retryable
      /\ d.stopped = stopped /\ d.status = c.status /\ d.wf = c.wf
      /\ d.cancel = c.cancel /\ d.exhausted = c.exhausted
  BY <1>1, <1>6, SetGraphIs
<1> HIDE DEF d
<1>9. c.graph \in [Nodes -> Statuses] /\ c.run \in [Nodes -> RunStatuses]
  BY <1>0, FieldTypes
<1>10. OnlyNode(co, seen, n) /\ OnlyNode(co, d, n)
  BY <1>2, <1>4, <1>8, <1>9 DEF Runs, OnlyNode
<1>11. /\ seen.graph[n] = "running" /\ seen.run[n] = "failed" /\ d.run[n] = "failed"
       /\ d.graph[n] = IF again THEN "running" ELSE "failed"
  BY <1>2, <1>8, <1>9 DEF Runs
<1>12. Onward(c, d) /\ Onward(c, seen) /\ Kept(seen, d) /\ Kept(saved, c)
  <2>1. Kept(co, c)
    BY DEF OnlyNode, Kept, Runs
  <2> QED BY <2>1, <1>2, <1>8, <1>9, <1>11 DEF Onward, Kept, Core, Runs
<1>13. /\ Earned(d, n, selects) /\ PolicyMet(d, n)
       /\ Earned(seen, n, selects)
  BY <1>0, <1>12, OnwardKept, EarnedKept, PolicyKept DEF Runs
<1>14. Ledger(d, n, selects) /\ Ledger(seen, n, selects)
  BY <1>11, <1>13 DEF Ledger
<1>15. TaskOK(d, t, n, selects)
  BY <1>5, <1>8, <1>11, <1>13 DEF TaskOK, Startable, Unended
<1>16. Open(co) /\ Sound(co, selects)
  BY DEF Core, Control, UnendedTasks
<1>17. Sound(seen, selects)
  BY <1>2, <1>10, <1>11, <1>14, <1>16, OneNode
<1>18. t \in Tasks /\ (d.graph[n] = "running" => t \in Unended)
  BY <1>11 DEF Tasks, Unended
<1> HIDE DEF t
<1>19. Kept(saved, saved')
  BY <1>2, <1>7, <1>12 DEF Kept
<1> QED
  BY <1>7, <1>8, <1>10, <1>11, <1>12, <1>14, <1>15, <1>17, <1>18, <1>19, NodeStep

(* A node that begins runs in both ledgers.                                *)
LEMMA BegunRuns ==
  ASSUME Core, NEW n \in Nodes, task[n] = "created", n \notin cancelling
  PROVE  /\ Runs(Begun(n), n) /\ co.graph[n] = "pending" /\ Kept(saved, Begun(n))
<1> DEFINE c == [co EXCEPT !.graph[n] = "running"]
           b == StartRun(c, n)
<1>0. co \in Coordinator /\ Begun(n) = b
  BY DEF Core, Sound, Begun
<1>1. /\ c \in Coordinator /\ c.graph = [co.graph EXCEPT ![n] = "running"]
      /\ c.run = co.run /\ c.limit = co.limit /\ c.retryable = co.retryable
      /\ c.attempt = co.attempt /\ c.stopped = co.stopped /\ c.status = co.status
      /\ c.wf = co.wf /\ c.cancel = co.cancel /\ c.exhausted = co.exhausted
  <2>1. "running" \in Statuses
    BY DEF Statuses
  <2> QED BY <1>0, <2>1, SetGraphIs
<1> HIDE DEF c
<1>2. /\ b \in Coordinator
      /\ b.run = IF Startable(c, n) THEN [c.run EXCEPT ![n] = "running"] ELSE c.run
      /\ b.attempt = IF Startable(c, n) THEN [c.attempt EXCEPT ![n] = c.attempt[n] + 1]
                                        ELSE c.attempt
      /\ b.graph = c.graph /\ b.limit = c.limit /\ b.retryable = c.retryable
      /\ b.stopped = c.stopped /\ b.status = c.status
      /\ b.wf = c.wf /\ b.cancel = c.cancel /\ b.exhausted = c.exhausted
  BY <1>1, StartRunIs
<1> HIDE DEF b
<1>3. /\ co.graph[n] = "pending" /\ Earned(co, n, selects) /\ PolicyMet(co, n)
      /\ Ledger(co, n, selects) /\ ~co.cancel
  BY DEF Core, Sound, Control, TaskOK, Unended, UnendedTasks
<1>4. Startable(c, n) <=> Startable(co, n)
  BY <1>1 DEF Startable
<1>5. b.graph[n] = "running" /\ b.run[n] = "running"
  BY <1>0, <1>1, <1>2, <1>3, <1>4, FieldTypes DEF Ledger
<1>6. OnlyNode(co, b, n) /\ Onward(co, b)
  BY <1>0, <1>1, <1>2, <1>3, FieldTypes DEF OnlyNode, Onward
<1>7. Earned(b, n, selects) /\ PolicyMet(b, n)
  BY <1>0, <1>3, <1>6, OnwardKept, EarnedKept, PolicyKept
<1>8. Kept(saved, b)
  BY <1>6, OnwardKept DEF Kept, Core
<1> QED BY <1>0, <1>2, <1>3, <1>5, <1>6, <1>7, <1>8 DEF Runs

(* The task of n goes on with d, which is also what is saved.              *)
LEMMA RunsOn ==
  ASSUME Core, NEW n \in Nodes, task[n] \in Unended, n \notin cancelling,
         co.graph[n] \in {"pending", "running"},
         NEW d, Runs(d, n), NEW t \in {"queued", "executing"},
         co' = d, task' = [task EXCEPT ![n] = t], saved' = d \/ saved' = saved,
         UNCHANGED <<main, cancelling, selects>>
  PROVE  Core' /\ (co.cancel => co'.cancel) /\ Kept(saved, saved')
<1>1. d \in Coordinator /\ OnlyNode(co, d, n) /\ Ledger(d, n, selects) /\ TaskOK(d, t, n, selects)
      /\ d.graph[n] = "running" /\ d.run[n] = "running"
  BY DEF Runs, Ledger, TaskOK
<1>2. t \in Tasks /\ t \in Unended
  BY DEF Tasks, Unended
<1>3. Sound(co, selects) /\ Sound(saved, selects) /\ Kept(saved, co) /\ Open(co)
  BY DEF Core, Control, UnendedTasks
<1>4. Sound(d, selects) /\ Kept(co, d)
  BY <1>1, <1>3, OneNode
<1>5. Sound(saved', selects) /\ Kept(saved', d) /\ Kept(saved, saved')
  BY <1>3, <1>4 DEF Kept
<1> QED BY <1>1, <1>2, <1>5, NodeStep

(* A task that has its slot calls the executor.                            *)
LEMMA ExecuteStep ==
  ASSUME Core, NEW n \in Nodes, task[n] \in Unended, n \notin cancelling,
         co.graph[n] \in {"pending", "running"},
         NEW c, Runs(c, n), Execute(c, n),
         UNCHANGED <<main, cancelling, selects>>
  PROVE  Core' /\ (co.cancel => co'.cancel) /\ Kept(saved, saved')
<1>0. c \in Coordinator
  BY DEF Runs
<1>1. CASE c.executions[n] > 0 /\ c.retries >= MaxRetries
  <2> DEFINE d == [c EXCEPT !.exhausted = TRUE]
  <2>1. /\ d \in Coordinator /\ d.graph = c.graph /\ d.run = c.run /\ d.attempt = c.attempt
        /\ d.limit = c.limit /\ d.retryable = c.retryable /\ d.stopped = c.stopped
        /\ d.status = c.status /\ d.wf = c.wf /\ d.cancel = c.cancel /\ d.exhausted = TRUE
    BY <1>0 DEF Coordinator
  <2>2. Fails(d, n, "local")
    BY <1>1 DEF Execute
  <2> HIDE DEF d
  <2>3. Runs(d, n)
    <3>1. OnlyNode(co, d, n) /\ d.graph[n] = "running" /\ d.run[n] = "running"
      BY <2>1 DEF Runs, OnlyNode
    <3>2. Onward(c, d)
      BY <2>1 DEF Onward
    <3>3. Earned(d, n, selects) /\ PolicyMet(d, n)
      BY <1>0, <3>2, OnwardKept, EarnedKept, PolicyKept DEF Runs
    <3> QED BY <2>1, <3>1, <3>3 DEF Runs
  <2> QED BY <2>2, <2>3, FailsStep
<1>2. CASE ~(c.executions[n] > 0 /\ c.retries >= MaxRetries)
  <2> DEFINE executions == [c.executions EXCEPT ![n] = @ + 1]
             retries == c.retries + (IF c.executions[n] > 0 THEN 1 ELSE 0)
             d == [c EXCEPT !.executions = executions, !.retries = retries]
  <2>1. executions \in [Nodes -> Nat] /\ retries \in Nat
    BY <1>0, FieldTypes
  <2>2. co' = d /\ saved' = d /\ task' = [task EXCEPT ![n] = "executing"]
    BY <1>2 DEF Execute, Persist, At
  <2> HIDE DEF executions, retries
  <2>3. /\ d \in Coordinator /\ d.graph = c.graph /\ d.run = c.run /\ d.attempt = c.attempt
        /\ d.limit = c.limit /\ d.retryable = c.retryable /\ d.stopped = c.stopped
        /\ d.status = c.status /\ d.wf = c.wf /\ d.cancel = c.cancel /\ d.exhausted = c.exhausted
    BY <1>0, <2>1 DEF Coordinator
  <2> HIDE DEF d
  <2>4. Runs(d, n)
    <3>1. OnlyNode(co, d, n) /\ d.graph[n] = "running" /\ d.run[n] = "running"
      BY <2>3 DEF Runs, OnlyNode
    <3>2. Onward(c, d)
      BY <2>3 DEF Onward
    <3>3. Earned(d, n, selects) /\ PolicyMet(d, n)
      BY <1>0, <3>2, OnwardKept, EarnedKept, PolicyKept DEF Runs
    <3> QED BY <2>3, <3>1, <3>3 DEF Runs
  <2> QED BY <2>2, <2>4, RunsOn
<1> QED BY <1>1, <1>2

(* A node with a task that holds its slot runs.                            *)
LEMMA StillRuns ==
  ASSUME Core, NEW n \in Nodes, task[n] \in {"queued", "executing"}
  PROVE  Runs(co, n) /\ co.graph[n] = "running" /\ task[n] \in Unended
<1>1. task[n] \in Unended
  BY DEF Unended
<1>2. TaskOK(co, task[n], n, selects) /\ co \in Coordinator
  BY DEF Core, Sound
<1> QED BY <1>1, <1>2 DEF TaskOK, Runs, OnlyNode

(* The actions of a node task.                                             *)
LEMMA NodeStartStep ==
  ASSUME Core, NEW n \in Nodes, NodeStart(n)
  PROVE  Core' /\ (co.cancel => co'.cancel) /\ Kept(saved, saved')
<1>0. /\ task[n] = "created" /\ task[n] \in Unended /\ n \notin cancelling
      /\ UNCHANGED <<main, cancelling, selects>>
  BY DEF NodeStart, Body, Unended
<1>1. Runs(Begun(n), n) /\ co.graph[n] = "pending"
  BY <1>0, BegunRuns
<1>2. CASE SlotFree
  <2>1. Execute(Begun(n), n)
    BY <1>2 DEF NodeStart
  <2> QED BY <1>0, <1>1, <2>1, ExecuteStep
<1>3. CASE ~SlotFree
  <2>1. /\ co' = Begun(n) /\ (saved' = Begun(n) \/ saved' = saved)
        /\ task' = [task EXCEPT ![n] = "queued"]
    BY <1>3 DEF NodeStart, At
  <2> QED BY <1>0, <1>1, <2>1, RunsOn
<1> QED BY <1>2, <1>3

LEMMA ContractFailsStep ==
  ASSUME Core, NEW n \in Nodes, ContractFails(n)
  PROVE  Core' /\ (co.cancel => co'.cancel) /\ Kept(saved, saved')
<1>0. /\ task[n] = "created" /\ task[n] \in Unended /\ n \notin cancelling
      /\ UNCHANGED <<main, cancelling, selects>> /\ Fails(Begun(n), n, "local")
  BY DEF ContractFails, Body, Unended
<1>1. Runs(Begun(n), n) /\ co.graph[n] = "pending"
  BY <1>0, BegunRuns
<1> QED BY <1>0, <1>1, FailsStep

LEMMA AcquireStep ==
  ASSUME Core, NEW n \in Nodes, Acquire(n)
  PROVE  Core' /\ (co.cancel => co'.cancel) /\ Kept(saved, saved')
<1>0. /\ task[n] \in {"queued", "executing"} /\ n \notin cancelling
      /\ UNCHANGED <<main, cancelling, selects>> /\ Execute(co, n)
  BY DEF Acquire, Body
<1> QED BY <1>0, StillRuns, ExecuteStep

LEMMA FailStep ==
  ASSUME Core, NEW n \in Nodes, Fail(n)
  PROVE  Core' /\ (co.cancel => co'.cancel) /\ Kept(saved, saved')
<1>0. /\ task[n] \in {"queued", "executing"} /\ n \notin cancelling
      /\ UNCHANGED <<main, cancelling, selects>>
  BY DEF Fail, Body
<1>1. PICK kind \in Failures : Fails(co, n, kind)
  BY DEF Fail
<1> QED BY <1>0, <1>1, StillRuns, FailsStep

(* The task of n ends with d, which is also what is saved.                 *)
LEMMA Ends ==
  ASSUME Core, NEW n \in Nodes, task[n] \in Unended,
         co.graph[n] \in {"pending", "running"},
         NEW d \in Coordinator, OnlyNode(co, d, n), Ledger(d, n, selects),
         "cancelled" \in {d.graph[n], d.run[n]} => d.cancel,
         co' = d, saved' = d, task' = [task EXCEPT ![n] = "done"],
         \/ n \notin cancelling /\ cancelling' = cancelling /\ d.graph[n] # "running"
         \/ n \in cancelling /\ cancelling' = cancelling \ {n},
         UNCHANGED <<main, selects>>
  PROVE  Core' /\ (co.cancel => co'.cancel) /\ Kept(saved, saved')
<1>1. TaskOK(d, "done", n, selects) /\ "done" \in Tasks
  BY DEF TaskOK, Unended, Tasks
<1>2. Sound(co, selects) /\ Open(co) /\ Kept(saved, co)
  BY DEF Core, Control, UnendedTasks
<1>3. Sound(d, selects) /\ Kept(co, d)
  BY <1>2, OneNode
<1>4. Kept(d, d) /\ Kept(saved, d)
  BY <1>2, <1>3 DEF Kept
<1> QED BY <1>1, <1>3, <1>4, NodeStep

LEMMA ReturnStep ==
  ASSUME Core, NEW n \in Nodes, Return(n)
  PROVE  Core' /\ (co.cancel => co'.cancel) /\ Kept(saved, saved')
<1> DEFINE seen == Transition(co, n, "succeeded")
           graph == [seen.graph EXCEPT ![n] = "succeeded"]
           retryable == [seen.retryable EXCEPT ![n] = TRUE]
           d == [seen EXCEPT !.graph = graph, !.retryable = retryable]
<1>0. /\ task[n] \in {"queued", "executing"} /\ n \notin cancelling
      /\ UNCHANGED <<main, cancelling, selects>>
      /\ task' = [task EXCEPT ![n] = "done"]
      /\ co \in Coordinator
  BY DEF Return, Body, At, Core, Sound
<1>1. Runs(co, n) /\ task[n] \in Unended
  BY <1>0, StillRuns
<1>2. "succeeded" \in RunStatuses /\ "succeeded" \in Allowed["running"] /\ "succeeded" \in Statuses
  BY DEF RunStatuses, Allowed, Statuses, Settled
<1>3. /\ seen \in Coordinator
      /\ seen.run = [co.run EXCEPT ![n] = "succeeded"]
      /\ seen.graph = co.graph /\ seen.limit = co.limit /\ seen.retryable = co.retryable
      /\ seen.attempt = co.attempt /\ seen.stopped = co.stopped /\ seen.status = co.status
      /\ seen.wf = co.wf /\ seen.cancel = co.cancel /\ seen.exhausted = co.exhausted
  BY <1>0, <1>1, <1>2, TransitionIs DEF Runs
<1>4. d = [seen EXCEPT !.graph[n] = "succeeded", !.retryable[n] = TRUE]
  OBVIOUS
<1>5. co' = d /\ saved' = d
  BY <1>4 DEF Return, Persist
<1> HIDE DEF seen
<1>6. graph \in [Nodes -> Statuses] /\ retryable \in [Nodes -> BOOLEAN]
  BY <1>2, <1>3, FieldTypes
<1>7. \A m \in Nodes \ {n} : graph[m] = co.graph[m] /\ retryable[m] = co.retryable[m]
  BY <1>3, <1>0, FieldTypes
<1>8. graph[n] = "succeeded"
  BY <1>3, <1>0, FieldTypes
<1> HIDE DEF graph, retryable
<1>9. /\ d \in Coordinator /\ d.graph = graph /\ d.run = seen.run /\ d.attempt = co.attempt
      /\ d.limit = co.limit /\ d.retryable = retryable /\ d.stopped = co.stopped
      /\ d.status = co.status /\ d.wf = co.wf /\ d.cancel = co.cancel /\ d.exhausted = co.exhausted
  BY <1>3, <1>6 DEF Coordinator
<1> HIDE DEF d
<1>10. OnlyNode(co, d, n) /\ d.run[n] = "succeeded"
  BY <1>0, <1>3, <1>7, <1>9, FieldTypes DEF OnlyNode
<1>11. Ledger(d, n, selects)
  <2>2. Kept(co, d)
    BY <1>8, <1>9, <1>10 DEF Kept, OnlyNode
  <2>3. Earned(d, n, selects)
    BY <1>1, <2>2, EarnedKept DEF Runs
  <2> QED BY <1>8, <1>9, <1>10, <2>3 DEF Ledger
<1>12. co.graph[n] = "running"
  BY <1>1 DEF Runs
<1> QED BY <1>0, <1>1, <1>5, <1>8, <1>9, <1>10, <1>11, <1>12, Ends

LEMMA BackoffEndsStep ==
  ASSUME Core, NEW n \in Nodes, BackoffEnds(n)
  PROVE  Core' /\ (co.cancel => co'.cancel) /\ Kept(saved, saved')
<1> DEFINE c == [co EXCEPT !.graph[n] = "pending"]
           d == StartRun(c, n)
<1>0. /\ task[n] = "backoff" /\ task[n] \in Unended /\ n \notin cancelling
      /\ UNCHANGED <<main, cancelling, selects>>
      /\ task' = [task EXCEPT ![n] = "done"]
      /\ co \in Coordinator /\ co' = d /\ saved' = d
  BY DEF BackoffEnds, Body, At, Core, Sound, Unended, Persist
<1>1. /\ c \in Coordinator /\ c.graph = [co.graph EXCEPT ![n] = "pending"]
      /\ c.run = co.run /\ c.limit = co.limit /\ c.retryable = co.retryable
      /\ c.attempt = co.attempt /\ c.stopped = co.stopped /\ c.status = co.status
      /\ c.wf = co.wf /\ c.cancel = co.cancel /\ c.exhausted = co.exhausted
  <2>1. "pending" \in Statuses
    BY DEF Statuses
  <2> QED BY <1>0, <2>1, SetGraphIs
<1> HIDE DEF c
<1>2. TaskOK(co, "backoff", n, selects)
  BY <1>0 DEF Core
<1>3. /\ co.graph[n] = "running" /\ Startable(c, n) /\ Earned(co, n, selects)
  BY <1>1, <1>2 DEF TaskOK, Startable, Unended
<1>4. /\ d \in Coordinator
      /\ d.run = [c.run EXCEPT ![n] = "running"]
      /\ d.attempt = [c.attempt EXCEPT ![n] = c.attempt[n] + 1]
      /\ d.graph = c.graph /\ d.limit = c.limit /\ d.retryable = c.retryable
      /\ d.stopped = c.stopped /\ d.status = c.status
      /\ d.wf = c.wf /\ d.cancel = c.cancel /\ d.exhausted = c.exhausted
  BY <1>1, <1>3, StartRunIs
<1> HIDE DEF d
<1>5. OnlyNode(co, d, n) /\ d.graph[n] = "pending" /\ d.run[n] = "running"
  BY <1>0, <1>1, <1>4, FieldTypes DEF OnlyNode
<1>6. Kept(co, d)
  BY <1>3, <1>5 DEF Kept, OnlyNode
<1>7. Ledger(d, n, selects)
  BY <1>3, <1>5, <1>6, EarnedKept DEF Ledger
<1> QED BY <1>0, <1>3, <1>4, <1>5, <1>7, Ends

LEMMA InterruptedStep ==
  ASSUME Core, NEW n \in Nodes, Interrupted(n)
  PROVE  Core' /\ (co.cancel => co'.cancel) /\ Kept(saved, saved')
<1>0. /\ n \in cancelling /\ cancelling' = cancelling \ {n}
      /\ UNCHANGED <<main, selects>>
      /\ task' = [task EXCEPT ![n] = "done"]
      /\ co \in Coordinator /\ TaskOK(co, task[n], n, selects) /\ Ledger(co, n, selects)
  BY DEF Interrupted, Body, At, Core, Sound
<1>1. task[n] \in Unended
  BY <1>0 DEF Core, Control, UnendedTasks
<1>2. co.graph[n] \in {"pending", "running"}
  BY <1>0, <1>1 DEF TaskOK, Unended
<1>3. CASE task[n] \in {"queued", "executing"}
  <2>1. Runs(co, n)
    BY <1>3, StillRuns
  <2>2. co' = CancelledNode(co, n) /\ saved' = CancelledNode(co, n)
    BY <1>3 DEF Interrupted, Persist
  <2>3. CASE co.cancel
    <3> DEFINE c == [co EXCEPT !.graph[n] = "cancelled"]
               d == CancelRun(c, n)
    <3>1. /\ c \in Coordinator /\ c.graph = [co.graph EXCEPT ![n] = "cancelled"]
          /\ c.run = co.run /\ c.limit = co.limit /\ c.retryable = co.retryable
          /\ c.attempt = co.attempt /\ c.stopped = co.stopped /\ c.status = co.status
          /\ c.wf = co.wf /\ c.cancel = co.cancel /\ c.exhausted = co.exhausted
      <4>1. "cancelled" \in Statuses
        BY DEF Statuses, Settled
      <4> QED BY <1>0, <4>1, SetGraphIs
    <3>2. co' = d /\ saved' = d
      BY <2>2, <2>3 DEF CancelledNode
    <3> HIDE DEF c
    <3>3. "running" \notin TERMINAL_STATUSES
      BY DEF TERMINAL_STATUSES
    <3>4. c.run[n] = "running"
      BY <2>1, <3>1 DEF Runs
    <3>5. /\ d \in Coordinator
          /\ d.run = [c.run EXCEPT ![n] = "cancelled"]
          /\ d.graph = c.graph /\ d.limit = c.limit /\ d.retryable = c.retryable
          /\ d.attempt = c.attempt /\ d.stopped = c.stopped /\ d.status = c.status
          /\ d.wf = c.wf /\ d.cancel = c.cancel /\ d.exhausted = c.exhausted
      BY <3>1, <3>3, <3>4, CancelRunIs
    <3> HIDE DEF d
    <3>6. OnlyNode(co, d, n) /\ d.graph[n] = "cancelled" /\ d.run[n] = "cancelled" /\ d.cancel
      BY <1>0, <2>3, <3>1, <3>5, FieldTypes DEF OnlyNode
    <3>7. Kept(co, d)
      BY <1>2, <3>6 DEF Kept, OnlyNode
    <3>8. Ledger(d, n, selects)
      BY <2>1, <3>6, <3>7, EarnedKept DEF Ledger, Runs
    <3> QED BY <1>0, <1>1, <1>2, <3>2, <3>5, <3>6, <3>8, Ends
  <2>4. CASE ~co.cancel
    <3> DEFINE d == [co EXCEPT !.graph[n] = "pending"]
    <3>1. /\ d \in Coordinator /\ d.graph = [co.graph EXCEPT ![n] = "pending"]
          /\ d.run = co.run /\ d.limit = co.limit /\ d.retryable = co.retryable
          /\ d.attempt = co.attempt /\ d.stopped = co.stopped /\ d.status = co.status
          /\ d.wf = co.wf /\ d.cancel = co.cancel /\ d.exhausted = co.exhausted
      <4>1. "pending" \in Statuses
        BY DEF Statuses
      <4> QED BY <1>0, <4>1, SetGraphIs
    <3>2. co' = d /\ saved' = d
      BY <2>2, <2>4 DEF CancelledNode
    <3> HIDE DEF d
    <3>3. OnlyNode(co, d, n) /\ d.graph[n] = "pending" /\ d.run[n] = "running"
      BY <1>0, <2>1, <3>1, FieldTypes DEF OnlyNode, Runs
    <3>4. Kept(co, d)
      BY <1>2, <3>3 DEF Kept, OnlyNode
    <3>5. Ledger(d, n, selects)
      BY <2>1, <3>3, <3>4, EarnedKept DEF Ledger, Runs
    <3> QED BY <1>0, <1>1, <1>2, <3>1, <3>2, <3>3, <3>5, Ends
  <2> QED BY <2>3, <2>4
<1>4. CASE task[n] \notin {"queued", "executing"}
  <2>1. co' = co /\ saved' = saved
    BY <1>4 DEF Interrupted
  <2>2. OnlyNode(co, co, n) /\ TaskOK(co, "done", n, selects) /\ "done" \in Tasks
    BY DEF OnlyNode, TaskOK, Unended, Tasks
  <2>3. "cancelled" \in {co.graph[n], co.run[n]} => co.cancel
    BY DEF Core, Sound, CancelOnly
  <2>4. Sound(saved, selects) /\ Kept(saved, co) /\ Kept(saved, saved)
    BY DEF Core, Kept
  <2> QED BY <1>0, <1>1, <1>2, <2>1, <2>2, <2>3, <2>4, NodeStep
<1> QED BY <1>3, <1>4

(* A turn of the loop of _run: passes, the ready nodes get tasks, or the   *)
(* workflow is finished.                                                   *)
LEMMA LoopStep ==
  ASSUME NEW c, NEW left \in SUBSET Nodes, Sound(c, selects), Open(c), Loop(c, left),
         task \in [Nodes -> Tasks], selects \in [Nodes -> {"yes", "no", "unknown"}],
         Sound(saved, selects), Kept(saved, c),
         left = UnendedTasks,
         \A n \in left : TaskOK(c, task[n], n, selects),
         cancelling \subseteq left,
         ~c.cancel => /\ cancelling = {}
                      /\ \A n \in Nodes : c.graph[n] = "running" => n \in left,
         selects' = selects
  PROVE  Core' /\ (c.cancel => co'.cancel) /\ Kept(saved, saved')
<1>0. c \in Coordinator
  BY DEF Sound
<1>n. \A d : \A n \in Nodes : TaskOK(d, "none", n, selects)
  BY DEF TaskOK, Unended
<1>t. {"none", "created"} \subseteq Tasks /\ "none" \notin Unended /\ "created" \in Unended
  BY DEF Tasks, Unended
<1>1. CASE c.cancel /\ left # {} /\ co' = c /\ saved' = saved /\ cancelling' = left
           /\ task' = [n \in Nodes |-> IF n \in left THEN task[n] ELSE "none"]
           /\ main' = "cancelling"
  <2>1. task' \in [Nodes -> Tasks]
    BY <1>1, <1>t
  <2>2. \A n \in Nodes : TaskOK(c, task'[n], n, selects)
    BY <1>1, <1>n
  <2>3. UnendedTasks' = left
    BY <1>1, <1>t DEF UnendedTasks
  <2>4. Control' /\ Kept(saved, saved')
    BY <1>1, <2>3 DEF Control, Kept
  <2> QED BY <1>1, <2>1, <2>2, <2>4 DEF Core
<1>2. CASE c.cancel /\ left = {} /\ Persist(Cancelled(c)) /\ cancelling' = {}
           /\ task' = [n \in Nodes |-> "none"] /\ main' = "stopping"
  <2>1. PICK d : d = Cancelled(c)
    OBVIOUS
  <2>2. co' = d /\ saved' = d /\ Sound(d, selects) /\ d.cancel /\ Kept(c, d)
    BY <1>2, <2>1, CancelledSound DEF Persist
  <2>3. task' \in [Nodes -> Tasks] /\ UnendedTasks' = {}
    BY <1>2, <1>t DEF UnendedTasks
  <2>4. \A n \in Nodes : TaskOK(d, task'[n], n, selects)
    BY <1>2, <1>n
  <2>5. Control' /\ Kept(d, d) /\ Kept(saved, d)
    BY <1>2, <2>2, <2>3 DEF Control, Kept
  <2> QED BY <1>2, <2>2, <2>3, <2>4, <2>5 DEF Core
<1>3. ASSUME ~c.cancel, NEW r, r = Resolved(c, Nodes \ left),
             NEW ready, ready = Ready(r, Nodes \ left),
             task' = [n \in Nodes |-> IF n \in ready THEN "created"
                                      ELSE IF n \in left THEN task[n] ELSE "none"],
             IF left \cup ready # {} THEN Persist(r) /\ main' = "waiting"
                                     ELSE Persist(Finished(r)) /\ main' = "stopping",
             cancelling' = cancelling
      PROVE  Core' /\ co'.cancel = c.cancel /\ Kept(saved, saved')
  <2>1. Sound(r, selects) /\ Extends(c, r, Nodes \ left) /\ r \in Coordinator
    BY <1>3, ResolvedSound DEF Sound
  <2>2. Quiet(r, Nodes \ left)
    BY <1>0, <1>3, ResolvedQuiet
  <2>3. \A n \in ready : /\ Earned(r, n, selects) /\ PolicyMet(r, n)
                         /\ r.graph[n] = "pending" /\ n \in Nodes \ left
    BY <1>3, <2>1, <2>2, ReadyEarned
  <2>4. Onward(c, r)
    BY <2>1 DEF Extends, Onward
  <2>5. \A n \in left : TaskOK(r, task[n], n, selects)
    <3> TAKE n \in left
    <3>1. r.graph[n] = c.graph[n] /\ r.run[n] = c.run[n] /\ r.attempt[n] = c.attempt[n]
          /\ r.limit[n] = c.limit[n]
      BY <2>1 DEF Extends
    <3> QED BY <3>1, <1>0, <2>1, <2>4, TaskFrame
  <2>6. \A n \in Nodes : TaskOK(r, task'[n], n, selects)
    <3> TAKE n \in Nodes
    <3>1. CASE n \in ready
      BY <3>1, <1>3, <2>3 DEF TaskOK
    <3>2. CASE n \notin ready
      BY <3>2, <1>3, <2>5, <1>n
    <3> QED BY <3>1, <3>2
  <2>7. task' \in [Nodes -> Tasks] /\ UnendedTasks' = left \cup ready
    <3>1. \A n \in ready : n \in Nodes
      BY <2>3
    <3> QED BY <3>1, <1>3, <1>t DEF UnendedTasks
  <2>8. CASE left \cup ready # {}
    <3>1. co' = r /\ saved' = r /\ main' = "waiting"
      BY <1>3, <2>8 DEF Persist
    <3>2. cancelling = {} /\ \A n \in Nodes : r.graph[n] = "running" => n \in left
      BY <1>3, <2>1 DEF Extends
    <3>3. Control'
      BY <1>3, <2>1, <2>7, <3>1, <3>2 DEF Control, Extends
    <3>4. Kept(r, r) /\ Kept(saved, r)
      BY <2>1 DEF Kept, Extends
    <3> QED BY <2>1, <2>6, <2>7, <3>1, <3>3, <3>4 DEF Core, Extends
  <2>9. CASE left \cup ready = {}
    <3>1. PICK d : d = Finished(r)
      OBVIOUS
    <3>2. co' = d /\ saved' = d /\ main' = "stopping"
      BY <1>3, <2>9, <3>1 DEF Persist
    <3>3. \A n \in Nodes : r.graph[n] \notin {"running", "cancelled"}
      BY <1>3, <2>1, <2>9 DEF Extends, Sound, CancelOnly
    <3>4. AllNodesSettled(r)
      <4>1. Nodes \ left = Nodes /\ Ready(r, Nodes) = {}
        BY <1>3, <2>9
      <4> QED BY <4>1, <2>1, <2>2, <3>3, NothingReady
    <3>5. Sound(d, selects) /\ d.cancel = c.cancel /\ Kept(r, d)
      BY <1>3, <2>1, <3>1, <3>4, FinishedSound DEF Extends
    <3>6. UnendedTasks' = {} /\ \A n \in Nodes : TaskOK(d, task'[n], n, selects)
      BY <1>3, <1>n, <2>7, <2>9
    <3>7. Control' /\ Kept(d, d)
      BY <1>3, <3>2, <3>5, <3>6 DEF Control, Kept
    <3>8. Kept(saved, d)
      BY <2>1, <3>5 DEF Kept, Extends
    <3> QED BY <2>7, <3>2, <3>5, <3>6, <3>7, <3>8 DEF Core
  <2> QED BY <2>8, <2>9
<1> QED BY <1>1, <1>2, <1>3 DEF Loop

-----------------------------------------------------------------------------
(* Steps of the workflow as a whole.                                       *)

(* The actions of the main coroutine, of a cancel and of the process.      *)
LEMMA WakeStep ==
  ASSUME Core, Wake
  PROVE  Core' /\ (co.cancel => co'.cancel) /\ Kept(saved, saved')
<1>1. {n \in Nodes : task[n] \notin {"none", "done"}} = UnendedTasks
  BY DEF Core, Tasks, Unended, UnendedTasks
<1>2. main = "waiting" /\ Loop(co, UnendedTasks) /\ selects' = selects
  BY <1>1 DEF Wake
<1>3. /\ Sound(co, selects) /\ Open(co) /\ task \in [Nodes -> Tasks]
      /\ selects \in [Nodes -> {"yes", "no", "unknown"}]
      /\ Sound(saved, selects) /\ Kept(saved, co)
      /\ UnendedTasks \in SUBSET Nodes
      /\ \A n \in UnendedTasks : TaskOK(co, task[n], n, selects)
      /\ cancelling \subseteq UnendedTasks
      /\ ~co.cancel => /\ cancelling = {}
                       /\ \A n \in Nodes : co.graph[n] = "running" => n \in UnendedTasks
  BY <1>2 DEF Core, Control, UnendedTasks
<1> QED BY <1>2, <1>3, LoopStep

LEMMA CancelEndsStep ==
  ASSUME Core, CancelEnds
  PROVE  Core' /\ (co.cancel => co'.cancel) /\ Kept(saved, saved')
<1>1. {} = UnendedTasks
  BY DEF CancelEnds, Unended, UnendedTasks
<1>2. main = "cancelling" /\ Loop(co, {}) /\ selects' = selects
  BY <1>1 DEF CancelEnds
<1>3. /\ Sound(co, selects) /\ Open(co) /\ task \in [Nodes -> Tasks]
      /\ selects \in [Nodes -> {"yes", "no", "unknown"}]
      /\ Sound(saved, selects) /\ Kept(saved, co)
      /\ cancelling \subseteq {}
      /\ ~co.cancel => /\ cancelling = {}
                       /\ \A n \in Nodes : co.graph[n] = "running" => n \in {}
  BY <1>1, <1>2 DEF Core, Control
<1> QED BY <1>1, <1>2, <1>3, LoopStep

(* A step that leaves the nodes and their tasks alone.                     *)
LEMMA QuietStep ==
  ASSUME Core, NEW d \in Coordinator, co' = d,
         d.graph = co.graph, d.run = co.run, d.attempt = co.attempt, d.limit = co.limit,
         d.retryable = co.retryable, d.stopped = co.stopped,
         co.cancel => d.cancel, co.exhausted => d.exhausted,
         d.status = co.status \/ Open(d),
         {d.status, d.wf} \subseteq {co.status, co.wf} \/ d.cancel \/ "cancelled" \notin {d.status, d.wf},
         saved' \in {saved, d},
         UNCHANGED <<task, selects>>,
         \/ main' = main
         \/ main' \in {"stopping", "closing"},
         cancelling \subseteq cancelling', cancelling' \subseteq UnendedTasks,
         cancelling' = cancelling \/ d.cancel \/ main' \in {"stopping", "closing"},
         d.cancel => UnendedTasks \subseteq cancelling'
  PROVE  Core' /\ (co.cancel => co'.cancel) /\ Kept(saved, saved')
<1>0. co \in Coordinator /\ Sound(co, selects) /\ Sound(saved, selects) /\ Kept(saved, co)
  BY DEF Core, Sound
<1>1. Sound(d, selects) /\ Kept(co, d)
  BY <1>0, SameNodes
<1>2. Sound(saved', selects) /\ Kept(saved', d) /\ Kept(saved, saved')
  BY <1>0, <1>1 DEF Kept
<1>3. \A n \in Nodes : TaskOK(d, task[n], n, selects)
  BY <1>0, TaskFrame DEF Core, Onward
<1>4. UnendedTasks' = UnendedTasks
  BY DEF UnendedTasks
<1>5. Open(co) => Open(d)
  BY <1>0 DEF Open
<1>6. main' \in {"off", "done"} => main \in {"off", "done"}
  OBVIOUS
<1>7. main' \in {"waiting", "cancelling"} => main \in {"waiting", "cancelling"}
  OBVIOUS
<1>8. Control'
  BY <1>4, <1>5, <1>6, <1>7 DEF Core, Control
<1> QED BY <1>1, <1>2, <1>3, <1>8 DEF Core

(* A step after which no node task is left.                                *)
LEMMA EmptyStep ==
  ASSUME Core, NEW d, NEW s, Sound(d, selects), Sound(s, selects), Kept(s, d),
         co' = d, saved' = s, selects' = selects,
         task' = [n \in Nodes |-> "none"], cancelling' = {},
         \/ main' \in {"off", "done", "stopping", "closing"}
         \/ main' = main /\ d.cancel
  PROVE  Core'
<1>1. task' \in [Nodes -> Tasks] /\ UnendedTasks' = {}
  BY DEF Tasks, Unended, UnendedTasks
<1>2. \A n \in Nodes : TaskOK(d, task'[n], n, selects)
  BY DEF TaskOK, Unended
<1>3. Control'
  BY <1>1 DEF Control, Open
<1> QED BY <1>1, <1>2, <1>3 DEF Core

(* The tasks that the model calls unfinished and idle.                     *)
LEMMA UnfinishedIs ==
  ASSUME Core
  PROVE  /\ Unfinished = UnendedTasks
         /\ Idle = Nodes => UnendedTasks = {} /\ task = [n \in Nodes |-> "none"]
         /\ UnendedTasks = {} => cancelling = {}
         /\ \A n \in Nodes : co.graph[n] \in Statuses
<1>1. Unfinished = UnendedTasks
  BY DEF Core, Tasks, Unended, UnendedTasks, Unfinished
<1>2. Idle = Nodes => UnendedTasks = {} /\ task = [n \in Nodes |-> "none"]
  BY DEF Core, Idle, Unended, UnendedTasks
<1>3. \A n \in Nodes : co.graph[n] \in Statuses
  BY FieldTypes DEF Core, Sound
<1> QED BY <1>1, <1>2, <1>3 DEF Core, Control

(* Updates that touch no node.                                             *)
LEMMA FlagsAre ==
  ASSUME NEW c \in Coordinator
  PROVE  LET d == [c EXCEPT !.cancel = TRUE]
             e == [c EXCEPT !.exhausted = TRUE, !.status = "failed"]
         IN  /\ d \in Coordinator /\ d.graph = c.graph /\ d.run = c.run /\ d.attempt = c.attempt
             /\ d.limit = c.limit /\ d.retryable = c.retryable /\ d.stopped = c.stopped
             /\ d.status = c.status /\ d.wf = c.wf /\ d.cancel = TRUE /\ d.exhausted = c.exhausted
             /\ e \in Coordinator /\ e.graph = c.graph /\ e.run = c.run /\ e.attempt = c.attempt
             /\ e.limit = c.limit /\ e.retryable = c.retryable /\ e.stopped = c.stopped
             /\ e.status = "failed" /\ e.wf = c.wf /\ e.cancel = c.cancel /\ e.exhausted = TRUE
  BY DEF Coordinator

LEMMA CancelStep ==
  ASSUME Core, Cancel
  PROVE  Core' /\ (co.cancel => co'.cancel) /\ Kept(saved, saved')
<1> DEFINE c == [co EXCEPT !.cancel = TRUE]
<1>0. co \in Coordinator /\ Sound(co, selects) /\ Kept(saved, co)
  BY DEF Core, Sound
<1>1. /\ c \in Coordinator /\ c.graph = co.graph /\ c.run = co.run /\ c.attempt = co.attempt
      /\ c.limit = co.limit /\ c.retryable = co.retryable /\ c.stopped = co.stopped
      /\ c.status = co.status /\ c.wf = co.wf /\ c.cancel = TRUE /\ c.exhausted = co.exhausted
  BY <1>0, FlagsAre
<1>2. CASE Idle = Nodes
  <2>1. co' = Cancelled(c) /\ saved' = Cancelled(c) /\ cancelling' = cancelling
        /\ UNCHANGED <<main, task, selects>>
    BY <1>2 DEF Cancel, Persist
  <2> HIDE DEF c
  <2>2. Sound(c, selects) /\ Kept(co, c)
    BY <1>0, <1>1, SameNodes
  <2>3. PICK d : d = Cancelled(c)
    OBVIOUS
  <2>4. Sound(d, selects) /\ d.cancel /\ Kept(c, d)
    BY <1>1, <2>2, <2>3, CancelledSound
  <2>5. task' = [n \in Nodes |-> "none"] /\ cancelling' = {}
    BY <1>2, <2>1, UnfinishedIs
  <2>6. Kept(d, d) /\ Kept(saved, d) /\ co' = d /\ saved' = d
    BY <1>0, <2>1, <2>2, <2>3, <2>4 DEF Kept
  <2> QED BY <2>1, <2>4, <2>5, <2>6, EmptyStep
<1>3. CASE Idle # Nodes
  <2>1. co' = c /\ saved' = saved /\ cancelling' = cancelling \cup UnendedTasks
        /\ UNCHANGED <<main, task, selects>>
    BY <1>3, UnfinishedIs DEF Cancel, Interruptible
  <2> HIDE DEF c
  <2>2. cancelling \subseteq UnendedTasks
    BY DEF Core, Control
  <2> QED BY <1>1, <2>1, <2>2, QuietStep
<1> QED BY <1>2, <1>3

LEMMA CancelFinishesStep ==
  ASSUME Core, CancelFinishes, co.cancel
  PROVE  Core' /\ (co.cancel => co'.cancel) /\ Kept(saved, saved')
<1>1. PICK d : d = Cancelled(co)
  OBVIOUS
<1>2. /\ co' = d /\ saved' = d /\ cancelling' = {} /\ UNCHANGED <<main, selects>>
      /\ task' = [n \in Nodes |-> "none"]
  BY <1>1, UnfinishedIs DEF CancelFinishes, Persist
<1>3. Sound(d, selects) /\ d.cancel /\ Kept(co, d)
  BY <1>1, CancelledSound DEF Core
<1>4. Kept(d, d) /\ Kept(saved, d)
  BY <1>3 DEF Core, Kept
<1> QED BY <1>2, <1>3, <1>4, EmptyStep

LEMMA TimeoutStep ==
  ASSUME Core, Timeout
  PROVE  Core' /\ (co.cancel => co'.cancel) /\ Kept(saved, saved')
<1> DEFINE c == [co EXCEPT !.exhausted = TRUE, !.status = "failed"]
<1>0. co \in Coordinator
  BY DEF Core, Sound
<1>1. /\ c \in Coordinator /\ c.graph = co.graph /\ c.run = co.run /\ c.attempt = co.attempt
      /\ c.limit = co.limit /\ c.retryable = co.retryable /\ c.stopped = co.stopped
      /\ c.status = "failed" /\ c.wf = co.wf /\ c.cancel = co.cancel /\ c.exhausted = TRUE
  BY <1>0, FlagsAre
<1>2. main' = "stopping" /\ UNCHANGED <<task, selects, cancelling>>
  BY DEF Timeout, Coroutines
<1>3. cancelling \subseteq UnendedTasks /\ (co.cancel => UnendedTasks \subseteq cancelling)
      /\ ("cancelled" \in {co.status, co.wf} => co.cancel)
  BY DEF Core, Control, Sound, CancelOnly
<1>4. CASE c.wf \in TERMINAL_STATUSES
  <2>1. co' = c /\ saved' = saved
    BY <1>4 DEF Timeout
  <2> HIDE DEF c
  <2> QED BY <1>1, <1>2, <1>3, <2>1, QuietStep DEF Open
<1>5. CASE c.wf \notin TERMINAL_STATUSES
  <2>1. PICK d : d = EndWorkflowRun(c, "failed")
    OBVIOUS
  <2>2. co' = d /\ saved' = d
    BY <1>5, <2>1 DEF Timeout, Persist
  <2> HIDE DEF c
  <2>3. /\ d \in Coordinator /\ d.graph = co.graph /\ d.run = co.run /\ d.attempt = co.attempt
        /\ d.limit = co.limit /\ d.retryable = co.retryable /\ d.stopped = co.stopped
        /\ d.status = "failed" /\ d.wf \in {co.wf, "failed"} /\ d.cancel = co.cancel /\ d.exhausted = TRUE
    BY <1>1, <2>1 DEF EndWorkflowRun, Coordinator, RunStatuses
  <2>4. {d.status, d.wf} \subseteq {co.status, co.wf} \/ d.cancel \/ "cancelled" \notin {d.status, d.wf}
    BY <1>3, <2>3
  <2> QED BY <1>1, <1>2, <1>3, <2>2, <2>3, <2>4, QuietStep DEF Open
<1> QED BY <1>4, <1>5

LEMMA ShutdownStep ==
  ASSUME Core, Shutdown
  PROVE  Core' /\ (co.cancel => co'.cancel) /\ Kept(saved, saved')
<1>1. co \in Coordinator /\ co' = co /\ saved' = saved /\ main' = "stopping"
      /\ UNCHANGED <<task, selects, cancelling>>
  BY DEF Shutdown, Coroutines, Core, Sound
<1>2. cancelling \subseteq UnendedTasks /\ (co.cancel => UnendedTasks \subseteq cancelling)
  BY DEF Core, Control
<1> QED BY <1>1, <1>2, QuietStep

LEMMA CloseStep ==
  ASSUME Core, Close
  PROVE  Core' /\ (co.cancel => co'.cancel) /\ Kept(saved, saved')
<1>1. co \in Coordinator /\ co' = co /\ saved' = saved /\ main' = "closing"
      /\ UNCHANGED <<task, selects>> /\ cancelling' = cancelling \cup UnendedTasks
  BY UnfinishedIs DEF Close, Coroutines, Core, Sound
<1>2. cancelling \subseteq UnendedTasks
  BY DEF Core, Control
<1> QED BY <1>1, <1>2, QuietStep

LEMMA FinishStep ==
  ASSUME Core, Finish
  PROVE  Core' /\ (co.cancel => co'.cancel) /\ Kept(saved, saved')
<1> DEFINE graph == [n \in Nodes |-> IF co.exhausted /\ co.graph[n] = "pending"
                                     THEN "blocked" ELSE co.graph[n]]
           d == [co EXCEPT !.graph = graph]
<1>0. co \in Coordinator /\ Sound(co, selects)
  BY DEF Core, Sound
<1>1. graph \in [Nodes -> Statuses]
  BY <1>0, FieldTypes DEF Statuses, Settled
<1>2. \A n \in Nodes : graph[n] = IF co.exhausted /\ co.graph[n] = "pending"
                                  THEN "blocked" ELSE co.graph[n]
  OBVIOUS
<1>3. /\ co' = d /\ saved' = d /\ main' = "done" /\ selects' = selects
      /\ task' = [n \in Nodes |-> "none"] /\ cancelling' = {}
  BY UnfinishedIs DEF Finish, Persist
<1> HIDE DEF graph
<1>4. /\ d \in Coordinator /\ d.graph = graph /\ d.run = co.run /\ d.attempt = co.attempt
      /\ d.limit = co.limit /\ d.retryable = co.retryable /\ d.stopped = co.stopped
      /\ d.status = co.status /\ d.wf = co.wf /\ d.cancel = co.cancel /\ d.exhausted = co.exhausted
  BY <1>0, <1>1 DEF Coordinator
<1> HIDE DEF d
<1>5. Kept(co, d) /\ Kept(d, d) /\ Kept(saved, d)
  BY <1>2, <1>4 DEF Kept, Core
<1>6. ASSUME NEW n \in Nodes PROVE Ledger(d, n, selects)
  <2>1. Ledger(co, n, selects) /\ (Earned(co, n, selects) => Earned(d, n, selects))
    BY <1>0, <1>5, EarnedKept DEF Sound
  <2> QED BY <2>1, <1>2, <1>4 DEF Ledger, Startable
<1>7. CancelOnly(d)
  BY <1>0, <1>2, <1>4 DEF Sound, CancelOnly
<1>8. Delivered(d)
  <2>1. CASE co.exhausted
    BY <2>1, <1>4 DEF Delivered
  <2>2. CASE ~co.exhausted
    <3>1. \A n \in Nodes : d.graph[n] = co.graph[n]
      BY <2>2, <1>2, <1>4
    <3>2. d.graph = co.graph
      BY <3>1, <1>0, <1>4, FieldTypes
    <3> QED BY <3>2, <1>0, <1>4 DEF Sound, Delivered, AllNodesSettled
  <2> QED BY <2>1, <2>2
<1>9. Sound(d, selects)
  BY <1>4, <1>6, <1>7, <1>8 DEF Sound
<1> QED BY <1>3, <1>4, <1>5, <1>9, EmptyStep

LEMMA GoneStep ==
  ASSUME Core, Unregister \/ Crash
  PROVE  Core' /\ Kept(saved, saved')
<1>1. co' = saved /\ saved' = saved /\ main' = "off" /\ selects' = selects
  BY DEF Unregister, Crash, Coroutines
<1>2. task' = [n \in Nodes |-> "none"] /\ cancelling' = {}
  <2>1. CASE Crash
    BY <2>1 DEF Crash
  <2>2. CASE Unregister
    <3>1. \A n \in Nodes : task[n] = "none"
      BY <2>2 DEF Unregister, Core, Control
    <3>2. task = [n \in Nodes |-> "none"] /\ UnendedTasks = {}
      BY <3>1 DEF Core, UnendedTasks, Unended
    <3> QED BY <2>2, <3>2, UnfinishedIs DEF Unregister, Coroutines
  <2> QED BY <2>1, <2>2
<1>3. Sound(saved, selects) /\ Kept(saved, saved)
  BY DEF Core, Kept
<1>4. main' \in {"off", "done", "stopping", "closing"}
  BY <1>1
<1> QED BY <1>1, <1>2, <1>3, <1>4, EmptyStep

(* The update of the run of the workflow.                                  *)
LEMMA StartWorkflowRunIs ==
  ASSUME NEW c \in Coordinator
  PROVE  LET d == StartWorkflowRun(c) IN
         /\ d \in Coordinator /\ d.graph = c.graph /\ d.run = c.run /\ d.attempt = c.attempt
         /\ d.limit = c.limit /\ d.retryable = c.retryable /\ d.stopped = c.stopped
         /\ d.status = c.status /\ d.wf \in {c.wf, "running"} /\ d.cancel = c.cancel
         /\ d.exhausted = c.exhausted
<1> DEFINE attempt == c.wfAttempt + 1
           d == [c EXCEPT !.wf = "running", !.wfAttempt = attempt]
<1>1. attempt \in Nat /\ "running" \in RunStatuses
  BY FieldTypes DEF RunStatuses
<1>2. StartWorkflowRun(c) \in {c, d}
  BY DEF StartWorkflowRun
<1> HIDE DEF attempt
<1>3. /\ d \in Coordinator /\ d.graph = c.graph /\ d.run = c.run /\ d.attempt = c.attempt
      /\ d.limit = c.limit /\ d.retryable = c.retryable /\ d.stopped = c.stopped
      /\ d.status = c.status /\ d.wf = "running" /\ d.cancel = c.cancel
      /\ d.exhausted = c.exhausted
  BY <1>1 DEF Coordinator
<1> HIDE DEF d
<1> QED BY <1>2, <1>3

LEMMA StartStep ==
  ASSUME Core, NEW by, Start(by)
  PROVE  Core' /\ Kept(saved, saved')
<1>1. PICK r : r = Restored(saved)
  OBVIOUS
<1>2. PICK c : c = Prepared(r)
  OBVIOUS
<1>3. Sound(saved, selects) /\ main = "off" /\ \A n \in Nodes : task[n] = "none"
  BY DEF Core, Start, Control
<1>4. Sound(r, selects) /\ Kept(saved, r) /\ \A n \in Nodes : r.graph[n] # "running"
  BY <1>1, <1>3, RestoredSound
<1>5. Sound(c, selects) /\ Kept(r, c) /\ \A n \in Nodes : c.graph[n] # "running"
  BY <1>2, <1>4, PreparedSound
<1>6. Kept(saved, c) /\ c \in Coordinator
  BY <1>4, <1>5 DEF Kept, Sound
<1>7. task = [n \in Nodes |-> "none"] /\ UnendedTasks = {} /\ cancelling = {}
  BY <1>3, UnfinishedIs DEF Core, UnendedTasks, Unended
<1>8. selects' = selects
  BY DEF Start
<1>9. \/ /\ main' \in {"done", "stopping"} /\ co' = c
         /\ UNCHANGED <<saved, task, cancelling>>
      \/ Loop(StartWorkflowRun([c EXCEPT !.status = "running"]), {})
  BY <1>1, <1>2 DEF Start
<1>10. CASE /\ main' \in {"done", "stopping"} /\ co' = c
            /\ UNCHANGED <<saved, task, cancelling>>
  <2>1. Kept(saved, saved)
    BY DEF Kept
  <2> QED BY <2>1, <1>3, <1>5, <1>6, <1>7, <1>8, <1>10, EmptyStep
<1>11. CASE Loop(StartWorkflowRun([c EXCEPT !.status = "running"]), {})
  <2> DEFINE e == [c EXCEPT !.status = "running"]
             d == StartWorkflowRun(e)
  <2>1. /\ e \in Coordinator /\ e.graph = c.graph /\ e.run = c.run /\ e.attempt = c.attempt
        /\ e.limit = c.limit /\ e.retryable = c.retryable /\ e.stopped = c.stopped
        /\ e.status = "running" /\ e.wf = c.wf /\ e.cancel = c.cancel /\ e.exhausted = c.exhausted
    BY <1>6 DEF Coordinator
  <2> HIDE DEF e
  <2>2. /\ d \in Coordinator /\ d.graph = c.graph /\ d.run = c.run /\ d.attempt = c.attempt
        /\ d.limit = c.limit /\ d.retryable = c.retryable /\ d.stopped = c.stopped
        /\ d.status = "running" /\ d.wf \in {c.wf, "running"} /\ d.cancel = c.cancel
        /\ d.exhausted = c.exhausted
    BY <2>1, StartWorkflowRunIs
  <2>3. PICK f : f = d
    OBVIOUS
  <2>4. Loop(f, {})
    BY <1>11, <2>3 DEF e
  <2> HIDE DEF d
  <2>5. "cancelled" \in {c.status, c.wf} => c.cancel
    BY <1>5 DEF Sound, CancelOnly
  <2>6. Sound(f, selects) /\ Kept(c, f) /\ Open(f)
    BY <1>5, <2>2, <2>3, <2>5, SameNodes DEF Open
  <2>7. Kept(saved, f) /\ \A n \in Nodes : f.graph[n] # "running"
    BY <1>5, <1>6, <2>2, <2>3, <2>6 DEF Kept
  <2>8. task \in [Nodes -> Tasks] /\ selects \in [Nodes -> {"yes", "no", "unknown"}]
    BY DEF Core
  <2> QED BY <1>3, <1>7, <1>8, <2>4, <2>6, <2>7, <2>8, LoopStep
<1> QED BY <1>9, <1>10, <1>11

-----------------------------------------------------------------------------
(* The inductive invariant.                                                *)

(* The types of the variables that no other part speaks of.                *)
Rest ==
  /\ canceller \in {"none", "gathering"}
  /\ trigger \in {"submitted", "takeover", "resume", "quota"}
  /\ invoked \in [Nodes -> Nat]
  /\ failure \in [Nodes -> FailureKinds \cup {"none"}]
  /\ {starts, crashes} \subseteq Nat

(* The inductive invariant.                                                *)
IInv ==
  /\ Core
  /\ Rest
  /\ canceller = "gathering" => co.cancel /\ main # "off"

(* Only the end of the process and the removal from the registry turn the  *)
(* main coroutine off.                                                     *)
LEMMA MainStays ==
  ASSUME Core, [Next]_vars, ~Unregister, ~Crash
  PROVE  main # "off" => main' # "off"
<1> USE DEF Loop, Main, Node
<1>1. ASSUME Main PROVE main' # "off"
  BY <1>1 DEF Wake, CancelEnds, Close, Finish
<1>2. ASSUME NEW n \in Nodes, Node(n) PROVE main' = main
  BY <1>2 DEF NodeStart, ContractFails, Acquire, Return, Fail, BackoffEnds, Interrupted, Body
<1>3. ASSUME Cancel \/ CancelFinishes PROVE main' = main
  BY <1>3 DEF Cancel, CancelFinishes
<1>4. ASSUME Timeout \/ Shutdown PROVE main' = "stopping"
  BY <1>4 DEF Timeout, Shutdown
<1>5. ASSUME NEW by, Start(by) PROVE main = "off"
  BY <1>5 DEF Start
<1>6. ASSUME UNCHANGED vars PROVE main' = main
  BY <1>6 DEF vars
<1> QED BY <1>1, <1>2, <1>3, <1>4, <1>5, <1>6 DEF Next

(* Only a cancel starts to gather tasks.                                   *)
LEMMA CancellerStep ==
  ASSUME [Next]_vars
  PROVE  \/ canceller' = canceller
         \/ Cancel /\ canceller' = "gathering"
         \/ canceller' = "none"
<1>1. ASSUME Main PROVE canceller' = canceller
  BY <1>1 DEF Main, Wake, CancelEnds, Close, Finish, Coroutines
<1>2. ASSUME NEW n \in Nodes, Node(n) PROVE canceller' = canceller
  BY <1>2 DEF Node, NodeStart, ContractFails, Acquire, Return, Fail, BackoffEnds, Interrupted, Body
<1>3. ASSUME Cancel PROVE canceller' = canceller \/ canceller' = "gathering"
  BY <1>3 DEF Cancel
<1>4. ASSUME CancelFinishes \/ Crash PROVE canceller' = "none"
  BY <1>4 DEF CancelFinishes, Crash
<1>5. ASSUME Timeout \/ Shutdown \/ Unregister PROVE canceller' = canceller
  BY <1>5 DEF Timeout, Shutdown, Unregister, Coroutines
<1>6. ASSUME NEW by, Start(by) PROVE canceller' = canceller
  BY <1>6 DEF Start
<1> QED BY <1>1, <1>2, <1>3, <1>4, <1>5, <1>6 DEF Next, vars

(* An executor is called for a node whose task has a slot and was not told *)
(* to stop.                                                                *)
LEMMA InvokedStep ==
  ASSUME [Next]_vars
  PROVE  \/ invoked' = invoked
         \/ \E n \in Nodes : /\ invoked' = [invoked EXCEPT ![n] = @ + 1]
                             /\ task[n] \in {"created", "queued"} /\ n \notin cancelling
<1>1. ASSUME Main PROVE invoked' = invoked
  BY <1>1 DEF Main, Wake, CancelEnds, Close, Finish, Coroutines
<1>2. ASSUME NEW n \in Nodes, Node(n)
      PROVE  \/ invoked' = invoked
             \/ /\ invoked' = [invoked EXCEPT ![n] = @ + 1]
                /\ task[n] \in {"created", "queued"} /\ n \notin cancelling
  <2>1. ASSUME NodeStart(n) \/ Acquire(n)
        PROVE  \/ invoked' = invoked
               \/ /\ invoked' = [invoked EXCEPT ![n] = @ + 1]
                  /\ task[n] \in {"created", "queued"} /\ n \notin cancelling
    BY <2>1 DEF NodeStart, Acquire, Execute
  <2>2. ASSUME ContractFails(n) \/ Return(n) \/ Fail(n) \/ BackoffEnds(n) \/ Interrupted(n)
        PROVE  invoked' = invoked
    BY <2>2 DEF ContractFails, Return, Fail, BackoffEnds, Interrupted
  <2> QED BY <1>2, <2>1, <2>2 DEF Node
<1>3. ASSUME Cancel \/ CancelFinishes \/ Crash PROVE invoked' = invoked
  BY <1>3 DEF Cancel, CancelFinishes, Crash
<1>4. ASSUME Timeout \/ Shutdown \/ Unregister PROVE invoked' = invoked
  BY <1>4 DEF Timeout, Shutdown, Unregister, Coroutines
<1>5. ASSUME NEW by, Start(by) PROVE invoked' = invoked
  BY <1>5 DEF Start
<1> QED BY <1>1, <1>2, <1>3, <1>4, <1>5 DEF Next, vars

(* A failure that is recorded is one of the kinds.                         *)
LEMMA FailureStep ==
  ASSUME [Next]_vars
  PROVE  \/ failure' = failure
         \/ \E n \in Nodes, kind \in FailureKinds : failure' = [failure EXCEPT ![n] = kind]
<1>1. ASSUME Main PROVE failure' = failure
  BY <1>1 DEF Main, Wake, CancelEnds, Close, Finish, Coroutines
<1>2. ASSUME NEW n \in Nodes, Node(n)
      PROVE  failure' = failure \/ \E kind \in FailureKinds : failure' = [failure EXCEPT ![n] = kind]
  <2>1. "local" \in FailureKinds /\ Failures \subseteq FailureKinds
    BY CoordinatorAssumption DEF FailureKinds
  <2>2. ASSUME NodeStart(n) \/ Acquire(n) \/ ContractFails(n) \/ Fail(n)
        PROVE  failure' = failure \/ \E kind \in FailureKinds : failure' = [failure EXCEPT ![n] = kind]
    BY <2>1, <2>2 DEF NodeStart, Acquire, ContractFails, Fail, Execute, Fails
  <2>3. ASSUME Return(n) \/ BackoffEnds(n) \/ Interrupted(n) PROVE failure' = failure
    BY <2>3 DEF Return, BackoffEnds, Interrupted
  <2> QED BY <1>2, <2>2, <2>3 DEF Node
<1>3. ASSUME Cancel \/ CancelFinishes \/ Crash PROVE failure' = failure
  BY <1>3 DEF Cancel, CancelFinishes, Crash
<1>4. ASSUME Timeout \/ Shutdown \/ Unregister PROVE failure' = failure
  BY <1>4 DEF Timeout, Shutdown, Unregister, Coroutines
<1>5. ASSUME NEW by, Start(by) PROVE failure' = failure
  BY <1>5 DEF Start
<1> QED BY <1>1, <1>2, <1>3, <1>4, <1>5 DEF Next, vars

(* The remaining variables keep their types.                               *)
LEMMA RestStep ==
  ASSUME Rest, [Next]_vars
  PROVE  Rest'
<1>1. canceller' \in {"none", "gathering"}
  BY CancellerStep DEF Rest
<1>2. invoked' \in [Nodes -> Nat]
  BY InvokedStep DEF Rest
<1>3. failure' \in [Nodes -> FailureKinds \cup {"none"}]
  BY FailureStep DEF Rest
<1>4. trigger' \in {"submitted", "takeover", "resume", "quota"} /\ {starts', crashes'} \subseteq Nat
  <2>1. ASSUME Main PROVE UNCHANGED <<trigger, starts, crashes>>
    BY <2>1 DEF Main, Wake, CancelEnds, Close, Finish, Coroutines
  <2>2. ASSUME NEW n \in Nodes, Node(n) PROVE UNCHANGED <<trigger, starts, crashes>>
    <3>1. CASE Node(n) /\ ~Interrupted(n)
      BY <3>1 DEF Node, NodeStart, ContractFails, Acquire, Return, Fail, BackoffEnds, Body, Rest
    <3>2. CASE Interrupted(n)
      BY <3>2 DEF Interrupted, Body
    <3> QED BY <2>2, <3>1, <3>2
  <2>3. ASSUME Cancel \/ CancelFinishes PROVE UNCHANGED <<trigger, starts, crashes>>
    BY <2>3 DEF Cancel, CancelFinishes
  <2>4. ASSUME Timeout \/ Shutdown \/ Unregister PROVE UNCHANGED <<trigger, starts, crashes>>
    BY <2>4 DEF Timeout, Shutdown, Unregister, Coroutines
  <2>5. ASSUME Crash PROVE UNCHANGED <<trigger, starts>> /\ crashes' = crashes + 1
    BY <2>5 DEF Crash
  <2>6. ASSUME NEW by, Start(by) PROVE trigger' = by /\ starts' = starts + 1 /\ crashes' = crashes
    BY <2>6 DEF Start
  <2> QED BY <2>1, <2>2, <2>3, <2>4, <2>5, <2>6 DEF Next, vars, Rest
<1> QED BY <1>1, <1>2, <1>3, <1>4 DEF Rest

(* The core is kept by every action, and so are the results and the        *)
(* cancel.                                                                 *)
LEMMA CoreStep ==
  ASSUME IInv, [Next]_vars
  PROVE  /\ Core' /\ Kept(saved, saved')
         /\ (co.cancel => co'.cancel) \/ Unregister \/ Crash \/ main = "off"
<1>0. Core
  BY DEF IInv
<1>1. ASSUME Main PROVE Core' /\ (co.cancel => co'.cancel) /\ Kept(saved, saved')
  BY <1>0, <1>1, WakeStep, CancelEndsStep, CloseStep, FinishStep DEF Main
<1>2. ASSUME NEW n \in Nodes, Node(n)
      PROVE  Core' /\ (co.cancel => co'.cancel) /\ Kept(saved, saved')
  BY <1>0, <1>2, NodeStartStep, ContractFailsStep, AcquireStep, ReturnStep, FailStep,
     BackoffEndsStep, InterruptedStep DEF Node
<1>3. ASSUME Cancel PROVE Core' /\ (co.cancel => co'.cancel) /\ Kept(saved, saved')
  BY <1>0, <1>3, CancelStep
<1>4. ASSUME CancelFinishes PROVE Core' /\ (co.cancel => co'.cancel) /\ Kept(saved, saved')
  <2>1. co.cancel
    BY <1>4 DEF CancelFinishes, IInv
  <2> QED BY <1>0, <1>4, <2>1, CancelFinishesStep
<1>5. ASSUME Timeout \/ Shutdown PROVE Core' /\ (co.cancel => co'.cancel) /\ Kept(saved, saved')
  BY <1>0, <1>5, TimeoutStep, ShutdownStep
<1>6. ASSUME Unregister \/ Crash PROVE Core' /\ Kept(saved, saved')
  BY <1>0, <1>6, GoneStep
<1>7. ASSUME NEW by, Start(by) PROVE Core' /\ Kept(saved, saved') /\ main = "off"
  BY <1>0, <1>7, StartStep DEF Start
<1>8. ASSUME UNCHANGED vars PROVE Core' /\ (co.cancel => co'.cancel) /\ Kept(saved, saved')
  BY <1>0, <1>8 DEF vars, Core, Control, UnendedTasks, Kept
<1> QED BY <1>1, <1>2, <1>3, <1>4, <1>5, <1>6, <1>7, <1>8 DEF Next

(* A cancel that gathers has set its flag.                                 *)
LEMMA CancelSets ==
  ASSUME IInv, Cancel, canceller' = "gathering"
  PROVE  co'.cancel /\ main' # "off"
<1>0. co \in Coordinator
  BY DEF IInv, Core, Sound
<1>1. [co EXCEPT !.cancel = TRUE].cancel
  BY <1>0, FlagsAre
<1> QED BY <1>1 DEF Cancel

(* IInv is inductive.                                                      *)
LEMMA InvariantStep ==
  ASSUME IInv, [Next]_vars
  PROVE  IInv'
<1>1. Core'
  BY CoreStep
<1>2. Rest'
  BY RestStep DEF IInv
<1>3. ASSUME canceller' = "gathering" PROVE co'.cancel /\ main' # "off"
  <2>1. CASE Cancel
    BY <1>3, <2>1, CancelSets
  <2>2. CASE ~Cancel
    <3>1. canceller = "gathering"
      BY <1>3, <2>2, CancellerStep
    <3>2. co.cancel /\ main # "off"
      BY <3>1 DEF IInv
    <3>3. ~Unregister /\ ~Crash
      BY <1>3, <3>1 DEF Unregister, Crash
    <3>4. main' # "off"
      BY <3>2, <3>3, MainStays DEF IInv
    <3>5. co'.cancel
      BY <3>2, <3>3, CoreStep
    <3> QED BY <3>4, <3>5
  <2> QED BY <2>1, <2>2
<1> QED BY <1>1, <1>2, <1>3 DEF IInv

(* A new coordinator is sound.                                             *)
LEMMA NewIsSound ==
  ASSUME NEW sel
  PROVE  Sound(NewCoordinator, sel) /\ NewCoordinator.cancel = FALSE
<1> DEFINE c == NewCoordinator
<1>1. c \in Coordinator
  BY CoordinatorAssumption DEF NewCoordinator, Coordinator, Statuses, Settled, RunStatuses
<1>2. /\ \A n \in Nodes : c.graph[n] = "pending" /\ c.run[n] = "queued"
      /\ c.stopped = {} /\ c.status = "queued" /\ c.wf = "queued" /\ c.cancel = FALSE
  BY DEF NewCoordinator
<1> HIDE DEF c
<1>3. \A n \in Nodes : Ledger(c, n, sel)
  BY <1>2 DEF Ledger, Startable
<1>4. CancelOnly(c) /\ Delivered(c)
  BY <1>2 DEF CancelOnly, Delivered
<1> QED BY <1>1, <1>2, <1>3, <1>4 DEF Sound, c

LEMMA InvariantInit ==
  ASSUME Init
  PROVE  IInv
<1>1. PICK c : c = NewCoordinator
  OBVIOUS
<1>2. co = c /\ saved = c /\ Sound(c, selects) /\ ~c.cancel
  BY <1>1, NewIsSound DEF Init
<1>3. task \in [Nodes -> Tasks] /\ UnendedTasks = {} /\ cancelling = {} /\ main = "off"
      /\ \A n \in Nodes : task[n] = "none"
  BY DEF Init, Tasks, UnendedTasks, Unended
<1>4. \A n \in Nodes : TaskOK(co, task[n], n, selects)
  BY <1>3 DEF TaskOK, Unended
<1>5. Control /\ Kept(saved, co)
  BY <1>2, <1>3 DEF Control, Kept
<1>6. Core
  BY <1>2, <1>3, <1>4, <1>5 DEF Core, Init
<1>7. Rest /\ canceller = "none"
  BY DEF Init, Rest
<1> QED BY <1>6, <1>7 DEF IInv

LEMMA Invariant == Spec => []IInv
<1>1. Init => IInv
  BY InvariantInit
<1>2. IInv /\ [Next]_vars => IInv'
  BY InvariantStep
<1> QED BY <1>1, <1>2, PTL DEF Spec

(* What the theorems need of the invariant.                                *)
LEMMA SoundMeans ==
  ASSUME IInv
  PROVE  /\ co \in Coordinator /\ saved \in Coordinator
         /\ \A c \in {co, saved} : CancelOnly(c)
         /\ Delivered(co)
         /\ \A n \in Nodes : Ledger(co, n, selects) /\ TaskOK(co, task[n], n, selects)
  BY DEF IInv, Core, Sound

-----------------------------------------------------------------------------
(* Theorems.                                                               *)

(* Every variable has its type: the fields of the coordinator in memory    *)
(* and of the one that is saved, and the tasks.                            *)
THEOREM TypeCorrect == Spec => []TypeOK
<1>1. IInv => TypeOK
  BY SoundMeans DEF TypeOK, IInv, Core, Rest, Control, UnendedTasks
<1> QED BY <1>1, Invariant, PTL

(* An executor is only called for a node whose dependencies have delivered *)
(* what its policy asks for, and which its route selected, over retries,   *)
(* resumes, takeovers and crashes (coordinator.py, _ready_tasks and        *)
(* _run_node).                                                             *)
THEOREM EvidenceComesFirst == Spec => []EvidenceBeforeExecution
<1>1. IInv => EvidenceBeforeExecution
  <2> SUFFICES ASSUME IInv, NEW n \in Executing
               PROVE  LET succeeded == {d \in Dependencies[n] : co.graph[d] = "succeeded"}
                      IN  /\ IF n \in AllowPartial
                               THEN /\ ~With(co, n, {"pending", "running"})
                                    /\ (Dependencies[n] # {}) => (succeeded # {})
                               ELSE succeeded = Dependencies[n]
                          /\ (Source[n] # NoNode) => (Source[n] \in succeeded /\ selects[n] = "yes")
    BY DEF EvidenceBeforeExecution
  <2>1. n \in Nodes /\ task[n] = "executing"
    BY DEF Executing
  <2>2. Earned(co, n, selects) /\ PolicyMet(co, n)
    BY <2>1, SoundMeans DEF TaskOK, Unended
  <2>3. Source[n] # NoNode => Source[n] \in Dependencies[n]
    BY <2>1, CoordinatorAssumption
  <2>4. n \in AllowPartial => ~With(co, n, {"pending", "running"})
    BY <2>2 DEF PolicyMet
  <2> QED BY <2>2, <2>3, <2>4 DEF Earned, With
<1> QED BY <1>1, Invariant, PTL

(* The runs that are reported and the graph that is executed agree about   *)
(* every node, whatever handler wrote last.                                *)
THEOREM LedgersAgree == Spec => []RunsFollowNodes
<1>1. IInv => RunsFollowNodes
  <2> SUFFICES ASSUME IInv, NEW n \in Nodes
               PROVE  /\ n \in Executing => (co.graph[n] = "running" /\ co.run[n] = "running")
                      /\ co.graph[n] \in {"succeeded", "skipped", "failed"} => (co.run[n] = co.graph[n])
                      /\ co.graph[n] = "blocked" => (co.run[n] \notin {"succeeded", "skipped"})
    BY DEF RunsFollowNodes
  <2>1. Ledger(co, n, selects) /\ TaskOK(co, task[n], n, selects)
    BY SoundMeans
  <2> QED BY <2>1 DEF Ledger, TaskOK, Executing, Startable
<1> QED BY <1>1, Invariant, PTL

(* A workflow that says succeeded has no gap, one that says partial has    *)
(* its required nodes and a result, one that failed lacks a required node  *)
(* or every result, and none of them leaves a node unsettled, unless the   *)
(* run gave out of budget or was cancelled; nothing is cancelled without a *)
(* cancel (the end of _run, and delivery).                                 *)
THEOREM StatusIsEarned == Spec => []StatusMatchesGraph
<1>1. IInv => StatusMatchesGraph
  <2> SUFFICES ASSUME IInv PROVE StatusMatchesGraph
    OBVIOUS
  <2>1. OnlyCancelIsTerminal
    BY SoundMeans DEF OnlyCancelIsTerminal, CancelOnly
  <2> QED BY <2>1, SoundMeans DEF StatusMatchesGraph, Delivered
<1> QED BY <1>1, Invariant, PTL

(* A node whose task may call an executor has no result yet.               *)
LEMMA ActiveIsUnended ==
  ASSUME IInv, NEW n \in Nodes, task[n] \in {"created", "queued"}
  PROVE  n \in UnendedTasks /\ co.graph[n] # "succeeded"
<1>1. TaskOK(co, task[n], n, selects)
  BY SoundMeans
<1> QED BY <1>1 DEF UnendedTasks, Unended, TaskOK

(* A result that was saved is never lost and never computed again, over    *)
(* pauses, retries of the run, takeovers and crashes (_restore and         *)
(* _prepare_snapshot_resume keep the nodes that succeeded).                *)
THEOREM ResultsAreKept == Spec => ResultsKept
<1>1. IInv /\ [Next]_vars =>
        [\A n \in Nodes : saved.graph[n] = "succeeded"
           => (saved'.graph[n] = "succeeded" /\ invoked'[n] = invoked[n])]_vars
  <2> SUFFICES ASSUME IInv, [Next]_vars, NEW n \in Nodes, saved.graph[n] = "succeeded"
               PROVE  saved'.graph[n] = "succeeded" /\ invoked'[n] = invoked[n]
    OBVIOUS
  <2>1. saved'.graph[n] = "succeeded"
    BY CoreStep DEF Kept
  <2>2. co.graph[n] = "succeeded"
    BY DEF IInv, Core, Kept
  <2>3. invoked \in [Nodes -> Nat]
    BY DEF IInv, Rest
  <2>4. invoked'[n] = invoked[n]
    BY <2>2, <2>3, InvokedStep, ActiveIsUnended
  <2> QED BY <2>1, <2>4
<1> QED BY <1>1, Invariant, PTL DEF Spec, ResultsKept

(* No executor is called after a cancel, although the tasks that wait for  *)
(* a slot or for the end of a backoff are only told to stop (cancel,       *)
(* _run_node).                                                             *)
THEOREM CancelStopsWork == Spec => NoWorkAfterCancel
<1>1. IInv /\ [Next]_vars => [co.cancel => (invoked' = invoked)]_vars
  <2> SUFFICES ASSUME IInv, [Next]_vars, co.cancel PROVE invoked' = invoked
    OBVIOUS
  <2>1. UnendedTasks \subseteq cancelling
    BY DEF IInv, Core, Control
  <2> QED BY <2>1, InvokedStep, ActiveIsUnended
<1> QED BY <1>1, Invariant, PTL DEF Spec, NoWorkAfterCancel

-----------------------------------------------------------------------------
(* The budget of repeated executions.                                      *)

(* d counts as many executions and retries as c.                           *)
SameCounts(c, d) ==
  /\ DOMAIN d = DOMAIN c
  /\ d.executions = c.executions /\ d.retries = c.retries

(* A coordinator that has its counters.                                    *)
Counting(c) == {"executions", "retries"} \subseteq DOMAIN c

(* Every execution is counted, in memory and in what is saved, and each    *)
(* repeated one is a retry.                                                *)
Counted ==
  /\ co.executions = invoked /\ SameCounts(co, saved)
  /\ co.retries <= MaxRetries
  /\ IsFiniteSet(Repeats) /\ Cardinality(Repeats) <= co.retries

(* The counters pass through several updates.                              *)
LEMMA Transitive ==
  ASSUME NEW c, NEW d, NEW e, SameCounts(c, d), SameCounts(d, e)
  PROVE  SameCounts(c, e)
  BY DEF SameCounts

(* An update that counts nothing leaves the counters there.                *)
LEMMA CountingKept ==
  ASSUME NEW c, NEW d, Counting(c), SameCounts(c, d)
  PROVE  Counting(d)
  BY DEF SameCounts, Counting

(* The runtime counts nothing.                                             *)
LEMMA RuntimeCounts ==
  ASSUME NEW c, Counting(c), NEW n, NEW status
  PROVE  /\ SameCounts(c, StartRun(c, n)) /\ SameCounts(c, StartWorkflowRun(c))
         /\ SameCounts(c, Transition(c, n, status)) /\ SameCounts(c, EndWorkflowRun(c, status))
         /\ SameCounts(c, CancelRun(c, n)) /\ SameCounts(c, Cancelled(c))
  BY DEF Counting, SameCounts, StartRun, StartWorkflowRun, Transition, EndWorkflowRun, CancelRun,
         Cancelled

(* Nor do the other fields.                                                *)
LEMMA UpdateCounts ==
  ASSUME NEW c, Counting(c), NEW x
  PROVE  /\ SameCounts(c, [c EXCEPT !.graph = x]) /\ SameCounts(c, [c EXCEPT !.status = x])
         /\ SameCounts(c, [c EXCEPT !.cancel = x]) /\ SameCounts(c, [c EXCEPT !.exhausted = x])
  BY DEF Counting, SameCounts

(* Nor does _ready_tasks, over all its passes.                             *)
LEMMA ResolvedCounts ==
  ASSUME NEW c \in Coordinator, NEW idle
  PROVE  SameCounts(c, Resolved(c, idle))
<1> DEFINE S == {d \in Coordinator : SameCounts(c, d)}
<1>1. c \in S
  BY DEF SameCounts
<1>2. ASSUME NEW d \in S PROVE Resolve(d, idle) \in S
  <2>1. Resolve(d, idle) \in Coordinator
    BY ResolveIs
  <2>2. SameCounts(d, Resolve(d, idle))
    BY DEF Resolve, SameCounts, Coordinator
  <2> QED BY <2>1, <2>2, Transitive
<1> HIDE DEF S
<1>3. Resolved(c, idle) \in S
  BY <1>1, <1>2, ResolvedIn
<1> QED BY <1>3 DEF S

(* _restore and _prepare_snapshot_resume keep the counters, so that a      *)
(* resume counts on.                                                       *)
LEMMA RestoredCounts ==
  ASSUME NEW c, Counting(c)
  PROVE  SameCounts(c, Prepared(Restored(c)))
<1>1. SameCounts(c, Restored(c))
  BY DEF Counting, SameCounts, Restored
<1>2. ASSUME NEW d, Counting(d) PROVE SameCounts(d, Prepared(d))
  <2> DEFINE p == [d EXCEPT
                     !.graph = [n \in Nodes |-> IF Again(d, n) THEN "pending" ELSE @[n]],
                     !.retryable = [n \in Nodes |-> @[n] \/ Paused(d, n)],
                     !.limit = [n \in Nodes |->
                       IF d.graph[n] = "failed" /\ Paused(d, n) /\ d.run[n] = "failed"
                         THEN Bigger(@[n], d.attempt[n] + 1) ELSE @[n]]]
  <2>1. SameCounts(d, p)
    BY <1>2 DEF Counting, SameCounts
  <2>2. Prepared(d) \in {d, p, Reopened(p)}
    BY DEF Prepared
  <2> HIDE DEF p
  <2>3. SameCounts(p, Reopened(p))
    BY <1>2, <2>1, CountingKept DEF Counting, SameCounts, Reopened
  <2>4. SameCounts(d, Reopened(p)) /\ SameCounts(d, d)
    BY <2>1, <2>3, Transitive DEF SameCounts
  <2> QED BY <2>1, <2>2, <2>4
<1> QED BY <1>1, <1>2, CountingKept, Transitive

(* A step that counts nothing.                                             *)
Uncounted ==
  /\ invoked' = invoked
  /\ SameCounts(co, co') /\ SameCounts(co, saved')

(* A step that calls the executor of a node.                               *)
Called(n) ==
  /\ invoked' = [invoked EXCEPT ![n] = @ + 1]
  /\ co.executions[n] > 0 => co.retries < MaxRetries
  /\ co'.executions = [co.executions EXCEPT ![n] = @ + 1]
  /\ co'.retries = co.retries + (IF co.executions[n] > 0 THEN 1 ELSE 0)
  /\ saved' = co'

(* The types the counting needs.                                           *)
LEMMA CoCounts ==
  ASSUME Core, Counted
  PROVE  /\ Counting(co) /\ Counting(saved) /\ SameCounts(co, co) /\ SameCounts(co, saved)
         /\ co \in Coordinator /\ saved \in Coordinator
  BY DEF Core, Sound, Counted, Counting, SameCounts, Coordinator

(* _persist saves the counters it is given.                                *)
LEMMA PersistCounts ==
  ASSUME NEW c, SameCounts(co, c), Persist(c), UNCHANGED invoked
  PROVE  Uncounted
  BY DEF Persist, Uncounted

(* The loop counts nothing.                                                *)
LEMMA LoopCounts ==
  ASSUME Core, Counted, NEW c \in Coordinator, SameCounts(co, c), NEW left, Loop(c, left),
         UNCHANGED invoked
  PROVE  Uncounted
<1>1. Counting(c) /\ SameCounts(c, Resolved(c, Nodes \ left))
  BY CoCounts, CountingKept, ResolvedCounts
<1>2. CASE co' = c /\ UNCHANGED saved
  BY <1>2, CoCounts DEF Uncounted
<1>3. CASE Persist(Cancelled(c))
  <2>1. SameCounts(co, Cancelled(c))
    BY <1>1, RuntimeCounts, Transitive
  <2> QED BY <1>3, <2>1, PersistCounts
<1>4. CASE Persist(Resolved(c, Nodes \ left))
  <2>1. SameCounts(co, Resolved(c, Nodes \ left))
    BY <1>1, Transitive
  <2> QED BY <1>4, <2>1, PersistCounts
<1>5. CASE Persist(Finished(Resolved(c, Nodes \ left)))
  <2> DEFINE r == Resolved(c, Nodes \ left)
             e == [r EXCEPT !.status = FinalStatus(r)]
  <2>1. SameCounts(co, r) /\ Counting(r)
    BY <1>1, Transitive, CountingKept
  <2> HIDE DEF r
  <2>2. SameCounts(r, e) /\ Counting(e)
    BY <2>1, UpdateCounts, CountingKept
  <2>3. SameCounts(e, Finished(r))
    BY <2>2, RuntimeCounts DEF Finished
  <2>4. SameCounts(co, Finished(r))
    BY <2>1, <2>2, <2>3, Transitive
  <2> QED BY <1>5, <2>4, PersistCounts DEF r
<1> QED BY <1>2, <1>3, <1>4, <1>5 DEF Loop

(* A failure of a node counts nothing: its execution was counted before.   *)
LEMMA FailsCounts ==
  ASSUME NEW c, Counting(c), SameCounts(co, c), NEW n, NEW kind, Fails(c, n, kind),
         UNCHANGED invoked
  PROVE  Uncounted
<1>1. PICK seen : seen = Transition(c, n, "failed")
  OBVIOUS
<1>2. SameCounts(c, seen) /\ Counting(seen) /\ saved' = seen
  BY <1>1, RuntimeCounts, CountingKept DEF Fails
<1>3. SameCounts(seen, co')
  BY <1>1, <1>2 DEF Fails, Counting, SameCounts
<1> QED BY <1>2, <1>3, Transitive DEF Uncounted

(* _execute_node counts the execution before it calls the executor, or     *)
(* finds the budget spent (coordinator.py:836).                            *)
LEMMA ExecuteCounts ==
  ASSUME co \in Coordinator,
         NEW c, Counting(c), SameCounts(co, c), NEW n \in Nodes, Execute(c, n)
  PROVE  Uncounted \/ Called(n)
<1>1. CASE c.executions[n] > 0 /\ c.retries >= MaxRetries
  <2> DEFINE d == [c EXCEPT !.exhausted = TRUE]
  <2>1. SameCounts(c, d) /\ Fails(d, n, "local") /\ UNCHANGED invoked
    BY <1>1, UpdateCounts DEF Execute
  <2> HIDE DEF d
  <2>2. Counting(d) /\ SameCounts(co, d)
    BY <2>1, CountingKept, Transitive
  <2> QED BY <2>1, <2>2, FailsCounts
<1>2. CASE ~(c.executions[n] > 0 /\ c.retries >= MaxRetries)
  <2> DEFINE executions == [c.executions EXCEPT ![n] = @ + 1]
             retries == c.retries + (IF c.executions[n] > 0 THEN 1 ELSE 0)
             d == [c EXCEPT !.executions = executions, !.retries = retries]
  <2>1. co' = d /\ saved' = d /\ invoked' = [invoked EXCEPT ![n] = @ + 1]
    BY <1>2 DEF Execute, Persist
  <2> HIDE DEF executions, retries
  <2>2. d.executions = executions /\ d.retries = retries
    BY DEF Counting
  <2> HIDE DEF d
  <2>3. co'.executions = executions /\ co'.retries = retries /\ saved' = co'
    BY <2>1, <2>2
  <2>4. c.executions = co.executions /\ c.retries = co.retries
    BY DEF SameCounts
  <2>5. co.executions[n] > 0 => co.retries < MaxRetries
    BY <1>2, <2>4, CoordinatorAssumption, FieldTypes
  <2> QED BY <2>1, <2>3, <2>4, <2>5 DEF Called, executions, retries
<1> QED BY <1>1, <1>2

(* The tasks of the nodes.                                                 *)
LEMMA NodeCounts ==
  ASSUME Core, Counted, NEW n \in Nodes, Node(n)
  PROVE  Uncounted \/ Called(n)
<1>0. Counting(co) /\ SameCounts(co, co) /\ SameCounts(co, saved) /\ co \in Coordinator
  BY CoCounts
<1>1. PICK running : running = [co EXCEPT !.graph[n] = "running"]
  OBVIOUS
<1>2. SameCounts(co, running) /\ Counting(running)
  BY <1>0, <1>1, CountingKept DEF SameCounts, Counting
<1>3. SameCounts(co, Begun(n)) /\ Counting(Begun(n))
  BY <1>0, <1>1, <1>2, RuntimeCounts, CountingKept, Transitive DEF Begun
<1>4. CASE NodeStart(n)
  <2>1. CASE SlotFree
    BY <1>0, <1>3, <1>4, <2>1, ExecuteCounts DEF NodeStart
  <2>2. CASE ~SlotFree
    BY <1>0, <1>3, <1>4, <2>2 DEF NodeStart, Uncounted
  <2> QED BY <2>1, <2>2
<1>5. CASE ContractFails(n)
  BY <1>3, <1>5, FailsCounts DEF ContractFails
<1>6. CASE Acquire(n)
  BY <1>0, <1>6, ExecuteCounts DEF Acquire
<1>7. CASE Return(n)
  <2>1. PICK c : c = Transition(co, n, "succeeded")
    OBVIOUS
  <2>2. SameCounts(co, c) /\ Counting(c)
    BY <1>0, <2>1, RuntimeCounts, CountingKept
  <2>3. PICK d : d = [c EXCEPT !.graph[n] = "succeeded", !.retryable[n] = TRUE]
    OBVIOUS
  <2>4. SameCounts(c, d)
    BY <2>2, <2>3 DEF SameCounts, Counting
  <2>5. SameCounts(co, d)
    BY <2>2, <2>4, Transitive
  <2>6. Persist(d) /\ UNCHANGED invoked
    BY <1>7, <2>1, <2>3 DEF Return
  <2> QED BY <2>5, <2>6, PersistCounts
<1>8. CASE Fail(n)
  BY <1>0, <1>8, FailsCounts DEF Fail
<1>9. CASE BackoffEnds(n)
  <2>1. PICK c : c = [co EXCEPT !.graph[n] = "pending"]
    OBVIOUS
  <2>2. SameCounts(co, c) /\ Counting(c)
    BY <1>0, <2>1, CountingKept DEF SameCounts, Counting
  <2>3. SameCounts(co, StartRun(c, n))
    BY <2>2, RuntimeCounts, Transitive
  <2>4. Persist(StartRun(c, n)) /\ UNCHANGED invoked
    BY <1>9, <2>1 DEF BackoffEnds
  <2> QED BY <2>3, <2>4, PersistCounts
<1>10. CASE Interrupted(n)
  <2>1. CASE Persist(CancelledNode(co, n))
    <3>1. PICK c : c = [co EXCEPT !.graph[n] = "cancelled"]
      OBVIOUS
    <3>2. SameCounts(co, c) /\ Counting(c) /\ SameCounts(co, [co EXCEPT !.graph[n] = "pending"])
      BY <1>0, <3>1, CountingKept DEF SameCounts, Counting
    <3>3. SameCounts(co, CancelRun(c, n))
      BY <3>2, RuntimeCounts, Transitive
    <3>4. SameCounts(co, CancelledNode(co, n))
      BY <3>1, <3>2, <3>3 DEF CancelledNode
    <3> QED BY <1>10, <2>1, <3>4, PersistCounts DEF Interrupted
  <2>2. CASE UNCHANGED <<co, saved>>
    BY <1>0, <1>10, <2>2 DEF Interrupted, Uncounted
  <2> QED BY <1>10, <2>1, <2>2 DEF Interrupted
<1> QED BY <1>4, <1>5, <1>6, <1>7, <1>8, <1>9, <1>10 DEF Node

(* The main task and the canceller.                                        *)
LEMMA MainCounts ==
  ASSUME Core, Counted, Main \/ Cancel \/ CancelFinishes \/ Timeout \/ Shutdown \/ Unregister \/ Crash
  PROVE  Uncounted
<1>0. /\ Counting(co) /\ SameCounts(co, co) /\ SameCounts(co, saved)
      /\ co \in Coordinator /\ saved \in Coordinator
  BY CoCounts
<1>1. CASE Wake \/ CancelEnds
  BY <1>0, <1>1, LoopCounts DEF Wake, CancelEnds
<1>2. CASE Close \/ Shutdown
  BY <1>0, <1>2 DEF Close, Shutdown, Coroutines, Uncounted
<1>3. CASE Finish
  <2>1. PICK c : c = [co EXCEPT !.graph = [n \in Nodes |->
                        IF co.exhausted /\ @[n] = "pending" THEN "blocked" ELSE @[n]]]
    OBVIOUS
  <2>2. SameCounts(co, c)
    BY <1>0, <2>1 DEF SameCounts, Counting
  <2>3. Persist(c) /\ UNCHANGED invoked
    BY <1>3, <2>1 DEF Finish
  <2> QED BY <2>2, <2>3, PersistCounts
<1>4. CASE Cancel
  <2>1. PICK c : c = [co EXCEPT !.cancel = TRUE]
    OBVIOUS
  <2>2. SameCounts(co, c) /\ Counting(c)
    BY <1>0, <2>1, UpdateCounts, CountingKept
  <2>3. SameCounts(co, Cancelled(c))
    BY <2>2, RuntimeCounts, Transitive
  <2>4. CASE Persist(Cancelled(c))
    BY <1>4, <2>3, <2>4, PersistCounts DEF Cancel
  <2>5. CASE co' = c /\ UNCHANGED saved
    BY <1>0, <1>4, <2>2, <2>5 DEF Cancel, Uncounted
  <2> QED BY <1>4, <2>1, <2>4, <2>5 DEF Cancel
<1>5. CASE CancelFinishes
  <2>1. SameCounts(co, Cancelled(co))
    BY <1>0, RuntimeCounts
  <2> QED BY <1>5, <2>1, PersistCounts DEF CancelFinishes
<1>6. CASE Timeout
  <2>1. PICK c : c = [co EXCEPT !.exhausted = TRUE, !.status = "failed"]
    OBVIOUS
  <2>2. SameCounts(co, c) /\ Counting(c)
    BY <1>0, <2>1, CountingKept DEF SameCounts, Counting
  <2>3. SameCounts(co, EndWorkflowRun(c, "failed"))
    BY <2>2, RuntimeCounts, Transitive
  <2>4. CASE co' = c /\ UNCHANGED saved
    BY <1>0, <1>6, <2>2, <2>4 DEF Timeout, Coroutines, Uncounted
  <2>5. CASE Persist(EndWorkflowRun(c, "failed"))
    BY <1>6, <2>3, <2>5, PersistCounts DEF Timeout, Coroutines
  <2> QED BY <1>6, <2>1, <2>4, <2>5 DEF Timeout
<1>7. CASE Unregister \/ Crash
  BY <1>0, <1>7 DEF Unregister, Crash, Coroutines, Uncounted
<1> QED BY <1>1, <1>2, <1>3, <1>4, <1>5, <1>6, <1>7 DEF Main

(* A resume counts on from what was saved.                                 *)
LEMMA StartCounts ==
  ASSUME Core, Counted, NEW by, Start(by)
  PROVE  Uncounted
<1>0. Counting(saved) /\ SameCounts(co, saved) /\ saved \in Coordinator
  BY CoCounts
<1>1. PICK c : c = Prepared(Restored(saved))
  OBVIOUS
<1>2. SameCounts(co, c) /\ Counting(c)
  BY <1>0, <1>1, RestoredCounts, CountingKept, Transitive
<1>3. c \in Coordinator
  BY <1>1, RestoredSound, PreparedSound DEF Core, Sound
<1>4. CASE co' = c /\ UNCHANGED saved
  BY <1>0, <1>2, <1>4 DEF Start, Uncounted
<1>5. CASE Loop(StartWorkflowRun([c EXCEPT !.status = "running"]), {})
  <2>1. PICK d : d = [c EXCEPT !.status = "running"]
    OBVIOUS
  <2>2. SameCounts(co, d) /\ Counting(d)
    BY <1>2, <2>1, UpdateCounts, CountingKept, Transitive
  <2>3. d \in Coordinator
    BY <1>3, <2>1 DEF Coordinator
  <2>4. SameCounts(co, StartWorkflowRun(d)) /\ StartWorkflowRun(d) \in Coordinator
    BY <2>2, <2>3, RuntimeCounts, StartWorkflowRunIs, Transitive
  <2> QED BY <1>5, <2>1, <2>4, LoopCounts DEF Start
<1> QED BY <1>1, <1>4, <1>5 DEF Start

(* The repeated executions, one by one.                                    *)
LEMMA RepeatsAre ==
  \A e : e \in Repeats <=> \E n \in Nodes : \E k \in 2 .. invoked[n] : e = <<n, k>>
  BY DEF Repeats

(* Every step keeps the count.                                             *)
LEMMA CountedStep ==
  ASSUME IInv, Counted, [Next]_vars
  PROVE  Counted'
<1>0. Core /\ invoked \in [Nodes -> Nat] /\ co.retries \in Nat
  BY FieldTypes DEF IInv, Core, Sound, Rest
<1>1. Uncounted \/ \E n \in Nodes : Called(n)
  <2>1. CASE UNCHANGED vars
    BY <1>0, <2>1, CoCounts DEF vars, Uncounted
  <2> QED BY <1>0, <2>1, NodeCounts, MainCounts, StartCounts DEF Next
<1>2. CASE Uncounted
  <2>1. Repeats' = Repeats
    BY <1>2 DEF Uncounted, Repeats
  <2> QED BY <1>2, <2>1 DEF Uncounted, Counted, SameCounts
<1>3. ASSUME NEW n \in Nodes, Called(n) PROVE Counted'
  <2>1. /\ co'.executions = invoked' /\ SameCounts(co, saved)' /\ co'.retries \in Nat
        /\ invoked'[n] = invoked[n] + 1 /\ \A m \in Nodes \ {n} : invoked'[m] = invoked[m]
    BY <1>0, <1>3 DEF Called, Counted, SameCounts
  <2>2. CASE invoked[n] = 0
    <3>1. Repeats' = Repeats
      BY <1>0, <2>1, <2>2, RepeatsAre DEF Repeats
    <3>2. co'.retries = co.retries
      BY <1>0, <1>3, <2>2 DEF Called, Counted
    <3> QED BY <2>1, <3>1, <3>2 DEF Counted
  <2>3. CASE invoked[n] > 0
    <3> DEFINE e == <<n, invoked[n] + 1>>
    <3>1. Repeats' = Repeats \cup {e}
      <4>1. invoked[n] + 1 \in 2 .. invoked'[n] /\ 2 .. invoked'[n] = (2 .. invoked[n]) \cup {invoked[n] + 1}
        BY <1>0, <2>1, <2>3
      <4>2. \A x : x \in Repeats' <=> \E m \in Nodes : \E k \in 2 .. invoked'[m] : x = <<m, k>>
        BY DEF Repeats
      <4>3. ASSUME NEW x \in Repeats' PROVE x \in Repeats \cup {e}
        <5>1. PICK m \in Nodes : \E k \in 2 .. invoked'[m] : x = <<m, k>>
          BY <4>2, <4>3
        <5>2. CASE m # n
          BY <2>1, <5>1, <5>2, RepeatsAre
        <5>3. CASE m = n
          BY <4>1, <5>1, <5>3, RepeatsAre
        <5> QED BY <5>2, <5>3
      <4>4. ASSUME NEW x \in Repeats PROVE x \in Repeats'
        <5>1. PICK m \in Nodes : \E k \in 2 .. invoked[m] : x = <<m, k>>
          BY <4>4, RepeatsAre
        <5>2. 2 .. invoked[m] \subseteq 2 .. invoked'[m]
          BY <2>1, <4>1
        <5> QED BY <4>2, <5>1, <5>2
      <4>5. e \in Repeats'
        BY <4>1, <4>2
      <4> QED BY <4>3, <4>4, <4>5
    <3>2. e \notin Repeats
      BY <1>0, RepeatsAre
    <3>3. IsFiniteSet(Repeats') /\ Cardinality(Repeats') = Cardinality(Repeats) + 1
      BY <3>1, <3>2, FS_AddElement DEF Counted
    <3>4. co'.retries = co.retries + 1 /\ co.retries < MaxRetries
      BY <1>3, <2>3 DEF Called, Counted
    <3>5. Cardinality(Repeats) \in Nat /\ MaxRetries \in Nat
      BY FS_CardinalityType, CoordinatorAssumption DEF Counted
    <3> QED BY <1>0, <2>1, <3>3, <3>4, <3>5 DEF Counted
  <2> QED BY <1>0, <2>2, <2>3
<1> QED BY <1>1, <1>2, <1>3

(* The executions of all nodes beyond the first of each stay within        *)
(* budget.max_retries, over every run, resume and crash: each of them is   *)
(* counted in what is saved before the executor is called, and a resume    *)
(* starts from what was saved (coordinator.py:836).                        *)
THEOREM BudgetHolds ==
  Spec => []RetryBudget
<1>1. Init => Counted
  <2> SUFFICES ASSUME Init PROVE Counted
    OBVIOUS
  <2>1. Repeats = {}
    BY RepeatsAre DEF Init
  <2>2. co.executions = invoked /\ co.retries = 0 /\ SameCounts(co, saved)
    BY DEF Init, NewCoordinator, SameCounts
  <2> QED BY <2>1, <2>2, FS_EmptySet, CoordinatorAssumption DEF Counted
<1>2. IInv /\ Counted /\ [Next]_vars => Counted'
  BY CountedStep
<1>3. IInv /\ Counted => RetryBudget
  <2> SUFFICES ASSUME IInv, Counted PROVE RetryBudget
    OBVIOUS
  <2>1. Cardinality(Repeats) \in Nat /\ MaxRetries \in Nat
    BY FS_CardinalityType, CoordinatorAssumption DEF Counted
  <2>2. co.retries \in Nat
    BY FieldTypes DEF IInv, Core, Sound
  <2> QED BY <2>1, <2>2 DEF Counted, RetryBudget
<1> QED BY <1>1, <1>2, <1>3, Invariant, PTL DEF Spec
================================================================================
