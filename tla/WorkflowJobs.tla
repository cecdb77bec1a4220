---------------------------- MODULE WorkflowJobs ----------------------------
(***************************************************************************)
(* The durable queue of agent workflows and the workers that drain it:     *)
(* agent/workflow/jobs.py (a Redis hash per workflow, one list, one stream *)
(* per workflow, four Lua scripts) and agent/workflow/worker.py (each      *)
(* worker process runs one job at a time).                                 *)
(*                                                                         *)
(* A Lua script is one step; every await between two Redis calls is a      *)
(* place where other workers, clients, expiry and crashes interleave.      *)
(*                                                                         *)
(* Time is abstracted to what the scripts test.  hash[w].expired says that *)
(* more than lease_seconds passed since updated_at was written,            *)
(* hash[w].ttl counts the lease periods left before Redis evicts the hash, *)
(* and the comparison of updated_at in the recovery script becomes         *)
(* membership in unwritten: nothing wrote the hash since the worker read   *)
(* it.  A snapshot is abstracted to the number of runtime events in it; of *)
(* the stream only these events are kept, not the lifecycle events.        *)
(***************************************************************************)
EXTENDS Naturals, Sequences, FiniteSets

CONSTANTS
  Workflows,      \* workflow ids, each of one session
  Workers,        \* worker processes, each with its own WorkflowJobStore
  Tokens,         \* lease tokens (uuid4)
  NoWorkflow,     \* a worker that handles no workflow
  NoToken,        \* no lease_token field
  NoWorker,       \* no owner field
  TtlPeriods,     \* EXPIRE of the hash, in lease periods (4 in the code)
  MaxEvents,      \* bound: runtime events of one workflow
  MaxEnqueues,    \* bound: accepted enqueues of one workflow
  MaxQueue,       \* bound: length of the Redis list
  MaxFaults       \* bound: crashes, stalls and failed calls

ASSUME JobsAssumption ==
  /\ NoWorkflow \notin Workflows
  /\ NoToken \notin Tokens
  /\ NoWorker \notin Workers
  /\ TtlPeriods \in Nat \ {0}
  /\ {MaxEvents, MaxEnqueues, MaxQueue, MaxFaults} \subseteq Nat

VARIABLES
  hash,           \* the Redis hash of each workflow
  queue,          \* the Redis list of workflow ids
  stream,         \* sequence numbers of the runtime events of each stream
  session,        \* snapshot in the parent session's metadata
  worker,         \* each worker process
  unwritten,      \* workers whose recovery scan read a still current hash
  author,         \* history: worker of the last accepted lease write
  enqueues,       \* accepted enqueues of each workflow
  faults          \* faults so far

vars == <<hash, queue, stream, session, worker, unwritten, author, enqueues, faults>>

-----------------------------------------------------------------------------
(* Types.                                                                  *)

Terminal == {"succeeded", "partial", "failed", "cancelled"}

Hash == [status : {"absent", "queued", "running"} \cup Terminal,
         token : Tokens \cup {NoToken},
         owner : Workers \cup {NoWorker},
         snapshot : Nat,
         last_sequence : Nat,
         expired : BOOLEAN,
         ttl : 0..TtlPeriods]

NoHash == [status |-> "absent", token |-> NoToken, owner |-> NoWorker,
           snapshot |-> 0, last_sequence |-> 0, expired |-> FALSE, ttl |-> 0]

(* Program points.  "scanned" is between the read and the script of        *)
(* recover_expired, "popped" between BLPOP and the claim script, "claimed" *)
(* between that script and HGETALL, "announcing" before workflow.running   *)
(* is published; the others are in _run_job, "flushing" its finally block. *)
InJob == {"starting", "executing", "draining", "finishing", "failing"}
Leased == {"claimed", "announcing", "flushing"} \cup InJob
Points == {"idle", "down", "scanned", "recovered", "popped"} \cup Leased

Process == [pc : Points,
            job : Workflows \cup {NoWorkflow},
            tok : Tokens \cup {NoToken},  \* lease_token of its WorkflowJob
            events : Nat,                 \* runtime events of its execution
            pending : Seq(Nat),           \* snapshots not published yet
            lost : BOOLEAN,               \* lease_lost is set
           dropped : BOOLEAN,            \* its last snapshot write failed
            outcome : Terminal]           \* status of the result of execute()

Idle == [pc |-> "idle", job |-> NoWorkflow, tok |-> NoToken, events |-> 0,
         pending |-> <<>>, lost |-> FALSE, dropped |-> FALSE, outcome |-> "failed"]

TypeOK ==
  /\ hash \in [Workflows -> Hash]
  /\ queue \in Seq(Workflows)
  /\ stream \in [Workflows -> Seq(Nat)]
  /\ session \in [Workflows -> Nat]
  /\ worker \in [Workers -> Process]
  /\ \A p \in Workers : worker[p].pc \notin {"idle", "down"} => worker[p].job \in Workflows
  /\ unwritten \in SUBSET Workers
  /\ author \in [Workflows -> Workers \cup {NoWorker}]
  /\ enqueues \in [Workflows -> Nat]
  /\ faults \in Nat

Init ==
  /\ hash = [w \in Workflows |-> NoHash]
  /\ queue = <<>>
  /\ stream = [w \in Workflows |-> <<>>]
  /\ session = [w \in Workflows |-> 0]
  /\ worker = [p \in Workers |-> Idle]
  /\ unwritten = {}
  /\ author = [w \in Workflows |-> NoWorker]
  /\ enqueues = [w \in Workflows |-> 0]
  /\ faults = 0

-----------------------------------------------------------------------------
(* Writes of the hash.                                                     *)

(* Every script sets updated_at, so a recovery scan that read the hash     *)
(* before the write is out of date.                                        *)
Write(w, h) ==
  /\ hash' = [hash EXCEPT ![w] = h]
  /\ unwritten' = {p \in unwritten : worker[p].job # w}

(* Mutant: the script tests the status only.                               *)
LeaseHeldByStatus(p) == hash[worker[p].job].status = "running"

LeaseHeld(p) ==
  LET h == hash[worker[p].job]
  IN  h.status = "running" /\ h.token = worker[p].tok

(* The tail of the lease script: updated_at and EXPIRE, for any operation. *)
LeaseWrite(p, h) ==
  /\ Write(worker[p].job, [h EXCEPT !.expired = FALSE, !.ttl = TtlPeriods])
  /\ author' = [author EXCEPT ![worker[p].job] = p]

Move(p, point) == worker' = [worker EXCEPT ![p].pc = point]

Rest(p) == worker' = [worker EXCEPT ![p] = Idle]

Fault == faults < MaxFaults /\ faults' = faults + 1

-----------------------------------------------------------------------------
(* Clients: WorkflowJobStore.enqueue, called with the snapshot stored in   *)
(* the parent session by the resume endpoint and the quota scan.           *)

MayEnqueue(w) == hash[w].status \notin {"queued", "running"}

Enqueue(w) ==
  /\ MayEnqueue(w)
  /\ enqueues[w] < MaxEnqueues
  /\ Len(queue) < MaxQueue
  /\ Write(w, [NoHash EXCEPT !.status = "queued", !.snapshot = session[w],
                             !.ttl = TtlPeriods])
  /\ queue' = Append(queue, w)
  /\ enqueues' = [enqueues EXCEPT ![w] = @ + 1]
  /\ author' = [author EXCEPT ![w] = NoWorker]
  /\ UNCHANGED <<stream, session, worker, faults>>

-----------------------------------------------------------------------------
(* The worker loop: recover_expired and claim.                             *)

(* Mutant: only running jobs are recovered.                                *)
RecoverableRunning(w) == hash[w].status = "running" /\ hash[w].expired

Recoverable(w) == hash[w].status \in {"queued", "running"} /\ hash[w].expired

Scan(p, w) ==
  /\ worker[p].pc = "idle"
  /\ Recoverable(w)
  /\ worker' = [worker EXCEPT ![p].pc = "scanned", ![p].job = w]
  /\ unwritten' = unwritten \cup {p}
  /\ UNCHANGED <<hash, queue, stream, session, author, enqueues, faults>>

(* Mutant: the recovery script does not compare updated_at.                *)
MayRecoverAny(p) == TRUE

MayRecover(p) == p \in unwritten

Recover(p) ==
  LET w == worker[p].job IN
  /\ worker[p].pc = "scanned"
  /\ \/ /\ MayRecover(p)
        /\ Len(queue) < MaxQueue
        /\ Write(w, [hash[w] EXCEPT !.status = "queued", !.token = NoToken,
                                    !.owner = NoWorker, !.expired = FALSE])
        /\ queue' = Append(queue, w)
        /\ Move(p, "recovered")
     \/ /\ ~MayRecover(p)
        /\ Rest(p)
        /\ UNCHANGED <<hash, queue, unwritten>>
  /\ UNCHANGED <<stream, session, author, enqueues, faults>>

(* The lifecycle event of a recovery is a Redis call of its own.           *)
AnnounceRecovered(p) ==
  /\ worker[p].pc = "recovered"
  /\ Rest(p)
  /\ UNCHANGED <<hash, queue, stream, session, unwritten, author, enqueues, faults>>

Pop(p) ==
  /\ worker[p].pc = "idle"
  /\ queue # <<>>
  /\ queue' = Tail(queue)
  /\ worker' = [worker EXCEPT ![p].pc = "popped", ![p].job = Head(queue)]
  /\ UNCHANGED <<hash, stream, session, unwritten, author, enqueues, faults>>

(* Mutant: a token may be issued again.                                    *)
ReusedTokens == Tokens

(* A uuid differs from every token still remembered anywhere.              *)
FreshTokens ==
  Tokens \ ({hash[w].token : w \in Workflows} \cup {worker[p].tok : p \in Workers})

(* Mutant: the claim script does not test the status.                      *)
MayClaimAny(w) == TRUE

MayClaim(w) == hash[w].status = "queued"

Claim(p) ==
  LET w == worker[p].job IN
  /\ worker[p].pc = "popped"
  /\ \/ /\ MayClaim(w)
        /\ \E t \in FreshTokens :
             /\ Write(w, [hash[w] EXCEPT !.status = "running", !.owner = p,
                                         !.token = t, !.expired = FALSE])
             /\ worker' = [worker EXCEPT ![p].pc = "claimed", ![p].tok = t]
        /\ author' = [author EXCEPT ![w] = NoWorker]
     \/ /\ ~MayClaim(w)
        /\ Rest(p)
        /\ UNCHANGED <<hash, unwritten, author>>
  /\ UNCHANGED <<queue, stream, session, enqueues, faults>>

(* HGETALL after the claim script: another worker may have recovered the   *)
(* job in between; otherwise the job is decoded with its latest snapshot.  *)
LoadJob(p) ==
  LET w == worker[p].job IN
  /\ worker[p].pc = "claimed"
  /\ IF hash[w].token = worker[p].tok
       THEN worker' = [worker EXCEPT ![p].pc = "announcing", ![p].events = hash[w].snapshot]
       ELSE Rest(p)
  /\ UNCHANGED <<hash, queue, stream, session, unwritten,
                 author, enqueues, faults>>

(* So is the one that ends a claim.                                        *)
AnnounceRunning(p) ==
  /\ worker[p].pc = "announcing"
  /\ Move(p, "starting")
  /\ UNCHANGED <<hash, queue, stream, session, unwritten, author, enqueues, faults>>

-----------------------------------------------------------------------------
(* _run_job.                                                               *)

(* A lease write that the script refuses raises WorkflowLeaseLost, and     *)
(* lose_lease sets lease_lost and cancels the execution.                   *)
LoseLease(p, point) ==
  /\ worker' = [worker EXCEPT ![p].lost = TRUE, ![p].pc = point]
  /\ UNCHANGED <<hash, unwritten, author>>

(* The heartbeat before anything is executed.                              *)
CheckOwnership(p) ==
  /\ worker[p].pc = "starting"
  /\ \/ LeaseHeld(p) /\ LeaseWrite(p, hash[worker[p].job]) /\ Move(p, "executing")
     \/ ~LeaseHeld(p) /\ LoseLease(p, "flushing")
  /\ UNCHANGED <<queue, stream, session, enqueues, faults>>

(* maintain_lease, every third of the lease while the job runs.            *)
Heartbeat(p) ==
  /\ worker[p].pc \in InJob
  /\ ~worker[p].lost
  /\ \/ LeaseHeld(p) /\ LeaseWrite(p, hash[worker[p].job]) /\ UNCHANGED worker
     \/ ~LeaseHeld(p) /\ LoseLease(p, worker[p].pc)
  /\ UNCHANGED <<queue, stream, session, enqueues, faults>>

(* The coordinator records an event; its persist callback saves the        *)
(* snapshot in the parent session (best effort, not fenced by the lease)   *)
(* and hands it to the event sink.  A cancelled execution may still do so. *)
Checkpoint(p) ==
  LET w == worker[p].job
      n == worker[p].events + 1 IN
  /\ worker[p].pc = "executing"
  /\ n <= MaxEvents
  /\ worker' = [worker EXCEPT ![p].events = n, ![p].pending = Append(@, n)]
  /\ \/ session' = [session EXCEPT ![w] = n] /\ UNCHANGED faults
     \/ UNCHANGED session /\ Fault
  /\ UNCHANGED <<hash, queue, stream, unwritten, author, enqueues>>

(* Mutant: no comparison with last_sequence.                               *)
AllEvents(w, n) == [i \in 1..n |-> i]

(* What the snapshot operation appends of a snapshot of n events.          *)
NewEvents(w, n) ==
  [i \in 1..(IF n > hash[w].last_sequence THEN n - hash[w].last_sequence ELSE 0)
     |-> hash[w].last_sequence + i]

PopPending(p, gone, failed) ==
  worker' = [worker EXCEPT ![p].pending = Tail(@), ![p].lost = gone,
                           ![p].dropped = failed]

(* persist_events: snapshots in order, none once the lease is lost.        *)
Publish(p) ==
  LET w == worker[p].job
      n == Head(worker[p].pending)
      new == NewEvents(w, n) IN
  /\ worker[p].pc \in InJob \cup {"flushing"}
  /\ worker[p].pending # <<>>
  /\ \/ /\ ~worker[p].lost
        /\ LeaseHeld(p)
        /\ LeaseWrite(p, [hash[w] EXCEPT !.snapshot = n, !.last_sequence = @ + Len(new)])
        /\ stream' = [stream EXCEPT ![w] = @ \o new]
        /\ PopPending(p, FALSE, FALSE)
     \/ /\ worker[p].lost \/ ~LeaseHeld(p)
        /\ PopPending(p, TRUE, FALSE)
        /\ UNCHANGED <<hash, unwritten, author, stream>>
  /\ UNCHANGED <<queue, session, enqueues, faults>>

(* execute() returns a result, or raises.                                  *)
Return(p) ==
  /\ worker[p].pc = "executing"
  /\ \/ \E r \in Terminal :
          worker' = [worker EXCEPT ![p].pc = "draining", ![p].outcome = r]
     \/ Move(p, "failing")
  /\ UNCHANGED <<hash, queue, stream, session, unwritten,
                 author, enqueues, faults>>

(* The cancellation of lose_lease reaches the execution.                   *)
Abandon(p) ==
  /\ worker[p].pc = "executing"
  /\ worker[p].lost
  /\ Move(p, "flushing")
  /\ UNCHANGED <<hash, queue, stream, session, unwritten,
                 author, enqueues, faults>>

(* Mutant: no join of the snapshot queue.                                  *)
NeverWait(p) == TRUE

Drained(p) == worker[p].pending = <<>>

(* snapshots.join(), then the test of lease_lost.                          *)
Join(p) ==
  /\ worker[p].pc = "draining"
  /\ Drained(p)
  /\ Move(p, IF worker[p].lost THEN "flushing" ELSE "finishing")
  /\ UNCHANGED <<hash, queue, stream, session, unwritten,
                 author, enqueues, faults>>

(* finish() with the status of the result, or "failed" after an exception. *)
Finish(p) ==
  LET w == worker[p].job
      result == IF worker[p].pc = "finishing" THEN worker[p].outcome ELSE "failed" IN
  /\ worker[p].pc \in {"finishing", "failing"}
  /\ \/ /\ LeaseHeld(p)
        /\ LeaseWrite(p, [hash[w] EXCEPT !.status = result, !.token = NoToken,
                                         !.owner = NoWorker])
        /\ Move(p, "flushing")
     \/ ~LeaseHeld(p) /\ LoseLease(p, "flushing")
  /\ UNCHANGED <<queue, stream, session, enqueues, faults>>

(* The finally block ends once event_task has taken every snapshot.        *)
EndJob(p) ==
  /\ worker[p].pc = "flushing"
  /\ Drained(p)
  /\ Rest(p)
  /\ UNCHANGED <<hash, queue, stream, session, unwritten,
                 author, enqueues, faults>>

-----------------------------------------------------------------------------
(* Faults and time.                                                        *)

(* A Redis call raises: a snapshot is dropped, an ownership check or a     *)
(* finish goes to finish(failed), and when that fails too the job is left. *)
CallFails(p) ==
  /\ \/ /\ worker[p].pc \in InJob \cup {"flushing"}
        /\ worker[p].pending # <<>> /\ ~worker[p].lost
        /\ PopPending(p, FALSE, TRUE)
     \/ worker[p].pc \in {"starting", "finishing"} /\ Move(p, "failing")
     \/ worker[p].pc = "failing" /\ Move(p, "flushing")
  /\ Fault
  /\ UNCHANGED <<hash, queue, stream, session, unwritten, author, enqueues>>

(* The worker task is cancelled: no finish, but the snapshots are flushed. *)
Shutdown(p) ==
  /\ worker[p].pc \in InJob
  /\ Move(p, "flushing")
  /\ Fault
  /\ UNCHANGED <<hash, queue, stream, session, unwritten, author, enqueues>>

Crash(p) ==
  /\ worker[p].pc # "down"
  /\ worker' = [worker EXCEPT ![p] = [Idle EXCEPT !.pc = "down"]]
  /\ unwritten' = unwritten \ {p}
  /\ Fault
  /\ UNCHANGED <<hash, queue, stream, session, author, enqueues>>

Restart(p) ==
  /\ worker[p].pc = "down"
  /\ Rest(p)
  /\ UNCHANGED <<hash, queue, stream, session, unwritten,
                 author, enqueues, faults>>

(* Nobody will write the hash before it is recovered.                      *)
Orphaned(w) ==
  \/ /\ hash[w].status = "queued"
     /\ \A i \in 1..Len(queue) : queue[i] # w
     /\ \A p \in Workers : ~(worker[p].pc = "popped" /\ worker[p].job = w)
  \/ /\ hash[w].status = "running"
     /\ \A p \in Workers : ~(worker[p].pc \in Leased /\ worker[p].job = w /\ LeaseHeld(p))

(* Mutant: the hash is never evicted.                                      *)
NoEviction(w) == FALSE

LastPeriod(w) == hash[w].ttl <= 1

(* A lease period passes without a write: the lease of an orphaned job     *)
(* ends, or a worker or the queue has stalled for that long (a fault).     *)
(* Redis evicts the hash with its last period.                             *)
Elapse(w) ==
  /\ hash[w].status # "absent"
  /\ \/ Orphaned(w) /\ ~hash[w].expired /\ UNCHANGED faults
     \/ Fault
  /\ \/ /\ ~LastPeriod(w)
        /\ hash' = [hash EXCEPT ![w].expired = TRUE, ![w].ttl = @ - 1]
        /\ UNCHANGED unwritten
     \/ LastPeriod(w) /\ Write(w, NoHash)
  /\ UNCHANGED <<queue, stream, session, worker, author, enqueues>>

-----------------------------------------------------------------------------
Loop(p) ==
  \/ \E w \in Workflows : Scan(p, w)
  \/ Recover(p) \/ AnnounceRecovered(p)
  \/ Pop(p) \/ Claim(p) \/ LoadJob(p) \/ AnnounceRunning(p)

Run(p) ==
  \/ CheckOwnership(p) \/ Publish(p) \/ Return(p) \/ Abandon(p)
  \/ Join(p) \/ Finish(p) \/ EndJob(p)

Next ==
  \/ \E w \in Workflows : Enqueue(w) \/ Elapse(w)
  \/ \E p \in Workers :
       \/ Loop(p) \/ Run(p) \/ Heartbeat(p) \/ Checkpoint(p)
       \/ CallFails(p) \/ Shutdown(p) \/ Crash(p) \/ Restart(p)

Spec == Init /\ [][Next]_vars

(* A worker process keeps executing and is restarted after a crash; an     *)
(* orphaned job's lease runs out.  Nothing is assumed of clients.          *)
Fairness ==
  /\ \A p \in Workers : WF_vars(Loop(p) \/ Run(p) \/ Restart(p))
  /\ \A w \in Workflows : WF_vars(Orphaned(w) /\ ~hash[w].expired /\ Elapse(w))

FairSpec == Spec /\ Fairness
-----------------------------------------------------------------------------
(* Properties.                                                             *)

Holds(p) == worker[p].pc \in Leased /\ LeaseHeld(p)

(* One live lease per job: a worker whose token the scripts would accept   *)
(* is the recorded owner of the job, and no other worker's token would be  *)
(* accepted, across recoveries, re-claims by the same process, resumes and *)
(* evictions.                                                              *)
SoleLeaseHolder ==
  \A p \in Workers : Holds(p) =>
    /\ hash[worker[p].job].owner = p
    /\ \A q \in Workers \ {p} : worker[q].job = worker[p].job => ~Holds(q)

(* The runtime events appended since the last enqueue are 1, 2, ... up to  *)
(* last_sequence, each once, whatever snapshots were dropped, republished  *)
(* by a second execution or written after a takeover.                      *)
JournalGapFree ==
  \A w \in Workflows :
    LET n == hash[w].last_sequence
        old == Len(stream[w]) - n
    IN  old >= 0 /\ \A i \in 1..n : stream[w][old + i] = i

(* A live job never loses events that Redis accepted: takeovers continue   *)
(* from the latest snapshot and a superseded worker cannot write an older  *)
(* one over it.                                                            *)
ProgressKept ==
  [][\A w \in Workflows :
       hash[w].status \in {"queued", "running"} /\ hash'[w].status # "absent"
         => hash'[w].snapshot >= hash[w].snapshot]_vars

(* A lease is revoked only if a whole lease period passed without any      *)
(* write of its holder, although recover_expired decides on values it read *)
(* before.                                                                 *)
OnlyExpiredLeasesRevoked ==
  [][\A w \in Workflows :
       hash[w].status = "running" /\ hash'[w].status = "queued" => hash[w].expired]_vars

(* A job settled with the result of its execution has the complete         *)
(* snapshot of that execution stored with it, unless the write of the last *)
(* one failed: finish must not overtake the snapshots that another task    *)
(* writes (worker.py:76).                                                  *)
SettledSnapshotComplete ==
  [][\A p \in Workers :
       LET w == worker[p].job IN
       worker[p].pc = "finishing" /\ Holds(p) /\ ~worker[p].dropped /\ hash'[w].status \in Terminal
         => hash'[w].snapshot = worker[p].events]_vars

(* The queue implements its abstract life cycle: the hash's owner is the   *)
(* holder, its snapshot the checkpoint.                                    *)
Lifecycle ==
  INSTANCE JobLifecycle WITH
    state <- [w \in Workflows |-> hash[w].status],
    holder <- [w \in Workflows |-> hash[w].owner],
    progress <- [w \in Workflows |-> hash[w].snapshot],
    Checkpoints <- 0..MaxEvents

ImplementsLifecycle == Lifecycle!Spec

(* Every queued job is settled in the end although workers crash between   *)
(* BLPOP, claim and finish, leases run out and calls fail.                 *)
EveryJobSettles ==
  \A w \in Workflows : hash[w].status = "queued" ~> hash[w].status \in Terminal

(* "Durable workflow jobs" (jobs.py:1), requeued when their worker crashed  *)
(* (jobs.py:158): a queued job that was written within the last lease      *)
(* period, by its enqueue or by its recovery, is not evicted.              *)
QueuedJobSurvives ==
  [][\A w \in Workflows :
       hash[w].status = "queued" /\ ~hash[w].expired => hash'[w].status # "absent"]_vars

(* "event sequence numbers are deduplicated" (workflow/README.md): a       *)
(* stream contains a runtime event at most once.                           *)
EventsAtMostOnce ==
  \A w \in Workflows : \A i, j \in 1..Len(stream[w]) :
    stream[w][i] = stream[w][j] => i = j
=============================================================================
