----------------------------- MODULE QuotaResume -----------------------------
(***************************************************************************)
(* The automatic resume of a workflow that stopped because a model quota   *)
(* was used up, agent/workflow/quota_resume.py: a run that ends with a     *)
(* quota_pause hangs an alarm into a sorted set of Redis, the loop of a    *)
(* background worker finds it when it is due, checks the snapshot of the   *)
(* workflow again and puts it into the job queue.                          *)
(*                                                                         *)
(* One workflow.  Every call of Redis is a step, so that runs in the web   *)
(* process, users and crashes come between the calls of a scan.  The job   *)
(* queue is reduced to the status of the job; WorkflowJobs has the rest.   *)
(* Time is abstract: an alarm that is waiting becomes due.                 *)
(***************************************************************************)
EXTENDS Naturals

CONSTANTS
  Workers,              \* background workers: the scan, and the runs of jobs
  Webs,                 \* web processes: runs of the workflow within a request
  Resets,               \* reset times that the gateway may give
  NoReset,              \* no quota_pause
  NoMeta,               \* no entry in quota_resume_meta
  MAX_RESUME_ATTEMPTS,
  MaxMishaps,           \* bound: crashes and failing calls
  MaxAsked              \* bound: submissions and resumes by the user

ASSUME QuotaAssumption ==
  /\ Workers \cap Webs = {}
  /\ NoReset \notin Resets
  /\ {MAX_RESUME_ATTEMPTS, MaxMishaps, MaxAsked} \subseteq Nat

VARIABLES
  alarm,       \* the member of the sorted set
  meta,        \* its entry in quota_resume_meta
  job,         \* status of the durable job
  carried,     \* quota_pause in the snapshot of the job
  status,      \* status in the snapshot of the session
  pause,       \* quota_pause.reset_at in the snapshot of the session
  pc,          \* program point of each worker and request
  read,        \* quota_pause of the run, or what a scan or schedule holds
  manual,      \* history: the workflow was left to a manual resume
  dispatched,  \* history: automatic resumes since a schedule began to count
  overwritten, \* history: a schedule has written back an outdated count
  mishaps, asked  \* numbers of bounded events

redis == <<alarm, meta>>
jobs == <<job, carried>>
session == <<status, pause>>
history == <<manual, dispatched, overwritten>>
bounds == <<mishaps, asked>>
vars == <<redis, jobs, session, pc, read, history, bounds>>

Processes == Workers \cup Webs

Meta == [reset : Resets, attempts : Nat]

(* The calls of scan_and_resume_due, of _reschedule and of its handler,    *)
(* and of schedule_quota_resume after a run.                               *)
Scanning == {"fetched", "clearing", "voiding", "forgetting", "moving", "enqueueing",
             "removing", "counting"}
Handling == {"handling", "spacing", "dropping", "erasing", "recording"}
Scheduling == {"scheduling", "adding", "storing"}
Points == {"idle", "down", "running", "closing"} \cup Scanning \cup Handling \cup Scheduling

TypeOK ==
  /\ alarm \in {"none", "waiting", "due"}
  /\ meta \in Meta \cup {NoMeta}
  /\ job \in {"none", "queued", "running", "settled"}
  /\ carried \in Resets \cup {NoReset} /\ pause \in Resets \cup {NoReset}
  /\ status \in {"none", "running", "succeeded", "failed", "cancelled"}
  /\ pc \in [Processes -> Points]
  /\ \A p \in Processes :
       IF pc[p] \in {"running", "scheduling"} THEN read[p] \in Resets \cup {NoReset}
       ELSE read[p] \in Meta \cup {NoMeta}
  /\ {manual, overwritten} \subseteq BOOLEAN
  /\ {dispatched, mishaps, asked} \subseteq Nat

Init ==
  /\ alarm = "none" /\ meta = NoMeta
  /\ job = "none" /\ carried = NoReset
  /\ status = "none" /\ pause = NoReset
  /\ pc = [p \in Processes |-> "idle"]
  /\ read = [p \in Processes |-> NoMeta]
  /\ manual = FALSE
  /\ dispatched = 0
  /\ overwritten = FALSE
  /\ mishaps = 0 /\ asked = 0

-----------------------------------------------------------------------------
(* Helpers.                                                                *)

At(p, point) == pc[p] = point
Go(p, point) == pc' = [pc EXCEPT ![p] = point]
Keep(p, value) == read' = [read EXCEPT ![p] = value]

(* One call of Redis: from a point to the next.                            *)
Call(p, from, to) == At(p, from) /\ Go(p, to)

Mishap == mishaps < MaxMishaps /\ mishaps' = mishaps + 1 /\ UNCHANGED asked

(* A workflow that waits for its quota, and would be resumed.              *)
Paused == status = "failed" /\ pause # NoReset

(* Mutant: an attempt is given back.                                       *)
GivenBack(m) == [m EXCEPT !.attempts = @ - 1]

Bumped(m) == [m EXCEPT !.attempts = @ + 1]

-----------------------------------------------------------------------------
(* Runs.                                                                   *)

(* A request submits the workflow anew, without snapshot; the registry of  *)
(* its process admits one run at a time.                                   *)
Submit(p) ==
  /\ p \in Webs
  /\ asked < MaxAsked /\ asked' = asked + 1
  /\ Call(p, "idle", "running")
  /\ Keep(p, NoReset)
  /\ status' = "running" /\ pause' = NoReset
  /\ UNCHANGED <<redis, jobs, history, mishaps>>

(* claim: the run continues the snapshot of the job.                       *)
Claim(p) ==
  /\ p \in Workers
  /\ job = "queued"
  /\ Call(p, "idle", "running")
  /\ job' = "running"
  /\ Keep(p, carried)
  /\ status' = "running" /\ pause' = carried
  /\ UNCHANGED <<redis, carried, history, bounds>>

(* The run ends; a quota_pause it brought along is kept, whatever the end. *)
PauseAfter(p, hit) == IF read[p] # NoReset THEN read[p] ELSE hit

Settle(p) ==
  /\ At(p, "running")
  /\ \E hit \in Resets \cup {NoReset}, end \in {"succeeded", "failed", "cancelled"} :
       /\ hit # NoReset => end = "failed"
       /\ status' = end
       /\ pause' = PauseAfter(p, hit)
       /\ carried' = IF p \in Workers THEN pause' ELSE carried
       /\ manual' = FALSE
       /\ IF pause' = NoReset THEN Keep(p, NoMeta) /\ Go(p, "closing")
          ELSE Keep(p, pause') /\ Go(p, "scheduling")
  /\ UNCHANGED <<redis, job, dispatched, overwritten, bounds>>

(* schedule_quota_resume: hget; attempts continue for the same reset.      *)
Attempts(reset) == IF meta # NoMeta /\ meta.reset = reset THEN meta.attempts ELSE 0

Schedule(p) ==
  /\ At(p, "scheduling")
  /\ LET attempts == Attempts(read[p]) IN
     IF attempts >= MAX_RESUME_ATTEMPTS
     THEN Keep(p, NoMeta) /\ Go(p, "closing") /\ manual' = TRUE
     ELSE /\ Keep(p, [reset |-> read[p], attempts |-> attempts])
          /\ Go(p, "adding") /\ UNCHANGED manual
  /\ UNCHANGED <<redis, jobs, session, dispatched, overwritten, bounds>>

(* ... zadd, hset.                                                         *)
AddAlarm(p) ==
  /\ Call(p, "adding", "storing")
  /\ alarm' = "waiting"
  /\ UNCHANGED <<meta, jobs, session, read, history, bounds>>

StoreMeta(p) ==
  /\ Call(p, "storing", "closing")
  /\ meta' = read[p]
  /\ Keep(p, NoMeta)
  /\ overwritten' = (overwritten \/ Attempts(read[p].reset) # read[p].attempts)
  /\ dispatched' = IF read[p].attempts = 0 THEN 0 ELSE dispatched
  /\ UNCHANGED <<alarm, jobs, session, manual, bounds>>

(* The worker finishes its job, or the request ends.                       *)
Close(p) ==
  /\ Call(p, "closing", "idle")
  /\ job' = IF p \in Workers THEN "settled" ELSE job
  /\ UNCHANGED <<redis, carried, session, read, history, bounds>>

-----------------------------------------------------------------------------
(* scan_and_resume_due.                                                    *)

(* zrangebyscore and hget of the member.                                   *)
Fetch(w) ==
  /\ w \in Workers /\ At(w, "idle")
  /\ alarm = "due"
  /\ Keep(w, meta)
  /\ Go(w, IF meta = NoMeta THEN "clearing" ELSE "fetched")
  /\ UNCHANGED <<redis, jobs, session, history, bounds>>

(* What the snapshot, and then the attempts, make of a due alarm; whether  *)
(* the workflow is active is only asked of this process, which is idle.    *)
Verdict(m) ==
  IF pause = NoReset THEN "voiding"
  ELSE IF pause # m.reset THEN "moving"
  ELSE IF status = "cancelled" \/ m.attempts >= MAX_RESUME_ATTEMPTS THEN "voiding"
  ELSE "enqueueing"

Check(w) ==
  /\ At(w, "fetched")
  /\ Go(w, Verdict(read[w]))
  /\ IF Verdict(read[w]) = "moving" THEN Keep(w, [read[w] EXCEPT !.reset = pause])
     ELSE UNCHANGED read
  /\ manual' = (manual \/ (Verdict(read[w]) = "voiding" /\ Paused))
  /\ UNCHANGED <<redis, jobs, session, dispatched, overwritten, bounds>>

(* An alarm that is void: zrem, and hdel unless there was no meta.  A drop *)
(* may overtake a schedule that came after the check.                      *)
Clear(w) ==
  /\ \/ Call(w, "clearing", "idle") \/ Call(w, "voiding", "forgetting")
     \/ Call(w, "dropping", "erasing")
  /\ alarm' = "none"
  /\ manual' = (manual \/ Paused)
  /\ UNCHANGED <<meta, jobs, session, read, dispatched, overwritten, bounds>>

Forget(w) ==
  /\ Call(w, "forgetting", "idle") \/ Call(w, "erasing", "idle")
  /\ meta' = NoMeta
  /\ manual' = (manual \/ Paused)
  /\ Keep(w, NoMeta)
  /\ UNCHANGED <<alarm, jobs, session, dispatched, overwritten, bounds>>

(* _reschedule: zadd for a new reset or for a later try, then hset.        *)
Move(w) ==
  /\ Call(w, "moving", "recording") \/ Call(w, "spacing", "recording")
  /\ alarm' = "waiting"
  /\ UNCHANGED <<meta, jobs, session, read, history, bounds>>

Record(w) ==
  /\ Call(w, "recording", "idle")
  /\ meta' = read[w]
  /\ Keep(w, NoMeta)
  /\ UNCHANGED <<alarm, jobs, session, history, bounds>>

Enqueued(accepted) ==
  /\ job' = IF accepted THEN "queued" ELSE job
  /\ carried' = IF accepted THEN pause ELSE carried

(* Mutant: no job is queued twice, even after it has settled.              *)
AcceptsOnce == job = "none"

(* store.enqueue leaves a job alone that is queued or running.             *)
Accepts == job \notin {"queued", "running"}

Enqueue(w) ==
  /\ Call(w, "enqueueing", "removing")
  /\ Enqueued(Accepts)
  /\ dispatched' = IF Accepts THEN dispatched + 1 ELSE dispatched
  /\ UNCHANGED <<redis, session, read, manual, overwritten, bounds>>

Remove(w) ==
  /\ Call(w, "removing", "counting")
  /\ alarm' = "none"
  /\ UNCHANGED <<meta, jobs, session, read, history, bounds>>

(* Mutant: the entry is written back without counting.                     *)
NotCounted(m) == m

Counted(m) == Bumped(m)

Count(w) ==
  /\ Call(w, "counting", "idle")
  /\ meta' = Counted(read[w])
  /\ Keep(w, NoMeta)
  /\ UNCHANGED <<alarm, jobs, session, history, bounds>>

(* The handler of an exception: hget, then one attempt more and a later    *)
(* try, or the end of the attempts.                                        *)
Handle(w) ==
  /\ At(w, "handling")
  /\ IF meta = NoMeta THEN Go(w, "idle") /\ Keep(w, NoMeta)
     ELSE /\ Keep(w, Bumped(meta))
          /\ Go(w, IF meta.attempts + 1 >= MAX_RESUME_ATTEMPTS THEN "dropping" ELSE "spacing")
  /\ UNCHANGED <<redis, jobs, session, history, bounds>>

Scan(w) == Fetch(w) \/ Check(w) \/ Clear(w) \/ Forget(w) \/ Move(w) \/ Record(w)
           \/ Enqueue(w) \/ Remove(w) \/ Count(w) \/ Handle(w)

-----------------------------------------------------------------------------
(* Failures.                                                               *)

(* A call of a scan fails, or its answer is lost after it was applied.     *)
ScanFails(w) ==
  /\ pc[w] \in Scanning
  /\ Mishap
  /\ Go(w, "handling") /\ Keep(w, NoMeta)
  /\ \/ UNCHANGED <<redis, jobs, history>>
     \/ /\ At(w, "enqueueing") /\ Accepts
        /\ Enqueued(TRUE) /\ dispatched' = dispatched + 1
        /\ UNCHANGED <<redis, manual, overwritten>>
     \/ /\ At(w, "removing")
        /\ alarm' = "none"
        /\ UNCHANGED <<meta, jobs, history>>
  /\ UNCHANGED session

(* The snapshot cannot be loaded, which voids the alarm.                   *)
LoadFails(w) ==
  /\ Mishap
  /\ Call(w, "fetched", "voiding")
  /\ manual' = TRUE
  /\ UNCHANGED <<redis, jobs, session, read, dispatched, overwritten>>

(* A call of the handler fails, which nobody handles.                      *)
HandlerFails(w) ==
  /\ pc[w] \in Handling
  /\ Mishap
  /\ Go(w, "idle") /\ Keep(w, NoMeta)
  /\ manual' = (manual \/ (Paused /\ alarm = "none"))
  /\ UNCHANGED <<redis, jobs, session, dispatched, overwritten>>

(* A call of schedule_quota_resume fails: no alarm, or one without meta.   *)
ScheduleFails(p) ==
  /\ pc[p] \in Scheduling
  /\ Mishap
  /\ Go(p, "closing") /\ Keep(p, NoMeta)
  /\ manual' = TRUE
  /\ UNCHANGED <<redis, jobs, session, dispatched, overwritten>>

(* A process dies; nobody hangs the alarm of a request that is dead.       *)
Crash(p) ==
  /\ ~At(p, "down")
  /\ Mishap
  /\ Go(p, "down") /\ Keep(p, NoMeta)
  /\ manual' = (manual \/ (p \in Webs /\ Paused))
  /\ UNCHANGED <<redis, jobs, session, dispatched, overwritten>>

Restart(p) ==
  /\ Call(p, "down", "idle")
  /\ UNCHANGED <<redis, jobs, session, read, history, bounds>>

-----------------------------------------------------------------------------
(* The queue, time and the user.                                           *)

Runs(w) == pc[w] \in Scheduling \cup {"running", "closing"}

(* recover_expired: the job of a worker that died.                         *)
Recover ==
  /\ job = "running" /\ \A w \in Workers : ~Runs(w)
  /\ job' = "queued"
  /\ UNCHANGED <<redis, carried, session, pc, read, history, bounds>>

(* The reset, or the spacing after a failure, has passed.                  *)
Ring ==
  /\ alarm = "waiting"
  /\ alarm' = "due"
  /\ UNCHANGED <<meta, jobs, session, pc, read, history, bounds>>

(* The route that resumes a workflow; the web process knows its own runs.  *)
Resume ==
  /\ status \in {"failed", "running"}
  /\ \A p \in Webs : ~At(p, "running")
  /\ Accepts
  /\ asked < MaxAsked /\ asked' = asked + 1
  /\ Enqueued(TRUE)
  /\ UNCHANGED <<redis, session, pc, read, history, mishaps>>

Run(p) == Claim(p) \/ Settle(p) \/ Schedule(p) \/ AddAlarm(p) \/ StoreMeta(p) \/ Close(p)

Next ==
  \/ \E p \in Processes : Submit(p) \/ Run(p) \/ ScheduleFails(p) \/ Crash(p) \/ Restart(p)
  \/ \E w \in Workers : Scan(w) \/ ScanFails(w) \/ LoadFails(w) \/ HandlerFails(w)
  \/ Recover \/ Ring \/ Resume

Spec == Init /\ [][Next]_vars

(* The loop of a worker scans and claims, runs come to their end, the      *)
(* process manager starts workers again, leases expire and time passes.    *)
Fairness ==
  /\ \A w \in Workers : WF_vars(Scan(w) \/ Run(w) \/ Restart(w))
  /\ \A p \in Webs : WF_vars(Run(p) \/ Restart(p))
  /\ WF_vars(Recover) /\ WF_vars(Ring)

FairSpec == Spec /\ Fairness

-----------------------------------------------------------------------------
(* Properties.                                                             *)

(* One reset time resumes a workflow MAX_RESUME_ATTEMPTS times at most     *)
(* (quota_resume.py:13), although the count is read before the enqueue and *)
(* written two calls later (quota_resume.py:245): each crash or failing    *)
(* call can make it miss one resume, and no more.  Excepted is a schedule  *)
(* of the web process that writes back a count which scans have changed.   *)
ResumesBounded == ~overwritten => dispatched <= MAX_RESUME_ATTEMPTS + mishaps

(* A workflow that waits for its quota is resumed in the end               *)
(* (quota_resume.py:4), unless the code leaves it to a manual resume:      *)
(* attempts used up, calls that failed, a request that died between its    *)
(* settlement and the alarm, or a drop that overtook a newer alarm.        *)
PausedResumes == Paused ~> (~Paused \/ job \in {"queued", "running"} \/ manual)

(* "The snapshot has no quota pause any more (resumed by hand, or handled  *)
(* in another way): void" (quota_resume.py:202): a workflow that succeeded *)
(* is not resumed.                                                         *)
SucceededNotResumed ==
  [][\A w \in Workers : Check(w) /\ pc'[w] = "enqueueing" => status # "succeeded"]_vars
=============================================================================
