------------------------------ MODULE AgentRuns ------------------------------
(***************************************************************************)
(* Run control of one chat session over several Uvicorn processes:         *)
(* api/agent.py with agent/runtime/cancellation.py, cancellation_state.py, *)
(* ownership.py, steering.py, session_advisory_lock.py and run() of        *)
(* agent_runtime.py.                                                       *)
(*                                                                         *)
(* A request takes the advisory lock of its session, registers a handle in *)
(* its process, runs the agent as a run of its own (the run is named by    *)
(* its request) and writes the verdict into the transcript.  Requests,     *)
(* cancel calls and the monitor of a handle interleave at every await: a   *)
(* section under the lock of the registry is a step, because runs of other *)
(* sessions hold that lock over a call to Redis, and a Redis script is a   *)
(* step.  task.cancel() only marks a task; the exception is raised where   *)
(* the task waits, as its next step.                                       *)
(***************************************************************************)
EXTENDS Integers, FiniteSets

CONSTANTS
  Webs,          \* Uvicorn processes
  Requests,      \* requests of the session; the name of a request names its run
  Balance,       \* processes to which the balancer may send a request
  Targets,       \* runs a call of the cancel route may name, None for no run
  None,          \* no request, no process, no run
  MaxCancels,    \* bound: calls of the cancel route
  MaxInputs,     \* bound: steering inputs that wait in the queue
  MaxMishaps     \* bound: crashes, lost locks, failing saves and run timeouts

ASSUME AgentAssumption ==
  /\ None \notin Webs \cup Requests
  /\ Balance \in [Requests -> SUBSET Webs]
  /\ Targets \subseteq Requests \cup {None}
  /\ MaxCancels \in Nat /\ MaxInputs \in Nat \ {0} /\ MaxMishaps \in Nat

VARIABLES
  request,     \* where each request is
  lock,        \* the request that holds the advisory lock
  shared,      \* Redis: the state key of the cancellation store
  steer,       \* Redis: the active key and the queue of the steering store
  handle,      \* the registered handle of each process
  owner,       \* the write permission in each process
  calls,       \* calls of _cancel_local in flight
  cleaning,    \* abandoned generators whose finally block is still to run
  transcript,  \* the verdicts saved in the transcript
  asked,       \* history: targets of cancel calls, None for one without a run
  stopped,     \* history: requests whose task was cancelled
  dropped,     \* history: runs whose accepted inputs were deleted unread
  cancels,     \* calls of the cancel route so far
  mishaps      \* mishaps so far

redis == <<shared, steer>>
local == <<handle, owner>>
history == <<asked, stopped, dropped>>
counts == <<cancels, mishaps>>
vars == <<request, lock, shared, steer, handle, owner, calls, cleaning,
          transcript, asked, stopped, dropped, cancels, mishaps>>

Before == {"new", "barrier", "locking", "superseding", "awaiting"}
Setup == {"loading", "attaching"}
Running == {"steering", "running", "publishing", "completing"}
Wrapping == {"saving", "failing", "leaving", "finalizing", "persisting"}
Cleanup == {"unregistering", "closing", "finishing", "revoking", "unlocking", "abandoning"}
Over == {"done", "dead", "abandoned"}
Stages == Before \cup Setup \cup Running \cup Wrapping \cup Cleanup \cup Over
Terminal == {"paused", "finished", "failed"}

Request == [at : Stages, web : Webs \cup {None}, prev : Requests \cup {None}, hit : BOOLEAN]
Shared == [run : Requests \cup {None}, status : {"running", "pause_requested"} \cup Terminal,
           reason : {"none", "user_paused", "superseded"}]
Steer == [run : Requests \cup {None}, status : {"accepting", "closing"}, queued : 0 .. MaxInputs]
Handle == [req : Requests \cup {None}, run : Requests \cup {None},
           reason : {"none", "user_paused", "superseded"}, set : BOOLEAN, armed : BOOLEAN,
           rejected : BOOLEAN, watched : BOOLEAN]
Owner == [run : Requests \cup {None}, status : {"running", "pausing"}]
Call == [web : Webs, target : Requests \cup {None}, reason : {"user_paused", "superseded"},
         by : Requests \cup {None}, at : {"selecting", "pausing", "marking"},
         run : Requests \cup {None}]
Verdict == [req : Requests, kind : {"answer", "error", "paused", "interrupted"}]

NoShared == [run |-> None, status |-> "finished", reason |-> "none"]
NoSteer == [run |-> None, status |-> "closing", queued |-> 0]
NoHandle == [req |-> None, run |-> None, reason |-> "none", set |-> FALSE, armed |-> FALSE,
             rejected |-> FALSE, watched |-> FALSE]
NoOwner == [run |-> None, status |-> "running"]

(* The type invariant.                                                     *)
TypeOK ==
  /\ request \in [Requests -> Request]
  /\ lock \in Requests \cup {None}
  /\ shared \in Shared
  /\ steer \in Steer
  /\ handle \in [Webs -> Handle]
  /\ owner \in [Webs -> Owner]
  /\ calls \subseteq Call
  /\ cleaning \subseteq Requests
  /\ transcript \subseteq Verdict
  /\ asked \subseteq Requests \cup {None}
  /\ stopped \subseteq Requests
  /\ dropped \subseteq Requests
  /\ cancels \in 0 .. MaxCancels
  /\ mishaps \in 0 .. MaxMishaps

Init ==
  /\ request = [q \in Requests |-> [at |-> "new", web |-> None, prev |-> None, hit |-> FALSE]]
  /\ lock = None
  /\ shared = NoShared
  /\ steer = NoSteer
  /\ handle = [p \in Webs |-> NoHandle]
  /\ owner = [p \in Webs |-> NoOwner]
  /\ calls = {}
  /\ cleaning = {}
  /\ transcript = {}
  /\ asked = {}
  /\ stopped = {}
  /\ dropped = {}
  /\ cancels = 0
  /\ mishaps = 0

At(q, stage) == request[q].at = stage /\ ~request[q].hit
Goto(q, stage) == request' = [request EXCEPT ![q].at = stage]
Proceed(q, stage) == request' = [request EXCEPT ![q].at = stage, ![q].hit = FALSE]
Mine(q) == handle[request[q].web].req = q
Mishap == mishaps < MaxMishaps /\ mishaps' = mishaps + 1

(***************************************************************************)
(* The scripts of the two Redis stores.                                    *)
(***************************************************************************)
Active(key) == key.run # None /\ key.status \notin Terminal

RegisterRefused(q) == Active(shared) /\ shared.run # q
RegisterScript(q) == shared' = [run |-> q, status |-> "running", reason |-> "none"]

(* Mutant: the script does not compare the run it is asked to pause.       *)
RequestAnyRun(target, reason) ==
  shared' = IF Active(shared)
            THEN [shared EXCEPT !.status = "pause_requested", !.reason = reason]
            ELSE shared

RequestScript(target, reason) ==
  shared' = IF Active(shared) /\ target \in {None, shared.run}
            THEN [shared EXCEPT
                    !.status = "pause_requested",
                    !.reason = IF "user_paused" \in {@, reason} THEN "user_paused" ELSE reason]
            ELSE shared

(* Mutant: the reason is written as the status.                            *)
FinishWithReason(q, failed) ==
  shared' = IF shared.run = q THEN [shared EXCEPT !.status = shared.reason] ELSE shared

FinishScript(q, failed) ==
  shared' = IF shared.run # q \/ (shared.status = "failed" /\ ~failed)
            THEN shared
            ELSE [shared EXCEPT !.status = IF failed THEN "failed"
                                           ELSE IF shared.reason = "user_paused" THEN "paused"
                                           ELSE "finished"]

SteerRegister(q) == steer' = [run |-> q, status |-> "accepting", queued |-> 0]
SteerClose == steer' = [steer EXCEPT !.status = "closing", !.queued = 0]

(* Deleting the keys of a run deletes the inputs that wait in its queue.   *)
SteerUnregister(q) ==
  /\ steer' = IF steer.run = q THEN NoSteer ELSE steer
  /\ dropped' = IF steer.run = q /\ steer.queued > 0 THEN dropped \cup {q} ELSE dropped

(***************************************************************************)
(* Cancelling.  A call writes the wish to the shared key and then looks    *)
(* for a handle in its own process: three sections with awaits between     *)
(* them.  The second waits while a tool publishes within the boundary of   *)
(* execute_if_owner.                                                       *)
(***************************************************************************)
CallFor(p, target, reason, by) ==
  [web |-> p, target |-> target, reason |-> reason, by |-> by, at |-> "selecting", run |-> None]

RequestCancel(p, target, reason, by) ==
  /\ RequestScript(target, reason)
  /\ calls' = calls \cup {CallFor(p, target, reason, by)}
  /\ asked' = asked \cup {target}

(* The cancel route, in any process.  A client names the run once it has   *)
(* seen an event of it, or names none.                                     *)
CancelRoute(p, target) ==
  /\ cancels < MaxCancels
  /\ target # None => request[target].at \notin Before \cup Setup
  /\ RequestCancel(p, target, "user_paused", None)
  /\ cancels' = cancels + 1
  /\ UNCHANGED <<request, lock, steer, handle, owner, cleaning, transcript, stopped, dropped, mishaps>>

(* _monitor_shared_cancellation polls the key and cancels at most once.    *)
Monitor(p) ==
  /\ handle[p].watched
  /\ shared.run = handle[p].run /\ shared.status = "pause_requested"
  /\ calls' = calls \cup {CallFor(p, shared.run, shared.reason, None)}
  /\ handle' = [handle EXCEPT ![p].watched = FALSE]
  /\ UNCHANGED <<request, lock, redis, owner, cleaning, transcript, history, counts>>

Meets(c) == handle[c.web].req # None /\ c.target \in {None, handle[c.web].run}

(* Mutant: begin_pause does not wait for the boundary of a publication.    *)
NobodyPublishes(p) == FALSE

Publishing(p) == \E q \in Requests : request[q].at = "publishing" /\ request[q].web = p

BeginPause(p, run) ==
  owner' = IF owner[p].run # None /\ run \in {None, owner[p].run}
           THEN [owner EXCEPT ![p].status = "pausing"]
           ELSE owner

CancelSelect(c) ==
  LET p == c.web
      run == handle[p].run IN
  /\ c.at = "selecting"
  /\ IF Meets(c)
     THEN /\ handle' = [handle EXCEPT ![p].reason =
                          IF "user_paused" \in {@, c.reason} THEN "user_paused" ELSE c.reason]
          /\ IF Publishing(p)
             THEN /\ calls' = (calls \ {c}) \cup {[c EXCEPT !.at = "pausing", !.run = run]}
                  /\ UNCHANGED owner
             ELSE /\ calls' = (calls \ {c}) \cup {[c EXCEPT !.at = "marking"]}
                  /\ BeginPause(p, run)
     ELSE calls' = calls \ {c} /\ UNCHANGED <<handle, owner>>
  /\ UNCHANGED <<request, lock, redis, cleaning, transcript, history, counts>>

CancelPause(c) ==
  /\ c.at = "pausing"
  /\ ~Publishing(c.web)
  /\ BeginPause(c.web, c.run)
  /\ calls' = (calls \ {c}) \cup {[c EXCEPT !.at = "marking", !.run = None]}
  /\ UNCHANGED <<request, lock, redis, handle, cleaning, transcript, history, counts>>

(* Marks the task unless it is over; the exception is raised by the next   *)
(* step of the task.                                                       *)
Hit(q) ==
  /\ request' = [request EXCEPT ![q].hit = @ \/ request[q].at \notin Over]
  /\ stopped' = IF request[q].at \in Over THEN stopped ELSE stopped \cup {q}

CancelMark(c) ==
  /\ c.at = "marking"
  /\ calls' = calls \ {c}
  /\ IF Meets(c)
     THEN /\ handle' = [handle EXCEPT ![c.web].set = TRUE]
          /\ IF handle[c.web].armed
             THEN Hit(handle[c.web].req)
             ELSE UNCHANGED <<request, stopped>>
     ELSE UNCHANGED <<handle, request, stopped>>
  /\ UNCHANGED <<lock, redis, owner, cleaning, transcript, asked, dropped, counts>>

(***************************************************************************)
(* A request until its run starts.                                         *)
(***************************************************************************)
(* A client that paused a run names it as previous_paused_run_id; then the *)
(* run is cancelled once more and the request waits at the pause barrier.  *)
Arrive(q, p, prev) ==
  /\ At(q, "new")
  /\ p \in Balance[q] /\ prev # q
  /\ prev # None => prev \in asked
  /\ request' = [request EXCEPT ![q] = [at |-> IF prev = None THEN "locking" ELSE "barrier",
                                        web |-> p, prev |-> prev, hit |-> FALSE]]
  /\ IF prev = None
     THEN UNCHANGED <<shared, calls, asked>>
     ELSE RequestCancel(p, prev, "user_paused", q)
  /\ UNCHANGED <<lock, steer, local, cleaning, transcript, stopped, dropped, counts>>

(* ensure_pause_succeeded: passes when the run is settled, raises when its *)
(* pause failed or another run replaced it, and gives up after a while.    *)
Calling(q) == \E c \in calls : c.by = q

Settled(r) == shared.run = r /\ shared.status \in {"paused", "finished"}

BarrierPasses(q) ==
  /\ At(q, "barrier") /\ ~Calling(q)
  /\ Settled(request[q].prev)
  /\ Goto(q, "locking")
  /\ UNCHANGED <<lock, redis, local, calls, cleaning, transcript, history, counts>>

BarrierRaises(q) ==
  /\ At(q, "barrier") /\ ~Calling(q)
  /\ ~Settled(request[q].prev)
  /\ Goto(q, "done")
  /\ UNCHANGED <<lock, redis, local, calls, cleaning, transcript, history, counts>>

(* session_advisory_lock: one try, or tries until a timeout when the       *)
(* request came through the barrier.                                       *)
LockConflict(q) ==
  /\ At(q, "locking")
  /\ lock # None
  /\ Goto(q, "done")
  /\ UNCHANGED <<lock, redis, local, calls, cleaning, transcript, history, counts>>

(* register: a handle that is still there is asked to go first.            *)
Register(q) ==
  LET p == request[q].web IN
  /\ IF handle[p].req = None
     THEN /\ handle' = [handle EXCEPT ![p] = [NoHandle EXCEPT !.req = q]]
          /\ Goto(q, "loading")
          /\ UNCHANGED <<shared, calls, asked>>
     ELSE /\ RequestCancel(p, handle[p].run, "superseded", q)
          /\ request' = [request EXCEPT
               ![q].at = IF handle[p].run = None THEN "awaiting" ELSE "superseding",
               ![q].prev = handle[p].req]
          /\ UNCHANGED handle
  /\ UNCHANGED <<steer, owner, cleaning, transcript, stopped, dropped, counts>>

TakeLock(q) ==
  /\ At(q, "locking")
  /\ lock = None
  /\ lock' = q
  /\ Register(q)

(* It waits for previous.finished and, if the handle had a run, for the    *)
(* pause barrier of that run, and tries again.                             *)
PredecessorGone(q) == ~Calling(q) /\ handle[request[q].web].req # request[q].prev

Supersede(q) ==
  /\ \/ At(q, "awaiting")
     \/ At(q, "superseding") /\ Settled(request[q].prev)
  /\ PredecessorGone(q)
  /\ Register(q)
  /\ UNCHANGED lock

SupersedeFails(q) ==
  /\ At(q, "superseding") /\ ~Settled(request[q].prev)
  /\ PredecessorGone(q)
  /\ Goto(q, "unlocking")
  /\ UNCHANGED <<lock, redis, local, calls, cleaning, transcript, history, counts>>

(* The session is loaded, then arm_run_task: a cancel that came during the *)
(* setup is delivered now.                                                 *)
Arm(q) ==
  LET p == request[q].web IN
  /\ At(q, "loading")
  /\ handle' = [handle EXCEPT ![p].armed = TRUE]
  /\ request' = [request EXCEPT ![q].at = "attaching", ![q].hit = handle[p].set]
  /\ stopped' = IF handle[p].set THEN stopped \cup {q} ELSE stopped
  /\ UNCHANGED <<lock, redis, owner, calls, cleaning, transcript, asked, dropped, counts>>

(* attach_run_id claims the shared key under the lock of the registry, and *)
(* the run takes the write permission of its process.  A request that is   *)
(* refused goes on to save its failure.                                    *)
Attach(q) ==
  LET p == request[q].web IN
  /\ At(q, "attaching")
  /\ IF RegisterRefused(q)
     THEN /\ handle' = [handle EXCEPT ![p].rejected = TRUE]
          /\ Goto(q, "saving")
          /\ UNCHANGED <<shared, owner>>
     ELSE /\ RegisterScript(q)
          /\ handle' = [handle EXCEPT ![p].run = q, ![p].watched = TRUE]
          /\ owner' = [owner EXCEPT ![p] = [run |-> q, status |-> "running"]]
          /\ Goto(q, "steering")
  /\ UNCHANGED <<lock, steer, calls, cleaning, transcript, history, counts>>

BecomeSteerable(q) ==
  /\ At(q, "steering")
  /\ SteerRegister(q)
  /\ Goto(q, "running")
  /\ UNCHANGED <<lock, shared, local, calls, cleaning, transcript, history, counts>>

(***************************************************************************)
(* The run.                                                                *)
(***************************************************************************)
MayWrite(q) == owner[request[q].web] = [run |-> q, status |-> "running"]

(* The steer route.                                                        *)
SteerRoute ==
  /\ steer.run # None /\ steer.status = "accepting"
  /\ steer.queued < MaxInputs
  /\ steer' = [steer EXCEPT !.queued = @ + 1]
  /\ UNCHANGED <<request, lock, shared, local, calls, cleaning, transcript, history, counts>>

(* At the start of an iteration, or at the completion boundary, the run    *)
(* takes every input that waits.                                           *)
Drain(q) ==
  /\ At(q, "running")
  /\ steer.run = q /\ steer.queued > 0
  /\ steer' = [steer EXCEPT !.queued = 0]
  /\ UNCHANGED <<request, lock, shared, local, calls, cleaning, transcript, history, counts>>

(* Mutant: the completion closes the queue without looking into it.        *)
CompleteUnseen(q) ==
  /\ At(q, "running")
  /\ steer' = IF steer.run = q THEN [steer EXCEPT !.status = "closing"] ELSE steer
  /\ Goto(q, "completing")
  /\ UNCHANGED <<lock, shared, local, calls, cleaning, transcript, history, counts>>

(* begin_completion closes the queue only when it is empty.                *)
Complete(q) ==
  /\ At(q, "running")
  /\ steer.run = q => steer.queued = 0
  /\ IF steer.run = q THEN SteerClose ELSE UNCHANGED steer
  /\ Goto(q, "completing")
  /\ UNCHANGED <<lock, shared, local, calls, cleaning, transcript, history, counts>>

(* Other ends of a run: what waits is handed back as deferred.             *)
EndEarly(q) ==
  /\ At(q, "running")
  /\ IF steer.run = q THEN SteerClose ELSE UNCHANGED steer
  /\ Goto(q, "completing")
  /\ UNCHANGED <<lock, shared, local, calls, cleaning, transcript, history, counts>>

(* A tool publishes resources within execute_if_owner.  Its lock is FIFO:  *)
(* a cancel that waits for it goes first.                                  *)
PublishBegin(q) ==
  /\ At(q, "running")
  /\ MayWrite(q)
  /\ \A c \in calls : c.web = request[q].web => c.at # "pausing"
  /\ Goto(q, "publishing")
  /\ UNCHANGED <<lock, redis, local, calls, cleaning, transcript, history, counts>>

PublishEnd(q) ==
  /\ At(q, "publishing")
  /\ Goto(q, "running")
  /\ UNCHANGED <<lock, redis, local, calls, cleaning, transcript, history, counts>>

(* Mutant: the run is settled in the shared key before it is saved.        *)
LastEventSettles(q) ==
  /\ At(q, "completing")
  /\ Goto(q, IF MayWrite(q) THEN "saving" ELSE "unregistering")
  /\ cleaning' = IF MayWrite(q) THEN cleaning ELSE cleaning \cup {q}
  /\ FinishScript(q, FALSE)
  /\ UNCHANGED <<lock, steer, local, calls, transcript, history, counts>>

(* The last event reaches the route: it is saved, or discarded as stale    *)
(* when the process has taken the write permission away.                   *)
LastEvent(q) ==
  /\ At(q, "completing")
  /\ Goto(q, IF MayWrite(q) THEN "saving" ELSE "unregistering")
  /\ cleaning' = IF MayWrite(q) THEN cleaning ELSE cleaning \cup {q}
  /\ UNCHANGED <<lock, redis, local, calls, transcript, history, counts>>

(* A request that could not attach its run saves its failure unguarded:    *)
(* the event has no run.                                                   *)
Attached(q) == \E p \in Webs : request[q].web = p /\ handle[p].req = q /\ handle[p].run = q

Saved(q) ==
  transcript' = transcript \cup {[req |-> q, kind |-> IF Attached(q) THEN "answer" ELSE "error"]}

Completed(q) ==
  owner' = IF owner[request[q].web].run = q
           THEN [owner EXCEPT ![request[q].web] = NoOwner] ELSE owner

Save(q) ==
  /\ At(q, "saving")
  /\ Saved(q)
  /\ Completed(q)
  /\ cleaning' = cleaning \cup {q}
  /\ Goto(q, "unregistering")
  /\ UNCHANGED <<lock, redis, handle, calls, history, counts>>

(* The exception path: a failing save is followed by the save of an error. *)
SaveFails(q) ==
  /\ At(q, "saving")
  /\ Mishap
  /\ cleaning' = cleaning \cup {q}
  /\ Goto(q, IF Attached(q) => MayWrite(q) THEN "failing" ELSE "unregistering")
  /\ UNCHANGED <<lock, redis, local, calls, transcript, history, cancels>>

SaveError(q) ==
  /\ At(q, "failing")
  /\ \/ transcript' = transcript \cup {[req |-> q, kind |-> "error"]} /\ UNCHANGED mishaps
     \/ Mishap /\ UNCHANGED transcript
  /\ Goto(q, "unregistering")
  /\ UNCHANGED <<lock, redis, local, calls, cleaning, history, cancels>>

(***************************************************************************)
(* A cancelled task.  The exception is raised where the task waits; what   *)
(* it was waiting for may have happened or not.                            *)
(***************************************************************************)
Raise(q, stage) ==
  /\ request[q].hit
  /\ Proceed(q, stage)

RaisedInSetup(q) ==
  /\ request[q].at = "attaching" /\ Raise(q, "finalizing")
  /\ UNCHANGED <<lock, redis, local, calls, cleaning, transcript, history, counts>>

(* Before the try of run(): nobody unregisters the steering keys.          *)
RaisedBeforeRun(q) ==
  /\ request[q].at = "steering" /\ Raise(q, "finalizing")
  /\ SteerRegister(q) \/ UNCHANGED steer
  /\ UNCHANGED <<lock, shared, local, calls, cleaning, transcript, history, counts>>

(* Within run(): its finally block removes the steering keys first.        *)
RaisedInRun(q) ==
  /\ request[q].at \in {"running", "publishing", "completing"} /\ Raise(q, "leaving")
  /\ UNCHANGED <<lock, redis, local, calls, cleaning, transcript, history, counts>>

Leave(q) ==
  /\ request[q].at = "leaving"
  /\ Proceed(q, "finalizing")
  /\ SteerUnregister(q) \/ (request[q].hit /\ UNCHANGED <<steer, dropped>>)
  /\ UNCHANGED <<lock, shared, local, calls, cleaning, transcript, asked, stopped, counts>>

(* The task waits for detached_stream.publish, outside the generator: the  *)
(* generator is closed, in a shielded task, and its handler of             *)
(* cancellations does not run.                                             *)
RaisedInPublish(q) ==
  /\ \/ request[q].at \in {"running", "completing"}
     \/ request[q].at = "unregistering" /\ q \in cleaning
  /\ Raise(q, "closing")
  /\ cleaning' = cleaning \cup {q}
  /\ UNCHANGED <<lock, redis, local, calls, transcript, history, counts>>

RaisedInSave(q) ==
  /\ request[q].at \in {"saving", "failing"}
  /\ Raise(q, IF request[q].at = "saving" THEN "finalizing" ELSE "unregistering")
  /\ \/ Saved(q) /\ request[q].at = "saving"
     \/ transcript' = transcript \cup {[req |-> q, kind |-> "error"]} /\ request[q].at = "failing"
     \/ UNCHANGED transcript
  /\ cleaning' = cleaning \cup {q}
  /\ UNCHANGED <<lock, redis, local, calls, history, counts>>

(* can_finalize: only the run of the shared key, or a request without a    *)
(* run when no run is active, writes the pause into the transcript.        *)
CanFinalize(q) ==
  LET h == handle[request[q].web] IN
  /\ h.req = q /\ ~h.rejected
  /\ IF h.run = None THEN ~Active(shared) ELSE shared.run = q

Finalize(q) ==
  /\ At(q, "finalizing")
  /\ Goto(q, IF CanFinalize(q) THEN "persisting" ELSE "unregistering")
  /\ UNCHANGED <<lock, redis, local, calls, cleaning, transcript, history, counts>>

(* A second cancel while can_finalize waits for Redis ends the handler.    *)
RaisedInFinalize(q) ==
  /\ request[q].at = "finalizing" /\ Raise(q, "unregistering")
  /\ UNCHANGED <<lock, redis, local, calls, cleaning, transcript, history, counts>>

(* persist_interrupted_transcript, shielded: further cancels are swallowed *)
PauseReason(q) ==
  LET h == handle[request[q].web] IN
  IF h.reason # "user_paused" /\ h.run # None /\ shared.run = h.run
     /\ shared.status = "pause_requested"
  THEN shared.reason ELSE h.reason

Persist(q) ==
  /\ request[q].at = "persisting"
  /\ Proceed(q, "unregistering")
  /\ \/ /\ transcript' = transcript \cup
             {[req |-> q, kind |-> IF PauseReason(q) = "user_paused" THEN "paused" ELSE "interrupted"]}
        /\ UNCHANGED <<shared, mishaps>>
     \/ /\ Mishap
        /\ IF Attached(q) THEN FinishScript(q, TRUE) ELSE UNCHANGED shared
        /\ UNCHANGED transcript
  /\ UNCHANGED <<lock, steer, local, calls, cleaning, history, cancels>>

(***************************************************************************)
(* The end of a request.                                                   *)
(***************************************************************************)
MayUnregister(q) == At(q, "unregistering") \/ request[q].at = "closing"

(* Mutant: the run of the handle is not settled in the shared key.         *)
UnregisterSilently(q) ==
  /\ MayUnregister(q)
  /\ Proceed(q, "unlocking")
  /\ handle' = IF Mine(q) THEN [handle EXCEPT ![request[q].web] = NoHandle] ELSE handle
  /\ UNCHANGED <<lock, redis, owner, calls, cleaning, transcript, history, counts>>

Unregister(q) ==
  /\ MayUnregister(q)
  /\ Proceed(q, IF Attached(q) THEN "finishing" ELSE "unlocking")
  /\ handle' = IF Mine(q) THEN [handle EXCEPT ![request[q].web] = NoHandle] ELSE handle
  /\ UNCHANGED <<lock, redis, owner, calls, cleaning, transcript, history, counts>>

(* A cancel while unregister waits for the lock of the registry: the       *)
(* handle stays, its event is never set and the key is never settled.      *)
RaisedInUnregister(q) ==
  /\ request[q].at = "unregistering" /\ Raise(q, "abandoning")
  /\ UNCHANGED <<lock, redis, local, calls, cleaning, transcript, history, counts>>

Finish(q) ==
  /\ At(q, "finishing")
  /\ FinishScript(q, FALSE)
  /\ Goto(q, "revoking")
  /\ UNCHANGED <<lock, steer, local, calls, cleaning, transcript, history, counts>>

Unlocked(q) == lock' = IF lock = q THEN None ELSE lock

Revoke(q) ==
  /\ At(q, "revoking")
  /\ Completed(q)
  /\ Unlocked(q)
  /\ Goto(q, "done")
  /\ UNCHANGED <<redis, handle, calls, cleaning, transcript, history, counts>>

(* A request without a run, or one that lost its unregister.               *)
Unlock(q) ==
  /\ request[q].at \in {"unlocking", "abandoning"}
  /\ Unlocked(q)
  /\ Goto(q, IF request[q].at = "unlocking" THEN "done" ELSE "abandoned")
  /\ UNCHANGED <<redis, local, calls, cleaning, transcript, history, counts>>

(* A generator the route left without closing it is closed by the loop.    *)
CleanUp(q) ==
  /\ q \in cleaning
  /\ SteerUnregister(q)
  /\ cleaning' = cleaning \ {q}
  /\ UNCHANGED <<request, lock, shared, local, calls, transcript, asked, stopped, counts>>

(***************************************************************************)
(* What goes wrong.                                                        *)
(***************************************************************************)
(* A process dies: the database frees its lock, the keys of Redis stay.    *)
Crash(p) ==
  LET gone == {q \in Requests : request[q].web = p /\ request[q].at \notin Over} IN
  /\ Mishap
  /\ request' = [q \in Requests |->
                   IF q \in gone THEN [request[q] EXCEPT !.at = "dead", !.hit = FALSE] ELSE request[q]]
  /\ lock' = IF lock \in gone THEN None ELSE lock
  /\ handle' = [handle EXCEPT ![p] = NoHandle]
  /\ owner' = [owner EXCEPT ![p] = NoOwner]
  /\ calls' = {c \in calls : c.web # p}
  /\ cleaning' = {q \in cleaning : request[q].web # p}
  /\ UNCHANGED <<redis, transcript, history, cancels>>

(* The connection that holds the lock is lost; the request goes on.        *)
LoseLock ==
  /\ Mishap
  /\ lock # None
  /\ lock' = None
  /\ UNCHANGED <<request, redis, local, calls, cleaning, transcript, history, cancels>>

(* agent_detached_run_max_seconds.                                         *)
RunTimeout(q) ==
  /\ Mishap
  /\ request[q].at \in {"running", "publishing", "completing", "saving"}
  /\ Hit(q)
  /\ asked' = asked \cup {q}
  /\ UNCHANGED <<lock, redis, local, calls, cleaning, transcript, dropped, cancels>>

(* The keys live longer than a run may: only keys of runs that are over    *)
(* expire.  (A settled key that expires makes the barrier raise, which its *)
(* timeout does too.)                                                      *)
Expire ==
  LET Gone(key) == key.run # None /\ request[key.run].at \in Over IN
  /\ Active(shared)
  /\ Gone(shared)
  /\ shared' = NoShared
  /\ steer' = IF Gone(steer) THEN NoSteer ELSE steer
  /\ dropped' = IF Gone(steer) /\ steer.queued > 0 THEN dropped \cup {steer.run} ELSE dropped
  /\ UNCHANGED <<request, lock, local, calls, cleaning, transcript, asked, stopped, counts>>

(***************************************************************************)
(* The next-state relation.                                                *)
(***************************************************************************)
Cancelled(q) ==
  \/ RaisedInSetup(q) \/ RaisedBeforeRun(q) \/ RaisedInRun(q) \/ RaisedInPublish(q)
  \/ RaisedInSave(q) \/ RaisedInFinalize(q) \/ RaisedInUnregister(q)

Waiting(q) == BarrierPasses(q) \/ BarrierRaises(q) \/ TakeLock(q) \/ LockConflict(q)

Setting(q) ==
  Supersede(q) \/ SupersedeFails(q) \/ Arm(q) \/ Attach(q)
  \/ BecomeSteerable(q)

Working(q) ==
  Drain(q) \/ Complete(q) \/ EndEarly(q) \/ PublishBegin(q) \/ PublishEnd(q) \/ LastEvent(q)
  \/ Save(q) \/ SaveFails(q) \/ SaveError(q)

Ending(q) ==
  Leave(q) \/ Finalize(q) \/ Persist(q) \/ Unregister(q) \/ Finish(q) \/ Revoke(q) \/ Unlock(q)

CancelStep(c) == CancelSelect(c) \/ CancelPause(c) \/ CancelMark(c)

Next ==
  \/ \E q \in Requests, p \in Webs, prev \in Requests \cup {None} : Arrive(q, p, prev)
  \/ \E q \in Requests : Waiting(q) \/ Setting(q) \/ Working(q) \/ Cancelled(q) \/ Ending(q)
  \/ \E q \in Requests : CleanUp(q) \/ RunTimeout(q)
  \/ \E p \in Webs, target \in Targets : CancelRoute(p, target)
  \/ \E p \in Webs : Monitor(p) \/ Crash(p)
  \/ \E c \in calls : CancelStep(c)
  \/ SteerRoute
  \/ LoseLock
  \/ Expire

Spec == Init /\ [][Next]_vars

(* The loop of a process runs its tasks: the task of a request, whatever   *)
(* it waits for, and those that cancel.  A run may work as long as it      *)
(* likes, and no client is obliged to do anything.                         *)
Task(q) ==
  Setting(q) \/ PublishEnd(q) \/ LastEvent(q) \/ Save(q) \/ SaveError(q) \/ Cancelled(q) \/ Ending(q)

CancelTask(p) == Monitor(p) \/ \E c \in calls : c.web = p /\ CancelStep(c)

FairSpec ==
  /\ Spec
  /\ \A q \in Requests : WF_vars(Task(q))
  /\ \A p \in Webs : WF_vars(CancelTask(p))

(***************************************************************************)
(* Properties.                                                             *)
(***************************************************************************)
(* Only the run that the shared key names, and only until its end is       *)
(* written there, adds to the transcript: a request that passed the pause  *)
(* barrier, or took the key over, never reads a history that its           *)
(* predecessor still changes (cancellation.py:76, cancellation_state.py:   *)
(* 120; two requests are within the route at once after a lost lock).      *)
TranscriptHasOneWriter ==
  [][\A q \in Requests :
       /\ Attached(q)
       /\ \E v \in transcript' \ transcript : v.req = q
       => shared.run = q /\ Active(shared)]_vars

(* A run that nobody cancelled keeps what it needs: the write permission   *)
(* of its process, the shared key, and the steering keys, whatever late    *)
(* clean-ups, revokes and cancels of other runs do (ownership.py:41,       *)
(* steering.py:204).  While it commits the resources of a tool even a      *)
(* cancel leaves it the permission (ownership.py:96).                      *)
RunKeepsItsPlace ==
  \A q \in Requests :
    /\ request[q].at = "running" /\ q \notin stopped =>
         /\ shared.run = q /\ Active(shared)
         /\ steer.run = q /\ steer.status = "accepting"
         /\ owner[request[q].web].run = q
    /\ request[q].at = "publishing" => MayWrite(q)

(* A cancel call stops the run it names, in whichever process it runs, and *)
(* no other (cancellation.py:207 and :222, cancellation_state.py:137).     *)
CancelHitsTarget == None \notin asked => stopped \subseteq asked

(* An accepted steering input is applied or handed back unless its run was *)
(* cancelled or its process died (steering.py:176, agent_runtime.py:846).  *)
InputsKept ==
  \A q \in dropped : q \in stopped \/ request[q].at = "dead"

(* A pause that reached the shared key comes to its end, and frees the     *)
(* barrier, unless the process died or unregister was itself cancelled     *)
(* (cancellation.py:117, :323).                                            *)
Pausing ==
  /\ shared.status = "pause_requested"
  /\ request[shared.run].at \notin {"dead", "abandoning", "abandoned"}

PauseSettles == Pausing ~> ~Pausing

(* "Explicit cancel: the generator has already saved the interrupted       *)
(* transcript" (api/agent.py:1700, in Chinese): a cancelled run that is    *)
(* reported as paused is in the transcript.                                *)
PausedMeansSaved ==
  shared.status = "paused" /\ shared.run \in stopped => \E v \in transcript : v.req = shared.run
=============================================================================
