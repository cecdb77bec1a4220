------------------------- MODULE WorkflowJobsProofs -------------------------
(***************************************************************************)
(* Proofs about WorkflowJobs, for any sets of workflows, workers and       *)
(* tokens and any values of the bounds.                                    *)
(***************************************************************************)
EXTENDS WorkflowJobs, SequenceTheorems, TLAPS



(* The events a snapshot operation appends are a sequence of numbers.      *)
LEMMA NewEventsType ==
  ASSUME TypeOK, NEW w \in Workflows, NEW n \in Nat
  PROVE  NewEvents(w, n) \in Seq(Nat) /\ Len(NewEvents(w, n)) \in Nat
<1> DEFINE last == hash[w].last_sequence
           k == IF n > last THEN n - last ELSE 0
<1>1. last \in Nat /\ k \in Nat
  BY DEF TypeOK, Hash
<1>2. NewEvents(w, n) = [i \in 1..k |-> last + i]
  BY DEF NewEvents
<1>3. NewEvents(w, n) \in Seq(Nat)
  BY <1>1, <1>2, IsASeq
<1>4. QED
  BY <1>3, LenProperties

(* Record updates used by the actions keep the types of hash and worker.   *)
LEMMA WriteType ==
  ASSUME TypeOK, NEW w \in Workflows, NEW h \in Hash, Write(w, h)
  PROVE  hash' \in [Workflows -> Hash] /\ unwritten' \in SUBSET Workers
BY DEF TypeOK, Write

(* The records the scripts write are hashes.                               *)
LEMMA HashUpdates ==
  ASSUME NEW h \in Hash
  PROVE  /\ [h EXCEPT !.status = "queued", !.token = NoToken,
                       !.owner = NoWorker, !.expired = FALSE] \in Hash
         /\ \A p \in Workers, t \in Tokens :
               [h EXCEPT !.status = "running", !.owner = p,
                         !.token = t, !.expired = FALSE] \in Hash
         /\ \A n \in Nat, k \in Nat :
               [h EXCEPT !.snapshot = n, !.last_sequence = h.last_sequence + k] \in Hash
         /\ \A result \in Terminal :
               [h EXCEPT !.status = result, !.token = NoToken, !.owner = NoWorker] \in Hash
<1>1. [h EXCEPT !.status = "queued", !.token = NoToken,
                !.owner = NoWorker, !.expired = FALSE] \in Hash
  BY DEF Hash
<1>2. ASSUME NEW p \in Workers, NEW t \in Tokens
      PROVE  [h EXCEPT !.status = "running", !.owner = p,
                       !.token = t, !.expired = FALSE] \in Hash
  BY DEF Hash
<1>3. ASSUME NEW n \in Nat, NEW k \in Nat
      PROVE  [h EXCEPT !.snapshot = n, !.last_sequence = h.last_sequence + k] \in Hash
  <2>1. h.last_sequence + k \in Nat
    BY DEF Hash
  <2>2. ASSUME NEW last \in Nat
        PROVE  [h EXCEPT !.snapshot = n, !.last_sequence = last] \in Hash
    BY DEF Hash
  <2>3. QED
    BY <2>1, <2>2
<1>4. ASSUME NEW result \in Terminal
      PROVE  [h EXCEPT !.status = result, !.token = NoToken, !.owner = NoWorker] \in Hash
  BY DEF Hash
<1>5. QED
  BY <1>1, <1>2, <1>3, <1>4

(* An accepted lease write keeps the types.                                *)
LEMMA LeaseWriteType ==
  ASSUME TypeOK, NEW p \in Workers, NEW h \in Hash, LeaseWrite(p, h),
         worker[p].job \in Workflows
  PROVE  /\ hash' \in [Workflows -> Hash]
         /\ unwritten' \in SUBSET Workers
         /\ author' \in [Workflows -> Workers \cup {NoWorker}]
<1>0. TtlPeriods \in 0..TtlPeriods
  BY JobsAssumption
<1>1. [h EXCEPT !.expired = FALSE, !.ttl = TtlPeriods] \in Hash
  BY <1>0 DEF Hash
<1>2. Write(worker[p].job, [h EXCEPT !.expired = FALSE, !.ttl = TtlPeriods])
  BY DEF LeaseWrite
<1>3. hash' \in [Workflows -> Hash] /\ unwritten' \in SUBSET Workers
  BY <1>1, <1>2, WriteType
<1>4. QED
  BY <1>3 DEF LeaseWrite, TypeOK

(* The type of the worker processes, as in TypeOK.                         *)
WorkersOK ==
  /\ worker \in [Workers -> Process]
  /\ \A p \in Workers : worker[p].pc \notin {"idle", "down"} => worker[p].job \in Workflows

(* Every action replaces the record of one worker.                         *)
LEMMA WorkerStepType ==
  ASSUME TypeOK, NEW p \in Workers, NEW r \in Process,
         r.pc \notin {"idle", "down"} => r.job \in Workflows,
         worker' = [worker EXCEPT ![p] = r]
  PROVE  WorkersOK'
BY DEF TypeOK, WorkersOK

(* An idle worker of worker.py is a well-formed process.                   *)
LEMMA IdleType == Idle \in Process
BY EmptySeq DEF Idle, Process, Points, Terminal

(* Going back to the loop keeps the workers well-formed.                   *)
LEMMA RestType ==
  ASSUME TypeOK, NEW p \in Workers, Rest(p)
  PROVE  WorkersOK'
<1>1. worker' = [worker EXCEPT ![p] = Idle] /\ Idle.pc = "idle"
  BY DEF Rest, Idle
<1>2. QED
  BY <1>1, IdleType, WorkerStepType

(* A step to another point of _run_job keeps the workers well-formed.      *)
LEMMA MoveType ==
  ASSUME TypeOK, NEW p \in Workers, NEW point \in Points, Move(p, point),
         worker[p].job \in Workflows
  PROVE  WorkersOK'
<1> DEFINE r == [worker[p] EXCEPT !.pc = point]
<1>1. worker' = [worker EXCEPT ![p] = r]
  BY DEF Move, TypeOK
<1>2. r \in Process /\ r.job \in Workflows
  BY DEF TypeOK, Process
<1>3. QED
  BY <1>1, <1>2, WorkerStepType

(* Taking a snapshot off the queue of snapshots keeps the types.           *)
LEMMA PopPendingType ==
  ASSUME TypeOK, NEW p \in Workers, NEW gone \in BOOLEAN, NEW failed \in BOOLEAN,
         PopPending(p, gone, failed),
         worker[p].pending # <<>>, worker[p].job \in Workflows
  PROVE  WorkersOK'
<1> DEFINE r == [worker[p] EXCEPT !.pending = Tail(worker[p].pending), !.lost = gone,
                             !.dropped = failed]
<1>1. worker[p].pending \in Seq(Nat) /\ Tail(worker[p].pending) \in Seq(Nat)
  BY HeadTailProperties DEF TypeOK, Process
<1>2. worker' = [worker EXCEPT ![p] = r]
  BY DEF PopPending, TypeOK
<1>3. r \in Process /\ r.job \in Workflows
  BY <1>1 DEF TypeOK, Process
<1>4. QED
  BY <1>2, <1>3, WorkerStepType

(* A refused lease write.                                                  *)
LEMMA LoseLeaseType ==
  ASSUME TypeOK, NEW p \in Workers, NEW point \in Points, LoseLease(p, point),
         worker[p].job \in Workflows
  PROVE  WorkersOK'
<1> DEFINE r == [worker[p] EXCEPT !.lost = TRUE, !.pc = point]
<1>1. worker' = [worker EXCEPT ![p] = r]
  BY DEF LoseLease, TypeOK
<1>2. r \in Process /\ r.job \in Workflows
  BY DEF TypeOK, Process
<1>3. QED
  BY <1>1, <1>2, WorkerStepType

-----------------------------------------------------------------------------
(* Type correctness, one lemma per group of actions.                       *)

LEMMA ClientTypes ==
  ASSUME TypeOK, NEW w \in Workflows, Enqueue(w)
  PROVE  TypeOK'
<1>0. TtlPeriods \in 0..TtlPeriods
  BY JobsAssumption
<1>1. [NoHash EXCEPT !.status = "queued", !.snapshot = session[w],
                     !.ttl = TtlPeriods] \in Hash
  BY <1>0 DEF TypeOK, Hash, NoHash
<1>2. hash' \in [Workflows -> Hash] /\ unwritten' \in SUBSET Workers
  BY <1>1, WriteType DEF Enqueue
<1>3. queue' \in Seq(Workflows)
  BY AppendProperties DEF Enqueue, TypeOK
<1>4. /\ author' \in [Workflows -> Workers \cup {NoWorker}]
      /\ enqueues' \in [Workflows -> Nat]
  BY DEF Enqueue, TypeOK
<1>5. QED
  BY <1>2, <1>3, <1>4 DEF Enqueue, TypeOK

(* The steps of the worker loop (recover, pop, claim) keep TypeOK.         *)
LEMMA LoopTypes ==
  ASSUME TypeOK, NEW p \in Workers, Loop(p)
  PROVE  TypeOK'
<1>1. CASE \E w \in Workflows : Scan(p, w)
  <2>1. PICK w \in Workflows : Scan(p, w)
    BY <1>1
  <2> DEFINE r == [worker[p] EXCEPT !.pc = "scanned", !.job = w]
  <2>2. worker' = [worker EXCEPT ![p] = r]
    BY <2>1 DEF Scan, TypeOK
  <2>3. r \in Process /\ r.job \in Workflows
    BY DEF TypeOK, Process, Points
  <2>4. WorkersOK'
    BY <2>2, <2>3, WorkerStepType
  <2>5. QED
    BY <2>1, <2>4 DEF Scan, TypeOK, WorkersOK
<1>2. CASE Recover(p)
  <2> DEFINE w == worker[p].job
             h == [hash[w] EXCEPT !.status = "queued", !.token = NoToken,
                                  !.owner = NoWorker, !.expired = FALSE]
  <2>0. w \in Workflows /\ hash[w] \in Hash
    BY <1>2 DEF Recover, TypeOK
  <2>1. w \in Workflows /\ h \in Hash
    BY <2>0, HashUpdates
  <2>2. CASE MayRecover(p)
    <3>1. hash' \in [Workflows -> Hash] /\ unwritten' \in SUBSET Workers
      BY <1>2, <2>1, <2>2, WriteType DEF Recover
    <3>2. queue' \in Seq(Workflows)
      <4>1. queue' = Append(queue, w) /\ queue \in Seq(Workflows)
        BY <1>2, <2>2 DEF Recover, TypeOK
      <4>2. QED
        BY <2>1, <4>1, AppendProperties
    <3>3. "recovered" \in Points /\ Move(p, "recovered")
      BY <1>2, <2>2 DEF Recover, Points
    <3>4. WorkersOK'
      BY <2>1, <3>3, MoveType
    <3>5. QED
      BY <1>2, <3>1, <3>2, <3>4 DEF Recover, TypeOK, WorkersOK
  <2>3. CASE ~MayRecover(p)
    BY <1>2, <2>3, RestType DEF Recover, TypeOK, WorkersOK
  <2>4. QED
    BY <2>2, <2>3
<1>3. CASE AnnounceRecovered(p)
  BY <1>3, RestType DEF AnnounceRecovered, TypeOK, WorkersOK
<1>4. CASE Pop(p)
  <2>1. queue' \in Seq(Workflows) /\ Head(queue) \in Workflows
    BY <1>4, HeadTailProperties DEF Pop, TypeOK
  <2> DEFINE r == [worker[p] EXCEPT !.pc = "popped", !.job = Head(queue)]
  <2>2. worker' = [worker EXCEPT ![p] = r]
    BY <1>4 DEF Pop, TypeOK
  <2>3. r \in Process /\ r.job \in Workflows
    BY <2>1 DEF TypeOK, Process, Points
  <2>4. WorkersOK'
    BY <2>2, <2>3, WorkerStepType
  <2>5. QED
    BY <1>4, <2>1, <2>4 DEF Pop, TypeOK, WorkersOK
<1>5. CASE Claim(p)
  <2> DEFINE w == worker[p].job
  <2>1. w \in Workflows
    BY <1>5 DEF Claim, TypeOK
  <2>2. CASE MayClaim(w)
    <3>1. PICK t \in FreshTokens :
            /\ Write(w, [hash[w] EXCEPT !.status = "running", !.owner = p,
                                         !.token = t, !.expired = FALSE])
            /\ worker' = [worker EXCEPT ![p].pc = "claimed", ![p].tok = t]
      BY <1>5, <2>2 DEF Claim
    <3>2. t \in Tokens
      BY DEF FreshTokens
    <3>3. [hash[w] EXCEPT !.status = "running", !.owner = p,
                          !.token = t, !.expired = FALSE] \in Hash
      BY <2>1, <3>2, HashUpdates DEF TypeOK
    <3>4. hash' \in [Workflows -> Hash] /\ unwritten' \in SUBSET Workers
      BY <2>1, <3>1, <3>3, WriteType
    <3> DEFINE r == [worker[p] EXCEPT !.pc = "claimed", !.tok = t]
    <3>5. worker' = [worker EXCEPT ![p] = r]
      BY <3>1 DEF TypeOK
    <3>6. r \in Process /\ r.job \in Workflows
      BY <2>1, <3>2 DEF TypeOK, Process, Points, Leased
    <3>7. WorkersOK'
      BY <3>5, <3>6, WorkerStepType
    <3>8. author' \in [Workflows -> Workers \cup {NoWorker}]
      BY <1>5, <2>2 DEF Claim, TypeOK
    <3>9. QED
      BY <1>5, <3>4, <3>7, <3>8 DEF Claim, TypeOK, WorkersOK
  <2>3. CASE ~MayClaim(w)
    BY <1>5, <2>3, RestType DEF Claim, TypeOK, WorkersOK
  <2>4. QED
    BY <2>2, <2>3
<1>6. CASE LoadJob(p)
  <2>1. worker[p].job \in Workflows /\ hash[worker[p].job].snapshot \in Nat
    BY <1>6 DEF LoadJob, TypeOK, Hash
  <2>2. WorkersOK'
    <3>1. CASE hash[worker[p].job].token = worker[p].tok
      <4> DEFINE r == [worker[p] EXCEPT !.pc = "announcing",
                                        !.events = hash[worker[p].job].snapshot]
      <4>1. worker' = [worker EXCEPT ![p] = r]
        BY <1>6, <3>1 DEF LoadJob, TypeOK
      <4>2. r \in Process /\ r.job \in Workflows
        BY <2>1 DEF TypeOK, Process, Points, Leased
      <4>3. QED
        BY <4>1, <4>2, WorkerStepType
    <3>2. CASE hash[worker[p].job].token # worker[p].tok
      BY <1>6, <3>2, RestType DEF LoadJob
    <3>3. QED
      BY <3>1, <3>2
  <2>3. QED
    BY <1>6, <2>2 DEF LoadJob, TypeOK, WorkersOK
<1>7. CASE AnnounceRunning(p)
  <2>1. worker[p].job \in Workflows /\ "starting" \in Points
    BY <1>7 DEF AnnounceRunning, TypeOK, Points, Leased, InJob
  <2>2. WorkersOK'
    BY <1>7, <2>1, MoveType DEF AnnounceRunning
  <2>3. QED
    BY <1>7, <2>1, <2>2 DEF AnnounceRunning, TypeOK, WorkersOK
<1>8. QED
  BY <1>1, <1>2, <1>3, <1>4, <1>5, <1>6, <1>7 DEF Loop

(* The steps that renew or give up a lease keep TypeOK.                    *)
LEMMA LeaseTypes ==
  ASSUME TypeOK, NEW p \in Workers,
         CheckOwnership(p) \/ Heartbeat(p) \/ Finish(p)
  PROVE  TypeOK'
<1> DEFINE w == worker[p].job
<1>1. w \in Workflows /\ hash[w] \in Hash /\ worker[p].pc \in Points
  BY DEF CheckOwnership, Heartbeat, Finish, TypeOK, InJob, Process
<1>2. {"executing", "flushing"} \subseteq Points
  BY DEF Points, Leased, InJob
<1>3. CASE CheckOwnership(p)
  <2>1. CASE LeaseHeld(p)
    <3>1. LeaseWrite(p, hash[w]) /\ Move(p, "executing")
      BY <1>3, <2>1 DEF CheckOwnership
    <3>2. WorkersOK'
      BY <1>1, <1>2, <3>1, MoveType
    <3>3. QED
      BY <1>1, <1>3, <3>1, <3>2, LeaseWriteType DEF CheckOwnership, TypeOK, WorkersOK
  <2>2. CASE ~LeaseHeld(p)
    <3>1. LoseLease(p, "flushing")
      BY <1>3, <2>2 DEF CheckOwnership
    <3>2. WorkersOK'
      BY <1>1, <1>2, <3>1, LoseLeaseType
    <3>3. QED
      BY <1>3, <3>1, <3>2 DEF CheckOwnership, LoseLease, TypeOK, WorkersOK
  <2>3. QED
    BY <2>1, <2>2
<1>4. CASE Heartbeat(p)
  <2>1. CASE LeaseHeld(p)
    <3>1. LeaseWrite(p, hash[w]) /\ UNCHANGED worker
      BY <1>4, <2>1 DEF Heartbeat
    <3>2. QED
      BY <1>1, <1>4, <3>1, LeaseWriteType DEF Heartbeat, TypeOK
  <2>2. CASE ~LeaseHeld(p)
    <3>1. LoseLease(p, worker[p].pc)
      BY <1>4, <2>2 DEF Heartbeat
    <3>2. WorkersOK'
      BY <1>1, <3>1, LoseLeaseType
    <3>3. QED
      BY <1>4, <3>1, <3>2 DEF Heartbeat, LoseLease, TypeOK, WorkersOK
  <2>3. QED
    BY <2>1, <2>2
<1>5. CASE Finish(p)
  <2> DEFINE result == IF worker[p].pc = "finishing" THEN worker[p].outcome ELSE "failed"
             h == [hash[w] EXCEPT !.status = result, !.token = NoToken, !.owner = NoWorker]
  <2>1. CASE LeaseHeld(p)
    <3>1. LeaseWrite(p, h) /\ Move(p, "flushing")
      BY <1>5, <2>1 DEF Finish
    <3>2. result \in Terminal
      BY DEF TypeOK, Process, Terminal
    <3>3. h \in Hash
      BY <1>1, <3>2, HashUpdates
    <3>4. WorkersOK'
      BY <1>1, <1>2, <3>1, MoveType
    <3>5. QED
      BY <1>1, <1>5, <2>1, <3>1, <3>3, <3>4, LeaseWriteType DEF Finish, TypeOK, WorkersOK
  <2>2. CASE ~LeaseHeld(p)
    <3>1. LoseLease(p, "flushing")
      BY <1>5, <2>2 DEF Finish
    <3>2. WorkersOK'
      BY <1>1, <1>2, <3>1, LoseLeaseType
    <3>3. QED
      BY <1>5, <3>1, <3>2 DEF Finish, LoseLease, TypeOK, WorkersOK
  <2>3. QED
    BY <2>1, <2>2
<1>6. QED
  BY <1>3, <1>4, <1>5

(* Checkpoints and their publication keep TypeOK.                          *)
LEMMA SnapshotTypes ==
  ASSUME TypeOK, NEW p \in Workers, Publish(p) \/ Checkpoint(p)
  PROVE  TypeOK'
<1> DEFINE w == worker[p].job
<1>1. w \in Workflows /\ hash[w] \in Hash
  BY DEF Publish, Checkpoint, TypeOK, InJob
<1>2. CASE Publish(p)
  <2> DEFINE n == Head(worker[p].pending)
             new == NewEvents(w, n)
             h == [hash[w] EXCEPT !.snapshot = n, !.last_sequence = @ + Len(new)]
  <2>1. worker[p].pending # <<>> /\ n \in Nat
    BY <1>2, HeadTailProperties DEF Publish, TypeOK, Process
  <2>2. new \in Seq(Nat) /\ Len(new) \in Nat
    BY <1>1, <2>1, NewEventsType
  <2>3. CASE ~worker[p].lost /\ LeaseHeld(p)
    <3>1. /\ LeaseWrite(p, h)
          /\ stream' = [stream EXCEPT ![w] = @ \o new]
          /\ PopPending(p, FALSE, FALSE)
      BY <1>2, <2>3 DEF Publish
    <3>2. h \in Hash
      BY <1>1, <2>1, <2>2, HashUpdates
    <3>3. WorkersOK'
      BY <1>1, <2>1, <3>1, PopPendingType
    <3>4. stream' \in [Workflows -> Seq(Nat)]
      BY <1>1, <2>2, <3>1, ConcatProperties DEF TypeOK
    <3>5. QED
      BY <1>1, <1>2, <3>1, <3>2, <3>3, <3>4, LeaseWriteType DEF Publish, TypeOK, WorkersOK
  <2>4. CASE worker[p].lost \/ ~LeaseHeld(p)
    <3>1. PopPending(p, TRUE, FALSE) /\ UNCHANGED <<hash, unwritten, author, stream>>
      BY <1>2, <2>4 DEF Publish
    <3>2. WorkersOK'
      BY <1>1, <2>1, <3>1, PopPendingType
    <3>3. QED
      BY <1>2, <3>1, <3>2 DEF Publish, TypeOK, WorkersOK
  <2>5. QED
    BY <2>3, <2>4
<1>3. CASE Checkpoint(p)
  <2> DEFINE n == worker[p].events + 1
  <2>1. n \in Nat /\ Append(worker[p].pending, n) \in Seq(Nat)
    <3>1. worker[p] \in Process
      BY DEF TypeOK
    <3>2. n \in Nat /\ worker[p].pending \in Seq(Nat)
      BY ONLY <3>1 DEF Process
    <3> HIDE DEF n
    <3>3. QED
      BY ONLY <3>2, AppendProperties
  <2> DEFINE r == [worker[p] EXCEPT !.events = n, !.pending = Append(worker[p].pending, n)]
  <2>a. worker' = [worker EXCEPT ![p] = r]
    BY <1>3 DEF Checkpoint, TypeOK
  <2>b. r \in Process /\ r.job \in Workflows
    <3>1. worker[p] \in Process
      BY DEF TypeOK
    <3> HIDE DEF n
    <3>2. r \in Process /\ r.job = w
      BY ONLY <2>1, <3>1 DEF Process
    <3>3. QED
      BY ONLY <1>1, <3>2
  <2>2. WorkersOK'
    BY <2>a, <2>b, WorkerStepType
  <2>3. session' \in [Workflows -> Nat] /\ faults' \in Nat
    <3>1. session \in [Workflows -> Nat] /\ faults \in Nat
      BY DEF TypeOK
    <3>2. session' \in {session, [session EXCEPT ![w] = n]}
      BY <1>3 DEF Checkpoint
    <3>3. faults' \in {faults, faults + 1}
      BY <1>3 DEF Checkpoint, Fault
    <3>4. QED
      BY <1>1, <2>1, <3>1, <3>2, <3>3
  <2>4. QED
    BY <1>3, <2>2, <2>3 DEF Checkpoint, TypeOK, WorkersOK
<1>4. QED
  BY <1>2, <1>3

(* The steps of _run_job around the execution keep TypeOK.                 *)
LEMMA RunTypes ==
  ASSUME TypeOK, NEW p \in Workers,
         Return(p) \/ Abandon(p) \/ Join(p) \/ EndJob(p) \/ CallFails(p) \/ Shutdown(p)
  PROVE  TypeOK'
<1>1. worker[p].job \in Workflows
  BY DEF Return, Abandon, Join, EndJob, CallFails, Shutdown, TypeOK, InJob
<1>2. {"draining", "failing", "flushing", "finishing"} \subseteq Points
  BY DEF Points, Leased, InJob
<1>3. WorkersOK'
  <2>1. CASE \E r \in Terminal :
               worker' = [worker EXCEPT ![p].pc = "draining", ![p].outcome = r]
    <3>1. PICK o \in Terminal :
            worker' = [worker EXCEPT ![p].pc = "draining", ![p].outcome = o]
      BY <2>1
    <3> DEFINE r == [worker[p] EXCEPT !.pc = "draining", !.outcome = o]
    <3>2. worker' = [worker EXCEPT ![p] = r]
      BY <3>1 DEF TypeOK
    <3>3. r \in Process /\ r.job \in Workflows
      BY <1>1, <1>2 DEF TypeOK, Process
    <3>4. QED
      BY <3>2, <3>3, WorkerStepType
  <2>2. CASE \E point \in {"draining", "failing", "flushing", "finishing"} : Move(p, point)
    BY <1>1, <1>2, <2>2, MoveType
  <2>3. CASE Rest(p)
    BY <2>3, RestType
  <2>4. CASE worker[p].pending # <<>> /\ PopPending(p, FALSE, TRUE)
    BY <1>1, <2>4, PopPendingType
  <2>5. QED
    BY <2>1, <2>2, <2>3, <2>4
    DEF Return, Abandon, Join, EndJob, CallFails, Shutdown
<1>4. faults' \in Nat
  <2>1. UNCHANGED faults \/ Fault
    BY DEF Return, Abandon, Join, EndJob, CallFails, Shutdown
  <2>2. QED
    BY <2>1 DEF Fault, TypeOK
<1>5. UNCHANGED <<hash, queue, stream, session, unwritten, author, enqueues>>
  BY DEF Return, Abandon, Join, EndJob, CallFails, Shutdown
<1>6. QED
  BY <1>3, <1>4, <1>5 DEF TypeOK, WorkersOK

(* A crash and a restart of a worker keep TypeOK.                          *)
LEMMA FaultTypes ==
  ASSUME TypeOK, NEW p \in Workers, Crash(p) \/ Restart(p)
  PROVE  TypeOK'
<1> DEFINE down == [Idle EXCEPT !.pc = "down"]
<1>1. down \in Process /\ down.pc = "down"
  BY EmptySeq DEF Idle, Process, Points, Terminal
<1>2. CASE Crash(p)
  <2>1. WorkersOK'
    BY <1>1, <1>2, WorkerStepType DEF Crash
  <2>2. QED
    BY <1>2, <2>1 DEF Crash, Fault, TypeOK, WorkersOK
<1>3. CASE Restart(p)
  BY <1>3, RestType DEF Restart, TypeOK, WorkersOK
<1>4. QED
  BY <1>2, <1>3

(* The passing of a lease period keeps TypeOK.                             *)
LEMMA ElapseTypes ==
  ASSUME TypeOK, NEW w \in Workflows, Elapse(w)
  PROVE  TypeOK'
<1>1. faults' \in Nat
  BY DEF Elapse, Fault, TypeOK
<1>2. CASE LastPeriod(w)
  <2>1. NoHash \in Hash
    BY JobsAssumption DEF NoHash, Hash
  <2>2. hash' \in [Workflows -> Hash] /\ unwritten' \in SUBSET Workers
    BY <1>2, <2>1, WriteType DEF Elapse
  <2>3. QED
    BY <1>1, <2>2 DEF Elapse, TypeOK
<1>3. CASE ~LastPeriod(w)
  <2> DEFINE h == [hash[w] EXCEPT !.expired = TRUE, !.ttl = hash[w].ttl - 1]
  <2>1. hash[w] \in Hash /\ hash[w].ttl - 1 \in 0..TtlPeriods
    BY <1>3, JobsAssumption DEF LastPeriod, TypeOK, Hash
  <2>2. h \in Hash
    BY <2>1 DEF Hash
  <2>3. hash' = [hash EXCEPT ![w] = h] /\ unwritten' = unwritten
    BY <1>3 DEF Elapse, TypeOK
  <2>4. QED
    BY <1>1, <2>2, <2>3 DEF Elapse, TypeOK
<1>4. QED
  BY <1>2, <1>3

(* The initial state has the types of TypeOK.                              *)
LEMMA InitTypes == Init => TypeOK
<1> SUFFICES ASSUME Init PROVE TypeOK
  OBVIOUS
<1>1. NoHash \in Hash /\ Idle.pc = "idle"
  BY JobsAssumption DEF NoHash, Hash, Idle
<1>2. queue \in Seq(Workflows) /\ stream \in [Workflows -> Seq(Nat)]
  BY EmptySeq DEF Init
<1>3. QED
  BY <1>1, <1>2, IdleType DEF Init, TypeOK

(* Every step keeps the types, a stuttering step included.                 *)
LEMMA NextTypes == TypeOK /\ [Next]_vars => TypeOK'
<1> SUFFICES ASSUME TypeOK, [Next]_vars PROVE TypeOK'
  OBVIOUS
<1>1. CASE Next
  <2>1. CASE \E w \in Workflows : Enqueue(w) \/ Elapse(w)
    BY <2>1, ClientTypes, ElapseTypes
  <2>2. ASSUME NEW p \in Workers,
               \/ Loop(p) \/ Run(p) \/ Heartbeat(p) \/ Checkpoint(p)
               \/ CallFails(p) \/ Shutdown(p) \/ Crash(p) \/ Restart(p)
        PROVE  TypeOK'
    BY <2>2, LoopTypes, LeaseTypes, SnapshotTypes, RunTypes, FaultTypes DEF Run
  <2>3. QED
    BY <1>1, <2>1, <2>2 DEF Next
<1>2. CASE UNCHANGED vars
  BY <1>2 DEF vars, TypeOK
<1>3. QED
  BY <1>1, <1>2

(* The hashes, the list, the streams and the worker processes keep the     *)
(* shapes that the scripts and the worker loop rely on; in particular a    *)
(* worker that is past "idle" names an existing workflow, and EXPIRE never *)
(* exceeds its initial periods.                                            *)
THEOREM TypeCorrect == Spec => []TypeOK
<1>1. Init => TypeOK
  BY InitTypes
<1>2. TypeOK /\ [Next]_vars => TypeOK'
  BY NextTypes
<1>3. QED
  BY <1>1, <1>2, PTL DEF Spec

-----------------------------------------------------------------------------
(* Leases.  SoleLeaseHolder speaks of the workers of one job; it is        *)
(* inductive once it is stated for every job: a token that some hash holds *)
(* is held by a leased worker only if that worker claimed that very job.   *)
LeaseInv ==
  \A p \in Workers, w \in Workflows :
    worker[p].pc \in Leased /\ hash[w].status = "running" /\ hash[w].token = worker[p].tok
      => worker[p].job = w /\ hash[w].owner = p

(* What every step but an accepted claim does to workers and to hashes.    *)
NoNewLeases ==
  \A q \in Workers : worker'[q].pc \in Leased =>
    /\ worker[q].pc \in Leased
    /\ worker'[q].tok = worker[q].tok
    /\ worker'[q].job = worker[q].job

NoNewTokens ==
  \A w \in Workflows : hash'[w].status = "running" =>
    /\ hash[w].status = "running"
    /\ hash'[w].token = hash[w].token
    /\ hash'[w].owner = hash[w].owner

(* LeaseInv holds on where a step grants no lease and no token.            *)
LEMMA LeaseInvKept == LeaseInv /\ NoNewLeases /\ NoNewTokens => LeaseInv'
BY DEF LeaseInv, NoNewLeases, NoNewTokens

(* LeaseInv is stronger than SoleLeaseHolder.                              *)
LEMMA LeaseInvImplies == TypeOK /\ LeaseInv => SoleLeaseHolder
<1> SUFFICES ASSUME TypeOK, LeaseInv, NEW p \in Workers, Holds(p)
             PROVE  /\ hash[worker[p].job].owner = p
                    /\ \A q \in Workers \ {p} : worker[q].job = worker[p].job => ~Holds(q)
  BY DEF SoleLeaseHolder
<1> DEFINE w == worker[p].job
<1>1. w \in Workflows
  BY DEF Holds, TypeOK, Leased, InJob
<1>2. hash[w].owner = p
  BY <1>1 DEF LeaseInv, Holds, LeaseHeld
<1>3. ASSUME NEW q \in Workers \ {p}, worker[q].job = w, Holds(q)
      PROVE  FALSE
  BY <1>1, <1>2, <1>3 DEF LeaseInv, Holds, LeaseHeld
<1>4. QED
  BY <1>2, <1>3

(* A worker that keeps its job and token, or leaves its lease, gets no new one.*)
LEMMA WorkerKeeps ==
  ASSUME TypeOK, NEW p \in Workers, NEW r, worker' = [worker EXCEPT ![p] = r],
         r.pc \in Leased =>
           worker[p].pc \in Leased /\ r.tok = worker[p].tok /\ r.job = worker[p].job
  PROVE  NoNewLeases
BY DEF TypeOK, NoNewLeases

(* The helpers on workers: none of them starts a lease.                    *)
LEMMA WorkerMoves ==
  ASSUME TypeOK, NEW p \in Workers,
         \/ UNCHANGED worker
         \/ Rest(p)
         \/ worker' = [worker EXCEPT ![p] = [Idle EXCEPT !.pc = "down"]]
         \/ \E gone, failed \in BOOLEAN : PopPending(p, gone, failed)
         \/ worker[p].pc \in Leased
              /\ (\E point \in Points : Move(p, point) \/ LoseLease(p, point))
  PROVE  NoNewLeases
<1>1. CASE UNCHANGED worker
  BY <1>1 DEF NoNewLeases
<1>2. CASE Rest(p)
  BY <1>2 DEF Rest, Idle, TypeOK, NoNewLeases, Leased, InJob
<1>3. CASE worker' = [worker EXCEPT ![p] = [Idle EXCEPT !.pc = "down"]]
  BY <1>3 DEF Idle, TypeOK, NoNewLeases, Leased, InJob
<1>4. CASE \E gone, failed \in BOOLEAN : PopPending(p, gone, failed)
  <2>1. PICK gone \in BOOLEAN, failed \in BOOLEAN : PopPending(p, gone, failed)
    BY <1>4
  <2> DEFINE r == [worker[p] EXCEPT !.pending = Tail(worker[p].pending), !.lost = gone,
                             !.dropped = failed]
  <2>2. worker' = [worker EXCEPT ![p] = r]
    BY <2>1 DEF PopPending, TypeOK
  <2>3. r.pc = worker[p].pc /\ r.tok = worker[p].tok /\ r.job = worker[p].job
    BY DEF TypeOK, Process
  <2>4. QED
    BY <2>2, <2>3, WorkerKeeps
<1>5. CASE worker[p].pc \in Leased
             /\ (\E point \in Points : Move(p, point) \/ LoseLease(p, point))
  <2>1. PICK point \in Points : Move(p, point) \/ LoseLease(p, point)
    BY <1>5
  <2>2. CASE Move(p, point)
    <3> DEFINE r == [worker[p] EXCEPT !.pc = point]
    <3>1. worker' = [worker EXCEPT ![p] = r]
      BY <2>2 DEF Move, TypeOK
    <3>2. r.tok = worker[p].tok /\ r.job = worker[p].job
      BY DEF TypeOK, Process
    <3>3. QED
      BY <1>5, <3>1, <3>2, WorkerKeeps
  <2>3. CASE LoseLease(p, point)
    <3> DEFINE r == [worker[p] EXCEPT !.lost = TRUE, !.pc = point]
    <3>1. worker' = [worker EXCEPT ![p] = r]
      BY <2>3 DEF LoseLease, TypeOK
    <3>2. r.tok = worker[p].tok /\ r.job = worker[p].job
      BY DEF TypeOK, Process
    <3>3. QED
      BY <1>5, <3>1, <3>2, WorkerKeeps
  <2>4. QED
    BY <2>1, <2>2, <2>3
<1>6. QED
  BY <1>1, <1>2, <1>3, <1>4, <1>5

(* The writes of a hash other than a claim's: none of them issues a token. *)
LEMMA HashWrites ==
  ASSUME TypeOK, NEW w \in Workflows, NEW h,
         hash' = [hash EXCEPT ![w] = h],
         h.status = "running" =>
           /\ hash[w].status = "running"
           /\ h.token = hash[w].token
           /\ h.owner = hash[w].owner
  PROVE  NoNewTokens
BY DEF TypeOK, NoNewTokens

(* A fenced write of jobs.py:50 grants nobody a lease.                     *)
LEMMA LeaseWriteKeeps ==
  ASSUME TypeOK, NEW p \in Workers, worker[p].job \in Workflows,
         NEW h \in Hash, LeaseWrite(p, h),
         h.status = "running" =>
           /\ hash[worker[p].job].status = "running"
           /\ h.token = hash[worker[p].job].token
           /\ h.owner = hash[worker[p].job].owner
  PROVE  NoNewTokens
<1> DEFINE g == [h EXCEPT !.expired = FALSE, !.ttl = TtlPeriods]
<1>1. hash' = [hash EXCEPT ![worker[p].job] = g]
  BY DEF LeaseWrite, Write
<1>2. g.status = h.status /\ g.token = h.token /\ g.owner = h.owner
  BY DEF Hash
<1>3. QED
  BY <1>1, <1>2, HashWrites

(* Enqueueing and time grant nobody a lease.             *)
LEMMA ClientLeases ==
  ASSUME TypeOK, NEW w \in Workflows, Enqueue(w) \/ Elapse(w)
  PROVE  NoNewLeases /\ NoNewTokens
<1>1. NoNewLeases
  BY DEF Enqueue, Elapse, NoNewLeases
<1>2. CASE Enqueue(w)
  <2> DEFINE h == [NoHash EXCEPT !.status = "queued", !.snapshot = session[w],
                                 !.ttl = TtlPeriods]
  <2>1. hash' = [hash EXCEPT ![w] = h]
    BY <1>2 DEF Enqueue, Write
  <2>2. h.status = "queued"
    BY DEF NoHash
  <2>3. QED
    BY <1>1, <2>1, <2>2, HashWrites
<1>4. CASE Elapse(w)
  <2>1. CASE LastPeriod(w)
    <3>1. hash' = [hash EXCEPT ![w] = NoHash] /\ NoHash.status = "absent"
      BY <1>4, <2>1 DEF Elapse, Write, NoHash
    <3>2. QED
      BY <1>1, <3>1, HashWrites
  <2>2. CASE ~LastPeriod(w)
    <3> DEFINE h == [hash[w] EXCEPT !.expired = TRUE, !.ttl = hash[w].ttl - 1]
    <3>1. hash' = [hash EXCEPT ![w] = h]
      BY <1>4, <2>2 DEF Elapse, TypeOK
    <3>2. h.status = hash[w].status /\ h.token = hash[w].token /\ h.owner = hash[w].owner
      BY DEF TypeOK, Hash
    <3>3. QED
      BY <1>1, <3>1, <3>2, HashWrites
  <2>3. QED
    BY <2>1, <2>2
<1>5. QED
  BY <1>2, <1>4

(* The worker loop up to the claim.                                        *)
LEMMA ScanLeases ==
  ASSUME TypeOK, NEW p \in Workers,
         (\E w \in Workflows : Scan(p, w)) \/ Recover(p) \/ AnnounceRecovered(p) \/ Pop(p)
  PROVE  NoNewLeases /\ NoNewTokens
<1>1. CASE \E w \in Workflows : Scan(p, w)
  <2>1. PICK w \in Workflows : Scan(p, w)
    BY <1>1
  <2> DEFINE r == [worker[p] EXCEPT !.pc = "scanned", !.job = w]
  <2>2. worker' = [worker EXCEPT ![p] = r]
    BY <2>1 DEF Scan, TypeOK
  <2>3. r.pc = "scanned" /\ UNCHANGED hash
    BY <2>1 DEF Scan, TypeOK, Process
  <2>4. QED
    BY <2>2, <2>3, WorkerKeeps DEF Leased, InJob, NoNewTokens
<1>2. CASE Recover(p)
  <2> DEFINE w == worker[p].job
             h == [hash[w] EXCEPT !.status = "queued", !.token = NoToken,
                                  !.owner = NoWorker, !.expired = FALSE]
  <2>0. w \in Workflows
    BY <1>2 DEF Recover, TypeOK
  <2>1. CASE MayRecover(p)
    <3>1. hash' = [hash EXCEPT ![w] = h]
      BY <1>2, <2>1 DEF Recover, Write
    <3>2. h.status = "queued"
      BY <2>0 DEF TypeOK, Hash
    <3>3. NoNewTokens
      BY <2>0, <3>1, <3>2, HashWrites
    <3> DEFINE r == [worker[p] EXCEPT !.pc = "recovered"]
    <3>4. worker' = [worker EXCEPT ![p] = r]
      BY <1>2, <2>1 DEF Recover, Move, TypeOK
    <3>5. r.pc = "recovered"
      BY DEF TypeOK, Process
    <3>6. QED
      BY <3>3, <3>4, <3>5, WorkerKeeps DEF Leased, InJob
  <2>2. CASE ~MayRecover(p)
    BY <1>2, <2>2, WorkerMoves DEF Recover, NoNewTokens
  <2>3. QED
    BY <2>1, <2>2
<1>3. CASE AnnounceRecovered(p)
  BY <1>3, WorkerMoves DEF AnnounceRecovered, NoNewTokens
<1>4. CASE Pop(p)
  <2> DEFINE r == [worker[p] EXCEPT !.pc = "popped", !.job = Head(queue)]
  <2>1. worker' = [worker EXCEPT ![p] = r]
    BY <1>4 DEF Pop, TypeOK
  <2>2. r.pc = "popped" /\ UNCHANGED hash
    BY <1>4 DEF Pop, TypeOK, Process
  <2>3. QED
    BY <2>1, <2>2, WorkerKeeps DEF Leased, InJob, NoNewTokens
<1>5. QED
  BY <1>1, <1>2, <1>3, <1>4

(* The only step that issues a lease: its token is fresh, so no other      *)
(* worker carries it and no other hash holds it.                           *)
LEMMA ClaimLease ==
  ASSUME TypeOK, LeaseInv, NEW p \in Workers, Claim(p)
  PROVE  LeaseInv'
<1> DEFINE w == worker[p].job
<1>0. w \in Workflows
  BY DEF Claim, TypeOK
<1>1. CASE MayClaim(w)
  <2>1. PICK t \in FreshTokens :
          /\ Write(w, [hash[w] EXCEPT !.status = "running", !.owner = p,
                                       !.token = t, !.expired = FALSE])
          /\ worker' = [worker EXCEPT ![p].pc = "claimed", ![p].tok = t]
    BY <1>1 DEF Claim
  <2> DEFINE h == [hash[w] EXCEPT !.status = "running", !.owner = p,
                                  !.token = t, !.expired = FALSE]
             r == [worker[p] EXCEPT !.pc = "claimed", !.tok = t]
  <2>2. hash' = [hash EXCEPT ![w] = h] /\ worker' = [worker EXCEPT ![p] = r]
    BY <2>1 DEF Write, TypeOK
  <2>3. h.token = t /\ h.owner = p
    BY <1>0 DEF TypeOK, Hash
  <2>4. r.tok = t /\ r.job = w
    BY DEF TypeOK, Process
  <2>5. /\ \A v \in Workflows : hash[v].token # t
        /\ \A q \in Workers : worker[q].tok # t
    BY DEF FreshTokens
  <2> HIDE DEF h, r
  <2>6. SUFFICES ASSUME NEW q \in Workers, NEW v \in Workflows,
                        worker'[q].pc \in Leased, hash'[v].status = "running",
                        hash'[v].token = worker'[q].tok
                 PROVE  worker'[q].job = v /\ hash'[v].owner = q
    BY DEF LeaseInv
  <2>7. CASE q = p
    <3>1. worker'[q].tok = t /\ worker'[q].job = w
      BY <2>2, <2>4, <2>7 DEF TypeOK
    <3>2. v = w
      BY <2>2, <2>5, <2>6, <3>1 DEF TypeOK
    <3>3. QED
      BY <1>0, <2>2, <2>3, <2>7, <3>1, <3>2 DEF TypeOK
  <2>8. CASE q # p
    <3>1. worker'[q] = worker[q]
      BY <2>2, <2>8 DEF TypeOK
    <3>2. v # w
      BY <1>0, <2>2, <2>3, <2>5, <2>6, <3>1 DEF TypeOK
    <3>3. hash'[v] = hash[v]
      BY <2>2, <3>2 DEF TypeOK
    <3>4. QED
      BY <2>6, <3>1, <3>3 DEF LeaseInv
  <2>9. QED
    BY <2>7, <2>8
<1>2. CASE ~MayClaim(w)
  <2>1. Rest(p) /\ UNCHANGED hash
    BY <1>2 DEF Claim
  <2>2. QED
    BY <2>1, WorkerMoves, LeaseInvKept DEF NoNewTokens
<1>3. QED
  BY <1>1, <1>2

(* The steps of a worker between its claim and the end of its job.         *)
LEMMA JobLeases ==
  ASSUME TypeOK, NEW p \in Workers,
         \/ LoadJob(p) \/ AnnounceRunning(p) \/ CheckOwnership(p) \/ Heartbeat(p) \/ Checkpoint(p)
         \/ Return(p) \/ Abandon(p) \/ Join(p) \/ EndJob(p)
         \/ CallFails(p) \/ Shutdown(p) \/ Crash(p) \/ Restart(p)
  PROVE  NoNewLeases /\ NoNewTokens
<1>1. {"starting", "executing", "draining", "finishing", "failing", "flushing"} \subseteq Points
  BY DEF Points, Leased, InJob
<1>2. InJob \subseteq Leased /\ {"claimed", "announcing", "flushing"} \subseteq Leased /\ Leased \subseteq Points
  BY DEF Points, Leased
<1>3. CASE LoadJob(p)
  <2>1. UNCHANGED hash
    BY <1>3 DEF LoadJob
  <2>2. CASE hash[worker[p].job].token = worker[p].tok
    <3> DEFINE r == [worker[p] EXCEPT !.pc = "announcing",
                                      !.events = hash[worker[p].job].snapshot]
    <3>1. worker' = [worker EXCEPT ![p] = r] /\ worker[p].pc = "claimed"
      BY <1>3, <2>2 DEF LoadJob, TypeOK
    <3>2. r.tok = worker[p].tok /\ r.job = worker[p].job
      BY DEF TypeOK, Process
    <3>3. NoNewLeases
      BY <1>2, <3>1, <3>2, WorkerKeeps
    <3>4. QED
      BY <2>1, <3>3 DEF NoNewTokens
  <2>3. CASE hash[worker[p].job].token # worker[p].tok
    BY <1>3, <2>1, <2>3, WorkerMoves DEF LoadJob, NoNewTokens
  <2>4. QED
    BY <2>2, <2>3
<1>4. CASE AnnounceRunning(p)
  BY <1>1, <1>2, <1>4, WorkerMoves DEF AnnounceRunning, NoNewTokens
<1>5. CASE CheckOwnership(p) \/ Heartbeat(p)
  <2>1. worker[p].job \in Workflows /\ worker[p].pc \in Leased
    BY <1>2, <1>5 DEF CheckOwnership, Heartbeat, TypeOK, InJob
  <2>2. CASE LeaseHeld(p)
    <3>1. LeaseWrite(p, hash[worker[p].job]) /\ hash[worker[p].job] \in Hash
      BY <1>5, <2>1, <2>2 DEF CheckOwnership, Heartbeat, TypeOK
    <3>2. NoNewTokens
      BY <2>1, <3>1, LeaseWriteKeeps
    <3>3. UNCHANGED worker \/ Move(p, "executing")
      BY <1>5, <2>2 DEF CheckOwnership, Heartbeat
    <3>4. QED
      BY <1>1, <2>1, <3>2, <3>3, WorkerMoves
  <2>3. CASE ~LeaseHeld(p)
    <3>1. \E point \in Points : LoseLease(p, point)
      BY <1>1, <1>2, <1>5, <2>1, <2>3 DEF CheckOwnership, Heartbeat
    <3>2. UNCHANGED hash
      BY <3>1 DEF LoseLease
    <3>3. QED
      BY <2>1, <3>1, <3>2, WorkerMoves DEF NoNewTokens
  <2>4. QED
    BY <2>2, <2>3
<1>6. CASE Checkpoint(p)
  <2> DEFINE n == worker[p].events + 1
             r == [worker[p] EXCEPT !.events = n, !.pending = Append(worker[p].pending, n)]
  <2>1. worker' = [worker EXCEPT ![p] = r] /\ UNCHANGED hash
    BY <1>6 DEF Checkpoint, TypeOK
  <2>2. r.pc = worker[p].pc /\ r.tok = worker[p].tok /\ r.job = worker[p].job
    BY DEF TypeOK, Process
  <2>3. QED
    BY <2>1, <2>2, WorkerKeeps DEF NoNewTokens
<1>7. CASE Return(p)
  <2>1. UNCHANGED hash /\ worker[p].pc \in Leased
    BY <1>2, <1>7 DEF Return, InJob
  <2>2. CASE \E o \in Terminal :
               worker' = [worker EXCEPT ![p].pc = "draining", ![p].outcome = o]
    <3>1. PICK o \in Terminal :
            worker' = [worker EXCEPT ![p].pc = "draining", ![p].outcome = o]
      BY <2>2
    <3> DEFINE r == [worker[p] EXCEPT !.pc = "draining", !.outcome = o]
    <3>2. worker' = [worker EXCEPT ![p] = r]
      BY <3>1 DEF TypeOK
    <3>3. r.tok = worker[p].tok /\ r.job = worker[p].job
      BY DEF TypeOK, Process
    <3>4. QED
      BY <2>1, <3>2, <3>3, WorkerKeeps DEF NoNewTokens
  <2>3. CASE Move(p, "failing")
    BY <1>1, <2>1, <2>3, WorkerMoves DEF NoNewTokens
  <2>4. QED
    BY <1>7, <2>2, <2>3 DEF Return
<1>8. CASE Abandon(p) \/ Join(p) \/ EndJob(p) \/ CallFails(p) \/ Shutdown(p)
  <2>1. UNCHANGED hash /\ worker[p].pc \in Leased
    BY <1>2, <1>8 DEF Abandon, Join, EndJob, CallFails, Shutdown, InJob
  <2>2. \/ Rest(p)
        \/ \E point \in {"flushing", "finishing", "failing"} : Move(p, point)
        \/ PopPending(p, FALSE, TRUE)
    BY <1>8 DEF Abandon, Join, EndJob, CallFails, Shutdown
  <2>3. QED
    BY <1>1, <2>1, <2>2, WorkerMoves DEF NoNewTokens
<1>9. CASE Crash(p) \/ Restart(p)
  BY <1>9, WorkerMoves DEF Crash, Restart, NoNewTokens
<1>10. QED
  BY <1>3, <1>4, <1>5, <1>6, <1>7, <1>8, <1>9

(* The two writes that change more than the lease: a snapshot and the      *)
(* settlement keep the token or drop it.                                   *)
LEMMA ResultLeases ==
  ASSUME TypeOK, NEW p \in Workers, Publish(p) \/ Finish(p)
  PROVE  NoNewLeases /\ NoNewTokens
<1> DEFINE w == worker[p].job
<1>1. /\ w \in Workflows /\ hash[w] \in Hash
      /\ worker[p].pc \in Leased /\ "flushing" \in Points
  BY DEF Publish, Finish, TypeOK, Leased, InJob, Points
<1>2. CASE Publish(p)
  <2> DEFINE n == Head(worker[p].pending)
             new == NewEvents(w, n)
             h == [hash[w] EXCEPT !.snapshot = n,
                                  !.last_sequence = hash[w].last_sequence + Len(new)]
  <2>1. worker[p].pending # <<>> /\ n \in Nat
    BY <1>2, HeadTailProperties DEF Publish, TypeOK, Process
  <2>2. Len(new) \in Nat
    BY <1>1, <2>1, NewEventsType
  <2>3. h \in Hash
    BY <1>1, <2>1, <2>2, HashUpdates
  <2>4. \E gone, failed \in BOOLEAN : PopPending(p, gone, failed)
    BY <1>2 DEF Publish
  <2>5. LeaseWrite(p, h) \/ UNCHANGED hash
    BY <1>2 DEF Publish
  <2>6. h.status = hash[w].status /\ h.token = hash[w].token /\ h.owner = hash[w].owner
    BY <1>1 DEF Hash
  <2> HIDE DEF h
  <2>7. NoNewTokens
    BY <1>1, <2>3, <2>5, <2>6, LeaseWriteKeeps DEF NoNewTokens
  <2>8. QED
    BY <2>4, <2>7, WorkerMoves
<1>3. CASE Finish(p)
  <2> DEFINE result == IF worker[p].pc = "finishing" THEN worker[p].outcome ELSE "failed"
             h == [hash[w] EXCEPT !.status = result, !.token = NoToken, !.owner = NoWorker]
  <2>1. result \in Terminal
    BY DEF TypeOK, Process, Terminal
  <2>2. h \in Hash
    BY <1>1, <2>1, HashUpdates
  <2>3. LeaseWrite(p, h) \/ UNCHANGED hash
    BY <1>3 DEF Finish, LoseLease
  <2>4. h.status # "running"
    BY <1>1, <2>1 DEF Hash, Terminal
  <2>5. Move(p, "flushing") \/ LoseLease(p, "flushing")
    BY <1>3 DEF Finish
  <2> HIDE DEF h
  <2>6. NoNewTokens
    BY <1>1, <2>2, <2>3, <2>4, LeaseWriteKeeps DEF NoNewTokens
  <2>7. QED
    BY <1>1, <2>5, <2>6, WorkerMoves
<1>4. QED
  BY <1>2, <1>3

(* Every step preserves LeaseInv.                                          *)
LEMMA NextLease == TypeOK /\ LeaseInv /\ [Next]_vars => LeaseInv'
<1> SUFFICES ASSUME TypeOK, LeaseInv, [Next]_vars PROVE LeaseInv'
  OBVIOUS
<1>1. CASE Next
  <2>1. CASE \E w \in Workflows : Enqueue(w) \/ Elapse(w)
    BY <2>1, ClientLeases, LeaseInvKept
  <2>2. ASSUME NEW p \in Workers,
               \/ Loop(p) \/ Run(p) \/ Heartbeat(p) \/ Checkpoint(p)
               \/ CallFails(p) \/ Shutdown(p) \/ Crash(p) \/ Restart(p)
        PROVE  LeaseInv'
    BY <2>2, ScanLeases, ClaimLease, JobLeases, ResultLeases, LeaseInvKept DEF Loop, Run
  <2>3. QED
    BY <1>1, <2>1, <2>2 DEF Next
<1>2. CASE UNCHANGED vars
  BY <1>2 DEF vars, LeaseInv
<1>3. QED
  BY <1>1, <1>2

(* LeaseInv holds in every state of a behaviour.                           *)
LEMMA LeasesInvariant == Spec => []LeaseInv
<1>1. Init => LeaseInv
  BY DEF Init, Idle, Leased, InJob, LeaseInv
<1>2. TypeOK /\ LeaseInv /\ [Next]_vars => LeaseInv'
  BY NextLease
<1>3. QED
  BY <1>1, <1>2, TypeCorrect, PTL DEF Spec

(* At most one worker can write a job, and it is the recorded owner, for   *)
(* any number of workers, workflows and tokens, whatever crashes, stalls,  *)
(* scans and re-claims happen.                                             *)
THEOREM OneLease == Spec => []SoleLeaseHolder
<1>1. TypeOK /\ LeaseInv => SoleLeaseHolder
  BY LeaseInvImplies
<1>2. QED
  BY <1>1, LeasesInvariant, TypeCorrect, PTL

-----------------------------------------------------------------------------
(* Recovery.  The comparison of updated_at protects live leases because a  *)
(* scan whose hash nobody has written since still looks at an expired one, *)
(* and at a job that is not settled.                                       *)
ScanInv ==
  \A q \in unwritten : worker[q].pc = "scanned" /\ Recoverable(worker[q].job)

(* A step of one worker that is not between its scan and the script: it    *)
(* writes a hash through Write or not at all, and changes no other worker. *)
OthersKept(p) == \A q \in Workers \ {p} : worker'[q] = worker[q]

Written(w) == (\E h \in Hash : Write(w, h)) \/ UNCHANGED <<hash, unwritten>>

(* ScanInv survives a write that makes the pending scans stale.            *)
LEMMA ScanInvKept ==
  ASSUME TypeOK, ScanInv, NEW p \in Workers, NEW w \in Workflows,
         worker[p].pc # "scanned", OthersKept(p), Written(w)
  PROVE  ScanInv'
<1>1. p \notin unwritten
  BY DEF ScanInv
<1>2. CASE UNCHANGED <<hash, unwritten>>
  BY <1>1, <1>2 DEF OthersKept, ScanInv, Recoverable, TypeOK
<1>3. CASE \E h \in Hash : Write(w, h)
  <2>1. PICK h \in Hash : Write(w, h)
    BY <1>3
  <2>2. SUFFICES ASSUME NEW q \in unwritten'
                 PROVE  worker'[q].pc = "scanned" /\ Recoverable(worker[q].job)'
    BY DEF ScanInv
  <2>3. q \in unwritten /\ q \in Workers /\ q # p /\ worker[q].job # w
    BY <1>1, <2>1 DEF Write, TypeOK
  <2>4. worker'[q] = worker[q]
    BY <2>3 DEF OthersKept
  <2>5. worker[q].pc = "scanned" /\ Recoverable(worker[q].job)
    BY <2>3 DEF ScanInv
  <2>6. worker[q].job \in Workflows
    BY <2>3, <2>5 DEF TypeOK
  <2>7. hash'[worker[q].job] = hash[worker[q].job]
    BY <2>1, <2>3, <2>6 DEF Write, TypeOK
  <2>8. QED
    BY <2>4, <2>5, <2>7 DEF Recoverable
<1>4. QED
  BY <1>2, <1>3 DEF Written

(* An accepted lease write is a write.                                     *)
LEMMA LeaseWriteWrites ==
  ASSUME TypeOK, NEW p \in Workers, NEW h \in Hash, LeaseWrite(p, h)
  PROVE  Written(worker[p].job)
<1>1. TtlPeriods \in 0..TtlPeriods
  BY JobsAssumption
<1>2. [h EXCEPT !.expired = FALSE, !.ttl = TtlPeriods] \in Hash
  BY <1>1 DEF Hash
<1>3. QED
  BY <1>2 DEF LeaseWrite, Written

(* Claims, and all steps from there to the end of a job.                   *)
LEMMA RunScans ==
  ASSUME TypeOK, ScanInv, NEW p \in Workers,
         \/ AnnounceRecovered(p) \/ Claim(p) \/ LoadJob(p) \/ AnnounceRunning(p)
         \/ Run(p) \/ Heartbeat(p) \/ Checkpoint(p) \/ CallFails(p) \/ Shutdown(p)
  PROVE  ScanInv'
<1> DEFINE w == worker[p].job
<1>1. w \in Workflows /\ hash[w] \in Hash /\ worker[p].pc # "scanned"
  BY DEF AnnounceRecovered, Claim, LoadJob, AnnounceRunning, Run, CheckOwnership,
         Publish, Return, Abandon, Join, Finish, EndJob, Heartbeat, Checkpoint,
         CallFails, Shutdown, TypeOK, InJob
<1>2. OthersKept(p)
  BY DEF AnnounceRecovered, Claim, LoadJob, AnnounceRunning, Run, CheckOwnership,
         Publish, Return, Abandon, Join, Finish, EndJob, Heartbeat, Checkpoint,
         CallFails, Shutdown, Move, Rest, LoseLease, PopPending, OthersKept, TypeOK
<1>3. Written(w)
  <2>1. CASE AnnounceRecovered(p) \/ LoadJob(p) \/ AnnounceRunning(p) \/ Return(p)
             \/ Abandon(p) \/ Join(p) \/ EndJob(p) \/ Checkpoint(p)
             \/ CallFails(p) \/ Shutdown(p)
    BY <2>1 DEF AnnounceRecovered, LoadJob, AnnounceRunning, Return, Abandon, Join,
                EndJob, Checkpoint, CallFails, Shutdown, Written
  <2>2. CASE Claim(p)
    <3>1. CASE MayClaim(w)
      <4>1. PICK t \in FreshTokens :
              Write(w, [hash[w] EXCEPT !.status = "running", !.owner = p,
                                       !.token = t, !.expired = FALSE])
        BY <2>2, <3>1 DEF Claim
      <4>2. t \in Tokens
        BY DEF FreshTokens
      <4>3. QED
        BY <1>1, <4>1, <4>2, HashUpdates DEF Written
    <3>2. CASE ~MayClaim(w)
      BY <2>2, <3>2 DEF Claim, Written
    <3>3. QED
      BY <3>1, <3>2
  <2>3. CASE CheckOwnership(p) \/ Heartbeat(p)
    BY <1>1, <2>3, LeaseWriteWrites DEF CheckOwnership, Heartbeat, LoseLease, Written
  <2>4. CASE Publish(p)
    <3> DEFINE n == Head(worker[p].pending)
               new == NewEvents(w, n)
               h == [hash[w] EXCEPT !.snapshot = n,
                                    !.last_sequence = hash[w].last_sequence + Len(new)]
    <3>1. worker[p].pending # <<>> /\ n \in Nat
      BY <2>4, HeadTailProperties DEF Publish, TypeOK, Process
    <3>2. Len(new) \in Nat
      BY <1>1, <3>1, NewEventsType
    <3>3. h \in Hash
      BY <1>1, <3>1, <3>2, HashUpdates
    <3>4. LeaseWrite(p, h) \/ UNCHANGED <<hash, unwritten>>
      BY <2>4 DEF Publish
    <3> HIDE DEF h
    <3>5. QED
      BY <3>3, <3>4, LeaseWriteWrites DEF Written
  <2>5. CASE Finish(p)
    <3> DEFINE result == IF worker[p].pc = "finishing" THEN worker[p].outcome ELSE "failed"
               h == [hash[w] EXCEPT !.status = result, !.token = NoToken, !.owner = NoWorker]
    <3>1. result \in Terminal
      BY DEF TypeOK, Process, Terminal
    <3>2. h \in Hash
      BY <1>1, <3>1, HashUpdates
    <3>3. LeaseWrite(p, h) \/ UNCHANGED <<hash, unwritten>>
      BY <2>5 DEF Finish, LoseLease
    <3> HIDE DEF h
    <3>4. QED
      BY <3>2, <3>3, LeaseWriteWrites DEF Written
  <2>6. QED
    BY <2>1, <2>2, <2>3, <2>4, <2>5 DEF Run
<1>4. QED
  BY <1>1, <1>2, <1>3, ScanInvKept

(* Clients and time: no worker changes; a period that passes only lets     *)
(* leases expire.                                                          *)
LEMMA ClientScans ==
  ASSUME TypeOK, ScanInv, NEW w \in Workflows, Enqueue(w) \/ Elapse(w)
  PROVE  ScanInv'
<1>1. UNCHANGED worker
  BY DEF Enqueue, Elapse
<1>2. \A q \in unwritten : worker[q].job \in Workflows
  BY DEF ScanInv, TypeOK
<1>3. CASE \E h : Write(w, h)
  BY <1>1, <1>2, <1>3 DEF Write, ScanInv, Recoverable, TypeOK
<1>4. CASE UNCHANGED <<hash, unwritten>>
  BY <1>1, <1>4 DEF ScanInv, Recoverable
<1>5. CASE hash' = [hash EXCEPT ![w].expired = TRUE, ![w].ttl = hash[w].ttl - 1] /\ UNCHANGED unwritten
  <2> DEFINE h == [hash[w] EXCEPT !.expired = TRUE, !.ttl = hash[w].ttl - 1]
  <2>1. hash' = [hash EXCEPT ![w] = h]
    BY <1>5 DEF TypeOK
  <2>2. h.expired /\ h.status = hash[w].status
    BY DEF TypeOK, Hash
  <2>3. QED
    BY <1>1, <1>2, <1>5, <2>1, <2>2 DEF ScanInv, Recoverable, TypeOK
<1>6. QED
  BY <1>3, <1>4, <1>5 DEF Enqueue, Elapse

(* The steps of a worker around its own scan.                              *)
LEMMA LoopScans ==
  ASSUME TypeOK, ScanInv, NEW p \in Workers,
         \/ (\E w \in Workflows : Scan(p, w)) \/ Recover(p) \/ Pop(p)
         \/ Crash(p) \/ Restart(p)
  PROVE  ScanInv'
<1>1. OthersKept(p)
  BY DEF Scan, Recover, Pop, Crash, Restart, Move, Rest, OthersKept, TypeOK
<1>2. CASE \E w \in Workflows : Scan(p, w)
  <2>1. PICK w \in Workflows : Scan(p, w)
    BY <1>2
  <2> DEFINE r == [worker[p] EXCEPT !.pc = "scanned", !.job = w]
  <2>2. worker' = [worker EXCEPT ![p] = r] /\ UNCHANGED hash
    BY <2>1 DEF Scan, TypeOK
  <2>3. r.pc = "scanned" /\ r.job = w /\ Recoverable(w)
    BY <2>1 DEF Scan, TypeOK, Process
  <2>4. unwritten' = unwritten \cup {p}
    BY <2>1 DEF Scan
  <2> HIDE DEF r
  <2>5. QED
    BY <1>1, <2>2, <2>3, <2>4 DEF OthersKept, ScanInv, Recoverable, TypeOK
<1>3. CASE Recover(p)
  <2> DEFINE w == worker[p].job
             h == [hash[w] EXCEPT !.status = "queued", !.token = NoToken,
                                  !.owner = NoWorker, !.expired = FALSE]
  <2>1. CASE MayRecover(p)
    <3>1. Write(w, h)
      BY <1>3, <2>1 DEF Recover
    <3>2. \A q \in unwritten' : q \in unwritten /\ q # p /\ worker[q].job # w
      BY <3>1 DEF Write
    <3>3. \A v \in Workflows \ {w} : hash'[v] = hash[v]
      BY <3>1 DEF Write, TypeOK
    <3>4. \A q \in unwritten : worker[q].job \in Workflows
      BY DEF ScanInv, TypeOK
    <3>5. SUFFICES ASSUME NEW q \in unwritten'
                   PROVE  worker'[q].pc = "scanned" /\ Recoverable(worker[q].job)'
      BY DEF ScanInv
    <3>6. q \in unwritten /\ q # p /\ q \in Workers /\ worker[q].job \in Workflows \ {w}
      BY <3>2, <3>4 DEF TypeOK
    <3>7. worker'[q] = worker[q] /\ hash'[worker[q].job] = hash[worker[q].job]
      BY <1>1, <3>3, <3>6 DEF OthersKept
    <3>8. QED
      BY <3>6, <3>7 DEF ScanInv, Recoverable
  <2>2. CASE ~MayRecover(p)
    <3>1. p \notin unwritten /\ UNCHANGED <<hash, unwritten>>
      BY <1>3, <2>2 DEF Recover, MayRecover
    <3>2. QED
      BY <1>1, <3>1 DEF OthersKept, ScanInv, Recoverable, TypeOK
  <2>3. QED
    BY <2>1, <2>2
<1>4. CASE Pop(p) \/ Restart(p)
  <2>1. p \notin unwritten /\ UNCHANGED <<hash, unwritten>>
    BY <1>4 DEF Pop, Restart, ScanInv
  <2>2. QED
    BY <1>1, <2>1 DEF OthersKept, ScanInv, Recoverable, TypeOK
<1>5. CASE Crash(p)
  BY <1>1, <1>5 DEF Crash, OthersKept, ScanInv, Recoverable, TypeOK
<1>6. QED
  BY <1>2, <1>3, <1>4, <1>5

(* Every step preserves ScanInv.                                           *)
LEMMA NextScans == TypeOK /\ ScanInv /\ [Next]_vars => ScanInv'
<1> SUFFICES ASSUME TypeOK, ScanInv, [Next]_vars PROVE ScanInv'
  OBVIOUS
<1>1. CASE Next
  <2>1. CASE \E w \in Workflows : Enqueue(w) \/ Elapse(w)
    BY <2>1, ClientScans
  <2>2. ASSUME NEW p \in Workers,
               \/ Loop(p) \/ Run(p) \/ Heartbeat(p) \/ Checkpoint(p)
               \/ CallFails(p) \/ Shutdown(p) \/ Crash(p) \/ Restart(p)
        PROVE  ScanInv'
    BY <2>2, RunScans, LoopScans DEF Loop
  <2>3. QED
    BY <1>1, <2>1, <2>2 DEF Next
<1>2. CASE UNCHANGED vars
  BY <1>2 DEF vars, ScanInv, Recoverable
<1>3. QED
  BY <1>1, <1>2

(* Revoked(w): a running job goes back to the queue.                       *)
Revoked(w) == hash[w].status = "running" /\ hash'[w].status = "queued"

(* A write revokes a lease only by setting its job to queued.              *)
LEMMA WriteRevokes ==
  ASSUME TypeOK, NEW v \in Workflows, NEW h, Write(v, h), NEW w \in Workflows, Revoked(w)
  PROVE  w = v /\ h.status = "queued"
BY DEF TypeOK, Write, Revoked

(* A fenced write revokes a lease only by setting its own job to queued.   *)
LEMMA LeaseWriteRevokes ==
  ASSUME TypeOK, NEW p \in Workers, worker[p].job \in Workflows, NEW h \in Hash,
         LeaseWrite(p, h), NEW w \in Workflows, Revoked(w)
  PROVE  h.status = "queued" /\ w = worker[p].job
<1> DEFINE g == [h EXCEPT !.expired = FALSE, !.ttl = TtlPeriods]
<1>1. Write(worker[p].job, g)
  BY DEF LeaseWrite
<1>2. g.status = h.status
  BY DEF Hash
<1>3. QED
  BY <1>1, <1>2, WriteRevokes

(* Only the script of a recovery revokes a lease, and it acts for a worker *)
(* whose scan is still current.                                            *)
LEMMA OnlyRecoverRevokes ==
  ASSUME TypeOK, ScanInv, Next, NEW w \in Workflows, Revoked(w)
  PROVE  hash[w].expired
<1>1. CASE \E v \in Workflows : Enqueue(v) \/ Elapse(v)
  <2>1. PICK v \in Workflows : Enqueue(v) \/ Elapse(v)
    BY <1>1
  <2>2. CASE Enqueue(v)
    <3>1. w = v
      BY <2>2, WriteRevokes DEF Enqueue
    <3>2. QED
      BY <2>2, <3>1 DEF Enqueue, MayEnqueue, Revoked
  <2>4. CASE Elapse(v)
    <3>1. CASE LastPeriod(v)
      BY <2>4, <3>1, WriteRevokes DEF Elapse, NoHash
    <3>2. CASE ~LastPeriod(v)
      <4> DEFINE h == [hash[v] EXCEPT !.expired = TRUE, !.ttl = hash[v].ttl - 1]
      <4>1. hash' = [hash EXCEPT ![v] = h]
        BY <2>4, <3>2 DEF Elapse, TypeOK
      <4>2. h.status = hash[v].status
        BY DEF TypeOK, Hash
      <4>3. QED
        BY <4>1, <4>2 DEF Revoked, TypeOK
    <3>3. QED
      BY <3>1, <3>2
  <2>5. QED
    BY <2>1, <2>2, <2>4
<1>2. ASSUME NEW p \in Workers,
             \/ Loop(p) \/ Run(p) \/ Heartbeat(p) \/ Checkpoint(p)
             \/ CallFails(p) \/ Shutdown(p) \/ Crash(p) \/ Restart(p)
      PROVE  hash[w].expired
  <2> DEFINE v == worker[p].job
  <2>1. CASE UNCHANGED hash
    BY <2>1 DEF Revoked
  <2>2. CASE Recover(p) /\ MayRecover(p)
    <3>1. v \in Workflows
      BY <2>2 DEF Recover, TypeOK
    <3>2. w = v
      BY <2>2, <3>1, WriteRevokes DEF Recover
    <3>3. QED
      BY <2>2, <3>2 DEF MayRecover, ScanInv, Recoverable
  <2>3. CASE Claim(p) /\ MayClaim(v)
    <3>1. v \in Workflows
      BY <2>3 DEF Claim, TypeOK
    <3>2. w = v
      BY <2>3, <3>1, WriteRevokes DEF Claim
    <3>3. QED
      BY <2>3, <3>2 DEF MayClaim, Revoked
  <2>4. CASE LeaseHeld(p) /\ (CheckOwnership(p) \/ Heartbeat(p))
    <3>1. v \in Workflows /\ hash[v] \in Hash /\ hash[v].status = "running"
      BY <2>4 DEF CheckOwnership, Heartbeat, LeaseHeld, TypeOK, InJob
    <3>2. LeaseWrite(p, hash[v])
      BY <2>4 DEF CheckOwnership, Heartbeat
    <3>3. QED
      BY <3>1, <3>2, LeaseWriteRevokes
  <2>5. CASE LeaseHeld(p) /\ Publish(p)
    <3> DEFINE n == Head(worker[p].pending)
               new == NewEvents(v, n)
               h == [hash[v] EXCEPT !.snapshot = n,
                                    !.last_sequence = hash[v].last_sequence + Len(new)]
    <3>1. v \in Workflows /\ hash[v] \in Hash /\ hash[v].status = "running"
      BY <2>5 DEF Publish, LeaseHeld, TypeOK, InJob
    <3>2. worker[p].pending # <<>> /\ n \in Nat
      BY <2>5, HeadTailProperties DEF Publish, TypeOK, Process
    <3>3. Len(new) \in Nat
      BY <3>1, <3>2, NewEventsType
    <3>4. h \in Hash
      BY <3>1, <3>2, <3>3, HashUpdates
    <3>5. h.status = "running"
      BY <3>1 DEF Hash
    <3>6. LeaseWrite(p, h) \/ UNCHANGED hash
      BY <2>5 DEF Publish
    <3> HIDE DEF h
    <3>7. QED
      BY <2>1, <3>1, <3>4, <3>5, <3>6, LeaseWriteRevokes
  <2>6. CASE LeaseHeld(p) /\ Finish(p)
    <3> DEFINE result == IF worker[p].pc = "finishing" THEN worker[p].outcome ELSE "failed"
               h == [hash[v] EXCEPT !.status = result, !.token = NoToken, !.owner = NoWorker]
    <3>1. v \in Workflows /\ hash[v] \in Hash
      BY <2>6 DEF Finish, TypeOK
    <3>2. result \in Terminal
      BY DEF TypeOK, Process, Terminal
    <3>3. h \in Hash
      BY <3>1, <3>2, HashUpdates
    <3>4. h.status # "queued"
      BY <3>1, <3>2 DEF Hash, Terminal
    <3>5. LeaseWrite(p, h)
      BY <2>6 DEF Finish
    <3> HIDE DEF h
    <3>6. QED
      BY <3>1, <3>3, <3>4, <3>5, LeaseWriteRevokes
  <2>7. CASE ~LeaseHeld(p) /\ (CheckOwnership(p) \/ Heartbeat(p) \/ Publish(p) \/ Finish(p))
    BY <2>1, <2>7 DEF CheckOwnership, Heartbeat, Publish, Finish, LoseLease
  <2>8. QED
    BY <1>2, <2>1, <2>2, <2>3, <2>4, <2>5, <2>6, <2>7
    DEF Loop, Run, Scan, Recover, AnnounceRecovered, Pop, Claim, LoadJob, AnnounceRunning,
        Return, Abandon, Join, EndJob, Checkpoint, CallFails, Shutdown, Crash, Restart
<1>3. QED
  BY <1>1, <1>2 DEF Next

(* ScanInv holds in every state of a behaviour.                            *)
LEMMA ScansInvariant == Spec => []ScanInv
<1>1. Init => ScanInv
  BY DEF Init, ScanInv
<1>2. TypeOK /\ ScanInv /\ [Next]_vars => ScanInv'
  BY NextScans
<1>3. QED
  BY <1>1, <1>2, TypeCorrect, PTL DEF Spec

(* A live lease is never revoked, although recover_expired decides on      *)
(* values it read several awaits earlier: the holder did not write within  *)
(* a whole lease period.                                                   *)
THEOREM LiveLeasesKept == Spec => OnlyExpiredLeasesRevoked
<1>1. TypeOK /\ ScanInv /\ [Next]_vars =>
        [\A w \in Workflows :
           hash[w].status = "running" /\ hash'[w].status = "queued" => hash[w].expired]_vars
  BY OnlyRecoverRevokes DEF Revoked
<1>2. QED
  BY <1>1, ScansInvariant, TypeCorrect, PTL DEF Spec, OnlyExpiredLeasesRevoked
=============================================================================
