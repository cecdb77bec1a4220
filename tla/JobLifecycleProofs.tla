------------------------- MODULE JobLifecycleProofs -------------------------
(***************************************************************************)
(* Proofs about what the queue keeps: the journal of a workflow, the       *)
(* snapshots of its job, and that WorkflowJobs implements JobLifecycle.    *)
(***************************************************************************)
EXTENDS WorkflowJobsProofs

(* The new value of one hash, and of nothing else: its status, token,      *)
(* owner, snapshot and last_sequence; its age is of no concern here.       *)
Becomes(w, status, token, owner, n, last) ==
  \E h \in Hash :
    /\ hash' = [hash EXCEPT ![w] = h]
    /\ h.status = status /\ h.token = token /\ h.owner = owner
    /\ h.snapshot = n /\ h.last_sequence = last

Writer(w, p) == author' = [author EXCEPT ![w] = p]

(* A worker that the lease script lets write the hash of its job.          *)
Fenced(w, p) ==
  /\ p \in Workers /\ worker[p].job = w
  /\ worker[p].pc \in InJob \cup {"flushing"} /\ LeaseHeld(p)

(* What a step does to the hash of a job, its stream and its author.       *)
Submitted(w) ==
  /\ MayEnqueue(w)
  /\ Becomes(w, "queued", NoToken, NoWorker, session[w], 0)
  /\ Writer(w, NoWorker) /\ UNCHANGED stream

Granted(w) ==
  \E p \in Workers, t \in FreshTokens :
    /\ MayClaim(w)
    /\ Becomes(w, "running", t, p, hash[w].snapshot, hash[w].last_sequence)
    /\ Writer(w, NoWorker) /\ UNCHANGED stream

Renewed(w) ==
  \E p \in Workers :
    /\ Fenced(w, p)
    /\ Becomes(w, "running", hash[w].token, hash[w].owner, hash[w].snapshot, hash[w].last_sequence)
    /\ Writer(w, p) /\ UNCHANGED stream

Published(w, p) ==
  LET n == Head(worker[p].pending)
      new == NewEvents(w, n) IN
  /\ Fenced(w, p) /\ worker[p].pending # <<>>
  /\ Becomes(w, "running", hash[w].token, hash[w].owner, n, hash[w].last_sequence + Len(new))
  /\ stream' = [stream EXCEPT ![w] = @ \o new]
  /\ Writer(w, p)

Ended(w) ==
  \E p \in Workers, result \in Terminal :
    /\ Fenced(w, p)
    /\ Becomes(w, result, NoToken, NoWorker, hash[w].snapshot, hash[w].last_sequence)
    /\ Writer(w, p) /\ UNCHANGED stream

Requeued(w) ==
  /\ hash[w].status \in {"queued", "running"}
  /\ Becomes(w, "queued", NoToken, NoWorker, hash[w].snapshot, hash[w].last_sequence)
  /\ UNCHANGED <<author, stream>>

Aged(w) ==
  /\ Becomes(w, hash[w].status, hash[w].token, hash[w].owner, hash[w].snapshot,
             hash[w].last_sequence)
  /\ UNCHANGED <<author, stream>>

Evicted(w) ==
  /\ Becomes(w, "absent", NoToken, NoWorker, 0, 0)
  /\ UNCHANGED <<author, stream>>

(* A step without an accepted snapshot, and any step.                      *)
QuietStep ==
  \/ UNCHANGED <<hash, stream, author>>
  \/ \E w \in Workflows :
       \/ Submitted(w) \/ Granted(w) \/ Renewed(w) \/ Ended(w)
       \/ Requeued(w) \/ Aged(w) \/ Evicted(w)

JobStep == QuietStep \/ \E p \in Workers : Published(worker[p].job, p)

(* The records that the scripts write, field by field.                     *)
LEMMA WriteBecomes ==
  ASSUME NEW w, NEW h \in Hash, hash' = [hash EXCEPT ![w] = h]
  PROVE  Becomes(w, h.status, h.token, h.owner, h.snapshot, h.last_sequence)
BY DEF Becomes

LEMMA LeaseWriteBecomes ==
  ASSUME NEW p \in Workers, NEW h \in Hash, LeaseWrite(p, h)
  PROVE  /\ Becomes(worker[p].job, h.status, h.token, h.owner, h.snapshot, h.last_sequence)
         /\ Writer(worker[p].job, p)
<1> DEFINE g == [h EXCEPT !.expired = FALSE, !.ttl = TtlPeriods]
<1>1. TtlPeriods \in 0..TtlPeriods
  BY JobsAssumption
<1>2. g \in Hash
  BY <1>1 DEF Hash
<1>3. /\ g.status = h.status /\ g.token = h.token /\ g.owner = h.owner
      /\ g.snapshot = h.snapshot /\ g.last_sequence = h.last_sequence
  BY DEF Hash
<1>4. hash' = [hash EXCEPT ![worker[p].job] = g] /\ Writer(worker[p].job, p)
  BY DEF LeaseWrite, Write, Writer
<1> HIDE DEF g
<1>5. Becomes(worker[p].job, g.status, g.token, g.owner, g.snapshot, g.last_sequence)
  BY <1>2, <1>4, WriteBecomes
<1>6. QED
  BY <1>3, <1>4, <1>5

(* Clients and time.                                                       *)
LEMMA ClientSteps ==
  ASSUME TypeOK, NEW w \in Workflows, Enqueue(w) \/ Elapse(w)
  PROVE  QuietStep
<1>0. hash[w] \in Hash /\ TtlPeriods \in 0..TtlPeriods /\ session[w] \in Nat
  BY JobsAssumption DEF TypeOK
<1>1. CASE Enqueue(w)
  <2> DEFINE h == [NoHash EXCEPT !.status = "queued", !.snapshot = session[w],
                                 !.ttl = TtlPeriods]
  <2>1. h \in Hash
    BY <1>0 DEF Hash, NoHash
  <2>2. /\ h.status = "queued" /\ h.token = NoToken /\ h.owner = NoWorker
        /\ h.snapshot = session[w] /\ h.last_sequence = 0
    BY DEF NoHash
  <2>3. /\ MayEnqueue(w) /\ hash' = [hash EXCEPT ![w] = h]
        /\ Writer(w, NoWorker) /\ UNCHANGED stream
    BY <1>1 DEF Enqueue, Write, Writer
  <2> HIDE DEF h
  <2>4. QED
    BY <2>1, <2>2, <2>3, WriteBecomes DEF QuietStep, Submitted
<1>2. CASE Elapse(w) /\ LastPeriod(w)
  <2>1. NoHash \in Hash
    BY <1>0 DEF Hash, NoHash
  <2>2. hash' = [hash EXCEPT ![w] = NoHash] /\ UNCHANGED <<author, stream>>
    BY <1>2 DEF Elapse, Write
  <2>3. QED
    BY <2>1, <2>2, WriteBecomes DEF QuietStep, Evicted, NoHash
<1>3. CASE Elapse(w) /\ ~LastPeriod(w)
  <2> DEFINE h == [hash[w] EXCEPT !.expired = TRUE, !.ttl = hash[w].ttl - 1]
  <2>1. hash[w].ttl - 1 \in 0..TtlPeriods
    BY <1>3, JobsAssumption DEF LastPeriod, TypeOK, Hash
  <2>2. h \in Hash
    BY <1>0, <2>1 DEF Hash
  <2>3. /\ h.status = hash[w].status /\ h.token = hash[w].token /\ h.owner = hash[w].owner
        /\ h.snapshot = hash[w].snapshot /\ h.last_sequence = hash[w].last_sequence
    BY <1>0 DEF Hash
  <2>4. hash' = [hash EXCEPT ![w] = h] /\ UNCHANGED <<author, stream>>
    BY <1>3 DEF Elapse, TypeOK
  <2> HIDE DEF h
  <2>5. QED
    BY <2>2, <2>3, <2>4, WriteBecomes DEF QuietStep, Aged
<1>4. QED
  BY <1>1, <1>2, <1>3

(* The two scripts of the worker loop.                                     *)
LEMMA LoopSteps ==
  ASSUME TypeOK, ScanInv, NEW p \in Workers, Recover(p) \/ Claim(p)
  PROVE  QuietStep
<1> DEFINE w == worker[p].job
<1>0. w \in Workflows /\ hash[w] \in Hash
  BY DEF Recover, Claim, TypeOK
<1>1. CASE Recover(p)
  <2> DEFINE h == [hash[w] EXCEPT !.status = "queued", !.token = NoToken,
                                  !.owner = NoWorker, !.expired = FALSE]
  <2>1. h \in Hash
    BY <1>0, HashUpdates
  <2>2. /\ h.status = "queued" /\ h.token = NoToken /\ h.owner = NoWorker
        /\ h.snapshot = hash[w].snapshot /\ h.last_sequence = hash[w].last_sequence
    BY <1>0 DEF Hash
  <2>3. CASE MayRecover(p)
    <3>1. hash' = [hash EXCEPT ![w] = h] /\ UNCHANGED <<author, stream>>
      BY <1>1, <2>3 DEF Recover, Write
    <3>2. hash[w].status \in {"queued", "running"}
      BY <2>3 DEF MayRecover, ScanInv, Recoverable
    <3> HIDE DEF h
    <3>3. QED
      BY <1>0, <2>1, <2>2, <3>1, <3>2, WriteBecomes DEF QuietStep, Requeued
  <2>4. CASE ~MayRecover(p)
    BY <1>1, <2>4 DEF Recover, QuietStep
  <2>5. QED
    BY <2>3, <2>4
<1>2. CASE Claim(p) /\ MayClaim(w)
  <2>1. PICK t \in FreshTokens :
          Write(w, [hash[w] EXCEPT !.status = "running", !.owner = p,
                                   !.token = t, !.expired = FALSE])
    BY <1>2 DEF Claim
  <2> DEFINE h == [hash[w] EXCEPT !.status = "running", !.owner = p,
                                  !.token = t, !.expired = FALSE]
  <2>2. t \in Tokens
    BY DEF FreshTokens
  <2>3. h \in Hash
    BY <1>0, <2>2, HashUpdates
  <2>4. /\ h.status = "running" /\ h.token = t /\ h.owner = p
        /\ h.snapshot = hash[w].snapshot /\ h.last_sequence = hash[w].last_sequence
    BY <1>0 DEF Hash
  <2>5. hash' = [hash EXCEPT ![w] = h] /\ Writer(w, NoWorker) /\ UNCHANGED stream
    BY <1>2, <2>1 DEF Claim, Write, Writer
  <2> HIDE DEF h
  <2>6. Becomes(w, "running", t, p, hash[w].snapshot, hash[w].last_sequence)
    BY <2>3, <2>4, <2>5, WriteBecomes
  <2>7. QED
    BY <1>0, <1>2, <2>5, <2>6 DEF QuietStep, Granted
<1>3. CASE Claim(p) /\ ~MayClaim(w)
  BY <1>3 DEF Claim, QuietStep
<1>4. QED
  BY <1>1, <1>2, <1>3

(* The fenced writes but the one of a snapshot.                            *)
LEMMA LeaseSteps ==
  ASSUME TypeOK, NEW p \in Workers, CheckOwnership(p) \/ Heartbeat(p) \/ Finish(p)
  PROVE  QuietStep
<1> DEFINE w == worker[p].job
<1>0. w \in Workflows /\ hash[w] \in Hash /\ worker[p].pc \in InJob \cup {"flushing"}
  BY DEF CheckOwnership, Heartbeat, Finish, InJob, TypeOK
<1>1. LeaseHeld(p) => Fenced(w, p) /\ hash[w].status = "running"
  BY <1>0 DEF Fenced, LeaseHeld
<1>2. CASE ~LeaseHeld(p)
  BY <1>2 DEF CheckOwnership, Heartbeat, Finish, LoseLease, QuietStep
<1>3. CASE LeaseHeld(p) /\ (CheckOwnership(p) \/ Heartbeat(p))
  <2>1. LeaseWrite(p, hash[w]) /\ UNCHANGED stream
    BY <1>3 DEF CheckOwnership, Heartbeat
  <2>2. QED
    BY <1>0, <1>1, <1>3, <2>1, LeaseWriteBecomes DEF QuietStep, Renewed
<1>4. CASE LeaseHeld(p) /\ Finish(p)
  <2> DEFINE result == IF worker[p].pc = "finishing" THEN worker[p].outcome ELSE "failed"
             h == [hash[w] EXCEPT !.status = result, !.token = NoToken, !.owner = NoWorker]
  <2>1. result \in Terminal
    BY DEF TypeOK, Process, Terminal
  <2>2. h \in Hash
    BY <1>0, <2>1, HashUpdates
  <2>3. /\ h.status = result /\ h.token = NoToken /\ h.owner = NoWorker
        /\ h.snapshot = hash[w].snapshot /\ h.last_sequence = hash[w].last_sequence
    BY <1>0 DEF Hash
  <2>4. LeaseWrite(p, h) /\ UNCHANGED stream
    BY <1>4 DEF Finish
  <2> HIDE DEF h, result
  <2>5. Becomes(w, result, NoToken, NoWorker, hash[w].snapshot, hash[w].last_sequence)
        /\ Writer(w, p)
    BY <2>2, <2>3, <2>4, LeaseWriteBecomes
  <2>6. QED
    BY <1>0, <1>1, <1>4, <2>1, <2>4, <2>5 DEF QuietStep, Ended
<1>5. QED
  BY <1>2, <1>3, <1>4

(* A snapshot is accepted or refused.                                      *)
LEMMA PublishStep ==
  ASSUME TypeOK, NEW p \in Workers, Publish(p)
  PROVE  \/ LeaseHeld(p) /\ ~worker[p].lost /\ PopPending(p, FALSE, FALSE)
              /\ Published(worker[p].job, p)
         \/ PopPending(p, TRUE, FALSE) /\ (worker[p].lost \/ ~LeaseHeld(p))
              /\ UNCHANGED <<hash, stream, author>>
<1> DEFINE w == worker[p].job
           n == Head(worker[p].pending)
           new == NewEvents(w, n)
           h == [hash[w] EXCEPT !.snapshot = n,
                                !.last_sequence = hash[w].last_sequence + Len(new)]
<1>0. w \in Workflows /\ hash[w] \in Hash /\ worker[p].pc \in InJob \cup {"flushing"}
  BY DEF Publish, InJob, TypeOK
<1>1. CASE worker[p].lost \/ ~LeaseHeld(p)
  BY <1>1 DEF Publish
<1>2. CASE ~worker[p].lost /\ LeaseHeld(p)
  <2>1. worker[p].pending # <<>> /\ n \in Nat
    BY HeadTailProperties DEF Publish, TypeOK, Process
  <2>2. Len(new) \in Nat
    BY <1>0, <2>1, NewEventsType
  <2>3. h \in Hash
    BY <1>0, <2>1, <2>2, HashUpdates
  <2>4. /\ h.status = hash[w].status /\ h.token = hash[w].token /\ h.owner = hash[w].owner
        /\ h.snapshot = n /\ h.last_sequence = hash[w].last_sequence + Len(new)
    BY <1>0 DEF Hash
  <2>5. /\ LeaseWrite(p, h) /\ stream' = [stream EXCEPT ![w] = @ \o new]
        /\ PopPending(p, FALSE, FALSE)
    BY <1>2 DEF Publish
  <2> HIDE DEF h
  <2>6. Fenced(w, p) /\ hash[w].status = "running"
    BY <1>0, <1>2 DEF Fenced, LeaseHeld
  <2>7. QED
    BY <1>2, <2>1, <2>3, <2>4, <2>5, <2>6, LeaseWriteBecomes DEF Published
<1>3. QED
  BY <1>1, <1>2

(* The steps that neither write a hash nor publish anything.               *)
LEMMA LocalSteps ==
  ASSUME NEW p \in Workers,
         \/ \E w \in Workflows : Scan(p, w)
         \/ AnnounceRecovered(p) \/ Pop(p) \/ LoadJob(p) \/ AnnounceRunning(p)
         \/ Return(p) \/ Abandon(p) \/ Join(p) \/ EndJob(p)
         \/ Checkpoint(p) \/ CallFails(p) \/ Shutdown(p) \/ Crash(p) \/ Restart(p)
  PROVE  UNCHANGED <<hash, stream, author>>
BY DEF Scan, AnnounceRecovered, Pop, LoadJob, AnnounceRunning, Return, Abandon, Join,
       EndJob, Checkpoint, CallFails, Shutdown, Crash, Restart

(* Every step of the queue is a step of its jobs.                          *)
LEMMA JobSteps == TypeOK /\ ScanInv /\ Next => JobStep
<1> SUFFICES ASSUME TypeOK, ScanInv, Next PROVE JobStep
  OBVIOUS
<1>1. CASE \E w \in Workflows : Enqueue(w) \/ Elapse(w)
  BY <1>1, ClientSteps DEF JobStep
<1>2. ASSUME NEW p \in Workers,
             \/ Recover(p) \/ Claim(p) \/ CheckOwnership(p) \/ Heartbeat(p) \/ Finish(p)
      PROVE  JobStep
  BY <1>2, LoopSteps, LeaseSteps DEF JobStep
<1>3. ASSUME NEW p \in Workers, Publish(p)
      PROVE  JobStep
  BY <1>3, PublishStep DEF JobStep, QuietStep
<1>4. ASSUME NEW p \in Workers,
             \/ \E w \in Workflows : Scan(p, w)
             \/ AnnounceRecovered(p) \/ Pop(p) \/ LoadJob(p) \/ AnnounceRunning(p)
             \/ Return(p) \/ Abandon(p) \/ Join(p) \/ EndJob(p)
             \/ Checkpoint(p) \/ CallFails(p) \/ Shutdown(p) \/ Crash(p) \/ Restart(p)
      PROVE  JobStep
  BY <1>4, LocalSteps DEF JobStep, QuietStep
<1>5. QED
  BY <1>1, <1>2, <1>3, <1>4 DEF Next, Loop, Run

(* A job that becomes something, and the others that stay as they are.     *)
LEMMA BecomesAt ==
  ASSUME TypeOK, NEW w \in Workflows, NEW s, NEW t, NEW o, NEW n, NEW l,
         Becomes(w, s, t, o, n, l)
  PROVE  /\ hash'[w].status = s /\ hash'[w].token = t /\ hash'[w].owner = o
         /\ hash'[w].snapshot = n /\ hash'[w].last_sequence = l
         /\ \A v \in Workflows \ {w} : hash'[v] = hash[v]
BY DEF Becomes, TypeOK

LEMMA PublishedAt ==
  ASSUME TypeOK, NEW w, NEW p \in Workers, Published(w, p)
  PROVE  /\ w \in Workflows /\ worker[p].job = w /\ worker[p].pc \in InJob \cup {"flushing"}
         /\ LeaseHeld(p) /\ worker[p].pending # <<>>
         /\ hash'[w].status = "running" /\ hash'[w].snapshot = Head(worker[p].pending)
         /\ hash'[w].token = hash[w].token /\ hash'[w].owner = hash[w].owner
         /\ \A v \in Workflows \ {w} : hash'[v] = hash[v]
<1>1. Fenced(w, p) /\ worker[p].pending # <<>>
  BY DEF Published
<1>2. w \in Workflows /\ worker[p].job = w /\ worker[p].pc \in InJob \cup {"flushing"}
      /\ LeaseHeld(p)
  BY <1>1 DEF Fenced, TypeOK, InJob
<1> DEFINE n == Head(worker[p].pending)
           last == hash[w].last_sequence + Len(NewEvents(w, n))
<1>3. Becomes(w, "running", hash[w].token, hash[w].owner, n, last)
  BY DEF Published
<1> HIDE DEF last
<1>4. QED
  BY <1>1, <1>2, <1>3, BecomesAt

-----------------------------------------------------------------------------
(* The journal.  JournalGapFree is inductive: the snapshot operation       *)
(* appends what follows last_sequence, and only enqueue and eviction reset *)
(* last_sequence, to nothing.                                              *)

LEMMA NewEventsAre ==
  ASSUME TypeOK, NEW w \in Workflows, NEW n \in Nat
  PROVE  /\ NewEvents(w, n) \in Seq(Nat)
         /\ \A i \in 1..Len(NewEvents(w, n)) : NewEvents(w, n)[i] = hash[w].last_sequence + i
<1> DEFINE last == hash[w].last_sequence
           k == IF n > last THEN n - last ELSE 0
<1>1. last \in Nat /\ k \in Nat
  BY DEF TypeOK, Hash
<1>2. NewEvents(w, n) = [i \in 1..k |-> last + i]
  BY DEF NewEvents
<1>3. NewEvents(w, n) \in Seq(Nat)
  BY NewEventsType
<1>4. Len(NewEvents(w, n)) = k
  BY <1>1, <1>2, <1>3, LenProperties
<1>5. QED
  BY <1>2, <1>3, <1>4

(* The last n elements of a stream are 1, ..., n.                           *)
EndsIn(s, n) == Len(s) - n >= 0 /\ \A i \in 1..n : s[Len(s) - n + i] = i

LEMMA TailGrows ==
  ASSUME NEW s \in Seq(Nat), NEW new \in Seq(Nat), NEW n \in Nat, EndsIn(s, n),
         \A i \in 1..Len(new) : new[i] = n + i
  PROVE  EndsIn(s \o new, n + Len(new))
<1>1. /\ Len(s) \in Nat /\ Len(new) \in Nat
      /\ Len(s \o new) = Len(s) + Len(new)
      /\ \A j \in 1..(Len(s) + Len(new)) :
           (s \o new)[j] = IF j <= Len(s) THEN s[j] ELSE new[j - Len(s)]
  BY ConcatProperties, LenProperties
<1> DEFINE old == Len(s) - n
<1>2. old \in Nat /\ Len(s \o new) - (n + Len(new)) = old
  BY <1>1 DEF EndsIn
<1>3. ASSUME NEW i \in 1..(n + Len(new))
      PROVE  (s \o new)[old + i] = i
  <2>1. old + i \in 1..(Len(s) + Len(new))
    BY <1>1, <1>2
  <2>2. CASE i <= n
    <3>1. old + i <= Len(s) /\ i \in 1..n
      BY <1>1, <2>2
    <3>2. QED
      BY <1>1, <2>1, <3>1 DEF EndsIn
  <2>3. CASE ~(i <= n)
    <3>1. ~(old + i <= Len(s)) /\ old + i - Len(s) = i - n /\ i - n \in 1..Len(new)
      BY <1>1, <2>3
    <3>2. (s \o new)[old + i] = new[i - n]
      BY <1>1, <2>1, <3>1
    <3>3. new[i - n] = n + (i - n)
      BY <3>1
    <3>4. QED
      BY <1>1, <3>2, <3>3
  <2>4. QED
    BY <2>2, <2>3
<1>4. QED
  BY <1>2, <1>3 DEF EndsIn

(* JournalGapFree is about EndsIn.                                         *)
LEMMA JournalStep ==
  ASSUME TypeOK, JournalGapFree, JobStep
  PROVE  JournalGapFree'
<1>0. \A w \in Workflows :
        EndsIn(stream[w], hash[w].last_sequence) /\ hash[w].last_sequence \in Nat
          /\ stream[w] \in Seq(Nat)
  BY DEF JournalGapFree, EndsIn, TypeOK, Hash
<1>1. SUFFICES ASSUME NEW w \in Workflows
               PROVE  EndsIn(stream'[w], hash'[w].last_sequence)
  BY DEF JournalGapFree, EndsIn
<1>2. CASE hash'[w].last_sequence = hash[w].last_sequence /\ stream'[w] = stream[w]
  BY <1>0, <1>2
<1>3. CASE hash'[w].last_sequence = 0 /\ stream'[w] = stream[w]
  <2>1. Len(stream[w]) \in Nat
    BY <1>0, LenProperties
  <2>2. QED
    BY <1>3, <2>1 DEF EndsIn
<1>4. ASSUME NEW p \in Workers, Published(w, p)
      PROVE  EndsIn(stream'[w], hash'[w].last_sequence)
  <2> DEFINE n == Head(worker[p].pending)
             new == NewEvents(w, n)
  <2>1. n \in Nat
    BY <1>4, HeadTailProperties DEF Published, TypeOK, Process
  <2>2. /\ new \in Seq(Nat)
        /\ \A i \in 1..Len(new) : new[i] = hash[w].last_sequence + i
    BY <2>1, NewEventsAre
  <2>3. hash'[w].last_sequence = hash[w].last_sequence + Len(new)
    BY <1>4, BecomesAt DEF Published
  <2>4. stream'[w] = stream[w] \o new
    BY <1>4 DEF Published, TypeOK
  <2> HIDE DEF new
  <2>5. EndsIn(stream[w] \o new, hash[w].last_sequence + Len(new))
    BY <1>0, <2>2, TailGrows
  <2>6. QED
    BY <2>3, <2>4, <2>5
<1>5. ASSUME NEW v \in Workflows,
             \/ Submitted(v) \/ Granted(v) \/ Renewed(v) \/ Ended(v)
             \/ Requeued(v) \/ Aged(v) \/ Evicted(v)
      PROVE  /\ stream'[w] = stream[w]
             /\ hash'[w].last_sequence \in {hash[w].last_sequence, 0}
  <2>1. UNCHANGED stream
    BY <1>5 DEF Submitted, Granted, Renewed, Ended, Requeued, Aged, Evicted
  <2>2. CASE w = v
    BY <1>5, <2>1, <2>2, BecomesAt
    DEF Submitted, Granted, Renewed, Ended, Requeued, Aged, Evicted
  <2>3. CASE w # v
    BY <1>5, <2>1, <2>3, BecomesAt
    DEF Submitted, Granted, Renewed, Ended, Requeued, Aged, Evicted
  <2>4. QED
    BY <2>2, <2>3
<1>6. ASSUME NEW v \in Workflows \ {w}, NEW p \in Workers, Published(v, p)
      PROVE  stream'[w] = stream[w] /\ hash'[w] = hash[w]
  BY <1>6, BecomesAt DEF Published, TypeOK
<1>7. \A p \in Workers : Published(worker[p].job, p) => worker[p].job \in Workflows
  BY DEF Published, Fenced, InJob, TypeOK
<1>8. QED
  BY <1>2, <1>3, <1>4, <1>5, <1>6, <1>7 DEF JobStep, QuietStep

(* The runtime events that were appended since the last enqueue are 1, 2,  *)
(* ... up to last_sequence without a gap or a repetition, for any number   *)
(* of workers, snapshots and takeovers.                                    *)
THEOREM JournalWithoutGaps == Spec => []JournalGapFree
<1>1. Init => JournalGapFree
  <2> SUFFICES ASSUME Init, NEW w \in Workflows
               PROVE  EndsIn(stream[w], hash[w].last_sequence)
    BY DEF JournalGapFree, EndsIn
  <2>1. stream[w] = <<>> /\ hash[w].last_sequence = 0 /\ Len(<<>>) = 0
    BY DEF Init, NoHash
  <2>2. QED
    BY <2>1 DEF EndsIn
<1>2. TypeOK /\ ScanInv /\ JournalGapFree /\ [Next]_vars => JournalGapFree'
  <2>1. CASE UNCHANGED vars
    BY <2>1 DEF vars, JournalGapFree
  <2>2. QED
    BY <2>1, JobSteps, JournalStep
<1>3. QED
  BY <1>1, <1>2, TypeCorrect, ScansInvariant, PTL DEF Spec
-----------------------------------------------------------------------------
(* Snapshots.  While a worker holds the lease of its job, the snapshots it *)
(* has yet to publish are in order, none is behind the one in the hash,    *)
(* and the last one is its whole execution.                                *)
Loaded == InJob \cup {"announcing", "flushing"}

InOrder(s) == \A i, j \in 1..Len(s) : i <= j => s[i] <= s[j]

Ordered(r) ==
  /\ r.events <= MaxEvents
  /\ r.pc \notin InJob \cup {"flushing"} => r.pending = <<>> /\ ~r.lost /\ ~r.dropped
  /\ r.pc = "finishing" => r.pending = <<>>
  /\ r.pending # <<>> => r.pending[Len(r.pending)] = r.events
  /\ InOrder(r.pending)

Ahead(r, n) ==
  /\ ~r.lost /\ n <= r.events
  /\ \A i \in 1..Len(r.pending) : n <= r.pending[i]
  /\ r.pending = <<>> /\ ~r.dropped => n = r.events

HoldsAhead(p) ==
  worker[p].pc \in Loaded /\ LeaseHeld(p) => Ahead(worker[p], hash[worker[p].job].snapshot)

Bounded == \A w \in Workflows : session[w] <= MaxEvents /\ hash[w].snapshot <= MaxEvents

Owned == \A w \in Workflows : hash[w].status # "running" => hash[w].owner = NoWorker

SnapInv ==
  /\ Bounded /\ Owned
  /\ \A p \in Workers : Ordered(worker[p]) /\ HoldsAhead(p)

LEMMA NoPending == InOrder(<<>>) /\ \A i \in 1..Len(<<>>) : FALSE
BY EmptySeq, LenProperties DEF InOrder

LEMMA AppendInOrder ==
  ASSUME NEW s \in Seq(Nat), NEW n \in Nat, InOrder(s), s # <<>> => s[Len(s)] <= n
  PROVE  InOrder(Append(s, n))
<1> DEFINE t == Append(s, n)
<1>1. /\ Len(s) \in Nat /\ Len(t) = Len(s) + 1 /\ t[Len(s) + 1] = n
      /\ \A i \in 1..Len(s) : t[i] = s[i]
  BY AppendProperties, LenProperties
<1> HIDE DEF t
<1>2. SUFFICES ASSUME NEW i \in 1..Len(t), NEW j \in 1..Len(t), i <= j
               PROVE  t[i] <= t[j]
  BY DEF InOrder, t
<1>3. CASE j \in 1..Len(s)
  <2>1. i \in 1..Len(s)
    BY <1>1, <1>2, <1>3
  <2>2. t[i] = s[i] /\ t[j] = s[j] /\ s[i] <= s[j]
    BY <1>1, <1>2, <1>3, <2>1 DEF InOrder
  <2>3. QED
    BY <2>2
<1>4. CASE j = Len(s) + 1 /\ i \in 1..Len(s)
  <2>1. Len(s) \in 1..Len(s) /\ i <= Len(s) /\ s # <<>>
    BY <1>1, <1>4, NoPending
  <2>2. s[i] \in Nat /\ s[Len(s)] \in Nat
    BY <1>4, <2>1, ElementOfSeq
  <2>3. s[i] <= s[Len(s)]
    BY <1>4, <2>1 DEF InOrder
  <2>4. s[i] <= n
    BY <2>1, <2>2, <2>3
  <2>5. QED
    BY <1>1, <1>4, <2>4
<1>5. CASE j = Len(s) + 1 /\ i = j
  BY <1>1, <1>5
<1>6. QED
  BY <1>1, <1>2, <1>3, <1>4, <1>5

LEMMA TailInOrder ==
  ASSUME NEW s \in Seq(Nat), s # <<>>, InOrder(s)
  PROVE  /\ InOrder(Tail(s)) /\ Head(s) = s[1] /\ Head(s) \in Nat /\ Head(s) <= s[Len(s)]
         /\ Tail(s) # <<>> => Tail(s)[Len(Tail(s))] = s[Len(s)]
         /\ Tail(s) = <<>> => Len(s) = 1
         /\ \A i \in 1..Len(Tail(s)) :
              i + 1 \in 1..Len(s) /\ Tail(s)[i] = s[i + 1] /\ Head(s) <= Tail(s)[i]
<1>1. /\ Head(s) = s[1] /\ Head(s) \in Nat /\ Len(s) \in Nat /\ Len(s) >= 1
      /\ Tail(s) \in Seq(Nat) /\ Len(Tail(s)) = Len(s) - 1
      /\ \A i \in 1..Len(Tail(s)) : Tail(s)[i] = s[i + 1]
  BY HeadTailProperties, EmptySeq, LenProperties
<1> DEFINE t == Tail(s)
<1>2. \A i \in 1..Len(t) : i + 1 \in 1..Len(s) /\ t[i] = s[i + 1] /\ s[1] <= s[i + 1]
  BY <1>1 DEF InOrder
<1>3. InOrder(t)
  BY <1>1, <1>2 DEF InOrder
<1>4. t # <<>> => t[Len(t)] = s[Len(s)]
  BY <1>1, EmptySeq
<1>5. ASSUME t = <<>>
      PROVE  Len(s) = 1
  <2>1. Len(t) = 0
    BY <1>5, EmptySeq
  <2> HIDE DEF t
  <2>2. Len(t) = Len(s) - 1 /\ Len(s) \in Nat
    BY <1>1 DEF t
  <2>3. QED
    BY <2>1, <2>2
<1>6. s[1] <= s[Len(s)]
  BY <1>1 DEF InOrder
<1>7. QED
  BY <1>1, <1>2, <1>3, <1>4, <1>5, <1>6

(* The first pending snapshot is part of the execution.                    *)
LEMMA HeadBounds ==
  ASSUME TypeOK, NEW p \in Workers, Ordered(worker[p]), worker[p].pending # <<>>
  PROVE  /\ Head(worker[p].pending) = worker[p].pending[1]
         /\ Head(worker[p].pending) \in Nat
         /\ Head(worker[p].pending) <= worker[p].events
<1> DEFINE s == worker[p].pending
<1>1. s \in Seq(Nat) /\ s # <<>>
  BY DEF TypeOK, Process
<1>2. Head(s) \in Nat /\ Head(s) = s[1] /\ Len(s) \in Nat /\ Len(s) >= 1
  BY <1>1, HeadTailProperties, EmptySeq, LenProperties
<1>3. s[1] <= s[Len(s)] /\ s[Len(s)] = worker[p].events
  BY <1>2 DEF Ordered, InOrder
<1>4. QED
  BY <1>2, <1>3

(* A worker that holds a lease after a step of another one, or after a     *)
(* step of its own without an accepted snapshot, held it before, and the   *)
(* snapshot in the hash is the same.                                       *)
LEMMA HeldBefore ==
  ASSUME TypeOK, LeaseInv, NEW q \in Workers, worker[q].pc \in Loaded,
         worker'[q].job = worker[q].job, worker'[q].tok = worker[q].tok, LeaseHeld(q)',
         QuietStep \/ \E p \in Workers \ {q} : Published(worker[p].job, p)
  PROVE  LeaseHeld(q) /\ hash'[worker[q].job].snapshot = hash[worker[q].job].snapshot
<1> DEFINE w == worker[q].job
<1>1. w \in Workflows /\ worker[q].pc \in Leased
  BY DEF TypeOK, Loaded, InJob, Leased
<1>2. hash'[w].status = "running" /\ hash'[w].token = worker[q].tok
  BY DEF LeaseHeld
<1>3. CASE hash'[w] = hash[w]
  BY <1>2, <1>3 DEF LeaseHeld
<1>4. CASE Submitted(w) \/ Ended(w) \/ Requeued(w) \/ Evicted(w)
  <2>1. hash'[w].status # "running"
    BY <1>1, <1>4, BecomesAt DEF Submitted, Ended, Requeued, Evicted, Terminal
  <2>2. QED
    BY <1>2, <2>1
<1>5. CASE Granted(w)
  <2>1. hash'[w].token \in FreshTokens
    BY <1>1, <1>5, BecomesAt DEF Granted
  <2>2. QED
    BY <1>2, <2>1 DEF FreshTokens
<1>6. CASE Renewed(w) \/ Aged(w)
  <2>1. hash'[w].token = hash[w].token /\ hash'[w].snapshot = hash[w].snapshot
    BY <1>1, <1>6, BecomesAt DEF Renewed, Aged
  <2>2. hash[w].status = "running"
    BY <1>1, <1>2, <1>6, BecomesAt DEF Renewed, Aged, Fenced, LeaseHeld
  <2>3. QED
    BY <1>2, <2>1, <2>2 DEF LeaseHeld
<1>7. ASSUME NEW p \in Workers \ {q}, Published(worker[p].job, p)
      PROVE  hash'[w] = hash[w]
  <2>1. worker[p].job \in Workflows /\ LeaseHeld(p) /\ worker[p].pc \in Leased
    BY <1>7, PublishedAt DEF InJob, Leased
  <2>2. CASE worker[p].job # w
    BY <1>1, <1>7, <2>1, <2>2, PublishedAt
  <2>3. CASE worker[p].job = w
    <3>1. hash[w].token = hash'[w].token
      BY <1>7, <2>1, <2>3, PublishedAt
    <3>2. hash[w].owner = p /\ hash[w].owner = q
      BY <1>1, <1>2, <2>1, <2>3, <3>1 DEF LeaseInv, LeaseHeld
    <3>3. QED
      BY <3>2
  <2>4. QED
    BY <2>2, <2>3
<1>8. ASSUME NEW v \in Workflows \ {w},
             \/ Submitted(v) \/ Granted(v) \/ Renewed(v) \/ Ended(v)
             \/ Requeued(v) \/ Aged(v) \/ Evicted(v)
      PROVE  hash'[w] = hash[w]
  BY <1>1, <1>8, BecomesAt
  DEF Submitted, Granted, Renewed, Ended, Requeued, Aged, Evicted
<1>9. QED
  BY <1>3, <1>4, <1>5, <1>6, <1>7, <1>8 DEF QuietStep

(* The hashes after a step.                                                *)
LEMMA HashSnapshots ==
  ASSUME TypeOK, SnapInv, JobStep, \A w \in Workflows : session'[w] <= MaxEvents
  PROVE  Bounded' /\ Owned'
<1>1. ASSUME NEW w \in Workflows
      PROVE  /\ hash'[w].snapshot <= MaxEvents
             /\ hash'[w].status # "running" => hash'[w].owner = NoWorker
  <2>1. /\ session[w] <= MaxEvents /\ hash[w].snapshot <= MaxEvents
        /\ hash[w].status # "running" => hash[w].owner = NoWorker
    BY DEF SnapInv, Bounded, Owned
  <2>2. MaxEvents \in Nat
    BY JobsAssumption
  <2>3. CASE hash'[w] = hash[w]
    BY <2>1, <2>3
  <2>4. ASSUME NEW v \in Workflows \ {w},
               \/ Submitted(v) \/ Granted(v) \/ Renewed(v) \/ Ended(v)
               \/ Requeued(v) \/ Aged(v) \/ Evicted(v)
        PROVE  hash'[w] = hash[w]
    BY <2>4, BecomesAt DEF Submitted, Granted, Renewed, Ended, Requeued, Aged, Evicted
  <2>5. CASE \/ Submitted(w) \/ Granted(w) \/ Renewed(w) \/ Ended(w)
             \/ Requeued(w) \/ Aged(w) \/ Evicted(w)
    BY <2>1, <2>2, <2>5, BecomesAt
    DEF Submitted, Granted, Renewed, Ended, Requeued, Aged, Evicted
  <2>6. ASSUME NEW p \in Workers, Published(worker[p].job, p)
        PROVE  /\ hash'[w].snapshot <= MaxEvents
               /\ hash'[w].status # "running" => hash'[w].owner = NoWorker
    <3>1. CASE worker[p].job = w
      <4>1. Ordered(worker[p]) /\ worker[p].events <= MaxEvents /\ worker[p].events \in Nat
        BY DEF SnapInv, Ordered, TypeOK, Process
      <4>2. hash'[w].status = "running" /\ hash'[w].snapshot = Head(worker[p].pending)
            /\ worker[p].pending # <<>>
        BY <2>6, <3>1, PublishedAt
      <4>3. hash'[w].snapshot \in Nat /\ hash'[w].snapshot <= worker[p].events
        BY <4>1, <4>2, HeadBounds
      <4>4. QED
        BY <2>2, <4>1, <4>2, <4>3
    <3>2. CASE worker[p].job # w
      BY <2>3, <2>6, <3>2, PublishedAt
    <3>3. QED
      BY <3>1, <3>2
  <2>7. QED
    BY <2>3, <2>4, <2>5, <2>6 DEF JobStep, QuietStep
<1>2. QED
  BY <1>1 DEF Bounded, Owned

(* What SnapInv asks of a step of worker p, and of a step of none.         *)
LEMMA SnapInvKept ==
  ASSUME TypeOK, LeaseInv, SnapInv, NEW p \in Workers, OthersKept(p),
         QuietStep \/ Published(worker[p].job, p),
         \A w \in Workflows : session'[w] <= MaxEvents,
         Ordered(worker'[p]),
         worker'[p].pc \in Loaded /\ LeaseHeld(p)'
           => Ahead(worker'[p], hash'[worker'[p].job].snapshot)
  PROVE  SnapInv'
<1>2. Bounded' /\ Owned'
  BY HashSnapshots DEF JobStep
<1>3. ASSUME NEW q \in Workers \ {p}
      PROVE  Ordered(worker'[q]) /\ HoldsAhead(q)'
  <2>1. worker'[q] = worker[q] /\ Ordered(worker[q]) /\ HoldsAhead(q)
    BY DEF OthersKept, SnapInv
  <2>2. SUFFICES ASSUME worker[q].pc \in Loaded, LeaseHeld(q)'
                 PROVE  Ahead(worker[q], hash'[worker[q].job].snapshot)
    BY <2>1 DEF HoldsAhead
  <2>3. LeaseHeld(q) /\ hash'[worker[q].job].snapshot = hash[worker[q].job].snapshot
    BY <2>1, <2>2, HeldBefore
  <2>4. QED
    BY <2>1, <2>2, <2>3 DEF HoldsAhead
<1>4. Ordered(worker'[p]) /\ HoldsAhead(p)'
  BY DEF HoldsAhead
<1>5. QED
  BY <1>2, <1>3, <1>4 DEF SnapInv

LEMMA StillKeeps ==
  ASSUME TypeOK, LeaseInv, SnapInv, QuietStep, UNCHANGED <<session, worker>>
  PROVE  SnapInv'
<1>1. Bounded' /\ Owned'
  BY HashSnapshots DEF JobStep, SnapInv, Bounded
<1>2. ASSUME NEW q \in Workers
      PROVE  Ordered(worker'[q]) /\ HoldsAhead(q)'
  <2>1. worker'[q] = worker[q] /\ Ordered(worker[q]) /\ HoldsAhead(q)
    BY DEF SnapInv
  <2>2. SUFFICES ASSUME worker[q].pc \in Loaded, LeaseHeld(q)'
                 PROVE  Ahead(worker[q], hash'[worker[q].job].snapshot)
    BY <2>1 DEF HoldsAhead
  <2>3. LeaseHeld(q) /\ hash'[worker[q].job].snapshot = hash[worker[q].job].snapshot
    BY <2>1, <2>2, HeldBefore
  <2>4. QED
    BY <2>1, <2>2, <2>3 DEF HoldsAhead
<1>3. QED
  BY <1>1, <1>2 DEF SnapInv

(* The changes of its own worker process by a step.                        *)
SameJob(p) == worker'[p].job = worker[p].job /\ worker'[p].tok = worker[p].tok

SameSnapshots(p) ==
  /\ worker'[p].events = worker[p].events /\ worker'[p].pending = worker[p].pending
  /\ worker'[p].dropped = worker[p].dropped

Rests(p) ==
  /\ worker'[p].pc \notin Loaded /\ worker'[p].events <= MaxEvents
  /\ worker'[p].pending = <<>> /\ ~worker'[p].lost /\ ~worker'[p].dropped

Proceeds(p) ==
  /\ worker[p].pc \in Loaded /\ worker'[p].pc \in InJob \cup {"flushing"}
  /\ worker'[p].pc = "finishing" => worker[p].pending = <<>>

LEMMA RestKeeps ==
  ASSUME TypeOK, LeaseInv, SnapInv, NEW p \in Workers, OthersKept(p), QuietStep,
         UNCHANGED session, Rests(p)
  PROVE  SnapInv'
<1>1. Ordered(worker'[p])
  BY NoPending DEF Rests, Ordered, Loaded
<1>2. \A w \in Workflows : session'[w] <= MaxEvents
  BY DEF SnapInv, Bounded
<1>3. QED
  BY <1>1, <1>2, SnapInvKept DEF Rests

LEMMA ProceedKeeps ==
  ASSUME TypeOK, LeaseInv, SnapInv, NEW p \in Workers, OthersKept(p), QuietStep,
         UNCHANGED session, SameJob(p), SameSnapshots(p), Proceeds(p),
         \/ worker'[p].lost = worker[p].lost
         \/ UNCHANGED hash /\ ~LeaseHeld(p)
  PROVE  SnapInv'
<1>1. Ordered(worker[p]) /\ HoldsAhead(p)
  BY DEF SnapInv
<1>2. Ordered(worker'[p])
  BY <1>1 DEF Ordered, SameSnapshots, Proceeds
<1>3. ASSUME LeaseHeld(p)'
      PROVE  Ahead(worker'[p], hash'[worker'[p].job].snapshot)
  <2>1. LeaseHeld(p) /\ hash'[worker[p].job].snapshot = hash[worker[p].job].snapshot
    BY <1>3, HeldBefore DEF SameJob, Proceeds
  <2>2. Ahead(worker[p], hash[worker[p].job].snapshot)
    BY <1>1, <2>1 DEF HoldsAhead, Proceeds
  <2>3. worker'[p].lost = worker[p].lost
    BY <2>1
  <2>4. QED
    BY <2>1, <2>2, <2>3 DEF Ahead, SameJob, SameSnapshots
<1>4. \A w \in Workflows : session'[w] <= MaxEvents
  BY DEF SnapInv, Bounded
<1>5. QED
  BY <1>2, <1>3, <1>4, SnapInvKept

(* A step that sets the record of one worker process.                      *)
LEMMA SetsWorker ==
  ASSUME TypeOK, NEW p \in Workers, NEW r, worker' = [worker EXCEPT ![p] = r]
  PROVE  worker'[p] = r /\ OthersKept(p)
BY DEF TypeOK, OthersKept

(* A worker between two jobs changes its point, the job it looks at and    *)
(* its token.                                                              *)
SameRecord(r, p) ==
  /\ r.events = worker[p].events /\ r.pending = worker[p].pending
  /\ r.lost = worker[p].lost /\ r.dropped = worker[p].dropped

LEMMA ApproachKeeps ==
  ASSUME TypeOK, LeaseInv, SnapInv, QuietStep, UNCHANGED session,
         NEW p \in Workers, NEW r, worker' = [worker EXCEPT ![p] = r],
         worker[p].pc \in {"idle", "scanned", "popped"},
         r.pc \in {"scanned", "recovered", "popped", "claimed"}, SameRecord(r, p)
  PROVE  SnapInv'
<1>1. worker'[p] = r /\ OthersKept(p)
  BY SetsWorker
<1>2. /\ worker[p].pending = <<>> /\ ~worker[p].lost /\ ~worker[p].dropped
      /\ worker[p].events <= MaxEvents
  BY DEF SnapInv, Ordered, InJob
<1>3. Rests(p)
  BY <1>1, <1>2 DEF Rests, Loaded, InJob, SameRecord
<1>4. QED
  BY <1>1, <1>3, RestKeeps

(* A worker that goes back to its loop, or dies, forgets everything.       *)
LEMMA ForgetKeeps ==
  ASSUME TypeOK, LeaseInv, SnapInv, QuietStep, UNCHANGED session, NEW p \in Workers,
         \/ Rest(p)
         \/ worker' = [worker EXCEPT ![p] = [Idle EXCEPT !.pc = "down"]]
  PROVE  SnapInv'
<1>1. OthersKept(p) /\ worker'[p] \in {Idle, [Idle EXCEPT !.pc = "down"]}
  BY SetsWorker DEF Rest
<1>2. Rests(p)
  BY <1>1, JobsAssumption DEF Idle, Rests, Loaded, InJob
<1>3. QED
  BY <1>1, <1>2, RestKeeps

(* The steps of the loop and those that return to it.                      *)
LEMMA LoopSnapshots ==
  ASSUME TypeOK, ScanInv, LeaseInv, SnapInv, NEW p \in Workers
  PROVE  /\ (\E w \in Workflows : Scan(p, w)) => SnapInv'
         /\ Recover(p) \/ AnnounceRecovered(p) => SnapInv'
         /\ Pop(p) \/ Claim(p) => SnapInv'
         /\ EndJob(p) \/ Crash(p) \/ Restart(p) => SnapInv'
<1>1. ASSUME NEW w \in Workflows, Scan(p, w)
      PROVE  SnapInv'
  <2> DEFINE r == [worker[p] EXCEPT !.pc = "scanned", !.job = w]
  <2>1. /\ QuietStep /\ UNCHANGED session /\ worker[p].pc = "idle"
        /\ worker' = [worker EXCEPT ![p] = r]
    BY <1>1 DEF Scan, QuietStep, TypeOK
  <2>2. r.pc = "scanned" /\ SameRecord(r, p)
    BY DEF TypeOK, Process, SameRecord
  <2>3. QED
    BY <2>1, <2>2, ApproachKeeps
<1>2. ASSUME Recover(p)
      PROVE  SnapInv'
  <2> DEFINE r == [worker[p] EXCEPT !.pc = "recovered"]
  <2>1. UNCHANGED session /\ worker[p].pc = "scanned" /\ (Rest(p) \/ Move(p, "recovered"))
    BY <1>2 DEF Recover
  <2>2. QuietStep
    BY <1>2, LoopSteps
  <2>3. CASE Rest(p)
    BY <2>1, <2>2, <2>3, ForgetKeeps
  <2>4. CASE Move(p, "recovered")
    <3>1. worker' = [worker EXCEPT ![p] = r] /\ r.pc = "recovered" /\ SameRecord(r, p)
      BY <2>4 DEF Move, TypeOK, Process, SameRecord
    <3>2. QED
      BY <2>1, <2>2, <3>1, ApproachKeeps
  <2>5. QED
    BY <2>1, <2>3, <2>4
<1>3. ASSUME Pop(p)
      PROVE  SnapInv'
  <2> DEFINE r == [worker[p] EXCEPT !.pc = "popped", !.job = Head(queue)]
  <2>1. /\ QuietStep /\ UNCHANGED session /\ worker[p].pc = "idle"
        /\ worker' = [worker EXCEPT ![p] = r]
    BY <1>3 DEF Pop, QuietStep, TypeOK
  <2>2. r.pc = "popped" /\ SameRecord(r, p)
    BY DEF TypeOK, Process, SameRecord
  <2>3. QED
    BY <2>1, <2>2, ApproachKeeps
<1>4. ASSUME Claim(p)
      PROVE  SnapInv'
  <2>1. /\ UNCHANGED session /\ worker[p].pc = "popped"
        /\ \/ Rest(p)
           \/ \E t \in FreshTokens : worker' = [worker EXCEPT ![p].pc = "claimed", ![p].tok = t]
    BY <1>4, Zenon DEF Claim
  <2>2. QuietStep
    BY <1>4, LoopSteps
  <2>3. CASE Rest(p)
    BY <2>1, <2>2, <2>3, ForgetKeeps
  <2>4. ASSUME NEW t \in FreshTokens,
               worker' = [worker EXCEPT ![p].pc = "claimed", ![p].tok = t]
        PROVE  SnapInv'
    <3> DEFINE r == [worker[p] EXCEPT !.pc = "claimed", !.tok = t]
    <3>1. worker' = [worker EXCEPT ![p] = r] /\ r.pc = "claimed" /\ SameRecord(r, p)
      BY <2>4 DEF TypeOK, Process, SameRecord
    <3>2. QED
      BY <2>1, <2>2, <3>1, ApproachKeeps
  <2>5. QED
    BY <2>1, <2>3, <2>4
<1>5. ASSUME AnnounceRecovered(p) \/ EndJob(p) \/ Restart(p)
      PROVE  SnapInv'
  BY <1>5, ForgetKeeps DEF AnnounceRecovered, EndJob, Restart, QuietStep
<1>6. ASSUME Crash(p)
      PROVE  SnapInv'
  BY <1>6, ForgetKeeps DEF Crash, QuietStep
<1>7. QED
  BY <1>1, <1>2, <1>3, <1>4, <1>5, <1>6

(* HGETALL: the execution starts from the snapshot in the hash.            *)
LEMMA LoadSnapshots ==
  ASSUME TypeOK, LeaseInv, SnapInv, NEW p \in Workers, LoadJob(p)
  PROVE  SnapInv'
<1> DEFINE w == worker[p].job
           r == [worker[p] EXCEPT !.pc = "announcing", !.events = hash[w].snapshot]
<1>1. UNCHANGED <<hash, session>> /\ QuietStep /\ worker[p].pc = "claimed"
  BY DEF LoadJob, QuietStep
<1>2. w \in Workflows /\ hash[w].snapshot <= MaxEvents /\ hash[w].snapshot \in Nat
  BY <1>1 DEF TypeOK, Hash, SnapInv, Bounded
<1>3. CASE Rest(p)
  BY <1>1, <1>3, ForgetKeeps
<1>4. CASE worker' = [worker EXCEPT ![p] = r]
  <2>1. worker'[p] = r /\ OthersKept(p)
    BY <1>4, SetsWorker
  <2>2. /\ r.pc = "announcing" /\ r.events = hash[w].snapshot
        /\ r.pending = worker[p].pending /\ r.lost = worker[p].lost
        /\ r.dropped = worker[p].dropped /\ r.job = w
    BY DEF TypeOK, Process
  <2>3. worker[p].pending = <<>> /\ ~worker[p].lost /\ ~worker[p].dropped
    BY <1>1 DEF SnapInv, Ordered, InJob
  <2> HIDE DEF r
  <2>4. Ordered(worker'[p])
    BY <1>2, <2>1, <2>2, <2>3, NoPending DEF Ordered
  <2>5. Ahead(worker'[p], hash'[worker'[p].job].snapshot)
    BY <1>1, <1>2, <2>1, <2>2, <2>3, NoPending DEF Ahead
  <2>6. \A v \in Workflows : session'[v] <= MaxEvents
    BY <1>1 DEF SnapInv, Bounded
  <2>7. QED
    BY <1>1, <2>1, <2>4, <2>5, <2>6, SnapInvKept
<1>5. QED
  BY <1>3, <1>4 DEF LoadJob, TypeOK

(* A worker that goes on, or that a refused write stops.                   *)
LEMMA MoveKeeps ==
  ASSUME TypeOK, LeaseInv, SnapInv, QuietStep, UNCHANGED session, NEW p \in Workers,
         worker[p].pc \in Loaded, NEW point \in InJob \cup {"flushing"},
         point = "finishing" => worker[p].pending = <<>>,
         Move(p, point) \/ (LoseLease(p, point) /\ ~LeaseHeld(p))
  PROVE  SnapInv'
<1>1. CASE Move(p, point)
  <2> DEFINE r == [worker[p] EXCEPT !.pc = point]
  <2>1. worker'[p] = r /\ OthersKept(p)
    BY <1>1, SetsWorker DEF Move
  <2>2. r.pc = point /\ SameRecord(r, p) /\ r.job = worker[p].job /\ r.tok = worker[p].tok
    BY DEF TypeOK, Process, SameRecord
  <2> HIDE DEF r
  <2>3. SameJob(p) /\ SameSnapshots(p) /\ Proceeds(p) /\ worker'[p].lost = worker[p].lost
    BY <2>1, <2>2 DEF SameRecord, SameJob, SameSnapshots, Proceeds
  <2>4. QED
    BY <2>1, <2>3, ProceedKeeps
<1>2. CASE LoseLease(p, point) /\ ~LeaseHeld(p)
  <2> DEFINE r == [worker[p] EXCEPT !.lost = TRUE, !.pc = point]
  <2>1. worker' = [worker EXCEPT ![p] = r] /\ UNCHANGED hash
    BY <1>2 DEF LoseLease, TypeOK
  <2>2. worker'[p] = r /\ OthersKept(p)
    BY <2>1, SetsWorker
  <2>3. /\ r.pc = point /\ r.job = worker[p].job /\ r.tok = worker[p].tok
        /\ r.events = worker[p].events /\ r.pending = worker[p].pending
        /\ r.dropped = worker[p].dropped
    BY DEF TypeOK, Process
  <2> HIDE DEF r
  <2>4. SameJob(p) /\ SameSnapshots(p) /\ Proceeds(p)
    BY <2>2, <2>3 DEF SameJob, SameSnapshots, Proceeds
  <2>5. QED
    BY <1>2, <2>1, <2>2, <2>4, ProceedKeeps
<1>3. QED
  BY <1>1, <1>2

(* The steps of _run_job that publish nothing.                              *)
LEMMA JobSnapshots ==
  ASSUME TypeOK, LeaseInv, SnapInv, NEW p \in Workers
  PROVE  /\ AnnounceRunning(p) \/ CheckOwnership(p) \/ Heartbeat(p) => SnapInv'
         /\ Return(p) \/ Abandon(p) \/ Join(p) \/ Finish(p) \/ Shutdown(p) => SnapInv'
<1>1. ASSUME AnnounceRunning(p)
      PROVE  SnapInv'
  BY <1>1, MoveKeeps DEF AnnounceRunning, QuietStep, Loaded, InJob
<1>2. ASSUME CheckOwnership(p)
      PROVE  SnapInv'
  <2>1. /\ UNCHANGED session /\ worker[p].pc = "starting"
        /\ Move(p, "executing") \/ (LoseLease(p, "flushing") /\ ~LeaseHeld(p))
    BY <1>2 DEF CheckOwnership
  <2>2. QuietStep
    BY <1>2, LeaseSteps
  <2>3. QED
    BY <2>1, <2>2, MoveKeeps DEF Loaded, InJob
<1>3. ASSUME Heartbeat(p)
      PROVE  SnapInv'
  <2>1. /\ UNCHANGED session /\ worker[p].pc \in InJob
        /\ UNCHANGED worker \/ (LoseLease(p, worker[p].pc) /\ ~LeaseHeld(p))
    BY <1>3 DEF Heartbeat
  <2>2. QuietStep
    BY <1>3, LeaseSteps
  <2>3. worker[p].pc = "finishing" => worker[p].pending = <<>>
    BY DEF SnapInv, Ordered
  <2>4. CASE UNCHANGED worker
    <3>1. OthersKept(p) /\ SameJob(p) /\ SameSnapshots(p) /\ worker'[p].lost = worker[p].lost
      BY <2>4 DEF OthersKept, SameJob, SameSnapshots
    <3>2. Proceeds(p)
      BY <2>1, <2>3, <2>4 DEF Proceeds, Loaded
    <3>3. QED
      BY <2>1, <2>2, <3>1, <3>2, ProceedKeeps
  <2>5. CASE LoseLease(p, worker[p].pc) /\ ~LeaseHeld(p)
    BY <2>1, <2>2, <2>3, <2>5, MoveKeeps DEF Loaded
  <2>6. QED
    BY <2>1, <2>4, <2>5
<1>4. ASSUME Return(p)
      PROVE  SnapInv'
  <2>1. UNCHANGED session /\ worker[p].pc = "executing" /\ QuietStep
    BY <1>4 DEF Return, QuietStep
  <2>2. ASSUME NEW o \in Terminal,
               worker' = [worker EXCEPT ![p].pc = "draining", ![p].outcome = o]
        PROVE  SnapInv'
    <3> DEFINE r == [worker[p] EXCEPT !.pc = "draining", !.outcome = o]
    <3>1. worker' = [worker EXCEPT ![p] = r]
      BY <2>2 DEF TypeOK
    <3>2. worker'[p] = r /\ OthersKept(p)
      BY <3>1, SetsWorker
    <3>3. r.pc = "draining" /\ SameRecord(r, p) /\ r.job = worker[p].job /\ r.tok = worker[p].tok
      BY DEF TypeOK, Process, SameRecord
    <3> HIDE DEF r
    <3>4. SameJob(p) /\ SameSnapshots(p) /\ Proceeds(p) /\ worker'[p].lost = worker[p].lost
      BY <2>1, <3>2, <3>3
      DEF SameRecord, SameJob, SameSnapshots, Proceeds, Loaded, InJob
    <3>5. QED
      BY <2>1, <3>2, <3>4, ProceedKeeps
  <2>3. CASE Move(p, "failing")
    BY <2>1, <2>3, MoveKeeps DEF Loaded, InJob
  <2>4. QED
    BY <1>4, <2>2, <2>3 DEF Return
<1>5. ASSUME Abandon(p) \/ Shutdown(p)
      PROVE  SnapInv'
  <2>1. /\ UNCHANGED session /\ worker[p].pc \in InJob /\ QuietStep
        /\ Move(p, "flushing")
    BY <1>5 DEF Abandon, Shutdown, QuietStep, InJob
  <2>2. QED
    BY <2>1, MoveKeeps DEF Loaded
<1>6. ASSUME Join(p)
      PROVE  SnapInv'
  <2>1. /\ UNCHANGED session /\ worker[p].pc = "draining" /\ QuietStep
        /\ worker[p].pending = <<>>
        /\ Move(p, "flushing") \/ Move(p, "finishing")
    BY <1>6 DEF Join, Drained, QuietStep
  <2>2. QED
    BY <2>1, MoveKeeps DEF Loaded, InJob
<1>7. ASSUME Finish(p)
      PROVE  SnapInv'
  <2>1. /\ UNCHANGED session /\ worker[p].pc \in InJob
        /\ Move(p, "flushing") \/ (LoseLease(p, "flushing") /\ ~LeaseHeld(p))
    BY <1>7 DEF Finish, InJob
  <2>2. QuietStep
    BY <1>7, LeaseSteps
  <2>3. QED
    BY <2>1, <2>2, MoveKeeps DEF Loaded
<1>8. QED
  BY <1>1, <1>2, <1>3, <1>4, <1>5, <1>6, <1>7

(* Enqueue and Elapse.                                                     *)
LEMMA ClientSnapshots ==
  ASSUME TypeOK, LeaseInv, SnapInv, NEW w \in Workflows, Enqueue(w) \/ Elapse(w)
  PROVE  SnapInv'
<1>1. QuietStep
  BY ClientSteps
<1>2. UNCHANGED <<session, worker>>
  BY DEF Enqueue, Elapse
<1>3. QED
  BY <1>1, <1>2, StillKeeps

(* A recorded event: the new snapshot is the last one to publish.          *)
LEMMA CheckpointSnapshots ==
  ASSUME TypeOK, LeaseInv, SnapInv, NEW p \in Workers, Checkpoint(p)
  PROVE  SnapInv'
<1> DEFINE n == worker[p].events + 1
           s == worker[p].pending
           r == [worker[p] EXCEPT !.events = n, !.pending = Append(s, n)]
<1>1. /\ worker[p].pc = "executing" /\ n <= MaxEvents /\ UNCHANGED hash /\ QuietStep
      /\ worker' = [worker EXCEPT ![p] = r]
  BY DEF Checkpoint, QuietStep, TypeOK
<1>2. worker'[p] = r /\ OthersKept(p)
  BY <1>1, SetsWorker
<1>3. /\ r.pc = worker[p].pc /\ r.events = n /\ r.pending = Append(s, n)
      /\ r.lost = worker[p].lost /\ r.dropped = worker[p].dropped
      /\ r.job = worker[p].job /\ r.tok = worker[p].tok
  BY DEF TypeOK, Process
<1>4. worker[p] \in Process /\ worker[p].job \in Workflows /\ Ordered(worker[p])
  BY <1>1 DEF TypeOK, SnapInv
<1>5. s \in Seq(Nat) /\ worker[p].events \in Nat /\ n \in Nat
  BY <1>4 DEF Process
<1>6. hash[worker[p].job].snapshot \in Nat
  BY <1>4 DEF TypeOK, Hash
<1> DEFINE t == Append(s, n)
<1>7. /\ Len(s) \in Nat /\ t # <<>> /\ Len(t) = Len(s) + 1
      /\ t[Len(s) + 1] = n /\ \A i \in 1..Len(s) : t[i] = s[i]
  BY <1>5, AppendProperties, LenProperties
<1>8. InOrder(t)
  <2>1. s # <<>> => s[Len(s)] <= n
    BY <1>4, <1>5 DEF Ordered
  <2>2. QED
    BY <1>4, <1>5, <2>1, AppendInOrder DEF Ordered
<1> HIDE DEF r, t
<1>9. Ordered(worker'[p])
  BY <1>1, <1>2, <1>3, <1>7, <1>8 DEF Ordered, InJob, t
<1>10. ASSUME LeaseHeld(p)'
       PROVE  Ahead(worker'[p], hash'[worker'[p].job].snapshot)
  <2> DEFINE m == hash[worker[p].job].snapshot
  <2>1. LeaseHeld(p)
    BY <1>1, <1>2, <1>3, <1>10 DEF LeaseHeld
  <2>2. Ahead(worker[p], m)
    BY <1>1, <2>1 DEF SnapInv, HoldsAhead, Loaded, InJob
  <2>3. ~worker[p].lost /\ m <= worker[p].events /\ \A i \in 1..Len(s) : m <= s[i]
    BY <2>2 DEF Ahead
  <2> HIDE DEF m
  <2>4. m <= n
    BY <1>5, <1>6, <2>3 DEF m
  <2>5. \A i \in 1..Len(t) : m <= t[i]
    <3>1. SUFFICES ASSUME NEW i \in 1..Len(t) PROVE m <= t[i]
      OBVIOUS
    <3>2. i \in 1..Len(s) \/ i = Len(s) + 1
      BY <1>7
    <3>3. QED
      BY <1>7, <2>3, <2>4, <3>2
  <2>6. QED
    BY <1>1, <1>2, <1>3, <1>7, <2>3, <2>4, <2>5 DEF Ahead, m, t
<1>11. \A w \in Workflows : session'[w] <= MaxEvents
  BY <1>1 DEF Checkpoint, SnapInv, Bounded, TypeOK
<1>12. QED
  BY <1>1, <1>2, <1>9, <1>10, <1>11, SnapInvKept

(* A snapshot leaves the queue: it is published, refused or dropped.       *)
LEMMA Pops ==
  ASSUME TypeOK, SnapInv, NEW p \in Workers, worker[p].pending # <<>>,
         worker[p].pc \in InJob \cup {"flushing"},
         NEW gone \in BOOLEAN, NEW failed \in BOOLEAN, PopPending(p, gone, failed)
  PROVE  /\ OthersKept(p) /\ SameJob(p) /\ Ordered(worker'[p])
         /\ worker'[p].pc = worker[p].pc /\ worker'[p].events = worker[p].events
         /\ worker'[p].pending = Tail(worker[p].pending)
         /\ worker'[p].lost = gone /\ worker'[p].dropped = failed
<1> DEFINE s == worker[p].pending
           r == [worker[p] EXCEPT !.pending = Tail(s), !.lost = gone, !.dropped = failed]
<1>1. worker' = [worker EXCEPT ![p] = r]
  BY DEF PopPending, TypeOK
<1>2. worker'[p] = r /\ OthersKept(p)
  BY <1>1, SetsWorker
<1>3. /\ r.pc = worker[p].pc /\ r.events = worker[p].events /\ r.pending = Tail(s)
      /\ r.lost = gone /\ r.dropped = failed
      /\ r.job = worker[p].job /\ r.tok = worker[p].tok
  BY DEF TypeOK, Process
<1>4. s \in Seq(Nat) /\ Ordered(worker[p])
  BY DEF TypeOK, Process, SnapInv
<1>5. InOrder(Tail(s)) /\ (Tail(s) # <<>> => Tail(s)[Len(Tail(s))] = s[Len(s)])
  BY <1>4, TailInOrder DEF Ordered
<1> HIDE DEF r
<1>6. Ordered(worker'[p])
  BY <1>2, <1>3, <1>4, <1>5 DEF Ordered
<1>7. QED
  BY <1>2, <1>3, <1>6 DEF SameJob

(* The snapshot that is published next is ahead of the one in the hash,    *)
(* and the rest is ahead of it.                                            *)
LEMMA NextSnapshot ==
  ASSUME TypeOK, SnapInv, NEW p \in Workers, worker[p].pending # <<>>,
         worker[p].pc \in InJob \cup {"flushing"}
  PROVE  LET s == worker[p].pending IN
         /\ Head(s) \in Nat /\ Head(s) <= worker[p].events
         /\ \A i \in 1..Len(Tail(s)) : Head(s) <= Tail(s)[i]
         /\ Tail(s) = <<>> => Head(s) = worker[p].events
         /\ LeaseHeld(p) => /\ hash[worker[p].job].snapshot <= Head(s)
                            /\ ~worker[p].lost
                            /\ Ahead(worker[p], hash[worker[p].job].snapshot)
<1> DEFINE s == worker[p].pending
           m == hash[worker[p].job].snapshot
<1>1. s \in Seq(Nat) /\ s # <<>> /\ Ordered(worker[p]) /\ HoldsAhead(p)
  BY DEF TypeOK, Process, SnapInv
<1>2. /\ Head(s) = s[1] /\ Head(s) \in Nat /\ Head(s) <= s[Len(s)]
      /\ Tail(s) = <<>> => Len(s) = 1
      /\ \A i \in 1..Len(Tail(s)) : Head(s) <= Tail(s)[i]
  BY <1>1, TailInOrder DEF Ordered
<1>3. s[Len(s)] = worker[p].events
  BY <1>1 DEF Ordered
<1>4. ASSUME LeaseHeld(p)
      PROVE  m <= s[1] /\ ~worker[p].lost /\ Ahead(worker[p], m)
  <2>1. Ahead(worker[p], m)
    BY <1>1, <1>4 DEF HoldsAhead, Loaded
  <2>2. 1 \in 1..Len(s)
    BY <1>1, EmptySeq, LenProperties
  <2>3. QED
    BY <2>1, <2>2 DEF Ahead
<1>5. QED
  BY <1>2, <1>3, <1>4

LEMMA PublishSnapshots ==
  ASSUME TypeOK, LeaseInv, SnapInv, NEW p \in Workers, Publish(p)
  PROVE  SnapInv'
<1> DEFINE w == worker[p].job
           s == worker[p].pending
<1>1. /\ s # <<>> /\ worker[p].pc \in InJob \cup {"flushing"} /\ UNCHANGED session
  BY DEF Publish
<1>2. \A v \in Workflows : session'[v] <= MaxEvents
  BY <1>1 DEF SnapInv, Bounded
<1>3. CASE PopPending(p, FALSE, FALSE) /\ Published(w, p)
  <2>1. /\ OthersKept(p) /\ SameJob(p) /\ Ordered(worker'[p])
        /\ worker'[p].events = worker[p].events /\ worker'[p].pending = Tail(s)
        /\ worker'[p].lost = FALSE
    BY <1>1, <1>3, Pops
  <2>2. hash'[w].snapshot = Head(s)
    BY <1>3, PublishedAt
  <2>3. /\ Head(s) <= worker[p].events
        /\ \A i \in 1..Len(Tail(s)) : Head(s) <= Tail(s)[i]
        /\ Tail(s) = <<>> => Head(s) = worker[p].events
    BY <1>1, NextSnapshot
  <2>4. Ahead(worker'[p], hash'[worker'[p].job].snapshot)
    BY <2>1, <2>2, <2>3 DEF Ahead, SameJob
  <2>5. QED
    BY <1>2, <1>3, <2>1, <2>4, SnapInvKept
<1>4. CASE PopPending(p, TRUE, FALSE) /\ (worker[p].lost \/ ~LeaseHeld(p))
             /\ UNCHANGED <<hash, stream, author>>
  <2>1. OthersKept(p) /\ SameJob(p) /\ Ordered(worker'[p])
    BY <1>1, <1>4, Pops
  <2>2. ~LeaseHeld(p)
    BY <1>1, <1>4, NextSnapshot
  <2>3. ~LeaseHeld(p)'
    BY <1>4, <2>1, <2>2 DEF LeaseHeld, SameJob
  <2>4. QED
    BY <1>2, <1>4, <2>1, <2>3, SnapInvKept DEF QuietStep
<1>5. QED
  BY <1>3, <1>4, PublishStep

LEMMA CallFailsSnapshots ==
  ASSUME TypeOK, LeaseInv, SnapInv, NEW p \in Workers, CallFails(p)
  PROVE  SnapInv'
<1> DEFINE w == worker[p].job
           s == worker[p].pending
<1>1. UNCHANGED <<hash, session>> /\ QuietStep
  BY DEF CallFails, QuietStep
<1>2. CASE /\ worker[p].pc \in InJob \cup {"flushing"} /\ s # <<>> /\ ~worker[p].lost
           /\ PopPending(p, FALSE, TRUE)
  <2>1. /\ OthersKept(p) /\ SameJob(p) /\ Ordered(worker'[p])
        /\ worker'[p].events = worker[p].events /\ worker'[p].pending = Tail(s)
        /\ worker'[p].lost = FALSE /\ worker'[p].dropped = TRUE
    BY <1>2, Pops
  <2>2. ASSUME LeaseHeld(p)'
        PROVE  Ahead(worker'[p], hash'[worker'[p].job].snapshot)
    <3> DEFINE m == hash[w].snapshot
    <3>1. LeaseHeld(p)
      BY <1>1, <2>1, <2>2 DEF LeaseHeld, SameJob
    <3>2. s \in Seq(Nat) /\ Ordered(worker[p]) /\ Ahead(worker[p], m)
      BY <1>2, <3>1, NextSnapshot DEF TypeOK, Process, SnapInv
    <3>3. \A i \in 1..Len(Tail(s)) : i + 1 \in 1..Len(s) /\ Tail(s)[i] = s[i + 1]
      BY <1>2, <3>2, TailInOrder DEF Ordered
    <3>4. m <= worker[p].events /\ \A i \in 1..Len(Tail(s)) : m <= Tail(s)[i]
      BY <3>2, <3>3 DEF Ahead
    <3>5. QED
      BY <1>1, <2>1, <3>4 DEF Ahead, SameJob
  <2>3. \A v \in Workflows : session'[v] <= MaxEvents
    BY <1>1 DEF SnapInv, Bounded
  <2>4. QED
    BY <1>1, <2>1, <2>2, <2>3, SnapInvKept
<1>3. CASE \/ worker[p].pc \in {"starting", "finishing"} /\ Move(p, "failing")
           \/ worker[p].pc = "failing" /\ Move(p, "flushing")
  BY <1>1, <1>3, MoveKeeps DEF Loaded, InJob
<1>4. QED
  BY <1>2, <1>3 DEF CallFails

LEMMA NextSnapshots == TypeOK /\ ScanInv /\ LeaseInv /\ SnapInv /\ [Next]_vars => SnapInv'
<1> SUFFICES ASSUME TypeOK, ScanInv, LeaseInv, SnapInv, [Next]_vars PROVE SnapInv'
  OBVIOUS
<1>1. CASE UNCHANGED vars
  BY <1>1, StillKeeps DEF vars, QuietStep
<1>2. CASE \E w \in Workflows : Enqueue(w) \/ Elapse(w)
  BY <1>2, ClientSnapshots
<1>3. ASSUME NEW p \in Workers, Loop(p)
      PROVE  SnapInv'
  BY <1>3, LoopSnapshots, LoadSnapshots, JobSnapshots DEF Loop
<1>4. ASSUME NEW p \in Workers, Run(p) \/ Heartbeat(p) \/ Checkpoint(p)
      PROVE  SnapInv'
  BY <1>4, LoopSnapshots, JobSnapshots, CheckpointSnapshots, PublishSnapshots DEF Run
<1>5. ASSUME NEW p \in Workers, CallFails(p) \/ Shutdown(p) \/ Crash(p) \/ Restart(p)
      PROVE  SnapInv'
  BY <1>5, LoopSnapshots, JobSnapshots, CallFailsSnapshots
<1>6. QED
  BY <1>1, <1>2, <1>3, <1>4, <1>5 DEF Next

LEMMA SnapshotsInvariant == Spec => []SnapInv
<1>1. Init => SnapInv
  BY JobsAssumption, NoPending
  DEF Init, SnapInv, Bounded, Owned, HoldsAhead, Ordered, Loaded, InJob, NoHash, Idle
<1>2. QED
  BY <1>1, NextSnapshots, TypeCorrect, ScansInvariant, LeasesInvariant, PTL DEF Spec

(* Events that Redis accepted stay while the job lives.                    *)
THEOREM ProgressIsKept == Spec => ProgressKept
<1>1. TypeOK /\ ScanInv /\ SnapInv /\ [Next]_vars
        => [\A w \in Workflows :
              hash[w].status \in {"queued", "running"} /\ hash'[w].status # "absent"
                => hash'[w].snapshot >= hash[w].snapshot]_vars
  <2> SUFFICES ASSUME TypeOK, ScanInv, SnapInv, Next, NEW w \in Workflows,
                      hash[w].status \in {"queued", "running"}, hash'[w].status # "absent"
               PROVE  hash'[w].snapshot >= hash[w].snapshot
    OBVIOUS
  <2>1. JobStep /\ hash[w].snapshot \in Nat
    BY JobSteps DEF TypeOK, Hash
  <2>2. ASSUME NEW v \in Workflows,
               \/ Submitted(v) \/ Granted(v) \/ Renewed(v) \/ Ended(v)
               \/ Requeued(v) \/ Aged(v) \/ Evicted(v)
        PROVE  hash'[w].snapshot = hash[w].snapshot
    <3>1. CASE v = w
      BY <2>2, <3>1, BecomesAt
      DEF Submitted, MayEnqueue, Granted, Renewed, Ended, Requeued, Aged, Evicted
    <3>2. CASE v # w
      BY <2>2, <3>2, BecomesAt
      DEF Submitted, Granted, Renewed, Ended, Requeued, Aged, Evicted
    <3>3. QED
      BY <3>1, <3>2
  <2>3. ASSUME NEW p \in Workers, Published(worker[p].job, p)
        PROVE  hash'[w].snapshot >= hash[w].snapshot
    <3>1. CASE worker[p].job = w
      BY <2>1, <2>3, <3>1, PublishedAt, NextSnapshot
    <3>2. CASE worker[p].job # w
      BY <2>1, <2>3, <3>2, PublishedAt
    <3>3. QED
      BY <3>1, <3>2
  <2>4. QED
    BY <2>1, <2>2, <2>3 DEF JobStep, QuietStep
<1>2. QED
  BY <1>1, TypeCorrect, ScansInvariant, SnapshotsInvariant, PTL DEF Spec, ProgressKept

(* A job is settled with the whole snapshot of its execution.               *)
THEOREM SettledWithSnapshot == Spec => SettledSnapshotComplete
<1>1. TypeOK /\ ScanInv /\ SnapInv /\ [Next]_vars
        => [\A p \in Workers :
              LET w == worker[p].job IN
              worker[p].pc = "finishing" /\ Holds(p) /\ ~worker[p].dropped
                  /\ hash'[w].status \in Terminal
                => hash'[w].snapshot = worker[p].events]_vars
  <2> SUFFICES ASSUME TypeOK, ScanInv, SnapInv, Next, NEW p \in Workers,
                      worker[p].pc = "finishing", Holds(p), ~worker[p].dropped,
                      hash'[worker[p].job].status \in Terminal
               PROVE  hash'[worker[p].job].snapshot = worker[p].events
    OBVIOUS
  <2> DEFINE w == worker[p].job
  <2>1. /\ w \in Workflows /\ JobStep /\ hash[w].status = "running"
    BY JobSteps DEF TypeOK, Holds, LeaseHeld
  <2>2. hash[w].snapshot = worker[p].events
    BY DEF SnapInv, Ordered, HoldsAhead, Ahead, Holds, Loaded, InJob
  <2>3. ASSUME NEW v \in Workflows,
               \/ Submitted(v) \/ Granted(v) \/ Renewed(v) \/ Ended(v)
               \/ Requeued(v) \/ Aged(v) \/ Evicted(v)
        PROVE  hash'[w].snapshot = hash[w].snapshot
    <3>1. PICK s, t, o, n, l :
            /\ Becomes(v, s, t, o, n, l)
            /\ v = w => s = "absent" \/ n = hash[v].snapshot
      BY <2>1, <2>3 DEF Submitted, MayEnqueue, Granted, Renewed, Ended, Requeued, Aged, Evicted
    <3>2. /\ hash'[v].status = s /\ hash'[v].snapshot = n
          /\ \A u \in Workflows \ {v} : hash'[u] = hash[u]
      BY <3>1, BecomesAt
    <3>3. QED
      BY <2>1, <3>1, <3>2 DEF Terminal
  <2>4. ASSUME NEW q \in Workers, Published(worker[q].job, q)
        PROVE  hash'[w] = hash[w]
    BY <2>1, <2>4, PublishedAt DEF Terminal
  <2>5. QED
    BY <2>1, <2>2, <2>3, <2>4 DEF JobStep, QuietStep
<1>2. QED
  BY <1>1, TypeCorrect, ScansInvariant, SnapshotsInvariant, PTL DEF Spec, SettledSnapshotComplete

-----------------------------------------------------------------------------
(* The refinement: a fenced write is a step of the holder (LeaseInv), a    *)
(* recovery revokes the job or changes nothing that JobLifecycle sees.     *)

(* A hash that becomes something is a job that becomes it.                 *)
LEMMA BecomesIsBecome ==
  ASSUME TypeOK, NEW w \in Workflows, NEW s, NEW t, NEW o, NEW n, NEW l, NEW p,
         Becomes(w, s, t, o, n, l), Writer(w, p)
  PROVE  Lifecycle!Become(w, s, o, n, p)
<1>1. /\ hash'[w].status = s /\ hash'[w].owner = o /\ hash'[w].snapshot = n
      /\ \A v \in Workflows \ {w} : hash'[v] = hash[v]
  BY BecomesAt
<1>2. [v \in Workflows |-> hash'[v].status]
        = [[v \in Workflows |-> hash[v].status] EXCEPT ![w] = s]
  BY <1>1
<1>3. [v \in Workflows |-> hash'[v].owner]
        = [[v \in Workflows |-> hash[v].owner] EXCEPT ![w] = o]
  BY <1>1
<1>4. [v \in Workflows |-> hash'[v].snapshot]
        = [[v \in Workflows |-> hash[v].snapshot] EXCEPT ![w] = n]
  BY <1>1
<1>5. QED
  BY <1>2, <1>3, <1>4 DEF Lifecycle!Become, Writer

(* A fenced writer is the holder of the job.                               *)
LEMMA FencedIsHolder ==
  ASSUME TypeOK, LeaseInv, NEW w \in Workflows, NEW p, Fenced(w, p)
  PROVE  hash[w].status = "running" /\ hash[w].owner = p
BY DEF Fenced, LeaseHeld, LeaseInv, Leased, InJob

LEMMA StepImplements ==
  ASSUME TypeOK, LeaseInv, SnapInv, TypeOK', SnapInv', JobStep
  PROVE  [Lifecycle!Next]_(Lifecycle!vars)
<1>0. /\ \A w \in Workflows :
           /\ session[w] \in 0..MaxEvents /\ hash[w].snapshot \in 0..MaxEvents
           /\ hash'[w].snapshot \in 0..MaxEvents
           /\ hash[w].status # "running" => hash[w].owner = NoWorker
           /\ hash[w].snapshot >= hash[w].snapshot
  <2> SUFFICES ASSUME NEW w \in Workflows
               PROVE  /\ session[w] \in 0..MaxEvents /\ hash[w].snapshot \in 0..MaxEvents
                      /\ hash'[w].snapshot \in 0..MaxEvents
                      /\ hash[w].status # "running" => hash[w].owner = NoWorker
                      /\ hash[w].snapshot >= hash[w].snapshot
    OBVIOUS
  <2>1. hash[w] \in Hash /\ hash'[w] \in Hash /\ session[w] \in Nat
    BY DEF TypeOK
  <2>2. hash[w].snapshot \in Nat /\ hash'[w].snapshot \in Nat
    BY <2>1 DEF Hash
  <2>3. session[w] <= MaxEvents /\ hash[w].snapshot <= MaxEvents /\ hash'[w].snapshot <= MaxEvents
    BY DEF SnapInv, Bounded
  <2>4. hash[w].status # "running" => hash[w].owner = NoWorker
    BY DEF SnapInv, Owned
  <2>5. MaxEvents \in Nat
    BY JobsAssumption
  <2> QED
    BY <2>1, <2>2, <2>3, <2>4, <2>5
<1>1. CASE UNCHANGED <<hash, stream, author>>
  BY <1>1 DEF Lifecycle!vars
<1>2. ASSUME NEW w \in Workflows, Submitted(w)
      PROVE  Lifecycle!Next
  <2>1. Lifecycle!Become(w, "queued", NoWorker, session[w], NoWorker)
    BY <1>2, BecomesIsBecome DEF Submitted
  <2>2. hash[w].status \in Lifecycle!Settled \cup {"absent"}
    BY <1>2 DEF Submitted, MayEnqueue, Lifecycle!Settled, TypeOK, Hash, Terminal
  <2>3. Lifecycle!Submit(w)
    BY <1>0, <2>1, <2>2 DEF Lifecycle!Submit
  <2>4. QED
    BY <2>3 DEF Lifecycle!Next
<1>3. ASSUME NEW w \in Workflows, Granted(w)
      PROVE  Lifecycle!Next
  <2>1. PICK p \in Workers, t \in FreshTokens :
          /\ MayClaim(w) /\ Writer(w, NoWorker)
          /\ Becomes(w, "running", t, p, hash[w].snapshot, hash[w].last_sequence)
    BY <1>3 DEF Granted
  <2>2. Lifecycle!Become(w, "running", p, hash[w].snapshot, NoWorker)
    BY <2>1, BecomesIsBecome
  <2>3. Lifecycle!Grant(w)
    BY <2>1, <2>2 DEF Lifecycle!Grant, MayClaim
  <2>4. QED
    BY <2>3 DEF Lifecycle!Next
<1>4. ASSUME NEW w \in Workflows, NEW p \in Workers, NEW n \in 0..MaxEvents, NEW l,
             Fenced(w, p), n >= hash[w].snapshot, Writer(w, p),
             Becomes(w, "running", hash[w].token, hash[w].owner, n, l)
      PROVE  Lifecycle!Next
  <2>1. hash[w].status = "running" /\ hash[w].owner = p
    BY <1>4, FencedIsHolder
  <2>2. Lifecycle!Become(w, "running", hash[w].owner, n, p)
    BY <1>4, BecomesIsBecome
  <2>3. Lifecycle!Advance(w)
    BY <1>4, <2>1, <2>2 DEF Lifecycle!Advance, Lifecycle!Become
  <2>4. QED
    BY <2>3 DEF Lifecycle!Next
<1>5. ASSUME NEW w \in Workflows, Renewed(w)
      PROVE  Lifecycle!Next
  BY <1>0, <1>4, <1>5 DEF Renewed
<1>6. ASSUME NEW p \in Workers, Published(worker[p].job, p)
      PROVE  Lifecycle!Next
  <2> DEFINE w == worker[p].job
  <2>1. w \in Workflows /\ LeaseHeld(p) /\ hash'[w].snapshot = Head(worker[p].pending)
        /\ worker[p].pc \in InJob \cup {"flushing"} /\ worker[p].pending # <<>>
    BY <1>6, PublishedAt
  <2>2. Head(worker[p].pending) >= hash[w].snapshot
    BY <1>0, <2>1, NextSnapshot
  <2>3. Head(worker[p].pending) \in 0..MaxEvents
    BY <1>0, <2>1
  <2>4. QED
    BY <1>4, <1>6, <2>1, <2>2, <2>3 DEF Published
<1>7. ASSUME NEW w \in Workflows, Ended(w)
      PROVE  Lifecycle!Next
  <2>1. PICK p \in Workers, result \in Terminal :
          /\ Fenced(w, p) /\ Writer(w, p)
          /\ Becomes(w, result, NoToken, NoWorker, hash[w].snapshot, hash[w].last_sequence)
    BY <1>7 DEF Ended
  <2>2. hash[w].status = "running" /\ hash[w].owner = p
    BY <2>1, FencedIsHolder
  <2>3. Lifecycle!Become(w, result, NoWorker, hash[w].snapshot, p)
    BY <2>1, BecomesIsBecome
  <2>4. Lifecycle!Settle(w)
    BY <2>2, <2>3 DEF Lifecycle!Settle, Lifecycle!Settled, Terminal, Lifecycle!Become
  <2>5. QED
    BY <2>4 DEF Lifecycle!Next
<1>8. ASSUME NEW w \in Workflows, Evicted(w)
      PROVE  Lifecycle!Next
  <2>1. PICK a : a = author[w]
    OBVIOUS
  <2>2. Writer(w, a) /\ Becomes(w, "absent", NoToken, NoWorker, 0, 0)
    BY <1>8, <2>1 DEF Evicted, Writer, TypeOK
  <2>3. Lifecycle!Become(w, "absent", NoWorker, 0, a)
    BY <2>2, BecomesIsBecome
  <2>4. QED
    BY <2>1, <2>3 DEF Lifecycle!Next, Lifecycle!Forget, Lifecycle!Become
<1>9. ASSUME NEW w \in Workflows, Requeued(w), hash[w].status = "running"
      PROVE  Lifecycle!Next
  <2>1. PICK a : a = author[w]
    OBVIOUS
  <2>2. /\ Writer(w, a)
        /\ Becomes(w, "queued", NoToken, NoWorker, hash[w].snapshot, hash[w].last_sequence)
    BY <1>9, <2>1 DEF Requeued, Writer, TypeOK
  <2>3. Lifecycle!Become(w, "queued", NoWorker, hash[w].snapshot, a)
    BY <2>2, BecomesIsBecome
  <2>4. Lifecycle!Revoke(w)
    BY <1>9, <2>1, <2>3 DEF Lifecycle!Revoke, Lifecycle!Become
  <2>5. QED
    BY <2>4 DEF Lifecycle!Next
<1>10. ASSUME NEW w \in Workflows, Aged(w) \/ (Requeued(w) /\ hash[w].status # "running")
       PROVE  UNCHANGED Lifecycle!vars
  <2>1. /\ hash'[w].status = hash[w].status /\ hash'[w].owner = hash[w].owner
        /\ hash'[w].snapshot = hash[w].snapshot
        /\ \A v \in Workflows \ {w} : hash'[v] = hash[v]
    BY <1>0, <1>10, BecomesAt DEF Aged, Requeued
  <2>2. UNCHANGED author
    BY <1>10 DEF Aged, Requeued
  <2>3. /\ [v \in Workflows |-> hash'[v].status] = [v \in Workflows |-> hash[v].status]
        /\ [v \in Workflows |-> hash'[v].owner] = [v \in Workflows |-> hash[v].owner]
        /\ [v \in Workflows |-> hash'[v].snapshot] = [v \in Workflows |-> hash[v].snapshot]
    BY <2>1
  <2>4. QED
    BY <2>2, <2>3 DEF Lifecycle!vars
<1>11. QED
  BY <1>1, <1>2, <1>3, <1>5, <1>6, <1>7, <1>8, <1>9, <1>10 DEF JobStep, QuietStep

LEMMA InitImplements == Init => Lifecycle!Init
BY DEF Init, Lifecycle!Init, NoHash

(* The queue does what JobLifecycle promises.                              *)
THEOREM QueueImplementsLifecycle == Spec => ImplementsLifecycle
<1>1. TypeOK /\ ScanInv /\ LeaseInv /\ SnapInv /\ TypeOK' /\ SnapInv' /\ [Next]_vars
        => [Lifecycle!Next]_(Lifecycle!vars)
  <2> SUFFICES ASSUME TypeOK, ScanInv, LeaseInv, SnapInv, TypeOK', SnapInv', [Next]_vars
               PROVE  [Lifecycle!Next]_(Lifecycle!vars)
    OBVIOUS
  <2>1. JobStep
    <3>1. CASE UNCHANGED vars
      BY <3>1 DEF vars, JobStep, QuietStep
    <3>2. QED
      BY <3>1, JobSteps
  <2>2. QED
    BY <2>1, StepImplements
<1>2. QED
  BY <1>1, InitImplements, TypeCorrect, ScansInvariant, LeasesInvariant, SnapshotsInvariant, PTL
  DEF Spec, ImplementsLifecycle, Lifecycle!Spec
=============================================================================
