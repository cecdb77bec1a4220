-------------------------- MODULE QuotaResumeProofs --------------------------
(***************************************************************************)
(* Proofs about QuotaResume: type correctness for any number of workers    *)
(* and web processes, and the bound on automatic resumes for the one       *)
(* background worker of a deployment.                                      *)
(***************************************************************************)
EXTENDS QuotaResume, TLAPS

(* The points at which a process holds a reset time or a meta entry; the   *)
(* code writes back what it holds.  TypeOK speaks of the values of read,   *)
(* HoldInv also of its domain.                                             *)
Carrying == {"adding", "storing", "fetched", "moving", "enqueueing", "removing", "counting",
             "spacing", "recording"}

HoldInv ==
  /\ read = [p \in Processes |-> read[p]]
  /\ \A p \in Processes :
       /\ pc[p] = "scheduling" => read[p] \in Resets
       /\ pc[p] \in Carrying => read[p] \in Meta

IInv == TypeOK /\ HoldInv

-----------------------------------------------------------------------------
(* Types.                                                                  *)

(* What a process may hold at a point.                                     *)
Holds(point, value) ==
  /\ IF point \in {"running", "scheduling"} THEN value \in Resets \cup {NoReset}
     ELSE value \in Meta \cup {NoMeta}
  /\ point = "scheduling" => value \in Resets
  /\ point \in Carrying => value \in Meta

(* IInv speaks of every process alike.                                     *)
Globals ==
  /\ alarm \in {"none", "waiting", "due"}
  /\ meta \in Meta \cup {NoMeta}
  /\ job \in {"none", "queued", "running", "settled"}
  /\ carried \in Resets \cup {NoReset} /\ pause \in Resets \cup {NoReset}
  /\ status \in {"none", "running", "succeeded", "failed", "cancelled"}
  /\ manual \in BOOLEAN /\ overwritten \in BOOLEAN
  /\ dispatched \in Nat /\ mishaps \in Nat /\ asked \in Nat

Locals ==
  /\ pc \in [Processes -> Points]
  /\ read = [p \in Processes |-> read[p]]
  /\ \A p \in Processes : Holds(pc[p], read[p])

LEMMA IInvParts == IInv <=> Globals /\ Locals
BY DEF IInv, TypeOK, HoldInv, Globals, Locals, Holds

(* A step moves one process to a point where it may hold what it holds.    *)
LEMMA LocalsKept ==
  ASSUME Locals, NEW p \in Processes, NEW point \in Points, Go(p, point),
         \/ UNCHANGED read /\ Holds(point, read[p])
         \/ \E value : Keep(p, value) /\ Holds(point, value)
  PROVE  Locals'
BY DEF Locals, Go, Keep

LEMMA MetaUpdates ==
  ASSUME NEW m \in Meta, NEW reset \in Resets
  PROVE  /\ m.attempts \in Nat /\ m.reset \in Resets
         /\ Bumped(m) \in Meta /\ Bumped(m).attempts = m.attempts + 1
         /\ [m EXCEPT !.reset = reset] \in Meta
         /\ [m EXCEPT !.reset = reset].attempts = m.attempts
BY DEF Meta, Bumped

(* Runs of the workflow.                                                   *)
LEMMA RunTypes ==
  ASSUME Globals, Locals, NEW p \in Processes
  PROVE  /\ Submit(p) \/ Claim(p) => Globals' /\ Locals'
         /\ Settle(p) => Globals' /\ Locals'
         /\ Schedule(p) => Globals' /\ Locals'
         /\ AddAlarm(p) \/ StoreMeta(p) \/ Close(p) => Globals' /\ Locals'
<1>0. Holds(pc[p], read[p])
  BY DEF Locals
<1>1. ASSUME Submit(p)
      PROVE  Globals' /\ Locals'
  <2>1. Globals'
    BY <1>1, QuotaAssumption DEF Submit, Globals, redis, jobs, history
  <2>2. Go(p, "running") /\ Keep(p, NoReset) /\ "running" \in Points
    BY <1>1 DEF Submit, Call, Points
  <2>3. Holds("running", NoReset)
    BY DEF Holds, Carrying
  <2>4. QED
    BY <2>1, <2>2, <2>3, LocalsKept
<1>2. ASSUME Claim(p)
      PROVE  Globals' /\ Locals'
  <2>1. Globals'
    BY <1>2 DEF Claim, Globals, redis, history, bounds
  <2>2. Go(p, "running") /\ Keep(p, carried) /\ "running" \in Points
    BY <1>2 DEF Claim, Call, Points
  <2>3. Holds("running", carried)
    BY DEF Holds, Carrying, Globals
  <2>4. QED
    BY <2>1, <2>2, <2>3, LocalsKept
<1>3. ASSUME Settle(p)
      PROVE  Globals' /\ Locals'
  <2>1. PICK hit \in Resets \cup {NoReset}, end \in {"succeeded", "failed", "cancelled"} :
          /\ status' = end
          /\ pause' = PauseAfter(p, hit)
          /\ carried' = IF p \in Workers THEN pause' ELSE carried
          /\ manual' = FALSE
          /\ IF pause' = NoReset THEN Keep(p, NoMeta) /\ Go(p, "closing")
             ELSE Keep(p, pause') /\ Go(p, "scheduling")
    BY <1>3 DEF Settle
  <2>2. read[p] \in Resets \cup {NoReset} /\ pause' \in Resets \cup {NoReset}
    BY <1>0, <1>3, <2>1 DEF Settle, At, Holds, PauseAfter
  <2>3. Globals'
    BY <1>3, <2>1, <2>2 DEF Settle, Globals, redis, bounds
  <2>4. "closing" \in Points /\ "scheduling" \in Points
    BY DEF Points, Scheduling
  <2>5. Holds("closing", NoMeta)
    BY DEF Holds, Carrying
  <2>6. CASE pause' = NoReset
    BY <2>1, <2>3, <2>4, <2>5, <2>6, LocalsKept
  <2>7. CASE pause' # NoReset
    <3>1. Keep(p, pause') /\ Go(p, "scheduling") /\ pause' \in Resets
      BY <2>1, <2>2, <2>7
    <3>2. \A reset \in Resets : Holds("scheduling", reset)
      BY DEF Holds, Carrying
    <3>3. QED
      BY <2>3, <2>4, <3>1, <3>2, LocalsKept
  <2>8. QED
    BY <2>3, <2>6, <2>7
<1>4. ASSUME Schedule(p)
      PROVE  Globals' /\ Locals'
  <2>1. Globals'
    BY <1>4 DEF Schedule, Globals, redis, jobs, session, bounds
  <2>2. "closing" \in Points /\ "adding" \in Points
    BY DEF Points, Scheduling
  <2> DEFINE m == [reset |-> read[p], attempts |-> Attempts(read[p])]
  <2>3. read[p] \in Resets
    BY <1>0, <1>4 DEF Schedule, At, Holds
  <2>4. Attempts(read[p]) \in Nat
    BY DEF Attempts, Globals, Meta
  <2>5. Holds("closing", NoMeta) /\ Holds("adding", m)
    BY <2>3, <2>4 DEF Holds, Carrying, Meta
  <2>6. \/ Keep(p, NoMeta) /\ Go(p, "closing")
        \/ Keep(p, m) /\ Go(p, "adding")
    BY <1>4 DEF Schedule
  <2> HIDE DEF m
  <2>7. QED
    BY <2>1, <2>2, <2>5, <2>6, LocalsKept
<1>5. ASSUME AddAlarm(p)
      PROVE  Globals' /\ Locals'
  <2>1. Globals'
    BY <1>5 DEF AddAlarm, Globals, jobs, session, history, bounds
  <2>2. Go(p, "storing") /\ UNCHANGED read /\ "storing" \in Points /\ pc[p] = "adding"
    BY <1>5 DEF AddAlarm, Call, At, Points, Scheduling
  <2>3. Holds("storing", read[p])
    BY <1>0, <2>2 DEF Holds, Carrying
  <2>4. QED
    BY <2>1, <2>2, <2>3, LocalsKept
<1>6. ASSUME StoreMeta(p)
      PROVE  Globals' /\ Locals'
  <2>1. read[p] \in Meta
    BY <1>0, <1>6 DEF StoreMeta, Call, At, Holds, Carrying
  <2>2. Globals'
    BY <1>6, <2>1 DEF StoreMeta, Globals, jobs, session, bounds
  <2>3. Go(p, "closing") /\ Keep(p, NoMeta) /\ "closing" \in Points
    BY <1>6 DEF StoreMeta, Call, Points
  <2>4. Holds("closing", NoMeta)
    BY DEF Holds, Carrying
  <2>5. QED
    BY <2>2, <2>3, <2>4, LocalsKept
<1>7. ASSUME Close(p)
      PROVE  Globals' /\ Locals'
  <2>1. Globals'
    BY <1>7 DEF Close, Globals, redis, session, history, bounds
  <2>2. Go(p, "idle") /\ UNCHANGED read /\ "idle" \in Points /\ pc[p] = "closing"
    BY <1>7 DEF Close, Call, At, Points
  <2>3. Holds("idle", read[p])
    BY <1>0, <2>2 DEF Holds, Carrying
  <2>4. QED
    BY <2>1, <2>2, <2>3, LocalsKept
<1>8. QED
  BY <1>1, <1>2, <1>3, <1>4, <1>5, <1>6, <1>7

(* The scan of a worker.                                                   *)
LEMMA CheckTypes ==
  ASSUME Globals, Locals, NEW w \in Workers
  PROVE  /\ Fetch(w) => Globals' /\ Locals'
         /\ Check(w) => Globals' /\ Locals'
         /\ Handle(w) => Globals' /\ Locals'
<1>0. w \in Processes /\ Holds(pc[w], read[w])
  BY DEF Locals, Processes
<1>1. ASSUME Fetch(w)
      PROVE  Globals' /\ Locals'
  <2>1. Globals'
    BY <1>1 DEF Fetch, Globals, redis, jobs, session, history, bounds
  <2>2. "clearing" \in Points /\ "fetched" \in Points
    BY DEF Points, Scanning
  <2>3. /\ meta = NoMeta => Holds("clearing", meta)
        /\ meta # NoMeta => Holds("fetched", meta)
    BY DEF Holds, Carrying, Globals
  <2>4. /\ Keep(w, meta)
        /\ meta = NoMeta => Go(w, "clearing")
        /\ meta # NoMeta => Go(w, "fetched")
    BY <1>1 DEF Fetch
  <2>5. QED
    BY <1>0, <2>1, <2>2, <2>3, <2>4, LocalsKept
<1>2. ASSUME Check(w)
      PROVE  Globals' /\ Locals'
  <2> DEFINE verdict == Verdict(read[w])
             m == [read[w] EXCEPT !.reset = pause]
  <2>1. /\ read[w] \in Meta /\ pause \in Resets \cup {NoReset}
        /\ manual \in BOOLEAN
    BY <1>0, <1>2 DEF Check, At, Holds, Carrying, Globals
  <2>2. manual' \in BOOLEAN
    BY <1>2 DEF Check
  <2>3. Globals'
    BY <1>2, <2>2 DEF Check, Globals, redis, jobs, session, bounds
  <2>4. verdict \in {"voiding", "moving", "enqueueing"} /\ verdict \in Points
    BY DEF Verdict, Points, Scanning
  <2>5. CASE verdict = "moving"
    <3>1. pause \in Resets
      BY <2>1, <2>5 DEF Verdict
    <3>2. m \in Meta
      BY <2>1, <3>1, MetaUpdates
    <3> HIDE DEF m
    <3>3. Holds("moving", m)
      BY <3>2 DEF Holds, Carrying
    <3>4. Go(w, "moving") /\ Keep(w, m)
      BY <1>2, <2>5 DEF Check, m
    <3>5. QED
      BY <1>0, <2>3, <2>4, <2>5, <3>3, <3>4, LocalsKept
  <2>6. CASE verdict # "moving"
    <3>1. Go(w, verdict) /\ UNCHANGED read
      BY <1>2, <2>6 DEF Check
    <3>2. Holds(verdict, read[w])
      BY <2>1, <2>4, <2>6 DEF Holds, Carrying
    <3> HIDE DEF verdict
    <3>3. QED
      BY <1>0, <2>3, <2>4, <3>1, <3>2, LocalsKept
  <2>7. QED
    BY <2>5, <2>6
<1>3. ASSUME Handle(w)
      PROVE  Globals' /\ Locals'
  <2>1. Globals'
    BY <1>3 DEF Handle, Globals, redis, jobs, session, history, bounds
  <2>2. {"idle", "dropping", "spacing"} \subseteq Points
    BY DEF Points, Handling
  <2>3. CASE meta = NoMeta
    <3>1. Go(w, "idle") /\ Keep(w, NoMeta) /\ Holds("idle", NoMeta)
      BY <1>3, <2>3 DEF Handle, Holds, Carrying
    <3>2. QED
      BY <1>0, <2>1, <2>2, <3>1, LocalsKept
  <2>4. CASE meta # NoMeta
    <3>1. Bumped(meta) \in Meta
      BY <2>4 DEF Globals, Bumped, Meta
    <3>2. Holds("dropping", Bumped(meta)) /\ Holds("spacing", Bumped(meta))
      BY <3>1 DEF Holds, Carrying
    <3>3. Keep(w, Bumped(meta)) /\ (Go(w, "dropping") \/ Go(w, "spacing"))
      BY <1>3, <2>4 DEF Handle
    <3>4. QED
      BY <1>0, <2>1, <2>2, <3>2, <3>3, LocalsKept
  <2>5. QED
    BY <2>3, <2>4
<1>4. QED
  BY <1>1, <1>2, <1>3

LEMMA CallTypes ==
  ASSUME Globals, Locals, NEW w \in Workers
  PROVE  /\ Clear(w) => Globals' /\ Locals'
         /\ Forget(w) => Globals' /\ Locals'
         /\ Move(w) \/ Record(w) => Globals' /\ Locals'
         /\ Enqueue(w) => Globals' /\ Locals'
         /\ Remove(w) \/ Count(w) => Globals' /\ Locals'
<1>0. w \in Processes /\ Holds(pc[w], read[w])
  BY DEF Locals, Processes
<1>1. {"idle", "forgetting", "erasing", "recording", "removing", "counting"} \subseteq Points
  BY DEF Points, Scanning, Handling
<1>2. Holds("idle", NoMeta)
  BY DEF Holds, Carrying
<1>3. ASSUME Clear(w)
      PROVE  Globals' /\ Locals'
  <2>1. manual' \in BOOLEAN
    BY <1>3 DEF Clear, Globals
  <2>2. Globals'
    BY <1>3, <2>1 DEF Clear, Globals, jobs, session, bounds
  <2>3. PICK from \in {"clearing", "voiding", "dropping"}, to \in {"idle", "forgetting", "erasing"} :
          Call(w, from, to)
    BY <1>3 DEF Clear
  <2>4. Go(w, to) /\ UNCHANGED read /\ pc[w] = from /\ to \in Points
    BY <1>1, <1>3, <2>3 DEF Clear, Call, At
  <2>5. Holds(to, read[w])
    BY <1>0, <2>4 DEF Holds, Carrying
  <2>6. QED
    BY <1>0, <2>2, <2>4, <2>5, LocalsKept
<1>4. ASSUME Forget(w)
      PROVE  Globals' /\ Locals'
  <2>1. manual' \in BOOLEAN
    BY <1>4 DEF Forget, Globals
  <2>2. Globals'
    BY <1>4, <2>1 DEF Forget, Globals, jobs, session, bounds
  <2>3. Go(w, "idle") /\ Keep(w, NoMeta)
    BY <1>4 DEF Forget, Call
  <2>4. QED
    BY <1>0, <1>1, <1>2, <2>2, <2>3, LocalsKept
<1>5. ASSUME Move(w)
      PROVE  Globals' /\ Locals'
  <2>1. Globals'
    BY <1>5 DEF Move, Globals, jobs, session, history, bounds
  <2>2. Go(w, "recording") /\ UNCHANGED read /\ pc[w] \in {"moving", "spacing"}
    BY <1>5 DEF Move, Call, At
  <2>3. Holds("recording", read[w])
    BY <1>0, <2>2 DEF Holds, Carrying
  <2>4. QED
    BY <1>0, <1>1, <2>1, <2>2, <2>3, LocalsKept
<1>6. ASSUME Record(w) \/ Count(w)
      PROVE  Globals' /\ Locals'
  <2>1. read[w] \in Meta
    BY <1>0, <1>6 DEF Record, Count, Call, At, Holds, Carrying
  <2>2. meta' \in Meta
    BY <1>6, <2>1 DEF Record, Count, Counted, Bumped, Meta
  <2>3. Globals'
    BY <1>6, <2>2 DEF Record, Count, Globals, jobs, session, history, bounds
  <2>4. Go(w, "idle") /\ Keep(w, NoMeta)
    BY <1>6 DEF Record, Count, Call
  <2>5. QED
    BY <1>0, <1>1, <1>2, <2>3, <2>4, LocalsKept
<1>7. ASSUME Enqueue(w)
      PROVE  Globals' /\ Locals'
  <2>1. Globals'
    BY <1>7 DEF Enqueue, Enqueued, Globals, redis, session, bounds
  <2>2. Go(w, "removing") /\ UNCHANGED read /\ pc[w] = "enqueueing"
    BY <1>7 DEF Enqueue, Call, At
  <2>3. Holds("removing", read[w])
    BY <1>0, <2>2 DEF Holds, Carrying
  <2>4. QED
    BY <1>0, <1>1, <2>1, <2>2, <2>3, LocalsKept
<1>8. ASSUME Remove(w)
      PROVE  Globals' /\ Locals'
  <2>1. Globals'
    BY <1>8 DEF Remove, Globals, jobs, session, history, bounds
  <2>2. Go(w, "counting") /\ UNCHANGED read /\ pc[w] = "removing"
    BY <1>8 DEF Remove, Call, At
  <2>3. Holds("counting", read[w])
    BY <1>0, <2>2 DEF Holds, Carrying
  <2>4. QED
    BY <1>0, <1>1, <2>1, <2>2, <2>3, LocalsKept
<1>9. QED
  BY <1>3, <1>4, <1>5, <1>6, <1>7, <1>8

(* Failures.                                                               *)
LEMMA FailureTypes ==
  ASSUME Globals, Locals, NEW p \in Processes
  PROVE  /\ p \in Workers => (ScanFails(p) => Globals' /\ Locals')
         /\ LoadFails(p) \/ HandlerFails(p) => Globals' /\ Locals'
         /\ ScheduleFails(p) \/ Crash(p) \/ Restart(p) => Globals' /\ Locals'
<1>0. Holds(pc[p], read[p])
  BY DEF Locals
<1>1. {"idle", "down", "handling", "voiding", "closing"} \subseteq Points
  BY DEF Points, Scanning, Handling
<1>2. /\ Holds("idle", NoMeta) /\ Holds("down", NoMeta) /\ Holds("handling", NoMeta)
      /\ Holds("closing", NoMeta)
  BY DEF Holds, Carrying
<1>3. Mishap => mishaps' \in Nat /\ asked' \in Nat
  BY DEF Mishap, Globals
<1>4. ASSUME ScanFails(p)
      PROVE  Globals' /\ Locals'
  <2>1. Globals'
    BY <1>3, <1>4 DEF ScanFails, Enqueued, Globals, redis, jobs, session, history
  <2>2. Go(p, "handling") /\ Keep(p, NoMeta)
    BY <1>4 DEF ScanFails
  <2>3. QED
    BY <1>1, <1>2, <2>1, <2>2, LocalsKept
<1>5. ASSUME LoadFails(p)
      PROVE  Globals' /\ Locals'
  <2>1. Globals'
    BY <1>3, <1>5 DEF LoadFails, Globals, redis, jobs, session
  <2>2. Go(p, "voiding") /\ UNCHANGED read /\ pc[p] = "fetched"
    BY <1>5 DEF LoadFails, Call, At
  <2>3. Holds("voiding", read[p])
    BY <1>0, <2>2 DEF Holds, Carrying
  <2>4. QED
    BY <1>1, <2>1, <2>2, <2>3, LocalsKept
<1>6. ASSUME HandlerFails(p)
      PROVE  Globals' /\ Locals'
  <2>1. manual' \in BOOLEAN
    BY <1>6 DEF HandlerFails, Globals
  <2>2. Globals'
    BY <1>3, <1>6, <2>1 DEF HandlerFails, Globals, redis, jobs, session
  <2>3. Go(p, "idle") /\ Keep(p, NoMeta)
    BY <1>6 DEF HandlerFails
  <2>4. QED
    BY <1>1, <1>2, <2>2, <2>3, LocalsKept
<1>7. ASSUME ScheduleFails(p)
      PROVE  Globals' /\ Locals'
  <2>1. Globals'
    BY <1>3, <1>7 DEF ScheduleFails, Globals, redis, jobs, session
  <2>2. Go(p, "closing") /\ Keep(p, NoMeta)
    BY <1>7 DEF ScheduleFails
  <2>3. QED
    BY <1>1, <1>2, <2>1, <2>2, LocalsKept
<1>8. ASSUME Crash(p)
      PROVE  Globals' /\ Locals'
  <2>1. manual' \in BOOLEAN
    BY <1>8 DEF Crash, Globals
  <2>2. Globals'
    BY <1>3, <1>8, <2>1 DEF Crash, Globals, redis, jobs, session
  <2>3. Go(p, "down") /\ Keep(p, NoMeta)
    BY <1>8 DEF Crash
  <2>4. QED
    BY <1>1, <1>2, <2>2, <2>3, LocalsKept
<1>9. ASSUME Restart(p)
      PROVE  Globals' /\ Locals'
  <2>1. Globals'
    BY <1>9 DEF Restart, Globals, redis, jobs, session, history, bounds
  <2>2. Go(p, "idle") /\ UNCHANGED read /\ pc[p] = "down"
    BY <1>9 DEF Restart, Call, At
  <2>3. Holds("idle", read[p])
    BY <1>0, <2>2 DEF Holds, Carrying
  <2>4. QED
    BY <1>1, <2>1, <2>2, <2>3, LocalsKept
<1>10. QED
  BY <1>4, <1>5, <1>6, <1>7, <1>8, <1>9

LEMMA NextTypes == IInv /\ [Next]_vars => IInv'
<1> SUFFICES ASSUME Globals, Locals, [Next]_vars PROVE Globals' /\ Locals'
  BY IInvParts DEF IInv, TypeOK, HoldInv, Globals, Locals, Holds
<1>1. CASE UNCHANGED vars
  BY <1>1 DEF vars, redis, jobs, session, history, bounds, Globals, Locals
<1>2. ASSUME NEW p \in Processes,
             Submit(p) \/ Run(p) \/ ScheduleFails(p) \/ Crash(p) \/ Restart(p)
      PROVE  Globals' /\ Locals'
  BY <1>2, RunTypes, FailureTypes DEF Run
<1>3. ASSUME NEW w \in Workers, Scan(w) \/ ScanFails(w) \/ LoadFails(w) \/ HandlerFails(w)
      PROVE  Globals' /\ Locals'
  <2>1. w \in Processes
    BY DEF Processes
  <2>2. QED
    BY <1>3, <2>1, CheckTypes, CallTypes, FailureTypes DEF Scan
<1>4. CASE Recover \/ Ring \/ Resume
  <2>1. Globals'
    BY <1>4 DEF Recover, Ring, Resume, Enqueued, Globals, redis, jobs, session, history, bounds
  <2>2. UNCHANGED <<pc, read>>
    BY <1>4 DEF Recover, Ring, Resume
  <2>3. QED
    BY <2>1, <2>2 DEF Locals
<1>5. QED
  BY <1>1, <1>2, <1>3, <1>4 DEF Next

(* Every variable keeps its type, and no process writes back anything but  *)
(* a meta entry.                                                           *)
LEMMA Invariant == Spec => []IInv
<1>1. Init => IInv
  <2> SUFFICES ASSUME Init PROVE Globals /\ Locals
    BY IInvParts
  <2>1. Globals
    BY DEF Init, Globals
  <2>2. Holds("idle", NoMeta) /\ "idle" \in Points
    BY DEF Holds, Carrying, Points
  <2>3. Locals
    BY <2>2 DEF Init, Locals
  <2>4. QED
    BY <2>1, <2>3
<1>2. QED
  BY <1>1, NextTypes, PTL DEF Spec

(* Every variable keeps its type, for any number of processes; a process   *)
(* holds at each point what its next call of Redis needs.                  *)
THEOREM TypeCorrect ==
  Spec => []TypeOK
<1>1. IInv => TypeOK
  BY DEF IInv
<1>2. QED
  BY <1>1, Invariant, PTL

-----------------------------------------------------------------------------
(* The bound on resumes.  The count that a scan has read, or that the hash *)
(* has, is behind the resumes by one between the enqueue and its write,    *)
(* and by one more for each mishap.                                        *)

(* The deployment runs one background worker.  Two of them could both read *)
(* the count before either has written it.                                 *)
OneWorker == \A v, w \in Workers : v = w

Resumed == {"removing", "counting"}

(* The count of the entry is one behind while a resume is not counted.     *)
Uncounted == \E w \in Workers : pc[w] \in Resumed

Bounded == dispatched <= MAX_RESUME_ATTEMPTS + mishaps

MetaCounts ==
  meta # NoMeta =>
    /\ dispatched <= meta.attempts + mishaps + 1
    /\ ~Uncounted => dispatched <= meta.attempts + mishaps

ScanCounts(w) ==
  /\ pc[w] \in {"fetched", "moving", "enqueueing", "spacing", "recording"}
       => dispatched <= read[w].attempts + mishaps
  /\ pc[w] \in Resumed => dispatched <= read[w].attempts + mishaps + 1
  /\ pc[w] \in {"enqueueing"} \cup Resumed => read[w].attempts < MAX_RESUME_ATTEMPTS

CountInv == ~overwritten => Bounded /\ MetaCounts /\ \A w \in Workers : ScanCounts(w)

(* A step that counts nothing and dispatches nothing, of a process that is *)
(* not between a resume and its count.                                     *)
Quiet ==
  /\ UNCHANGED <<meta, overwritten, dispatched>>
  /\ mishaps' \in Nat /\ mishaps' >= mishaps

(* Uncounted in terms of the one worker.                                   *)
LEMMA UncountedIs ==
  ASSUME OneWorker, NEW w \in Workers
  PROVE  /\ Uncounted <=> pc[w] \in Resumed
         /\ Uncounted' <=> pc'[w] \in Resumed
BY DEF OneWorker, Uncounted

(* No worker moves, or the worker goes to a point where it holds no count: *)
(* what is missing has become a mishap.                                    *)
LEMMA QuietKeeps ==
  ASSUME OneWorker, IInv, CountInv, Quiet,
         \A w \in Workers :
           \/ pc'[w] = pc[w] /\ read'[w] = read[w]
           \/ /\ pc'[w] \notin {"fetched", "moving", "enqueueing", "spacing", "recording"} \cup Resumed
              /\ pc[w] \in Resumed => mishaps' = mishaps + 1
  PROVE  CountInv'
<1> SUFFICES ASSUME ~overwritten
             PROVE  Bounded' /\ MetaCounts' /\ \A w \in Workers : ScanCounts(w)'
  BY DEF CountInv, Quiet
<1>1. /\ dispatched \in Nat /\ mishaps \in Nat /\ MAX_RESUME_ATTEMPTS \in Nat
      /\ mishaps' \in Nat /\ mishaps' >= mishaps
      /\ meta' = meta /\ dispatched' = dispatched
  BY QuotaAssumption DEF IInv, TypeOK, Quiet
<1>2. Bounded /\ MetaCounts /\ \A w \in Workers : ScanCounts(w)
  BY DEF CountInv
<1>3. Bounded'
  <2>1. dispatched <= MAX_RESUME_ATTEMPTS + mishaps
    BY <1>2 DEF Bounded
  <2>2. dispatched <= MAX_RESUME_ATTEMPTS + mishaps'
    BY <1>1, <2>1
  <2>3. QED
    BY <1>1, <2>2 DEF Bounded
<1>4. Uncounted /\ ~Uncounted' => mishaps' = mishaps + 1
  BY UncountedIs DEF Uncounted
<1>5. MetaCounts'
  <2>1. SUFFICES ASSUME meta # NoMeta
                 PROVE  /\ dispatched <= meta.attempts + mishaps' + 1
                        /\ ~Uncounted' => dispatched <= meta.attempts + mishaps'
    BY <1>1 DEF MetaCounts
  <2>2. /\ meta.attempts \in Nat /\ dispatched <= meta.attempts + mishaps + 1
        /\ ~Uncounted => dispatched <= meta.attempts + mishaps
    BY <1>2, <2>1 DEF MetaCounts, IInv, TypeOK, Meta
  <2>3. dispatched <= meta.attempts + mishaps' + 1
    BY <1>1, <2>2
  <2>4. ASSUME ~Uncounted'
        PROVE  dispatched <= meta.attempts + mishaps'
    <3>1. CASE Uncounted
      BY <1>1, <1>4, <2>2, <2>4, <3>1
    <3>2. CASE ~Uncounted
      BY <1>1, <2>2, <3>2
    <3>3. QED
      BY <3>1, <3>2
  <2>5. QED
    BY <2>3, <2>4
<1>6. ASSUME NEW w \in Workers
      PROVE  ScanCounts(w)'
  <2>1. CASE pc'[w] = pc[w] /\ read'[w] = read[w]
    <3>1. pc[w] \in Carrying => read[w].attempts \in Nat
      BY DEF IInv, HoldInv, Processes, Meta
    <3>2. QED
      BY <1>1, <1>2, <2>1, <3>1 DEF ScanCounts, Carrying, Resumed
  <2>2. CASE pc'[w] \notin {"fetched", "moving", "enqueueing", "spacing", "recording"} \cup Resumed
    BY <2>2 DEF ScanCounts
  <2>3. QED
    BY <2>1, <2>2
<1>7. QED
  BY <1>3, <1>5, <1>6

LEMMA Values ==
  ASSUME IInv
  PROVE  /\ dispatched \in Nat /\ mishaps \in Nat /\ MAX_RESUME_ATTEMPTS \in Nat
         /\ meta # NoMeta => meta \in Meta /\ meta.attempts \in Nat
         /\ pc \in [Processes -> Points] /\ Workers \subseteq Processes
         /\ read = [p \in Processes |-> read[p]]
         /\ \A p \in Processes :
              pc[p] \in Carrying => read[p] \in Meta /\ read[p].attempts \in Nat
BY QuotaAssumption DEF IInv, TypeOK, HoldInv, Meta, Processes

(* A quiet step of one process.                                            *)
LEMMA QuietMove ==
  ASSUME OneWorker, IInv, CountInv, Quiet, NEW p \in Processes, NEW point, Go(p, point),
         UNCHANGED read \/ \E value : Keep(p, value),
         point \notin {"fetched", "moving", "enqueueing", "spacing", "recording"} \cup Resumed,
         pc[p] \in Resumed => mishaps' = mishaps + 1
  PROVE  CountInv'
<1>1. ASSUME NEW w \in Workers, w # p
      PROVE  pc'[w] = pc[w] /\ read'[w] = read[w]
  BY <1>1, Values DEF Go, Keep
<1>2. pc'[p] = point
  BY Values DEF Go
<1>3. QED
  BY <1>1, <1>2, QuietKeeps

(* A step of the one worker.                                               *)
LEMMA WorkerCounts ==
  ASSUME OneWorker, NEW w \in Workers,
         ~overwritten' => Bounded' /\ MetaCounts' /\ ScanCounts(w)'
  PROVE  CountInv'
BY DEF OneWorker, CountInv

(* Runs: only the entry that a schedule writes is of concern.              *)
LEMMA RunCounts ==
  ASSUME OneWorker, IInv, CountInv, NEW p \in Processes
  PROVE  /\ Submit(p) \/ Run(p) => CountInv'
         /\ ScheduleFails(p) \/ Crash(p) \/ Restart(p) => CountInv'
<1>0. /\ dispatched \in Nat /\ mishaps \in Nat /\ MAX_RESUME_ATTEMPTS \in Nat
      /\ mishaps + 1 >= mishaps /\ mishaps >= mishaps /\ mishaps + 1 \in Nat
  BY Values
<1>1. ASSUME Submit(p) \/ Claim(p)
      PROVE  CountInv'
  <2>1. Quiet /\ Go(p, "running") /\ (\E value : Keep(p, value)) /\ pc[p] = "idle"
    BY <1>0, <1>1 DEF Submit, Claim, Call, At, Quiet, redis, history, bounds
  <2>2. QED
    BY <2>1, QuietMove DEF Resumed
<1>2. ASSUME Settle(p)
      PROVE  CountInv'
  <2>1. /\ Quiet /\ pc[p] = "running" /\ \E value : Keep(p, value)
        /\ Go(p, "closing") \/ Go(p, "scheduling")
    BY <1>0, <1>2 DEF Settle, At, Quiet, redis, bounds
  <2>2. QED
    BY <2>1, QuietMove DEF Resumed
<1>3. ASSUME Schedule(p)
      PROVE  CountInv'
  <2>1. /\ Quiet /\ pc[p] = "scheduling" /\ \E value : Keep(p, value)
        /\ Go(p, "closing") \/ Go(p, "adding")
    BY <1>0, <1>3 DEF Schedule, At, Quiet, redis, bounds
  <2>2. QED
    BY <2>1, QuietMove DEF Resumed
<1>4. ASSUME AddAlarm(p) \/ Close(p) \/ Restart(p)
      PROVE  CountInv'
  <2>1. /\ Quiet /\ pc[p] \in {"adding", "closing", "down"} /\ UNCHANGED read
        /\ Go(p, "storing") \/ Go(p, "idle")
    BY <1>0, <1>4 DEF AddAlarm, Close, Restart, Call, At, Quiet, redis, history, bounds
  <2>2. QED
    BY <2>1, QuietMove DEF Resumed
<1>5. ASSUME ScheduleFails(p)
      PROVE  CountInv'
  <2>1. /\ Quiet /\ pc[p] \in Scheduling /\ Keep(p, NoMeta)
        /\ Go(p, "closing")
    BY <1>0, <1>5 DEF ScheduleFails, Mishap, Quiet, redis
  <2>2. QED
    BY <2>1, QuietMove DEF Resumed, Scheduling
<1>6. ASSUME Crash(p)
      PROVE  CountInv'
  <2>1. Quiet /\ Keep(p, NoMeta) /\ Go(p, "down") /\ mishaps' = mishaps + 1
    BY <1>0, <1>6 DEF Crash, Mishap, Quiet, redis
  <2>2. QED
    BY <2>1, QuietMove DEF Resumed
<1>7. ASSUME StoreMeta(p)
      PROVE  CountInv'
  <2> DEFINE m == read[p]
  <2>1. /\ pc[p] = "storing" /\ Go(p, "closing") /\ Keep(p, NoMeta) /\ meta' = m
        /\ overwritten' = (overwritten \/ Attempts(m.reset) # m.attempts)
        /\ dispatched' = IF m.attempts = 0 THEN 0 ELSE dispatched
        /\ UNCHANGED mishaps
    BY <1>7 DEF StoreMeta, Call, At, bounds
  <2>2. m \in Meta /\ m.attempts \in Nat
    BY <2>1, Values DEF Carrying
  <2>3. SUFFICES ASSUME ~overwritten'
                 PROVE  Bounded' /\ MetaCounts' /\ \A w \in Workers : ScanCounts(w)'
    BY DEF CountInv
  <2>4. /\ Bounded /\ MetaCounts /\ \A w \in Workers : ScanCounts(w)
        /\ Attempts(m.reset) = m.attempts
    BY <2>1, <2>3 DEF CountInv
  <2>5. dispatched' \in {0, dispatched} /\ dispatched' <= dispatched /\ dispatched' \in Nat
    BY <1>0, <2>1
  <2>6. Bounded'
    <3>1. dispatched' <= MAX_RESUME_ATTEMPTS + mishaps
      BY <1>0, <2>4, <2>5 DEF Bounded
    <3>2. QED
      BY <2>1, <3>1 DEF Bounded
  <2>7. ASSUME NEW w \in Workers
        PROVE  ScanCounts(w)' /\ (pc'[w] \in Resumed <=> pc[w] \in Resumed)
    <3>1. CASE w = p
      <4>1. pc'[w] = "closing"
        BY <2>1, <3>1, Values DEF Go
      <4>2. QED
        BY <2>1, <3>1, <4>1 DEF ScanCounts, Resumed
    <3>2. CASE w # p
      <4>1. pc'[w] = pc[w] /\ read'[w] = read[w]
        BY <2>1, <3>2, Values DEF Go, Keep
      <4>2. pc[w] \in Carrying => read[w].attempts \in Nat
        BY Values
      <4>3. ScanCounts(w)
        BY <2>4
      <4>4. QED
        BY <1>0, <2>1, <2>5, <4>1, <4>2, <4>3 DEF ScanCounts, Carrying, Resumed
    <3>3. QED
      BY <3>1, <3>2
  <2>8. Uncounted' <=> Uncounted
    BY <2>7 DEF Uncounted
  <2>9. MetaCounts'
    <3>1. CASE m.attempts = 0
      <4>1. dispatched' = 0
        BY <2>1, <3>1
      <4>2. 0 <= m.attempts + mishaps /\ 0 <= m.attempts + mishaps + 1
        BY <1>0, <2>2
      <4>3. QED
        BY <2>1, <4>1, <4>2 DEF MetaCounts
    <3>2. CASE m.attempts # 0
      <4>1. meta # NoMeta /\ meta.attempts = m.attempts /\ dispatched' = dispatched
        BY <2>1, <2>4, <3>2 DEF Attempts
      <4>2. QED
        BY <2>1, <2>4, <2>8, <4>1 DEF MetaCounts
    <3>3. QED
      BY <3>1, <3>2
  <2>10. QED
    BY <2>6, <2>7, <2>9
<1>8. QED
  BY <1>1, <1>2, <1>3, <1>4, <1>5, <1>6, <1>7 DEF Run

(* What a worker that is not between a resume and its count can rely on.   *)
LEMMA ScanCountsAre ==
  ASSUME OneWorker, IInv, CountInv, ~overwritten, NEW w \in Workers
  PROVE  /\ Bounded /\ ScanCounts(w)
         /\ meta # NoMeta => dispatched <= meta.attempts + mishaps + 1
         /\ meta # NoMeta /\ pc[w] \notin Resumed => dispatched <= meta.attempts + mishaps
BY UncountedIs DEF CountInv, MetaCounts

LEMMA CheckCounts ==
  ASSUME OneWorker, IInv, CountInv, NEW w \in Workers
  PROVE  /\ Fetch(w) => CountInv'
         /\ Check(w) => CountInv'
         /\ Handle(w) => CountInv'
<1>0. /\ dispatched \in Nat /\ mishaps \in Nat /\ MAX_RESUME_ATTEMPTS \in Nat
      /\ w \in Processes /\ mishaps >= mishaps
  BY Values
<1>1. ASSUME Fetch(w)
      PROVE  CountInv'
  <2>1. /\ Quiet /\ pc[w] = "idle" /\ Keep(w, meta) /\ UNCHANGED <<meta, mishaps>>
        /\ meta = NoMeta => Go(w, "clearing")
        /\ meta # NoMeta => Go(w, "fetched")
    BY <1>0, <1>1 DEF Fetch, At, Quiet, redis, history, bounds
  <2>2. CASE meta = NoMeta
    BY <1>0, <2>1, <2>2, QuietMove DEF Resumed
  <2>3. CASE meta # NoMeta
    <3>1. pc'[w] = "fetched" /\ read'[w] = meta
      BY <1>0, <2>1, <2>3, Values DEF Go, Keep
    <3>2. SUFFICES ASSUME ~overwritten' PROVE Bounded' /\ MetaCounts' /\ ScanCounts(w)'
      BY WorkerCounts
    <3>3. Bounded /\ dispatched <= meta.attempts + mishaps /\ meta.attempts \in Nat
      BY <2>1, <2>3, <3>2, ScanCountsAre, Values DEF Quiet, Resumed
    <3>4. dispatched' = dispatched /\ mishaps' = mishaps /\ meta' = meta
      BY <2>1 DEF Quiet
    <3>5. dispatched <= meta.attempts + mishaps + 1
      BY <1>0, <3>3
    <3>6. Bounded' /\ MetaCounts'
      BY <3>3, <3>4, <3>5 DEF Bounded, MetaCounts
    <3>7. ScanCounts(w)'
      BY <3>1, <3>3, <3>4 DEF ScanCounts, Resumed
    <3>8. QED
      BY <3>6, <3>7
  <2>4. QED
    BY <2>2, <2>3
<1>2. ASSUME Check(w)
      PROVE  CountInv'
  <2> DEFINE verdict == Verdict(read[w])
  <2>1. /\ Quiet /\ pc[w] = "fetched" /\ Go(w, verdict) /\ UNCHANGED <<meta, mishaps>>
        /\ IF verdict = "moving" THEN Keep(w, [read[w] EXCEPT !.reset = pause])
           ELSE UNCHANGED read
    BY <1>0, <1>2 DEF Check, At, Quiet, redis, bounds
  <2>2. /\ verdict \in {"voiding", "moving", "enqueueing"}
        /\ verdict = "enqueueing" => ~(read[w].attempts >= MAX_RESUME_ATTEMPTS)
        /\ verdict = "moving" => pause # NoReset
    BY DEF Verdict
  <2>3. read[w] \in Meta /\ read[w].attempts \in Nat
    BY <1>0, <2>1, Values DEF Carrying
  <2> HIDE DEF verdict
  <2>4. CASE verdict = "voiding"
    BY <1>0, <2>1, <2>4, QuietMove DEF Resumed
  <2>5. CASE verdict # "voiding"
    <3>1. pc'[w] = verdict /\ read'[w].attempts = read[w].attempts
      <4>1. CASE verdict = "moving"
        <5>1. pause \in Resets
          BY <2>2, <4>1 DEF IInv, TypeOK
        <5>2. [read[w] EXCEPT !.reset = pause].attempts = read[w].attempts
          BY <2>3, <5>1, MetaUpdates
        <5>3. QED
          BY <1>0, <2>1, <4>1, <5>2, Values DEF Go, Keep
      <4>2. CASE verdict # "moving"
        BY <1>0, <2>1, <4>2, Values DEF Go
      <4>3. QED
        BY <4>1, <4>2
    <3>2. SUFFICES ASSUME ~overwritten' PROVE Bounded' /\ MetaCounts' /\ ScanCounts(w)'
      BY WorkerCounts
    <3>3. /\ Bounded /\ ScanCounts(w)
          /\ meta # NoMeta => dispatched <= meta.attempts + mishaps
          /\ meta # NoMeta => dispatched <= meta.attempts + mishaps + 1
      BY <2>1, <3>2, ScanCountsAre DEF Quiet, Resumed
    <3>4. dispatched' = dispatched /\ mishaps' = mishaps /\ meta' = meta
      BY <2>1 DEF Quiet
    <3>5. dispatched <= read[w].attempts + mishaps
      BY <2>1, <3>3 DEF ScanCounts
    <3>6. Bounded' /\ MetaCounts'
      BY <3>3, <3>4 DEF Bounded, MetaCounts
    <3>7. verdict = "enqueueing" => read[w].attempts < MAX_RESUME_ATTEMPTS
      BY <1>0, <2>2, <2>3
    <3>8. ScanCounts(w)'
      BY <2>2, <2>5, <3>1, <3>4, <3>5, <3>7 DEF ScanCounts, Resumed
    <3>9. QED
      BY <3>6, <3>8
  <2>6. QED
    BY <2>4, <2>5
<1>3. ASSUME Handle(w)
      PROVE  CountInv'
  <2>1. /\ Quiet /\ pc[w] = "handling" /\ UNCHANGED <<meta, mishaps>>
        /\ \E value : Keep(w, value)
        /\ \/ Go(w, "idle") \/ Go(w, "dropping")
           \/ meta # NoMeta /\ Go(w, "spacing") /\ Keep(w, Bumped(meta))
    BY <1>0, <1>3 DEF Handle, At, Quiet, redis, history, bounds
  <2>2. CASE Go(w, "idle") \/ Go(w, "dropping")
    BY <1>0, <2>1, <2>2, QuietMove DEF Resumed
  <2>3. CASE meta # NoMeta /\ Go(w, "spacing") /\ Keep(w, Bumped(meta))
    <3>1. /\ pc'[w] = "spacing" /\ read'[w] = Bumped(meta)
          /\ meta.attempts \in Nat /\ Bumped(meta).attempts = meta.attempts + 1
      BY <1>0, <2>3, Values DEF Go, Keep, Bumped, Meta
    <3>2. SUFFICES ASSUME ~overwritten' PROVE Bounded' /\ MetaCounts' /\ ScanCounts(w)'
      BY WorkerCounts
    <3>3. /\ Bounded /\ dispatched <= meta.attempts + mishaps
      BY <2>1, <2>3, <3>2, ScanCountsAre DEF Quiet, Resumed
    <3>4. dispatched' = dispatched /\ mishaps' = mishaps /\ meta' = meta
      BY <2>1 DEF Quiet
    <3>5. dispatched <= meta.attempts + mishaps + 1 /\ dispatched <= (meta.attempts + 1) + mishaps
      BY <1>0, <3>1, <3>3
    <3>6. Bounded' /\ MetaCounts'
      BY <3>3, <3>4, <3>5 DEF Bounded, MetaCounts
    <3>7. ScanCounts(w)'
      BY <3>1, <3>4, <3>5 DEF ScanCounts, Resumed
    <3>8. QED
      BY <3>6, <3>7
  <2>4. QED
    BY <2>1, <2>2, <2>3
<1>4. QED
  BY <1>1, <1>2, <1>3

LEMMA CallCounts ==
  ASSUME OneWorker, IInv, CountInv, NEW w \in Workers
  PROVE  /\ Clear(w) => CountInv'
         /\ Forget(w) => CountInv'
         /\ Move(w) \/ Remove(w) => CountInv'
         /\ Record(w) \/ Count(w) => CountInv'
         /\ Enqueue(w) => CountInv'
<1>0. /\ dispatched \in Nat /\ mishaps \in Nat /\ MAX_RESUME_ATTEMPTS \in Nat
      /\ w \in Processes /\ mishaps >= mishaps
  BY Values
<1>1. ASSUME Clear(w)
      PROVE  CountInv'
  <2>1. /\ Quiet /\ pc[w] \in {"clearing", "voiding", "dropping"} /\ UNCHANGED read
        /\ Go(w, "idle") \/ Go(w, "forgetting") \/ Go(w, "erasing")
    BY <1>0, <1>1 DEF Clear, Call, At, Quiet, bounds
  <2>2. QED
    BY <1>0, <2>1, QuietMove DEF Resumed
<1>2. ASSUME Forget(w)
      PROVE  CountInv'
  <2>1. /\ pc'[w] = "idle" /\ meta' = NoMeta
        /\ UNCHANGED <<dispatched, overwritten, mishaps>>
    BY <1>0, <1>2, Values DEF Forget, Call, Go, bounds
  <2>2. SUFFICES ASSUME ~overwritten' PROVE Bounded' /\ MetaCounts' /\ ScanCounts(w)'
    BY WorkerCounts
  <2>3. QED
    BY <2>1, <2>2, ScanCountsAre DEF Bounded, MetaCounts, ScanCounts, Resumed
<1>3. ASSUME Move(w) \/ Remove(w)
      PROVE  CountInv'
  <2>1. /\ UNCHANGED <<meta, read, dispatched, overwritten, mishaps>>
        /\ \/ pc[w] \in {"moving", "spacing"} /\ pc'[w] = "recording"
           \/ pc[w] = "removing" /\ pc'[w] = "counting"
    BY <1>0, <1>3, Values DEF Move, Remove, Call, At, Go, history, bounds
  <2>2. SUFFICES ASSUME ~overwritten' PROVE Bounded' /\ MetaCounts' /\ ScanCounts(w)'
    BY WorkerCounts
  <2>3. Bounded /\ MetaCounts /\ ScanCounts(w)
    BY <2>1, <2>2 DEF CountInv
  <2>4. Uncounted' <=> Uncounted
    BY <2>1, UncountedIs DEF Resumed
  <2>5. QED
    BY <2>1, <2>3, <2>4 DEF Bounded, MetaCounts, ScanCounts, Resumed
<1>4. ASSUME Record(w) \/ Count(w)
      PROVE  CountInv'
  <2> DEFINE m == read[w]
  <2>1. /\ pc'[w] = "idle" /\ UNCHANGED <<dispatched, overwritten, mishaps>>
        /\ \/ pc[w] = "recording" /\ meta' = m
           \/ pc[w] = "counting" /\ meta' = Bumped(m)
    BY <1>0, <1>4, Values DEF Record, Count, Counted, Call, At, Go, history, bounds
  <2>2. SUFFICES ASSUME ~overwritten' PROVE Bounded' /\ MetaCounts' /\ ScanCounts(w)'
    BY WorkerCounts
  <2>3. Bounded /\ ScanCounts(w)
    BY <2>1, <2>2 DEF CountInv
  <2>4. m \in Meta /\ m.attempts \in Nat /\ Bumped(m).attempts = m.attempts + 1
    BY <1>0, <2>1, Values DEF Carrying, Bumped, Meta
  <2>5. meta'.attempts \in Nat /\ dispatched <= meta'.attempts + mishaps
    <3>1. CASE pc[w] = "recording" /\ meta' = m
      BY <2>3, <2>4, <3>1 DEF ScanCounts
    <3>2. CASE pc[w] = "counting" /\ meta' = Bumped(m)
      <4>1. dispatched <= m.attempts + mishaps + 1
        BY <2>3, <3>2 DEF ScanCounts, Resumed
      <4>2. dispatched <= (m.attempts + 1) + mishaps /\ m.attempts + 1 \in Nat
        BY <1>0, <2>4, <4>1
      <4>3. QED
        BY <2>4, <3>2, <4>2
    <3>3. QED
      BY <2>1, <3>1, <3>2
  <2>6. dispatched <= meta'.attempts + mishaps + 1
    BY <1>0, <2>5
  <2>7. QED
    BY <2>1, <2>3, <2>5, <2>6 DEF Bounded, MetaCounts, ScanCounts, Resumed
<1>5. ASSUME Enqueue(w)
      PROVE  CountInv'
  <2>1. /\ pc[w] = "enqueueing" /\ pc'[w] = "removing"
        /\ UNCHANGED <<meta, read, overwritten, mishaps>>
        /\ dispatched' \in {dispatched, dispatched + 1}
    BY <1>0, <1>5, Values DEF Enqueue, Call, At, Go, redis, bounds
  <2>2. SUFFICES ASSUME ~overwritten' PROVE Bounded' /\ MetaCounts' /\ ScanCounts(w)'
    BY WorkerCounts
  <2>3. /\ ScanCounts(w)
        /\ meta # NoMeta => dispatched <= meta.attempts + mishaps /\ meta.attempts \in Nat
    BY <2>1, <2>2, ScanCountsAre, Values DEF Resumed
  <2>4. /\ read[w].attempts \in Nat /\ read[w].attempts < MAX_RESUME_ATTEMPTS
        /\ dispatched <= read[w].attempts + mishaps
    BY <1>0, <2>1, <2>3, Values DEF ScanCounts, Carrying
  <2>5. /\ dispatched' <= read[w].attempts + mishaps + 1
        /\ dispatched' <= MAX_RESUME_ATTEMPTS + mishaps
    BY <1>0, <2>1, <2>4
  <2>6. meta # NoMeta => dispatched' <= meta.attempts + mishaps + 1
    BY <1>0, <2>1, <2>3
  <2>7. Uncounted'
    BY <2>1, UncountedIs DEF Resumed
  <2>8. QED
    BY <2>1, <2>4, <2>5, <2>6, <2>7 DEF Bounded, MetaCounts, ScanCounts, Resumed
<1>6. QED
  BY <1>1, <1>2, <1>3, <1>4, <1>5

LEMMA FailureCounts ==
  ASSUME OneWorker, IInv, CountInv, NEW w \in Workers
  PROVE  /\ ScanFails(w) => CountInv'
         /\ LoadFails(w) \/ HandlerFails(w) => CountInv'
<1>0. /\ dispatched \in Nat /\ mishaps \in Nat /\ MAX_RESUME_ATTEMPTS \in Nat
      /\ w \in Processes /\ mishaps + 1 >= mishaps /\ mishaps + 1 \in Nat
  BY Values
<1>1. ASSUME ScanFails(w)
      PROVE  CountInv'
  <2>1. /\ Go(w, "handling") /\ Keep(w, NoMeta) /\ mishaps' = mishaps + 1
        /\ UNCHANGED <<meta, overwritten>>
        /\ \/ UNCHANGED dispatched
           \/ pc[w] = "enqueueing" /\ dispatched' = dispatched + 1
    BY <1>1 DEF ScanFails, Mishap, At, redis, history
  <2>2. CASE UNCHANGED dispatched
    <3>1. Quiet
      BY <1>0, <2>1, <2>2 DEF Quiet
    <3>2. QED
      BY <1>0, <2>1, <3>1, QuietMove DEF Resumed
  <2>3. CASE pc[w] = "enqueueing" /\ dispatched' = dispatched + 1
    <3>1. pc'[w] = "handling"
      BY <1>0, <2>1, Values DEF Go
    <3>2. SUFFICES ASSUME ~overwritten' PROVE Bounded' /\ MetaCounts' /\ ScanCounts(w)'
      BY WorkerCounts
    <3>3. /\ dispatched <= MAX_RESUME_ATTEMPTS + mishaps
          /\ meta # NoMeta => dispatched <= meta.attempts + mishaps /\ meta.attempts \in Nat
      BY <2>1, <2>3, <3>2, ScanCountsAre, Values DEF Resumed, Bounded
    <3>4. /\ dispatched' <= MAX_RESUME_ATTEMPTS + mishaps'
          /\ meta # NoMeta => /\ dispatched' <= meta.attempts + mishaps'
                              /\ dispatched' <= meta.attempts + mishaps' + 1
      BY <1>0, <2>1, <2>3, <3>3
    <3>5. QED
      BY <2>1, <3>1, <3>4 DEF Bounded, MetaCounts, ScanCounts, Resumed
  <2>4. QED
    BY <2>1, <2>2, <2>3
<1>2. ASSUME LoadFails(w) \/ HandlerFails(w)
      PROVE  CountInv'
  <2>1. /\ Quiet /\ (UNCHANGED read \/ Keep(w, NoMeta)) /\ mishaps' = mishaps + 1
        /\ Go(w, "voiding") \/ Go(w, "idle")
    BY <1>0, <1>2 DEF LoadFails, HandlerFails, Call, Mishap, Quiet, redis
  <2>2. QED
    BY <1>0, <2>1, QuietMove DEF Resumed
<1>3. QED
  BY <1>1, <1>2

LEMMA NextCounts == OneWorker /\ IInv /\ CountInv /\ [Next]_vars => CountInv'
<1> SUFFICES ASSUME OneWorker, IInv, CountInv, [Next]_vars PROVE CountInv'
  OBVIOUS
<1>1. CASE UNCHANGED vars \/ Recover \/ Ring \/ Resume
  <2>1. mishaps \in Nat /\ mishaps >= mishaps
    BY Values
  <2>2. Quiet /\ UNCHANGED <<pc, read>>
    BY <1>1, <2>1
    DEF vars, Recover, Ring, Resume, Enqueued, Quiet, redis, jobs, history, bounds
  <2>3. QED
    BY <2>2, QuietKeeps
<1>2. ASSUME NEW p \in Processes,
             Submit(p) \/ Run(p) \/ ScheduleFails(p) \/ Crash(p) \/ Restart(p)
      PROVE  CountInv'
  BY <1>2, RunCounts
<1>3. ASSUME NEW w \in Workers, Scan(w) \/ ScanFails(w) \/ LoadFails(w) \/ HandlerFails(w)
      PROVE  CountInv'
  BY <1>3, CheckCounts, CallCounts, FailureCounts DEF Scan
<1>4. QED
  BY <1>1, <1>2, <1>3 DEF Next

(* One reset time resumes a workflow at most MAX_RESUME_ATTEMPTS times,    *)
(* and once more for each crash or failing call, whatever the web          *)
(* processes do meanwhile: with one background worker.                     *)
THEOREM ResumesAreBounded ==
  ASSUME OneWorker
  PROVE  Spec => []ResumesBounded
<1>1. Init => CountInv
  <2> SUFFICES ASSUME Init PROVE Bounded /\ MetaCounts /\ \A w \in Workers : ScanCounts(w)
    BY DEF CountInv
  <2>1. 0 <= MAX_RESUME_ATTEMPTS + 0
    BY QuotaAssumption
  <2>2. QED
    BY <2>1 DEF Init, Bounded, MetaCounts, ScanCounts, Resumed, Processes
<1>2. IInv /\ CountInv /\ [Next]_vars => CountInv'
  BY NextCounts
<1>3. CountInv => ResumesBounded
  BY DEF CountInv, Bounded, ResumesBounded
<1>4. QED
  BY <1>1, <1>2, <1>3, Invariant, PTL DEF Spec
=============================================================================
