-------------------------- MODULE AgentRunsProofs --------------------------
(***************************************************************************)
(* Proofs about AgentRuns, for any number of processes, requests, inputs   *)
(* and cancels: type correctness, and that a cancel stops no other run     *)
(* than it was aimed at, a run keeps its place in every store it writes    *)
(* to, accepted inputs are not lost, and the transcript of a session has   *)
(* one writer at a time.  All of them follow from one inductive invariant. *)
(***************************************************************************)
EXTENDS AgentRuns, TLAPS

(* The stages in which the handle of its process is that of the request:   *)
(* from register until unregister has taken it away.                       *)
Registered ==
  Setup \cup Running \cup Wrapping \cup {"unregistering", "closing", "abandoning"}

(* Somebody asked for a cancel of run r, or for one of whatever runs.      *)
Named(r) == r \in asked \/ None \in asked

(* Types, as far as actions rely on them: a request that has arrived has a *)
(* process, a pause that is requested has a reason.                        *)
TInv ==
  /\ TypeOK
  /\ \A q \in Requests : request[q].at # "new" => request[q].web \in Webs
  /\ shared.status = "pause_requested" => shared.reason # "none"

(* The handle belongs to its request from register to unregister, has no   *)
(* run before attach_run_id, and then that of the request.                 *)
HandleInv ==
  /\ \A p \in Webs : handle[p].run \in {None, handle[p].req}
  /\ \A q \in Requests :
       LET h == handle[request[q].web] IN
       /\ request[q].at \in Registered => h.req = q
       /\ request[q].at \in Setup => h.run = None
       /\ request[q].at \in {"steering", "running", "publishing"} => h.run = q

(* Every cancel under way, in a call, in the shared key or in the flag of  *)
(* a handle, is of a run that somebody named.                              *)
AskedInv ==
  /\ \A c \in calls : Named(c.target)
  /\ shared.status = "pause_requested" => Named(shared.run)
  /\ \A p \in Webs : handle[p].set => Named(handle[p].req)

(* Only a task that was cancelled has an exception to come or leaves its   *)
(* run, and a generator that is closed later is not in its run.            *)
StopInv ==
  /\ \A q \in Requests : request[q].hit \/ request[q].at = "leaving" => q \in stopped
  /\ \A q \in cleaning : request[q].at \notin Before \cup Setup \cup Running

(* The shared key stays with an attached run until its own finish: nobody  *)
(* else registers while it is active, and it is active as long as the run  *)
(* may write its transcript.                                               *)
KeyInv ==
  \A q \in Requests :
    request[q].at \in Running \cup Wrapping /\ Attached(q) => shared.run = q /\ Active(shared)

(* A run that works has the write permission of its process and an open    *)
(* queue of inputs; while it publishes nobody has begun to take the        *)
(* permission away.                                                        *)
PlaceInv ==
  \A q \in Requests :
    /\ request[q].at \in {"steering", "running", "publishing"} => owner[request[q].web].run = q
    /\ request[q].at \in {"running", "publishing"} => steer.run = q /\ steer.status = "accepting"
    /\ request[q].at = "publishing" => owner[request[q].web].status = "running"

(* A queue whose run has left its loop without being cancelled is closed   *)
(* and empty, so that what closes it loses nothing.                        *)
SteerInv ==
  steer.run # None /\ steer.run \notin stopped =>
    \/ request[steer.run].at \in {"running", "publishing", "dead"}
    \/ steer.status = "closing" /\ steer.queued = 0

(* The inductive invariant; CancelHitsTarget and InputsKept are parts of   *)
(* it as they stand.                                                       *)
IInv ==
  /\ TInv /\ HandleInv /\ AskedInv /\ StopInv /\ KeyInv /\ PlaceInv /\ SteerInv
  /\ CancelHitsTarget /\ InputsKept

-----------------------------------------------------------------------------
(* Request q goes to stage s and all others stay; an exception may be      *)
(* delivered but none is sent.                                             *)
Moved(q, s) ==
  /\ request' \in [Requests -> Request]
  /\ request'[q].at = s
  /\ request'[q].web = request[q].web
  /\ request'[q].hit => request[q].hit
  /\ \A r \in Requests \ {q} : request'[r] = request[r]

(* The two ways in which actions move a request.                           *)
LEMMA GotoMoves ==
  ASSUME TypeOK, NEW q \in Requests, NEW s \in Stages, Goto(q, s)
  PROVE  Moved(q, s)
  BY DEF TypeOK, Goto, Moved, Request

LEMMA ProceedMoves ==
  ASSUME TypeOK, NEW q \in Requests, NEW s \in Stages, Proceed(q, s)
  PROVE  Moved(q, s) /\ ~request'[q].hit
<1>1. request \in [Requests -> Request]
  BY DEF TypeOK
<1>2. PICK y : y = [request[q] EXCEPT !.at = s, !.hit = FALSE]
  OBVIOUS
<1>3. y \in Request /\ y.at = s /\ y.web = request[q].web /\ ~y.hit
  BY <1>1, <1>2 DEF Request
<1>4. request' = [request EXCEPT ![q] = y]
  BY <1>1, <1>2 DEF Proceed
<1> QED
  BY <1>1, <1>3, <1>4 DEF Moved

(* What the invariant asks of a move that changes nothing else: it does    *)
(* not skip register, attach or the end of the loop.                       *)
Legal(q, s) ==
  LET at == request[q].at IN
  /\ at # "new" /\ at # "dead" /\ s \notin Setup \cup {"steering"}
  /\ s \in Registered => at \in Registered
  /\ s \in Running \cup Wrapping => at \in Setup \cup Running \cup Wrapping
  /\ s \in Before \cup Setup \cup Running => at \in Before \cup Setup \cup Running
  /\ s \in {"running", "publishing"} => at \in {"running", "publishing"}
  /\ at \in {"running", "publishing"} => s \in {"running", "publishing"} \/ q \in stopped
  /\ s = "publishing" => MayWrite(q)
  /\ s = "leaving" => q \in stopped

(* A legal move keeps the invariant, ...                                   *)
LEMMA OnlyMoves ==
  ASSUME IInv, AgentAssumption, NEW q \in Requests, NEW s \in Stages, Goto(q, s) \/ Proceed(q, s), Legal(q, s),
         UNCHANGED <<lock, redis, local, calls, cleaning, transcript, history, counts>>
  PROVE  IInv'
<1>1. Moved(q, s)
  BY GotoMoves, ProceedMoves DEF IInv, TInv
<1> USE DEF Legal, redis, local, history, counts
<1>2. TInv'
  BY <1>1 DEF IInv, TInv, TypeOK, Moved
<1>3. HandleInv'
  BY <1>1 DEF IInv, HandleInv, Moved
<1>4. AskedInv' /\ CancelHitsTarget'
  BY DEF IInv, AskedInv, CancelHitsTarget, Named
<1>5. StopInv' /\ InputsKept'
  BY <1>1 DEF IInv, TInv, TypeOK, StopInv, InputsKept, Moved
<1>6. KeyInv'
  BY <1>1 DEF IInv, KeyInv, HandleInv, Attached, Moved
<1>7. PlaceInv'
  BY <1>1 DEF IInv, PlaceInv, MayWrite, Moved
<1>8. SteerInv'
  BY <1>1 DEF IInv, SteerInv, TInv, TypeOK, Steer, Moved
<1> QED
  BY <1>2, <1>3, <1>4, <1>5, <1>6, <1>7, <1>8 DEF IInv

(* ... and these actions are legal moves.                                  *)
LEMMA PureMoves ==
  ASSUME IInv, AgentAssumption, NEW q \in Requests,
         \/ BarrierPasses(q) \/ BarrierRaises(q) \/ LockConflict(q) \/ SupersedeFails(q)
         \/ PublishBegin(q) \/ PublishEnd(q) \/ RaisedInSetup(q) \/ RaisedInRun(q)
         \/ RaisedInFinalize(q) \/ RaisedInUnregister(q) \/ Finalize(q)
  PROVE  IInv'
<1> USE DEF Legal, At, Registered, Stages, Before, Setup, Running, Wrapping, Cleanup, Over
<1>1. CASE BarrierPasses(q)
  <2>1. Legal(q, "locking")
    BY <1>1 DEF BarrierPasses
  <2> QED
    BY <1>1, <2>1, OnlyMoves DEF BarrierPasses
<1>2. CASE BarrierRaises(q)
  <2>1. Legal(q, "done")
    BY <1>2 DEF BarrierRaises
  <2> QED
    BY <1>2, <2>1, OnlyMoves DEF BarrierRaises
<1>3. CASE LockConflict(q)
  <2>1. Legal(q, "done")
    BY <1>3 DEF LockConflict
  <2> QED
    BY <1>3, <2>1, OnlyMoves DEF LockConflict
<1>4. CASE SupersedeFails(q)
  <2>1. Legal(q, "unlocking")
    BY <1>4 DEF SupersedeFails
  <2> QED
    BY <1>4, <2>1, OnlyMoves DEF SupersedeFails
<1>5. CASE PublishBegin(q)
  <2>1. Legal(q, "publishing")
    BY <1>5 DEF PublishBegin
  <2> QED
    BY <1>5, <2>1, OnlyMoves DEF PublishBegin
<1>6. CASE PublishEnd(q)
  <2>1. Legal(q, "running")
    BY <1>6 DEF PublishEnd
  <2> QED
    BY <1>6, <2>1, OnlyMoves DEF PublishEnd
<1>7. CASE RaisedInSetup(q)
  <2>1. Legal(q, "finalizing")
    BY <1>7 DEF RaisedInSetup, Raise
  <2> QED
    BY <1>7, <2>1, OnlyMoves DEF RaisedInSetup, Raise
<1>8. CASE RaisedInRun(q)
  <2>1. Legal(q, "leaving")
    BY <1>8 DEF RaisedInRun, Raise, IInv, StopInv
  <2> QED
    BY <1>8, <2>1, OnlyMoves DEF RaisedInRun, Raise
<1>9. CASE RaisedInFinalize(q)
  <2>1. Legal(q, "unregistering")
    BY <1>9 DEF RaisedInFinalize, Raise
  <2> QED
    BY <1>9, <2>1, OnlyMoves DEF RaisedInFinalize, Raise
<1>10. CASE RaisedInUnregister(q)
  <2>1. Legal(q, "abandoning")
    BY <1>10 DEF RaisedInUnregister, Raise
  <2> QED
    BY <1>10, <2>1, OnlyMoves DEF RaisedInUnregister, Raise
<1>11. CASE Finalize(q)
  <2>1. (Goto(q, "persisting") \/ Goto(q, "unregistering")) /\ request[q].at = "finalizing"
    BY <1>11 DEF Finalize
  <2>2. Legal(q, "persisting") /\ Legal(q, "unregistering")
    BY <2>1
  <2> QED
    BY <1>11, <2>1, <2>2, OnlyMoves DEF Finalize
<1> QED
  BY <1>1, <1>2, <1>3, <1>4, <1>5, <1>6, <1>7, <1>8, <1>9, <1>10, <1>11

(* SteerClose leaves an empty queue of the same run.                       *)
LEMMA ClosedQueue ==
  ASSUME TypeOK, AgentAssumption, SteerClose
  PROVE  steer' \in Steer /\ steer'.run = steer.run /\ steer'.status = "closing" /\ steer'.queued = 0
<1>1. 0 \in 0 .. MaxInputs
  BY DEF AgentAssumption
<1>2. steer' \in Steer
  BY <1>1 DEF TypeOK, SteerClose, Steer
<1> QED
  BY <1>2 DEF TypeOK, SteerClose, Steer

(* The finish script settles the run it names or nothing                   *)
(* (cancellation_state.py:149).                                            *)
LEMMA FinishedKey ==
  ASSUME TInv, NEW q \in Requests, NEW failed \in BOOLEAN, FinishScript(q, failed)
  PROVE  /\ shared' \in Shared /\ shared'.run = shared.run
         /\ shared' = shared \/ (shared.run = q /\ shared'.status \in Terminal)
  BY DEF TInv, TypeOK, FinishScript, Shared, Terminal

-----------------------------------------------------------------------------
(* The run: every action of a request between steering and finalizing.     *)
LEMMA BecomeSteerableStep ==
  ASSUME IInv, AgentAssumption, NEW q \in Requests, BecomeSteerable(q)
  PROVE  IInv'
<1>1. Moved(q, "running")
  BY GotoMoves DEF IInv, TInv, BecomeSteerable, Stages, Running
<1>2. TInv'
  BY <1>1 DEF IInv, BecomeSteerable, TInv, TypeOK, Steer, SteerRegister, Moved, At, local, history,
      counts
<1>3. HandleInv'
  BY <1>1 DEF IInv, BecomeSteerable, HandleInv, TInv, SteerRegister, Moved, At, local, Setup
<1>4. AskedInv' /\ CancelHitsTarget'
  BY <1>1 DEF IInv, BecomeSteerable, AskedInv, CancelHitsTarget, Named, SteerRegister, local,
      history
<1>5. StopInv' /\ InputsKept'
  BY <1>1 DEF IInv, BecomeSteerable, StopInv, InputsKept, TInv, TypeOK, SteerInv, SteerRegister,
      Moved, At, history, Running
<1>6. KeyInv'
  BY <1>1 DEF IInv, BecomeSteerable, KeyInv, Attached, SteerRegister, Moved, At, local, Running
<1>7. PlaceInv'
  BY <1>1 DEF IInv, BecomeSteerable, PlaceInv, TInv, KeyInv, HandleInv, Attached, SteerRegister,
      Moved, At, local, Running
<1>8. SteerInv'
  BY <1>1 DEF IInv, BecomeSteerable, SteerInv, SteerRegister, Moved
<1> QED
  BY <1>2, <1>3, <1>4, <1>5, <1>6, <1>7, <1>8 DEF IInv

(* Taking the waiting inputs leaves the queue open.                        *)
LEMMA DrainStep ==
  ASSUME IInv, AgentAssumption, NEW q \in Requests, Drain(q)
  PROVE  IInv'
<1>1. TInv'
  BY DEF IInv, Drain, TInv, TypeOK, Steer, local, history, counts
<1>2. HandleInv'
  BY DEF IInv, Drain, HandleInv, local
<1>3. AskedInv' /\ CancelHitsTarget'
  BY DEF IInv, Drain, AskedInv, CancelHitsTarget, Named, local, history
<1>4. StopInv' /\ InputsKept'
  BY DEF IInv, Drain, StopInv, InputsKept, SteerInv, history
<1>5. KeyInv'
  BY DEF IInv, Drain, KeyInv, Attached, local
<1>6. PlaceInv'
  BY DEF IInv, Drain, PlaceInv, local
<1>7. SteerInv'
  BY DEF IInv, Drain, SteerInv, At
<1> QED
  BY <1>1, <1>2, <1>3, <1>4, <1>5, <1>6, <1>7 DEF IInv

(* begin_completion closes a queue that is empty.                          *)
LEMMA CompleteStep ==
  ASSUME IInv, AgentAssumption, NEW q \in Requests, Complete(q)
  PROVE  IInv'
<1>1. Moved(q, "completing")
  BY GotoMoves DEF IInv, TInv, Complete, Stages, Running
<1>2. \/ steer.run # q /\ steer' = steer
      \/ /\ steer.run = q /\ steer'.run = q /\ steer' \in Steer
         /\ steer'.status = "closing" /\ steer'.queued = 0
  BY ClosedQueue DEF IInv, TInv, Complete
<1>3. TInv'
  BY <1>1, <1>2 DEF IInv, Complete, TInv, TypeOK, Moved, At, local, history, counts
<1>4. HandleInv'
  BY <1>1, <1>2 DEF IInv, Complete, HandleInv, TInv, Moved, At, local, Setup
<1>5. AskedInv' /\ CancelHitsTarget'
  BY <1>1, <1>2 DEF IInv, Complete, AskedInv, CancelHitsTarget, Named, local, history
<1>6. StopInv' /\ InputsKept'
  BY <1>1, <1>2 DEF IInv, Complete, StopInv, InputsKept, TInv, TypeOK, SteerInv, Moved, At, history,
      Running
<1>7. KeyInv'
  BY <1>1, <1>2 DEF IInv, Complete, KeyInv, Attached, Moved, At, local, Running
<1>8. PlaceInv'
  BY <1>1, <1>2 DEF IInv, Complete, PlaceInv, Moved, local
<1>9. SteerInv'
  BY <1>1, <1>2 DEF IInv, Complete, SteerInv, PlaceInv, At
<1> QED
  BY <1>3, <1>4, <1>5, <1>6, <1>7, <1>8, <1>9 DEF IInv

(* Other ends hand back what waits before they close it.                   *)
LEMMA EndEarlyStep ==
  ASSUME IInv, AgentAssumption, NEW q \in Requests, EndEarly(q)
  PROVE  IInv'
<1>1. Moved(q, "completing")
  BY GotoMoves DEF IInv, TInv, EndEarly, Stages, Running
<1>2. \/ steer.run # q /\ steer' = steer
      \/ /\ steer.run = q /\ steer'.run = q /\ steer' \in Steer
         /\ steer'.status = "closing" /\ steer'.queued = 0
  BY ClosedQueue DEF IInv, TInv, EndEarly
<1>3. TInv'
  BY <1>1, <1>2 DEF IInv, EndEarly, TInv, TypeOK, Moved, At, local, history, counts
<1>4. HandleInv'
  BY <1>1, <1>2 DEF IInv, EndEarly, HandleInv, TInv, Moved, At, local, Setup
<1>5. AskedInv' /\ CancelHitsTarget'
  BY <1>1, <1>2 DEF IInv, EndEarly, AskedInv, CancelHitsTarget, Named, local, history
<1>6. StopInv' /\ InputsKept'
  BY <1>1, <1>2 DEF IInv, EndEarly, StopInv, InputsKept, TInv, TypeOK, SteerInv, Moved, At, history,
      Running
<1>7. KeyInv'
  BY <1>1, <1>2 DEF IInv, EndEarly, KeyInv, Attached, Moved, At, local, Running
<1>8. PlaceInv'
  BY <1>1, <1>2 DEF IInv, EndEarly, PlaceInv, Moved, local
<1>9. SteerInv'
  BY <1>1, <1>2 DEF IInv, EndEarly, SteerInv, PlaceInv, At
<1> QED
  BY <1>3, <1>4, <1>5, <1>6, <1>7, <1>8, <1>9 DEF IInv

(* The last event, saved or discarded as stale.                            *)
LEMMA LastEventStep ==
  ASSUME IInv, AgentAssumption, NEW q \in Requests, LastEvent(q)
  PROVE  IInv'
<1>1. Moved(q, IF MayWrite(q) THEN "saving" ELSE "unregistering")
  BY GotoMoves DEF IInv, TInv, LastEvent, Stages, Wrapping, Cleanup
<1>2. TInv'
  BY <1>1 DEF IInv, LastEvent, TInv, TypeOK, Moved, At, redis, local, history, counts
<1>3. HandleInv'
  BY <1>1 DEF IInv, LastEvent, HandleInv, Moved, At, local, Registered, Setup, Running
<1>4. AskedInv' /\ CancelHitsTarget'
  BY <1>1 DEF IInv, LastEvent, AskedInv, CancelHitsTarget, Named, redis, local, history
<1>5. StopInv' /\ InputsKept'
  BY <1>1 DEF IInv, LastEvent, StopInv, InputsKept, TInv, TypeOK, SteerInv, Moved, At, history,
      Before, Setup, Running
<1>6. KeyInv'
  BY <1>1 DEF IInv, LastEvent, KeyInv, Attached, Moved, At, redis, local, Running
<1>7. PlaceInv'
  BY <1>1 DEF IInv, LastEvent, PlaceInv, Moved, redis, local
<1>8. SteerInv'
  BY <1>1 DEF IInv, LastEvent, SteerInv, TInv, TypeOK, Steer, Moved, At, redis, history
<1> QED
  BY <1>2, <1>3, <1>4, <1>5, <1>6, <1>7, <1>8 DEF IInv

(* The three writes of the exception path, and their failures.             *)
LEMMA SaveStep ==
  ASSUME IInv, AgentAssumption, NEW q \in Requests, Save(q)
  PROVE  IInv'
<1>1. Moved(q, "unregistering")
  BY GotoMoves DEF IInv, TInv, Save, Stages, Cleanup
<1>2. TInv'
  BY <1>1 DEF IInv, Save, TInv, TypeOK, Owner, NoOwner, Verdict, Saved, Completed, Moved, At, redis,
      history, counts, Stages, Before, Cleanup
<1>3. HandleInv'
  BY <1>1 DEF IInv, Save, HandleInv, Saved, Completed, Moved, At, Registered, Setup, Wrapping
<1>4. AskedInv' /\ CancelHitsTarget'
  BY <1>1 DEF IInv, Save, AskedInv, CancelHitsTarget, Named, Saved, Completed, redis, history
<1>5. StopInv' /\ InputsKept'
  BY <1>1 DEF IInv, Save, StopInv, InputsKept, TInv, TypeOK, SteerInv, Saved, Completed, Moved, At,
      history, Before, Setup, Running
<1>6. KeyInv'
  BY <1>1 DEF IInv, Save, KeyInv, Attached, Saved, Completed, Moved, At, redis, Wrapping
<1>7. PlaceInv'
  BY <1>1 DEF IInv, Save, PlaceInv, Saved, Completed, Moved, redis
<1>8. SteerInv'
  BY <1>1 DEF IInv, Save, SteerInv, TInv, TypeOK, Steer, Saved, Completed, Moved, At, redis, history
<1> QED
  BY <1>2, <1>3, <1>4, <1>5, <1>6, <1>7, <1>8 DEF IInv

LEMMA SaveFailsStep ==
  ASSUME IInv, AgentAssumption, NEW q \in Requests, SaveFails(q)
  PROVE  IInv'
<1>1. Moved(q, IF Attached(q) => MayWrite(q) THEN "failing" ELSE "unregistering")
  BY GotoMoves DEF IInv, TInv, SaveFails, Stages, Wrapping, Cleanup
<1>2. TInv'
  BY <1>1 DEF IInv, SaveFails, TInv, TypeOK, Mishap, Moved, At, redis, local, history
<1>3. HandleInv'
  BY <1>1 DEF IInv, SaveFails, HandleInv, Mishap, Moved, At, local, Registered, Setup, Wrapping
<1>4. AskedInv' /\ CancelHitsTarget'
  BY <1>1 DEF IInv, SaveFails, AskedInv, CancelHitsTarget, Named, Mishap, redis, local, history
<1>5. StopInv' /\ InputsKept'
  BY <1>1 DEF IInv, SaveFails, StopInv, InputsKept, TInv, TypeOK, SteerInv, Mishap, Moved, At,
      history, Before, Setup, Running
<1>6. KeyInv'
  BY <1>1 DEF IInv, SaveFails, KeyInv, Attached, Mishap, Moved, At, redis, local, Wrapping
<1>7. PlaceInv'
  BY <1>1 DEF IInv, SaveFails, PlaceInv, Mishap, Moved, redis, local
<1>8. SteerInv'
  BY <1>1 DEF IInv, SaveFails, SteerInv, TInv, TypeOK, Steer, Mishap, Moved, At, redis, history
<1> QED
  BY <1>2, <1>3, <1>4, <1>5, <1>6, <1>7, <1>8 DEF IInv

LEMMA SaveErrorStep ==
  ASSUME IInv, AgentAssumption, NEW q \in Requests, SaveError(q)
  PROVE  IInv'
<1>1. Moved(q, "unregistering")
  BY GotoMoves DEF IInv, TInv, SaveError, Stages, Cleanup
<1>2. TInv'
  <2>1. transcript' \subseteq Verdict /\ mishaps' \in 0 .. MaxMishaps
    BY AgentAssumption DEF IInv, TInv, TypeOK, SaveError, Verdict, Mishap
  <2>2. request' \in [Requests -> Request]
    BY <1>1 DEF Moved
  <2>3. TypeOK'
    BY <2>1, <2>2 DEF IInv, TInv, TypeOK, SaveError, Shared, Terminal, redis, local, history
  <2>4. \A r \in Requests : request'[r].web = request[r].web /\ (request[r].at = "new" => request'[r].at = "new")
    BY <1>1 DEF Moved, SaveError, At
  <2> QED
    BY <2>3, <2>4 DEF IInv, TInv, SaveError, redis
<1>3. HandleInv'
  BY <1>1 DEF IInv, SaveError, HandleInv, Mishap, Moved, At, local, Registered, Setup, Wrapping
<1>4. AskedInv' /\ CancelHitsTarget'
  BY <1>1 DEF IInv, SaveError, AskedInv, CancelHitsTarget, Named, Mishap, redis, local, history
<1>5. StopInv' /\ InputsKept'
  BY <1>1 DEF IInv, SaveError, StopInv, InputsKept, TInv, TypeOK, SteerInv, Mishap, Moved, At,
      history, Before, Setup, Running
<1>6. KeyInv'
  BY <1>1 DEF IInv, SaveError, KeyInv, Attached, Mishap, Moved, At, redis, local, Wrapping
<1>7. PlaceInv'
  BY <1>1 DEF IInv, SaveError, PlaceInv, Mishap, Moved, redis, local
<1>8. SteerInv'
  BY <1>1 DEF IInv, SaveError, SteerInv, TInv, TypeOK, Steer, Mishap, Moved, At, redis, history
<1> QED
  BY <1>2, <1>3, <1>4, <1>5, <1>6, <1>7, <1>8 DEF IInv

(* A cancelled task that unwinds: before its run, ...                      *)
LEMMA RaisedBeforeRunStep ==
  ASSUME IInv, AgentAssumption, NEW q \in Requests, RaisedBeforeRun(q)
  PROVE  IInv'
<1>1. Moved(q, "finalizing") /\ ~request'[q].hit
  BY ProceedMoves DEF IInv, TInv, RaisedBeforeRun, Raise, Stages, Wrapping
<1>2. TInv'
  BY <1>1 DEF IInv, RaisedBeforeRun, TInv, TypeOK, Terminal, Steer, Raise, SteerRegister, Moved,
      local, history, counts
<1>3. HandleInv'
  BY <1>1 DEF IInv, RaisedBeforeRun, HandleInv, TInv, Raise, SteerRegister, Moved, local, Setup
<1>4. AskedInv' /\ CancelHitsTarget'
  BY <1>1 DEF IInv, RaisedBeforeRun, AskedInv, CancelHitsTarget, Named, Raise, SteerRegister, local,
      history
<1>5. StopInv' /\ InputsKept'
  BY <1>1 DEF IInv, RaisedBeforeRun, StopInv, InputsKept, TInv, TypeOK, SteerInv, Raise,
      SteerRegister, Moved, history, Running
<1>6. KeyInv'
  BY <1>1 DEF IInv, RaisedBeforeRun, KeyInv, Attached, Raise, SteerRegister, Moved, local, Running
<1>7. PlaceInv'
  BY <1>1 DEF IInv, RaisedBeforeRun, PlaceInv, TInv, KeyInv, HandleInv, Attached, Raise,
      SteerRegister, Moved, Running
<1>8. SteerInv'
  BY <1>1 DEF IInv, RaisedBeforeRun, SteerInv, TInv, TypeOK, StopInv, Steer, Raise, SteerRegister,
      Moved, history
<1> QED
  BY <1>2, <1>3, <1>4, <1>5, <1>6, <1>7, <1>8 DEF IInv

(* ... outside the generator, which is then closed later, ...              *)
LEMMA RaisedInPublishStep ==
  ASSUME IInv, AgentAssumption, NEW q \in Requests, RaisedInPublish(q)
  PROVE  IInv'
<1>1. Moved(q, "closing") /\ ~request'[q].hit
  BY ProceedMoves DEF IInv, TInv, RaisedInPublish, Raise, Stages, Cleanup
<1>2. TInv'
  BY <1>1 DEF IInv, RaisedInPublish, TInv, TypeOK, Raise, Moved, redis, local, history, counts
<1>3. HandleInv'
  BY <1>1 DEF IInv, RaisedInPublish, HandleInv, Raise, Moved, local, Registered, Setup, Running
<1>4. AskedInv' /\ CancelHitsTarget'
  BY <1>1 DEF IInv, RaisedInPublish, AskedInv, CancelHitsTarget, Named, Raise, redis, local, history
<1>5. StopInv' /\ InputsKept'
  BY <1>1 DEF IInv, RaisedInPublish, StopInv, InputsKept, TInv, TypeOK, SteerInv, Raise, Moved,
      history, Before, Setup, Running
<1>6. KeyInv'
  BY <1>1 DEF IInv, RaisedInPublish, KeyInv, Attached, Raise, Moved, redis, local, Running, Wrapping
<1>7. PlaceInv'
  BY <1>1 DEF IInv, RaisedInPublish, PlaceInv, Raise, Moved, redis, local
<1>8. SteerInv'
  BY <1>1 DEF IInv, RaisedInPublish, SteerInv, TInv, TypeOK, StopInv, Steer, Raise, Moved, redis,
      history
<1> QED
  BY <1>2, <1>3, <1>4, <1>5, <1>6, <1>7, <1>8 DEF IInv

(* ... within a save that may have been written or not, ...                *)
LEMMA RaisedInSaveStep ==
  ASSUME IInv, AgentAssumption, NEW q \in Requests, RaisedInSave(q)
  PROVE  IInv'
<1>1. Moved(q, IF request[q].at = "saving" THEN "finalizing" ELSE "unregistering") /\ ~request'[q].hit
  BY ProceedMoves DEF IInv, TInv, RaisedInSave, Raise, Stages, Wrapping, Cleanup
<1>2. TInv'
  BY <1>1 DEF IInv, RaisedInSave, TInv, TypeOK, Verdict, Raise, Saved, Moved, redis, local, history,
      counts
<1>3. HandleInv'
  BY <1>1 DEF IInv, RaisedInSave, HandleInv, Raise, Saved, Moved, local, Registered, Setup, Wrapping
<1>4. AskedInv' /\ CancelHitsTarget'
  BY <1>1 DEF IInv, RaisedInSave, AskedInv, CancelHitsTarget, Named, Raise, Saved, redis, local,
      history
<1>5. StopInv' /\ InputsKept'
  BY <1>1 DEF IInv, RaisedInSave, StopInv, InputsKept, TInv, TypeOK, SteerInv, Raise, Saved, Moved,
      history, Before, Setup, Running
<1>6. KeyInv'
  BY <1>1 DEF IInv, RaisedInSave, KeyInv, Attached, Raise, Saved, Moved, redis, local, Wrapping
<1>7. PlaceInv'
  BY <1>1 DEF IInv, RaisedInSave, PlaceInv, Raise, Saved, Moved, redis, local
<1>8. SteerInv'
  BY <1>1 DEF IInv, RaisedInSave, SteerInv, TInv, TypeOK, Steer, Raise, Saved, Moved, redis, history
<1> QED
  BY <1>2, <1>3, <1>4, <1>5, <1>6, <1>7, <1>8 DEF IInv

(* ... and within run(), whose finally block removes the queue of a run    *)
(* that was cancelled.                                                     *)
LEMMA LeaveStep ==
  ASSUME IInv, AgentAssumption, NEW q \in Requests, Leave(q)
  PROVE  IInv'
<1>1. Moved(q, "finalizing") /\ ~request'[q].hit
  BY ProceedMoves DEF IInv, TInv, Leave, Stages, Wrapping
<1>2. TInv'
  BY <1>1 DEF IInv, Leave, TInv, TypeOK, Steer, NoSteer, Request, SteerUnregister, Moved, local,
      counts, Stages
<1>3. HandleInv'
  BY <1>1 DEF IInv, Leave, HandleInv, SteerUnregister, Moved, local, Registered, Setup, Wrapping
<1>4. AskedInv' /\ CancelHitsTarget'
  BY <1>1 DEF IInv, Leave, AskedInv, CancelHitsTarget, Named, SteerUnregister, local
<1>5. StopInv' /\ InputsKept'
  BY <1>1 DEF IInv, Leave, StopInv, InputsKept, TInv, TypeOK, SteerInv, SteerUnregister, Moved,
      Before, Setup, Running
<1>6. KeyInv'
  BY <1>1 DEF IInv, Leave, KeyInv, Attached, SteerUnregister, Moved, local, Wrapping
<1>7. PlaceInv'
  BY <1>1 DEF IInv, Leave, PlaceInv, SteerUnregister, Moved, local
<1>8. SteerInv'
  BY <1>1 DEF IInv, Leave, SteerInv, TInv, TypeOK, Steer, NoSteer, SteerUnregister, Moved
<1> QED
  BY <1>2, <1>3, <1>4, <1>5, <1>6, <1>7, <1>8 DEF IInv

(* The pause is written for a run that can_finalize has let through.       *)
LEMMA PersistStep ==
  ASSUME IInv, AgentAssumption, NEW q \in Requests, Persist(q)
  PROVE  IInv'
<1>1. Moved(q, "unregistering") /\ ~request'[q].hit
  BY ProceedMoves DEF IInv, TInv, Persist, Stages, Cleanup
<1>2. /\ shared' \in Shared /\ shared'.run = shared.run
      /\ shared' = shared \/ (shared.run = q /\ shared'.status \in Terminal)
  BY FinishedKey DEF IInv, TInv, TypeOK, Persist
<1>3. TInv'
  <2>1. transcript' \subseteq Verdict
    <3>1. \A kind \in {"paused", "interrupted", "error", "answer"} : [req |-> q, kind |-> kind] \in Verdict
      BY DEF Verdict
    <3> QED
      BY <3>1 DEF IInv, TInv, TypeOK, Persist
  <2>3. mishaps' \in 0 .. MaxMishaps
    <3>1. mishaps' = mishaps \/ Mishap
      BY DEF Persist
    <3> QED
      BY <3>1 DEF IInv, TInv, TypeOK, Mishap
  <2>2. shared'.status = "pause_requested" => shared'.reason # "none"
    BY <1>2 DEF IInv, TInv, Terminal
  <2> QED
    BY <1>1, <1>2, <2>1, <2>2, <2>3 DEF IInv, TInv, TypeOK, Persist, local, history, Moved
<1>4. HandleInv'
  BY <1>1, <1>2 DEF IInv, Persist, HandleInv, Mishap, Moved, local, Registered, Setup, Wrapping
<1>5. AskedInv' /\ CancelHitsTarget'
  BY <1>1, <1>2 DEF IInv, Persist, AskedInv, CancelHitsTarget, Named, Terminal, Mishap, local,
      history
<1>6. StopInv' /\ InputsKept'
  BY <1>1, <1>2 DEF IInv, Persist, StopInv, InputsKept, TInv, TypeOK, SteerInv, Mishap, Moved,
      history, Before, Setup, Running
<1>7. KeyInv'
  BY <1>1, <1>2 DEF IInv, Persist, KeyInv, Attached, Mishap, Moved, local, Running, Wrapping
<1>8. PlaceInv'
  BY <1>1, <1>2 DEF IInv, Persist, PlaceInv, Mishap, Moved, local
<1>9. SteerInv'
  BY <1>1, <1>2 DEF IInv, Persist, SteerInv, TInv, TypeOK, Steer, Mishap, Moved, history
<1> QED
  BY <1>3, <1>4, <1>5, <1>6, <1>7, <1>8, <1>9 DEF IInv

(* The end of a request.  unregister gives the handle back and settles its *)
(* own key only.                                                           *)
LEMMA UnregisterStep ==
  ASSUME IInv, AgentAssumption, NEW q \in Requests, Unregister(q)
  PROVE  IInv'
<1>1. Moved(q, IF Attached(q) THEN "finishing" ELSE "unlocking") /\ ~request'[q].hit
  BY ProceedMoves DEF IInv, TInv, Unregister, Stages, Cleanup
<1>2. TInv'
  BY <1>1 DEF IInv, Unregister, TInv, TypeOK, Handle, NoHandle, MayUnregister, Mine, Moved, At,
      redis, history, counts
<1>3. HandleInv'
  BY <1>1 DEF IInv, Unregister, HandleInv, NoHandle, MayUnregister, Mine, Moved, Registered, Setup,
      Running, Wrapping
<1>4. AskedInv' /\ CancelHitsTarget'
  BY <1>1 DEF IInv, Unregister, AskedInv, CancelHitsTarget, NoHandle, Named, MayUnregister, Mine,
      redis, history
<1>5. StopInv' /\ InputsKept'
  BY <1>1 DEF IInv, Unregister, StopInv, InputsKept, TInv, TypeOK, SteerInv, MayUnregister, Mine,
      Moved, At, history, Before, Setup, Running
<1>6. KeyInv'
  BY <1>1 DEF IInv, Unregister, KeyInv, Attached, HandleInv, MayUnregister, Mine, Moved, redis,
      Registered, Running, Wrapping
<1>7. PlaceInv'
  BY <1>1 DEF IInv, Unregister, PlaceInv, MayUnregister, Mine, Moved, redis
<1>8. SteerInv'
  BY <1>1 DEF IInv, Unregister, SteerInv, TInv, TypeOK, Steer, MayUnregister, Mine, Moved, At,
      redis, history
<1> QED
  BY <1>2, <1>3, <1>4, <1>5, <1>6, <1>7, <1>8 DEF IInv

LEMMA FinishStep ==
  ASSUME IInv, AgentAssumption, NEW q \in Requests, Finish(q)
  PROVE  IInv'
<1>1. Moved(q, "revoking")
  BY GotoMoves DEF IInv, TInv, Finish, Stages, Cleanup
<1>2. /\ shared' \in Shared /\ shared'.run = shared.run
      /\ shared' = shared \/ (shared.run = q /\ shared'.status \in Terminal)
  BY FinishedKey DEF IInv, TInv, Finish
<1>3. TInv'
  BY <1>1, <1>2 DEF IInv, Finish, TInv, TypeOK, Terminal, Moved, At, local, history, counts
<1>4. HandleInv'
  BY <1>1, <1>2 DEF IInv, Finish, HandleInv, Moved, local, Registered, Setup, Running, Wrapping
<1>5. AskedInv' /\ CancelHitsTarget'
  BY <1>1, <1>2 DEF IInv, Finish, AskedInv, CancelHitsTarget, Named, Terminal, local, history
<1>6. StopInv' /\ InputsKept'
  BY <1>1, <1>2 DEF IInv, Finish, StopInv, InputsKept, TInv, TypeOK, SteerInv, Moved, At, history,
      Before, Setup, Running
<1>7. KeyInv'
  BY <1>1, <1>2 DEF IInv, Finish, KeyInv, Attached, Moved, local, Running, Wrapping
<1>8. PlaceInv'
  BY <1>1, <1>2 DEF IInv, Finish, PlaceInv, Moved, local
<1>9. SteerInv'
  BY <1>1, <1>2 DEF IInv, Finish, SteerInv, TInv, TypeOK, Steer, Moved, At, history
<1> QED
  BY <1>3, <1>4, <1>5, <1>6, <1>7, <1>8, <1>9 DEF IInv

LEMMA RevokeStep ==
  ASSUME IInv, AgentAssumption, NEW q \in Requests, Revoke(q)
  PROVE  IInv'
<1>1. Moved(q, "done")
  BY GotoMoves DEF IInv, TInv, Revoke, Stages, Over
<1>2. TInv'
  BY <1>1 DEF IInv, Revoke, TInv, TypeOK, Owner, NoOwner, Completed, Unlocked, Moved, At, redis,
      history, counts
<1>3. HandleInv'
  BY <1>1 DEF IInv, Revoke, HandleInv, Completed, Unlocked, Moved, Registered, Setup, Running,
      Wrapping
<1>4. AskedInv' /\ CancelHitsTarget'
  BY <1>1 DEF IInv, Revoke, AskedInv, CancelHitsTarget, Named, Completed, Unlocked, redis, history
<1>5. StopInv' /\ InputsKept'
  BY <1>1 DEF IInv, Revoke, StopInv, InputsKept, TInv, TypeOK, SteerInv, Completed, Unlocked, Moved,
      At, history, Before, Setup, Running
<1>6. KeyInv'
  BY <1>1 DEF IInv, Revoke, KeyInv, Attached, Completed, Unlocked, Moved, redis, Running, Wrapping
<1>7. PlaceInv'
  BY <1>1 DEF IInv, Revoke, PlaceInv, Completed, Unlocked, Moved, redis
<1>8. SteerInv'
  BY <1>1 DEF IInv, Revoke, SteerInv, TInv, TypeOK, Steer, Completed, Unlocked, Moved, At, redis,
      history
<1> QED
  BY <1>2, <1>3, <1>4, <1>5, <1>6, <1>7, <1>8 DEF IInv

LEMMA UnlockStep ==
  ASSUME IInv, AgentAssumption, NEW q \in Requests, Unlock(q)
  PROVE  IInv'
<1>1. Moved(q, IF request[q].at = "unlocking" THEN "done" ELSE "abandoned")
  BY GotoMoves DEF IInv, TInv, Unlock, Stages, Over
<1>2. TInv'
  BY <1>1 DEF IInv, Unlock, TInv, TypeOK, Unlocked, Moved, redis, local, history, counts
<1>3. HandleInv'
  BY <1>1 DEF IInv, Unlock, HandleInv, Unlocked, Moved, local, Registered, Setup, Running, Wrapping
<1>4. AskedInv' /\ CancelHitsTarget'
  BY <1>1 DEF IInv, Unlock, AskedInv, CancelHitsTarget, Named, Unlocked, redis, local, history
<1>5. StopInv' /\ InputsKept'
  BY <1>1 DEF IInv, Unlock, StopInv, InputsKept, TInv, TypeOK, SteerInv, Unlocked, Moved, history,
      Before, Setup, Running
<1>6. KeyInv'
  BY <1>1 DEF IInv, Unlock, KeyInv, Attached, Unlocked, Moved, redis, local, Running, Wrapping
<1>7. PlaceInv'
  BY <1>1 DEF IInv, Unlock, PlaceInv, Unlocked, Moved, redis, local
<1>8. SteerInv'
  BY <1>1 DEF IInv, Unlock, SteerInv, TInv, TypeOK, Steer, Unlocked, Moved, redis, history
<1> QED
  BY <1>2, <1>3, <1>4, <1>5, <1>6, <1>7, <1>8 DEF IInv

(* A generator that is closed late belongs to a run that was cancelled.    *)
LEMMA CleanUpStep ==
  ASSUME IInv, AgentAssumption, NEW q \in Requests, CleanUp(q)
  PROVE  IInv'
<1>1. TInv'
  BY DEF IInv, CleanUp, TInv, TypeOK, Steer, NoSteer, SteerUnregister, local, counts
<1>2. HandleInv'
  BY DEF IInv, CleanUp, HandleInv, SteerUnregister, local
<1>3. AskedInv' /\ CancelHitsTarget'
  BY DEF IInv, CleanUp, AskedInv, CancelHitsTarget, Named, SteerUnregister, local
<1>4. StopInv' /\ InputsKept'
  BY DEF IInv, CleanUp, StopInv, InputsKept, SteerInv, SteerUnregister, Running
<1>5. KeyInv'
  BY DEF IInv, CleanUp, KeyInv, Attached, SteerUnregister, local
<1>6. PlaceInv'
  BY DEF IInv, CleanUp, PlaceInv, StopInv, SteerUnregister, local, Running
<1>7. SteerInv'
  BY DEF IInv, CleanUp, SteerInv, NoSteer, SteerUnregister
<1> QED
  BY <1>1, <1>2, <1>3, <1>4, <1>5, <1>6, <1>7 DEF IInv

-----------------------------------------------------------------------------
(* What a request to cancel does: it may write the wish to the key of the  *)
(* run it names, and a call is under way that names the same run.          *)
Asking ==
  /\ shared' \in Shared /\ shared'.run = shared.run
  /\ Active(shared) => Active(shared')
  /\ shared'.status = "pause_requested" => shared'.reason # "none" /\ Named(shared.run)'
  /\ calls' \subseteq Call
  /\ \A c \in calls' : Named(c.target)'
  /\ asked \subseteq asked' /\ asked' \subseteq Requests \cup {None}

(* A request that has just arrived.                                        *)
Arrived(q) ==
  /\ request[q].at = "new"
  /\ request' \in [Requests -> Request]
  /\ request'[q].at \in {"barrier", "locking"} /\ request'[q].web \in Webs /\ ~request'[q].hit
  /\ \A r \in Requests \ {q} : request'[r] = request[r]

(* request_cancel is such a request, whoever calls it.                     *)
LEMMA RequestedCancel ==
  ASSUME TInv, AskedInv, AgentAssumption, NEW p \in Webs, NEW target \in Requests \cup {None},
         NEW reason \in {"user_paused", "superseded"}, NEW by \in Requests \cup {None},
         RequestCancel(p, target, reason, by)
  PROVE  Asking
<1>1. CASE Active(shared) /\ target \in {None, shared.run}
  <2>1. /\ shared' = [shared EXCEPT !.status = "pause_requested",
                        !.reason = IF "user_paused" \in {@, reason} THEN "user_paused" ELSE reason]
        /\ asked' = asked \cup {target}
    BY <1>1 DEF RequestCancel, RequestScript
  <2>2. shared' \in Shared /\ shared'.run = shared.run /\ shared'.status = "pause_requested"
          /\ shared'.reason # "none"
    BY <2>1 DEF TInv, TypeOK, Shared
  <2>3. Active(shared') /\ Named(shared.run)'
    BY <1>1, <2>1, <2>2 DEF Active, Terminal, Named
  <2> QED
    BY <2>1, <2>2, <2>3 DEF Asking, RequestCancel, CallFor, Call, TInv, TypeOK, AskedInv, Named
<1>2. CASE ~(Active(shared) /\ target \in {None, shared.run})
  BY <1>2 DEF Asking, RequestCancel, RequestScript, CallFor, Call, TInv, TypeOK, AskedInv, Named
<1> QED
  BY <1>1, <1>2

(* A request to cancel keeps the invariant, with an arrival or a legal     *)
(* move of the caller.                                                     *)
LEMMA AskingStep ==
  ASSUME IInv, AgentAssumption, Asking,
         \/ request' = request
         \/ \E q \in Requests : Arrived(q) \/ \E s \in Stages : Moved(q, s) /\ Legal(q, s),
         lock' \in Requests \cup {None}, cancels' \in 0 .. MaxCancels,
         UNCHANGED <<steer, local, cleaning, transcript, stopped, dropped, mishaps>>
  PROVE  IInv'
<1> USE DEF Asking, Arrived, Legal, local
<1>1. TInv'
  BY DEF IInv, TInv, TypeOK, Moved
<1>2. HandleInv'
  BY DEF IInv, HandleInv, Moved, Registered, Setup, Running, Wrapping
<1>3. AskedInv' /\ CancelHitsTarget'
  BY DEF IInv, AskedInv, CancelHitsTarget, Named
<1>4. StopInv' /\ InputsKept'
  BY DEF IInv, TInv, TypeOK, StopInv, InputsKept, Moved, Before
<1>5. KeyInv'
  BY DEF IInv, KeyInv, HandleInv, Attached, Moved, Running, Wrapping
<1>6. PlaceInv'
  <2>1. ASSUME NEW q \in Requests, NEW s \in Stages, Moved(q, s), Legal(q, s)
        PROVE  PlaceInv'
    BY <2>1 DEF IInv, PlaceInv, MayWrite, Moved
  <2>2. CASE request' = request \/ \E q \in Requests : Arrived(q)
    BY <2>2 DEF IInv, PlaceInv
  <2> QED
    BY <2>1, <2>2
<1>7. SteerInv'
  BY DEF IInv, SteerInv, TInv, TypeOK, Steer, Moved
<1> QED
  BY <1>1, <1>2, <1>3, <1>4, <1>5, <1>6, <1>7 DEF IInv

(* register: the process has no handle and gets that of the request, or    *)
(* its run is asked to go.                                                 *)
LEMMA RegisterStep ==
  ASSUME IInv, AgentAssumption, NEW q \in Requests, Register(q),
         At(q, "locking") \/ At(q, "awaiting") \/ At(q, "superseding"), lock' \in Requests \cup {None}
  PROVE  IInv'
<1>1. request[q].web \in Webs
  BY DEF IInv, TInv, At
<1>2. CASE handle[request[q].web].req = None
  <2>1. Moved(q, "loading")
    BY <1>2, GotoMoves DEF IInv, TInv, Register, Stages, Setup
  <2>2. handle' = [handle EXCEPT ![request[q].web] = [NoHandle EXCEPT !.req = q]]
    BY <1>2 DEF Register
  <2>3. [NoHandle EXCEPT !.req = q] \in Handle /\ [NoHandle EXCEPT !.req = q].req = q
          /\ [NoHandle EXCEPT !.req = q].run = None /\ ~[NoHandle EXCEPT !.req = q].set
    BY DEF NoHandle, Handle
  <2>4. UNCHANGED <<shared, steer, owner, calls, cleaning, transcript, history, counts>>
    BY <1>2 DEF Register, history
  <2>5. \A r \in Requests \ {q} : request[r].at \in Registered => request[r].web # request[q].web
    BY <1>2 DEF IInv, HandleInv, AgentAssumption
  <2> USE DEF history, counts
  <2>6. TInv'
    BY <1>1, <2>1, <2>2, <2>3, <2>4 DEF IInv, TInv, TypeOK, Moved
  <2>7. HandleInv'
    <3>1. \A p \in Webs : (handle[p].run \in {None, handle[p].req})'
      BY <1>1, <2>2, <2>3, <2>4 DEF IInv, TInv, HandleInv
    <3>2. ASSUME NEW r \in Requests, r # q
          PROVE  LET h == handle'[request'[r].web] IN
                 /\ request'[r].at \in Registered => h.req = r
                 /\ request'[r].at \in Setup => h.run = None
                 /\ request'[r].at \in {"steering", "running", "publishing"} => h.run = r
      <4>1. request'[r] = request[r]
        BY <2>1, <3>2 DEF Moved
      <4>2. CASE request[r].at \in Registered
        BY <1>1, <2>2, <2>5, <3>2, <4>1, <4>2 DEF IInv, TInv, HandleInv
      <4>3. CASE request[r].at \notin Registered
        BY <4>1, <4>3 DEF Registered, Setup, Running
      <4> QED
        BY <4>2, <4>3
    <3>3. LET h == handle'[request'[q].web] IN h.req = q /\ h.run = None
      BY <1>1, <2>1, <2>2, <2>3 DEF Moved, IInv, TInv, TypeOK
    <3> QED
      BY <2>1, <3>1, <3>2, <3>3 DEF HandleInv, Moved
  <2>8. AskedInv' /\ CancelHitsTarget'
    BY <1>1, <2>2, <2>3, <2>4 DEF IInv, AskedInv, CancelHitsTarget, Named
  <2>9. StopInv' /\ InputsKept'
    BY <2>1, <2>4 DEF IInv, TInv, TypeOK, StopInv, InputsKept, Moved, At, Before
  <2>10. KeyInv'
    BY <1>1, <2>1, <2>2, <2>3, <2>4, <2>5
      DEF IInv, TInv, TypeOK, KeyInv, Attached, Moved
  <2>11. PlaceInv'
    BY <2>1, <2>4 DEF IInv, PlaceInv, Moved
  <2>12. SteerInv'
    BY <2>1, <2>4 DEF IInv, SteerInv, TInv, TypeOK, Steer, Moved, At
  <2> QED
    BY <2>6, <2>7, <2>8, <2>9, <2>10, <2>11, <2>12 DEF IInv
<1>3. CASE handle[request[q].web].req # None
  <2>1. PICK s \in {"awaiting", "superseding"}, prev \in Requests :
          request' = [request EXCEPT ![q].at = s, ![q].prev = prev]
    BY <1>1, <1>3 DEF Register, IInv, TInv, TypeOK, Handle
  <2>2. Moved(q, s)
    <3>1. s \in Stages
      BY DEF Stages, Before
    <3>2. request \in [Requests -> Request]
      BY DEF IInv, TInv, TypeOK
    <3>3. request[q] \in Request /\ [request[q] EXCEPT !.at = s, !.prev = prev] \in Request
      <4>1. request[q] \in Request
        BY <3>2
      <4>2. prev \in Requests \cup {None}
        OBVIOUS
      <4> QED
        BY ONLY <3>1, <4>1, <4>2 DEF Request
    <3>4. request' = [request EXCEPT ![q] = [request[q] EXCEPT !.at = s, !.prev = prev]]
      BY <2>1
    <3> QED
      BY <3>2, <3>3, <3>4 DEF Moved, Request
  <2>3. Legal(q, s)
    BY DEF Legal, At, Before, Setup, Registered, Running, Wrapping
  <2>4. handle[request[q].web].run \in Requests \cup {None}
    BY <1>1 DEF IInv, TInv, TypeOK, Handle
  <2>5. /\ RequestCancel(request[q].web, handle[request[q].web].run, "superseded", q)
        /\ UNCHANGED <<steer, local, cleaning, transcript, stopped, dropped, mishaps, cancels>>
    BY <1>3 DEF Register, local, counts
  <2>6. s \in Stages /\ cancels' \in 0 .. MaxCancels
    BY <2>5 DEF Stages, Before, IInv, TInv, TypeOK
  <2> QED
    BY <1>1, <2>2, <2>3, <2>4, <2>5, <2>6, RequestedCancel, AskingStep DEF IInv
<1> QED
  BY <1>2, <1>3

(* Actions that register or ask.                                           *)
LEMMA TakeLockStep ==
  ASSUME IInv, AgentAssumption, NEW q \in Requests, TakeLock(q) \/ Supersede(q)
  PROVE  IInv'
<1>1. CASE TakeLock(q)
  BY <1>1, RegisterStep DEF TakeLock
<1>2. CASE Supersede(q)
  BY <1>2, RegisterStep DEF Supersede, IInv, TInv, TypeOK
<1> QED
  BY <1>1, <1>2

LEMMA ArriveStep ==
  ASSUME IInv, AgentAssumption, NEW q \in Requests, NEW p \in Webs, NEW prev \in Requests \cup {None},
         Arrive(q, p, prev)
  PROVE  IInv'
<1>1. Arrived(q)
  BY DEF Arrived, Arrive, At, IInv, TInv, TypeOK, Request, Stages, Before
<1>2. Asking
  <2>1. CASE prev = None
    BY <2>1 DEF Arrive, Asking, IInv, TInv, TypeOK, AskedInv, Named
  <2>2. CASE prev # None
    BY <2>2, RequestedCancel DEF Arrive, IInv
  <2> QED
    BY <2>1, <2>2
<1>3. lock' \in Requests \cup {None} /\ cancels' \in 0 .. MaxCancels
  BY DEF Arrive, counts, IInv, TInv, TypeOK
<1> QED
  BY <1>1, <1>2, <1>3, AskingStep DEF Arrive, counts, IInv

LEMMA CancelRouteStep ==
  ASSUME IInv, AgentAssumption, NEW p \in Webs, NEW target \in Targets, CancelRoute(p, target)
  PROVE  IInv'
<1>1. Asking
  BY RequestedCancel DEF CancelRoute, IInv, AgentAssumption
<1>2. cancels' \in 0 .. MaxCancels
  BY DEF CancelRoute, IInv, TInv, TypeOK
<1> QED
  BY <1>1, <1>2, AskingStep DEF CancelRoute, local, IInv, TInv, TypeOK

-----------------------------------------------------------------------------
(* Updates of handles that leave their requests, runs and flags.           *)
SameRuns ==
  /\ handle' \in [Webs -> Handle]
  /\ \A o \in Webs : /\ handle'[o].req = handle[o].req /\ handle'[o].run = handle[o].run
                     /\ handle'[o].set = handle[o].set

LEMMA HandleUpdates ==
  ASSUME TypeOK, NEW p \in Webs, NEW h \in Handle, handle' = [handle EXCEPT ![p] = h],
         h.req = handle[p].req, h.run = handle[p].run, h.set = handle[p].set
  PROVE  SameRuns
  BY Zenon DEF TypeOK, SameRuns

(* Setting the flag of a handle, with its reason.                          *)
LEMMA FlagSet ==
  ASSUME TypeOK, NEW p \in Webs, NEW reason \in {"none", "user_paused", "superseded"},
         \/ handle' = [handle EXCEPT ![p].armed = TRUE]
         \/ handle' = [handle EXCEPT ![p].rejected = TRUE]
         \/ handle' = [handle EXCEPT ![p].watched = FALSE]
         \/ handle' = [handle EXCEPT ![p].reason = reason]
  PROVE  SameRuns
<1>1. handle[p] \in Handle
  BY DEF TypeOK
<1>2. PICK h : /\ handle' = [handle EXCEPT ![p] = h]
               /\ \/ h = [handle[p] EXCEPT !.armed = TRUE]
                  \/ h = [handle[p] EXCEPT !.rejected = TRUE]
                  \/ h = [handle[p] EXCEPT !.watched = FALSE]
                  \/ h = [handle[p] EXCEPT !.reason = reason]
  BY Zenon
<1>3. h \in Handle /\ h.req = handle[p].req /\ h.run = handle[p].run /\ h.set = handle[p].set
  BY <1>1, <1>2 DEF Handle
<1> QED
  BY <1>2, <1>3, HandleUpdates

(* arm_run_task delivers the cancel that came during the setup: the flag   *)
(* names the request, so the task may be stopped.                          *)
LEMMA ArmStep ==
  ASSUME IInv, AgentAssumption, NEW q \in Requests, Arm(q)
  PROVE  IInv'
<1> DEFINE p == request[q].web
<1>1. p \in Webs /\ handle[p].req = q /\ handle[p].run = None
  BY DEF IInv, TInv, HandleInv, Arm, At, Setup, Registered
<1>2. /\ request' \in [Requests -> Request]
      /\ request'[q].at = "attaching" /\ request'[q].web = p
      /\ request'[q].hit => handle[p].set
      /\ \A r \in Requests \ {q} : request'[r] = request[r]
  <2>1. handle[p].set \in BOOLEAN /\ request[q] \in Request
    BY <1>1 DEF IInv, TInv, TypeOK, Handle
  <2>2. \A hit \in BOOLEAN : /\ [request[q] EXCEPT !.at = "attaching", !.hit = hit] \in Request
                             /\ [request[q] EXCEPT !.at = "attaching", !.hit = hit].at = "attaching"
                             /\ [request[q] EXCEPT !.at = "attaching", !.hit = hit].web = request[q].web
                             /\ [request[q] EXCEPT !.at = "attaching", !.hit = hit].hit = hit
    BY <2>1 DEF Request, Stages, Setup
  <2>3. request' = [request EXCEPT ![q] = [request[q] EXCEPT !.at = "attaching", !.hit = handle[p].set]]
    BY DEF Arm
  <2> QED
    BY <2>1, <2>2, <2>3, Zenon DEF IInv, TInv, TypeOK
<1>3. SameRuns
  BY <1>1, FlagSet DEF Arm, IInv, TInv
<1>4. /\ request[q].at = "loading" /\ stopped' \subseteq Requests
      /\ stopped' = IF handle[p].set THEN stopped \cup {q} ELSE stopped
      /\ UNCHANGED <<lock, shared, steer, owner, calls, cleaning, transcript, asked, dropped, counts>>
  BY DEF Arm, At, redis, IInv, TInv, TypeOK
<1> HIDE DEF p
<1> USE DEF counts, SameRuns
<1>5. TInv'
  BY <1>1, <1>2, <1>3, <1>4 DEF IInv, TInv, TypeOK
<1>6. HandleInv'
  BY <1>1, <1>2, <1>3, <1>4 DEF IInv, TInv, HandleInv, Registered, Setup, Running, Wrapping, p
<1>7. AskedInv' /\ CancelHitsTarget'
  BY <1>1, <1>3, <1>4 DEF IInv, AskedInv, CancelHitsTarget, Named
<1>8. StopInv' /\ InputsKept'
  BY <1>2, <1>4 DEF IInv, TInv, TypeOK, StopInv, InputsKept, Setup
<1>9. KeyInv'
  BY <1>1, <1>2, <1>3, <1>4 DEF IInv, KeyInv, Attached
<1>10. PlaceInv'
  BY <1>2, <1>4 DEF IInv, PlaceInv
<1>11. SteerInv'
  BY <1>2, <1>4 DEF IInv, TInv, TypeOK, Steer, SteerInv
<1> QED
  BY <1>5, <1>6, <1>7, <1>8, <1>9, <1>10, <1>11 DEF IInv

(* attach_run_id: the run gets the key when no other run is active there,  *)
(* and with it its handle and the write permission.                        *)
LEMMA AttachStep ==
  ASSUME IInv, AgentAssumption, NEW q \in Requests, Attach(q)
  PROVE  IInv'
<1> DEFINE p == request[q].web
<1>1. p \in Webs /\ handle[p].req = q /\ handle[p].run = None /\ q # None
  BY DEF IInv, TInv, HandleInv, Attach, At, Setup, Registered
<1>2. /\ request[q].at = "attaching" /\ ~request[q].hit
      /\ UNCHANGED <<lock, steer, calls, cleaning, transcript, history, counts>>
  BY DEF Attach, At
<1>3. CASE RegisterRefused(q)
  <2>1. Moved(q, "saving")
    BY <1>3, GotoMoves DEF Attach, IInv, TInv, Stages, Wrapping
  <2>2. SameRuns
    BY <1>1, <1>3, FlagSet DEF Attach, IInv, TInv
  <2>3. UNCHANGED <<shared, owner>>
    BY <1>3 DEF Attach
  <2> HIDE DEF p
  <2> USE DEF history, counts, SameRuns
  <2>4. TInv'
    BY <1>2, <2>1, <2>2, <2>3 DEF IInv, TInv, TypeOK, Moved
  <2>5. HandleInv'
    BY <1>1, <1>2, <2>1, <2>2 DEF IInv, TInv, HandleInv, Registered, Setup, Running, Wrapping,
        Moved, p
  <2>6. AskedInv' /\ CancelHitsTarget'
    BY <1>2, <2>2, <2>3 DEF IInv, AskedInv, CancelHitsTarget, Named
  <2>7. StopInv' /\ InputsKept'
    BY <1>2, <2>1 DEF IInv, TInv, TypeOK, StopInv, InputsKept, Moved, Setup
  <2>8. KeyInv'
    BY <1>1, <1>2, <2>1, <2>2, <2>3 DEF IInv, KeyInv, Attached, Moved, p
  <2>9. PlaceInv'
    BY <1>2, <2>1, <2>3 DEF IInv, PlaceInv, Moved
  <2>10. SteerInv'
    BY <1>2, <2>1 DEF IInv, TInv, TypeOK, Steer, SteerInv, Moved
  <2> QED
    BY <2>4, <2>5, <2>6, <2>7, <2>8, <2>9, <2>10 DEF IInv
<1>4. CASE ~RegisterRefused(q)
  <2>1. Moved(q, "steering")
    BY <1>4, GotoMoves DEF Attach, IInv, TInv, Stages, Running
  <2>2. /\ shared' \in Shared /\ shared'.run = q /\ shared'.status = "running" /\ Active(shared')
    BY <1>1, <1>4 DEF Attach, RegisterScript, Shared, Active, Terminal
  <2>3. /\ handle' \in [Webs -> Handle]
        /\ handle'[p].run = q
        /\ \A o \in Webs : /\ handle'[o].req = handle[o].req /\ handle'[o].set = handle[o].set
                           /\ o # p => handle'[o] = handle[o]
    BY <1>1, <1>4 DEF Attach, IInv, TInv, TypeOK, Handle
  <2>4. /\ owner' \in [Webs -> Owner] /\ owner'[p].run = q
        /\ \A o \in Webs \ {p} : owner'[o] = owner[o]
    BY <1>1, <1>4 DEF Attach, IInv, TInv, TypeOK, Owner
  <2>5. \A r \in Requests \ {q} : request[r].at \in Registered => request[r].web # p
    BY <1>1 DEF IInv, HandleInv
  <2>6. \A r \in Requests \ {q} : request[r].at \in Running \cup Wrapping => ~Attached(r)
    BY <1>4 DEF IInv, KeyInv, RegisterRefused
  <2> HIDE DEF p
  <2> USE DEF history, counts
  <2>7. TInv'
    BY <1>2, <2>1, <2>2, <2>3, <2>4 DEF IInv, TInv, TypeOK, Moved
  <2>8. HandleInv'
    <3>1. \A o \in Webs : (handle[o].run \in {None, handle[o].req})'
      BY <1>1, <2>3 DEF IInv, HandleInv
    <3>2. \A r \in Requests \ {q} : request[r].at \in Registered => handle'[request[r].web] = handle[request[r].web]
      BY <2>3, <2>5 DEF IInv, TInv, Registered, Setup, Running, Wrapping
    <3> QED
      BY <1>1, <2>1, <2>3, <3>1, <3>2 DEF IInv, HandleInv, Registered, Setup, Running, Moved, p
  <2>9. AskedInv' /\ CancelHitsTarget'
    BY <1>2, <2>2, <2>3 DEF IInv, AskedInv, CancelHitsTarget, Named
  <2>10. StopInv' /\ InputsKept'
    BY <1>2, <2>1 DEF IInv, TInv, TypeOK, StopInv, InputsKept, Moved, Setup
  <2>11. KeyInv'
    BY <1>1, <2>1, <2>2, <2>3, <2>5, <2>6 DEF IInv, KeyInv, Attached, Moved
  <2>12. PlaceInv'
    <3>1. \A r \in Requests \ {q} : request[r].at \notin {"steering", "running", "publishing"}
      BY <2>6 DEF IInv, TInv, HandleInv, Attached, Running
    <3> QED
      BY <1>1, <2>1, <2>4, <3>1 DEF PlaceInv, Moved, p
  <2>13. SteerInv'
    BY <1>2, <2>1 DEF IInv, TInv, TypeOK, Steer, SteerInv, Moved
  <2> QED
    BY <2>7, <2>8, <2>9, <2>10, <2>11, <2>12, <2>13 DEF IInv
<1> QED
  BY <1>3, <1>4

(* The monitor begins a cancel of the run of its own handle, which the key *)
(* names.                                                                  *)
LEMMA MonitorStep ==
  ASSUME IInv, AgentAssumption, NEW p \in Webs, Monitor(p)
  PROVE  IInv'
<1>1. SameRuns
  BY FlagSet DEF Monitor, IInv, TInv
<1>2. calls' \subseteq Call
  BY DEF Monitor, CallFor, Call, IInv, TInv, TypeOK, Shared
<1>3. UNCHANGED <<request, lock, shared, steer, owner, cleaning, transcript, history, counts>>
  BY DEF Monitor, redis
<1> USE DEF history, counts, SameRuns
<1>4. TInv'
  BY <1>1, <1>2, <1>3 DEF IInv, TInv, TypeOK
<1>5. HandleInv'
  BY <1>1, <1>3 DEF IInv, TInv, HandleInv, Registered, Setup, Running, Wrapping
<1>6. AskedInv' /\ CancelHitsTarget'
  <2>1. CancelHitsTarget' /\ Named(shared.run)
    BY <1>3 DEF IInv, AskedInv, CancelHitsTarget, Monitor
  <2>2. \A c \in calls' : Named(c.target)'
    BY <1>3, <2>1 DEF IInv, AskedInv, Monitor, CallFor, Named
  <2> QED
    BY <1>1, <1>3, <2>1, <2>2 DEF IInv, AskedInv, Named
<1>7. StopInv' /\ InputsKept'
  BY <1>3 DEF IInv, StopInv, InputsKept
<1>8. KeyInv'
  BY <1>1, <1>3 DEF IInv, KeyInv, Attached
<1>9. PlaceInv' /\ SteerInv'
  BY <1>3 DEF IInv, PlaceInv, SteerInv
<1> QED
  BY <1>4, <1>5, <1>6, <1>7, <1>8, <1>9 DEF IInv

(* begin_pause touches one process and never the run that owns it.         *)
LEMMA BegunPause ==
  ASSUME TypeOK, NEW p \in Webs, NEW run, BeginPause(p, run)
  PROVE  /\ owner' \in [Webs -> Owner]
         /\ \A o \in Webs : owner'[o].run = owner[o].run /\ (o # p => owner'[o] = owner[o])
  BY DEF TypeOK, BeginPause, Owner

-----------------------------------------------------------------------------
(* The sections of a cancel call: it meets a handle of the run it names    *)
(* (or any, if it names none), waits for the boundary of a publication,    *)
(* ...                                                                     *)
LEMMA CancelSelectStep ==
  ASSUME IInv, AgentAssumption, NEW c \in calls, CancelSelect(c) \/ CancelPause(c)
  PROVE  IInv'
<1>1. c \in Call /\ c.web \in Webs
  BY DEF IInv, TInv, TypeOK, Call
<1>2. SameRuns
  <2>1. CASE CancelSelect(c) /\ Meets(c)
    <3>1. (IF "user_paused" \in {handle[c.web].reason, c.reason} THEN "user_paused" ELSE c.reason)
             \in {"none", "user_paused", "superseded"}
      BY <1>1 DEF Call
    <3> QED
      BY <1>1, <2>1, <3>1, FlagSet DEF CancelSelect, IInv, TInv
  <2>2. CASE handle' = handle
    BY <2>2 DEF SameRuns, IInv, TInv, TypeOK
  <2> QED
    BY <2>1, <2>2 DEF CancelSelect, CancelPause
<1>3. /\ owner' \in [Webs -> Owner]
      /\ \A o \in Webs : owner'[o].run = owner[o].run /\ (Publishing(o) => owner'[o] = owner[o])
  <2>1. CASE owner' = owner
    BY <2>1 DEF IInv, TInv, TypeOK
  <2>2. CASE ~Publishing(c.web) /\ \E run : BeginPause(c.web, run)
    BY <1>1, <2>2, BegunPause DEF IInv, TInv
  <2> QED
    BY <2>1, <2>2 DEF CancelSelect, CancelPause
<1>4. calls' \subseteq Call /\ \A d \in calls' : Named(d.target)
  <2>1. \A run \in Requests \cup {None}, at \in {"pausing", "marking"} :
          /\ [c EXCEPT !.at = at, !.run = run] \in Call /\ [c EXCEPT !.at = at] \in Call
          /\ [c EXCEPT !.at = at, !.run = run].target = c.target /\ [c EXCEPT !.at = at].target = c.target
    BY <1>1 DEF Call
  <2>2. handle[c.web].run \in Requests \cup {None}
    BY <1>1 DEF IInv, TInv, TypeOK, Handle
  <2>3. PICK d \in Call : d.target = c.target /\ calls' \in {calls \ {c}, (calls \ {c}) \cup {d}}
    BY <1>1, <2>1, <2>2 DEF CancelSelect, CancelPause
  <2> QED
    BY <2>3 DEF IInv, TInv, TypeOK, AskedInv
<1>5. UNCHANGED <<request, lock, shared, steer, cleaning, transcript, history, counts>>
  BY DEF CancelSelect, CancelPause, redis
<1> USE DEF history, counts, SameRuns
<1>6. TInv'
  BY <1>2, <1>3, <1>4, <1>5 DEF IInv, TInv, TypeOK
<1>7. HandleInv'
  BY <1>2, <1>5 DEF IInv, TInv, HandleInv, Registered, Setup, Running, Wrapping
<1>8. AskedInv' /\ CancelHitsTarget'
  BY <1>2, <1>4, <1>5 DEF IInv, AskedInv, CancelHitsTarget, Named
<1>9. StopInv' /\ InputsKept'
  BY <1>5 DEF IInv, StopInv, InputsKept
<1>10. KeyInv'
  BY <1>2, <1>5 DEF IInv, KeyInv, Attached
<1>11. PlaceInv'
  BY <1>3, <1>5 DEF IInv, TInv, PlaceInv, Publishing
<1>12. SteerInv'
  BY <1>5 DEF IInv, SteerInv
<1> QED
  BY <1>6, <1>7, <1>8, <1>9, <1>10, <1>11, <1>12 DEF IInv

(* Tasks are marked, each a stopped one; nothing else moves.               *)
Struck ==
  /\ request' \in [Requests -> Request]
  /\ \A r \in Requests : /\ request'[r].at = request[r].at /\ request'[r].web = request[r].web
                         /\ request'[r].hit => r \in stopped'
  /\ stopped \subseteq stopped' /\ stopped' \subseteq Requests

(* ... and marks the task of the handle.                                   *)
LEMMA HitStrikes ==
  ASSUME IInv, NEW q \in Requests, Hit(q)
  PROVE  Struck /\ stopped' \subseteq stopped \cup {q}
<1> DEFINE h == request[q].hit \/ request[q].at \notin Over
           r == [request[q] EXCEPT !.hit = h]
<1>1. h \in BOOLEAN /\ request[q] \in Request
  BY DEF IInv, TInv, TypeOK
<1>2. r \in Request /\ r.at = request[q].at /\ r.web = request[q].web /\ (r.hit <=> h)
  BY <1>1 DEF Request
<1>3. request' = [request EXCEPT ![q] = r]
  BY DEF Hit
<1>4. h => q \in stopped'
  BY DEF Hit, IInv, StopInv
<1>5. stopped \subseteq stopped' /\ stopped' \subseteq stopped \cup {q}
  BY DEF Hit
<1> HIDE DEF h, r
<1>6. request \in [Requests -> Request] /\ \A o \in Requests : request[o].hit => o \in stopped
  BY DEF IInv, TInv, TypeOK, StopInv
<1> QED
  BY <1>2, <1>3, <1>4, <1>5, <1>6 DEF Struck, IInv, TInv, TypeOK

(* Marking tasks that were named keeps the invariant.                      *)
LEMMA StruckStep ==
  ASSUME IInv, AgentAssumption, Struck, \A r \in stopped' \ stopped : Named(r)',
         asked \subseteq asked', asked' \subseteq Requests \cup {None},
         handle' \in [Webs -> Handle],
         \A p \in Webs : /\ handle'[p].req = handle[p].req /\ handle'[p].run = handle[p].run
                        /\ (handle'[p].set => (handle[p].set \/ Named(handle[p].req)')),
         calls' \subseteq calls, mishaps' \in 0 .. MaxMishaps,
         UNCHANGED <<lock, redis, owner, cleaning, transcript, dropped, cancels>>
  PROVE  IInv'
<1> USE DEF redis, Struck
<1>1. TInv'
  BY DEF IInv, TInv, TypeOK
<1>2. HandleInv'
  BY DEF IInv, TInv, HandleInv, Registered, Setup, Running, Wrapping
<1>3. AskedInv'
  BY DEF IInv, AskedInv, Named
<1>4. CancelHitsTarget'
  BY DEF IInv, CancelHitsTarget, Named
<1>5. StopInv' /\ InputsKept'
  BY DEF IInv, TInv, TypeOK, StopInv, InputsKept
<1>6. KeyInv'
  BY DEF IInv, KeyInv, Attached
<1>7. PlaceInv'
  BY DEF IInv, TInv, PlaceInv
<1>8. SteerInv'
  BY DEF IInv, TInv, TypeOK, Steer, SteerInv
<1> QED
  BY <1>1, <1>2, <1>3, <1>4, <1>5, <1>6, <1>7, <1>8 DEF IInv

(* The time-out of a run names the run it strikes.                         *)
LEMMA RunTimeoutStep ==
  ASSUME IInv, AgentAssumption, NEW q \in Requests, RunTimeout(q)
  PROVE  IInv'
<1>1. Struck /\ stopped' \subseteq stopped \cup {q}
  BY HitStrikes DEF RunTimeout
<1>2. asked \subseteq asked' /\ asked' \subseteq Requests \cup {None} /\ Named(q)'
  BY DEF RunTimeout, Named, IInv, TInv, TypeOK
<1>3. handle' = handle /\ handle \in [Webs -> Handle]
  BY DEF RunTimeout, local, IInv, TInv, TypeOK
<1>4. mishaps' \in 0 .. MaxMishaps /\ calls' \subseteq calls
  BY DEF RunTimeout, Mishap, IInv, TInv, TypeOK
<1> QED
  BY <1>1, <1>2, <1>3, <1>4, StruckStep DEF RunTimeout, local

LEMMA CancelMarkStep ==
  ASSUME IInv, AgentAssumption, NEW c \in calls, CancelMark(c)
  PROVE  IInv'
<1> DEFINE p == c.web
<1>1. c \in Call /\ p \in Webs
  BY DEF IInv, TInv, TypeOK, Call
<1>2. /\ calls' \subseteq calls /\ asked' = asked /\ mishaps' = mishaps
      /\ UNCHANGED <<lock, redis, owner, cleaning, transcript, dropped, cancels>>
  BY DEF CancelMark, counts
<1>3. asked \subseteq asked' /\ asked' \subseteq Requests \cup {None} /\ mishaps' \in 0 .. MaxMishaps
  BY <1>2 DEF IInv, TInv, TypeOK
<1>4. ASSUME UNCHANGED <<request, stopped>>
      PROVE  Struck /\ \A r \in stopped' \ stopped : Named(r)'
  BY <1>4 DEF Struck, IInv, TInv, TypeOK, StopInv
<1>5. CASE Meets(c)
  <2>1. /\ handle[p].req \in Requests /\ Named(handle[p].req)
    BY <1>1, <1>5 DEF Meets, Named, IInv, TInv, TypeOK, HandleInv, AskedInv, Handle
  <2>3. /\ handle' \in [Webs -> Handle]
        /\ \A o \in Webs : /\ handle'[o].req = handle[o].req /\ handle'[o].run = handle[o].run
                           /\ o # p => handle'[o] = handle[o]
    <3>1. handle[p] \in Handle /\ handle \in [Webs -> Handle]
      BY <1>1 DEF IInv, TInv, TypeOK
    <3>2. /\ [handle[p] EXCEPT !.set = TRUE] \in Handle
          /\ [handle[p] EXCEPT !.set = TRUE].req = handle[p].req
          /\ [handle[p] EXCEPT !.set = TRUE].run = handle[p].run
      BY <3>1 DEF Handle
    <3>3. handle' = [handle EXCEPT ![p] = [handle[p] EXCEPT !.set = TRUE]]
      BY <1>5 DEF CancelMark
    <3> QED
      BY <1>1, <3>1, <3>2, <3>3
  <2>4. Struck /\ \A r \in stopped' \ stopped : Named(r)'
    <3>1. CASE Hit(handle[p].req)
      BY <1>2, <2>1, <3>1, HitStrikes DEF Named
    <3> QED
      BY <1>4, <1>5, <3>1 DEF CancelMark
  <2>5. \A o \in Webs : handle'[o].set => (handle[o].set \/ Named(handle[o].req)')
    BY <1>2, <2>1, <2>3 DEF Named
  <2> QED
    BY <1>2, <1>3, <2>3, <2>4, <2>5, StruckStep
<1>6. CASE ~Meets(c)
  <2>1. handle' = handle /\ handle \in [Webs -> Handle]
    BY <1>6 DEF CancelMark, IInv, TInv, TypeOK
  <2>2. Struck /\ \A r \in stopped' \ stopped : Named(r)'
    BY <1>4, <1>6 DEF CancelMark
  <2> QED
    BY <1>2, <1>3, <2>1, <2>2, StruckStep
<1> QED
  BY <1>5, <1>6

(* An input is accepted only while the queue is open.                      *)
LEMMA SteerRouteStep ==
  ASSUME IInv, AgentAssumption, SteerRoute \/ LoseLock
  PROVE  IInv'
<1>1. /\ steer' \in Steer /\ steer'.run = steer.run /\ steer'.status = steer.status
      /\ steer' # steer => steer.status = "accepting"
  BY DEF SteerRoute, LoseLock, redis, IInv, TInv, TypeOK, Steer
<1>2. lock' \in Requests \cup {None} /\ mishaps' \in 0 .. MaxMishaps
  BY DEF SteerRoute, LoseLock, Mishap, counts, IInv, TInv, TypeOK
<1>3. UNCHANGED <<request, shared, local, calls, cleaning, transcript, history, cancels>>
  BY DEF SteerRoute, LoseLock, redis, counts
<1> USE DEF local, history
<1>4. TInv' /\ HandleInv'
  BY <1>1, <1>2, <1>3 DEF IInv, TInv, TypeOK, HandleInv
<1>5. AskedInv' /\ StopInv' /\ KeyInv'
  BY <1>3 DEF IInv, AskedInv, Named, StopInv, KeyInv, Attached
<1>6. PlaceInv' /\ CancelHitsTarget' /\ InputsKept'
  BY <1>1, <1>3 DEF IInv, PlaceInv, CancelHitsTarget, InputsKept
<1>7. SteerInv'
  BY <1>1, <1>3 DEF IInv, SteerInv
<1> QED
  BY <1>4, <1>5, <1>6, <1>7 DEF IInv

-----------------------------------------------------------------------------
(* Mishaps.                                                                *)
LEMMA MishapCounts ==
  ASSUME TypeOK, AgentAssumption, Mishap
  PROVE  mishaps' \in 0 .. MaxMishaps
  BY DEF TypeOK, AgentAssumption, Mishap

(* A crash takes all requests and handles of a process; keys and           *)
(* transcript stay, and no longer belong to an attached run.               *)
LEMMA CrashStep ==
  ASSUME IInv, AgentAssumption, NEW p \in Webs, Crash(p)
  PROVE  IInv'
<1>1. /\ request' \in [Requests -> Request]
      /\ \A q \in Requests : /\ request'[q].at \in Over \/ (request[q].web # p /\ request'[q] = request[q])
                             /\ \/ request'[q].at = request[q].at
                                \/ request'[q].at = "dead" /\ request[q].web = p
                             /\ request'[q].web = request[q].web
                             /\ request'[q].hit => request[q].hit
  <2>1. \A q \in Requests : /\ request[q] \in Request
                            /\ [request[q] EXCEPT !.at = "dead", !.hit = FALSE] \in Request
                            /\ [request[q] EXCEPT !.at = "dead", !.hit = FALSE].at = "dead"
                            /\ [request[q] EXCEPT !.at = "dead", !.hit = FALSE].web = request[q].web
                            /\ ~[request[q] EXCEPT !.at = "dead", !.hit = FALSE].hit
    <3>1. "dead" \in Stages /\ \A q \in Requests : request[q] \in Request
      BY DEF IInv, TInv, TypeOK, Stages, Over
    <3>2. ASSUME NEW r \in Request
          PROVE  /\ [r EXCEPT !.at = "dead", !.hit = FALSE] \in Request
                 /\ [r EXCEPT !.at = "dead", !.hit = FALSE].at = "dead"
                 /\ [r EXCEPT !.at = "dead", !.hit = FALSE].web = r.web
                 /\ ~[r EXCEPT !.at = "dead", !.hit = FALSE].hit
      BY <3>1, <3>2 DEF Request
    <3> QED
      BY <3>1, <3>2
  <2>2. \A q \in Requests :
          \/ /\ request[q].web = p /\ request[q].at \notin Over
             /\ request'[q] = [request[q] EXCEPT !.at = "dead", !.hit = FALSE]
          \/ (request[q].web # p \/ request[q].at \in Over) /\ request'[q] = request[q]
    BY DEF Crash
  <2>3. request' \in [Requests -> Request]
    <3>1. request' = [q \in Requests |-> request'[q]]
      BY DEF Crash
    <3>2. \A q \in Requests : request'[q] \in Request
      BY <2>1, <2>2
    <3> QED
      BY <3>1, <3>2
  <2>4. "dead" \in Over
    BY DEF Over
  <2> QED
    BY <2>1, <2>2, <2>3, <2>4
<1>2. /\ NoHandle \in Handle /\ NoHandle.req = None /\ NoHandle.run = None /\ ~NoHandle.set
      /\ NoOwner \in Owner
  BY DEF NoHandle, Handle, NoOwner, Owner
<1>3. /\ handle' \in [Webs -> Handle] /\ handle'[p] = NoHandle
      /\ owner' \in [Webs -> Owner]
      /\ \A o \in Webs \ {p} : handle'[o] = handle[o] /\ owner'[o] = owner[o]
  BY <1>2 DEF Crash, IInv, TInv, TypeOK
<1>4. /\ calls' \subseteq calls /\ cleaning' \subseteq cleaning
      /\ lock' \in Requests \cup {None} /\ mishaps' \in 0 .. MaxMishaps
      /\ UNCHANGED <<shared, steer, transcript, history, cancels>>
  <2>1. calls' \subseteq calls /\ cleaning' \subseteq cleaning
    BY DEF Crash
  <2>2. lock' \in Requests \cup {None}
    BY DEF Crash, IInv, TInv, TypeOK
  <2>3. mishaps' \in 0 .. MaxMishaps
    BY MishapCounts DEF Crash, IInv, TInv
  <2> QED
    BY <2>1, <2>2, <2>3 DEF Crash, redis
<1> USE DEF history
<1>5. TInv'
  <2>1. calls' \subseteq Call /\ cleaning' \subseteq Requests
    BY <1>4 DEF IInv, TInv, TypeOK
  <2>2. \A q \in Requests : (request[q].at # "new" => request[q].web \in Webs)'
    BY <1>1 DEF IInv, TInv
  <2> QED
    BY <1>1, <1>3, <1>4, <2>1, <2>2 DEF IInv, TInv, TypeOK
<1>6. HandleInv'
  BY <1>1, <1>2, <1>3 DEF IInv, TInv, HandleInv, Registered, Setup, Running, Wrapping, Over
<1>7. AskedInv' /\ CancelHitsTarget'
  BY <1>2, <1>3, <1>4 DEF IInv, AskedInv, CancelHitsTarget, Named
<1>8. StopInv' /\ InputsKept'
  BY <1>1, <1>4 DEF IInv, TInv, TypeOK, StopInv, InputsKept, Before, Setup, Running
<1>9. KeyInv'
  BY <1>1, <1>3, <1>4 DEF IInv, KeyInv, Attached, Running, Wrapping, Over
<1>10. PlaceInv'
  BY <1>1, <1>3, <1>4 DEF IInv, TInv, PlaceInv, Over
<1>11. SteerInv'
  BY <1>1, <1>4 DEF IInv, TInv, TypeOK, Steer, SteerInv
<1> QED
  BY <1>5, <1>6, <1>7, <1>8, <1>9, <1>10, <1>11 DEF IInv

(* Only keys of runs that are over expire.                                 *)
LEMMA ExpireStep ==
  ASSUME IInv, AgentAssumption, Expire
  PROVE  IInv'
<1>1. /\ shared.run \in Requests /\ request[shared.run].at \in Over
      /\ shared' = NoShared
      /\ UNCHANGED <<request, lock, local, calls, cleaning, transcript, asked, stopped, counts>>
  BY DEF Expire, IInv, TInv, TypeOK, Shared
<1>2. /\ steer' \in {steer, NoSteer} /\ dropped' \in {dropped, dropped \cup {steer.run}}
      /\ steer' # steer \/ dropped' # dropped => steer.run \in Requests /\ request[steer.run].at \in Over
      /\ dropped' # dropped => steer.queued > 0
  BY DEF Expire, IInv, TInv, TypeOK, Steer
<1>3. NoShared \in Shared /\ NoShared.status = "finished" /\ NoSteer \in Steer /\ NoSteer.run = None
  BY DEF NoShared, Shared, Terminal, NoSteer, Steer
<1> USE DEF local, counts
<1>4. TInv' /\ HandleInv'
  BY <1>1, <1>2, <1>3 DEF IInv, TInv, TypeOK, HandleInv
<1>5. AskedInv' /\ StopInv' /\ CancelHitsTarget'
  BY <1>1, <1>3 DEF IInv, AskedInv, Named, StopInv, CancelHitsTarget
<1>6. KeyInv'
  BY <1>1 DEF IInv, KeyInv, Attached, Over, Running, Wrapping
<1>7. PlaceInv'
  BY <1>1, <1>2 DEF IInv, PlaceInv, Over
<1>8. SteerInv'
  BY <1>1, <1>2, <1>3 DEF IInv, SteerInv
<1>9. InputsKept'
  <2>1. dropped' # dropped => steer.run \in stopped \/ request[steer.run].at = "dead"
    BY <1>2 DEF IInv, SteerInv, Over
  <2> QED
    BY <1>1, <1>2, <2>1 DEF IInv, InputsKept
<1> QED
  BY <1>4, <1>5, <1>6, <1>7, <1>8, <1>9 DEF IInv

-----------------------------------------------------------------------------
(* The invariant holds at first, ...                                       *)
LEMMA IInvInit ==
  ASSUME AgentAssumption, Init
  PROVE  IInv
<1>1. TypeOK
  BY DEF Init, TypeOK, Request, Shared, Steer, Handle, Owner, Call, NoShared, NoSteer, NoHandle,
      NoOwner, Stages, Before, Terminal
<1>2. /\ \A q \in Requests : request[q].at = "new" /\ ~request[q].hit
      /\ shared.status = "finished" /\ steer.run = None /\ calls = {} /\ cleaning = {} /\ stopped = {} /\ dropped = {}
      /\ \A p \in Webs : handle[p].run = None /\ ~handle[p].set
  BY DEF Init, NoShared, NoSteer, NoHandle
<1>3. TInv
  BY <1>1, <1>2 DEF TInv
<1>4. HandleInv /\ AskedInv /\ StopInv
  BY <1>2 DEF HandleInv, AskedInv, StopInv, Registered, Setup, Running, Wrapping
<1>5. KeyInv /\ PlaceInv /\ SteerInv /\ CancelHitsTarget /\ InputsKept
  BY <1>2 DEF KeyInv, PlaceInv, SteerInv, CancelHitsTarget, InputsKept, Running, Wrapping
<1> QED
  BY <1>3, <1>4, <1>5 DEF IInv

(* ... every step keeps it, ...                                            *)
LEMMA IInvNext ==
  ASSUME AgentAssumption, IInv, [Next]_vars
  PROVE  IInv'
<1>1. CASE \E q \in Requests, p \in Webs, prev \in Requests \cup {None} : Arrive(q, p, prev)
  BY <1>1, ArriveStep
<1>2. ASSUME NEW q \in Requests, Waiting(q) \/ Setting(q) PROVE IInv'
  BY <1>2, PureMoves, TakeLockStep, ArmStep, AttachStep, BecomeSteerableStep DEF Waiting, Setting
<1>3. ASSUME NEW q \in Requests, Working(q) PROVE IInv'
  BY <1>3, PureMoves, DrainStep, CompleteStep, EndEarlyStep, LastEventStep, SaveStep,
     SaveFailsStep, SaveErrorStep
    DEF Working
<1>4. ASSUME NEW q \in Requests, Cancelled(q) PROVE IInv'
  BY <1>4, PureMoves, RaisedBeforeRunStep, RaisedInPublishStep, RaisedInSaveStep DEF Cancelled
<1>5. ASSUME NEW q \in Requests, Ending(q) PROVE IInv'
  BY <1>5, PureMoves, LeaveStep, PersistStep, UnregisterStep, FinishStep, RevokeStep,
     UnlockStep DEF Ending
<1>6. ASSUME NEW q \in Requests, CleanUp(q) \/ RunTimeout(q) PROVE IInv'
  BY <1>6, CleanUpStep, RunTimeoutStep
<1>7. CASE \E p \in Webs, target \in Targets : CancelRoute(p, target)
  BY <1>7, CancelRouteStep
<1>8. CASE \E p \in Webs : Monitor(p) \/ Crash(p)
  BY <1>8, MonitorStep, CrashStep
<1>9. CASE \E c \in calls : CancelStep(c)
  BY <1>9, CancelSelectStep, CancelMarkStep DEF CancelStep
<1>10. CASE SteerRoute \/ LoseLock \/ Expire
  BY <1>10, SteerRouteStep, ExpireStep
<1>11. CASE UNCHANGED vars
  BY <1>11 DEF vars, IInv, TInv, TypeOK, HandleInv, AskedInv, Named, StopInv, KeyInv, Attached,
      PlaceInv, SteerInv, CancelHitsTarget, InputsKept
<1> QED
  BY <1>1, <1>2, <1>3, <1>4, <1>5, <1>6, <1>7, <1>8, <1>9, <1>10, <1>11 DEF Next

(* ... and so it holds of every behaviour.                                 *)
LEMMA Invariant ==
  Spec => []IInv
<1>1. Init => IInv
  BY AgentAssumption, IInvInit
<1>2. IInv /\ [Next]_vars => IInv'
  BY AgentAssumption, IInvNext
<1> QED
  BY <1>1, <1>2, PTL DEF Spec

-----------------------------------------------------------------------------
(* Every variable keeps its type, in every interleaving of the requests,   *)
(* cancel calls and monitors of a session.                                 *)
THEOREM TypeCorrect ==
  Spec => []TypeOK
<1>1. IInv => TypeOK
  BY DEF IInv, TInv
<1> QED
  BY <1>1, Invariant, PTL

(* A cancel stops no run but one that somebody asked to stop: neither a    *)
(* late call, nor the monitor of a handle that was replaced, nor a wish    *)
(* left in the shared key strikes the run that came next                   *)
(* (cancellation.py:199, cancellation_state.py:134).  By AskedInv, which   *)
(* follows the name of the run from the wish to the mark on the task.      *)
THEOREM CancelsAreAimed ==
  Spec => []CancelHitsTarget
<1>1. IInv => CancelHitsTarget
  BY DEF IInv
<1> QED
  BY <1>1, Invariant, PTL

(* A steering input that was accepted is applied or handed back, unless    *)
(* its run was cancelled or its process died (steering.py:176,             *)
(* agent_runtime.py:846).  By SteerInv: who closes a queue has looked into *)
(* it.                                                                     *)
THEOREM NoInputIsLost ==
  Spec => []InputsKept
<1>1. IInv => InputsKept
  BY DEF IInv
<1> QED
  BY <1>1, Invariant, PTL

(* The place of a run that works, from KeyInv and PlaceInv.                *)
LEMMA PlaceIsKept ==
  ASSUME AgentAssumption, IInv
  PROVE  RunKeepsItsPlace
<1> SUFFICES ASSUME NEW q \in Requests, request[q].at \in {"running", "publishing"}
             PROVE  /\ shared.run = q /\ Active(shared)
                    /\ steer.run = q /\ steer.status = "accepting"
                    /\ owner[request[q].web].run = q
                    /\ request[q].at = "publishing" => MayWrite(q)
  BY DEF RunKeepsItsPlace
<1>1. request[q].web \in Webs /\ owner[request[q].web] \in Owner
  BY DEF IInv, TInv, TypeOK
<1>2. Attached(q)
  BY <1>1 DEF IInv, HandleInv, Attached
<1>3. shared.run = q /\ Active(shared)
  BY <1>2 DEF IInv, KeyInv, Running
<1>4. /\ steer.run = q /\ steer.status = "accepting" /\ owner[request[q].web].run = q
      /\ request[q].at = "publishing" => owner[request[q].web].status = "running"
  BY DEF IInv, PlaceInv
<1>5. request[q].at = "publishing" => MayWrite(q)
  BY <1>1, <1>4 DEF MayWrite, Owner
<1> QED
  BY <1>3, <1>4, <1>5

(* A run that works is the one that the shared key, the steering queue and *)
(* the write permission of its process name, and what it publishes it may  *)
(* publish; no request that comes later, in whatever process, takes a      *)
(* place away before the run has gone.                                     *)
THEOREM RunsKeepTheirPlace ==
  Spec => []RunKeepsItsPlace
<1>1. IInv => RunKeepsItsPlace
  BY AgentAssumption, PlaceIsKept
<1> QED
  BY <1>1, Invariant, PTL

(* Only requests that wrap up add to the transcript, each its own verdict. *)
LEMMA WritersOwn ==
  ASSUME Next, transcript' # transcript
  PROVE  \E r \in Requests : /\ request[r].at \in Wrapping
                           /\ \A v \in transcript' \ transcript : v.req = r
<1> USE DEF vars, redis, local, history, counts
<1>1. ASSUME NEW r \in Requests, Save(r) \/ SaveError(r) \/ RaisedInSave(r) \/ Persist(r)
      PROVE  request[r].at \in Wrapping /\ \A v \in transcript' \ transcript : v.req = r
  <2>1. request[r].at \in {"saving", "failing", "persisting"}
    BY <1>1 DEF Save, SaveError, RaisedInSave, Persist, At
  <2>2. transcript' = transcript \/ \E kind : transcript' = transcript \cup {[req |-> r, kind |-> kind]}
    <3>1. CASE Save(r) \/ RaisedInSave(r)
      BY <3>1 DEF Save, RaisedInSave, Saved
    <3>2. CASE SaveError(r)
      BY <3>2 DEF SaveError
    <3>3. CASE Persist(r)
      BY <3>3 DEF Persist
    <3> QED
      BY <1>1, <3>1, <3>2, <3>3
  <2> QED
    BY <2>1, <2>2 DEF Wrapping
<1>2. ASSUME NEW r \in Requests, Waiting(r) \/ Setting(r)
      PROVE  transcript' = transcript
  BY <1>2 DEF Waiting, BarrierPasses, BarrierRaises, TakeLock, LockConflict, Register, Setting,
      Supersede, SupersedeFails, Arm, Attach, BecomeSteerable
<1>3. ASSUME NEW r \in Requests, Working(r), ~Save(r), ~SaveError(r)
      PROVE  transcript' = transcript
  BY <1>3 DEF Working, Drain, Complete, EndEarly, PublishBegin, PublishEnd, LastEvent, SaveFails
<1>4. ASSUME NEW r \in Requests, Cancelled(r), ~RaisedInSave(r)
      PROVE  transcript' = transcript
  BY <1>4 DEF Cancelled, RaisedInSetup, RaisedBeforeRun, RaisedInRun, RaisedInPublish,
      RaisedInFinalize, RaisedInUnregister
<1>5. ASSUME NEW r \in Requests, Ending(r), ~Persist(r)
      PROVE  transcript' = transcript
  BY <1>5 DEF Ending, Leave, Finalize, Unregister, Finish, Revoke, Unlock
<1>6. ASSUME NEW r \in Requests, \/ CleanUp(r) \/ RunTimeout(r)
                               \/ \E p \in Webs, prev \in Requests \cup {None} : Arrive(r, p, prev)
      PROVE  transcript' = transcript
  BY <1>6 DEF CleanUp, RunTimeout, Arrive
<1>7. ASSUME NEW p \in Webs, Monitor(p) \/ Crash(p) \/ \E target \in Targets : CancelRoute(p, target)
      PROVE  transcript' = transcript
  BY <1>7 DEF Monitor, Crash, CancelRoute
<1>8. ASSUME NEW c \in calls, CancelStep(c)
      PROVE  transcript' = transcript
  BY <1>8 DEF CancelStep, CancelSelect, CancelPause, CancelMark
<1>9. ASSUME SteerRoute \/ LoseLock \/ Expire
      PROVE  transcript' = transcript
  BY <1>9 DEF SteerRoute, LoseLock, Expire
<1>10. PICK r \in Requests : Save(r) \/ SaveError(r) \/ RaisedInSave(r) \/ Persist(r)
  BY <1>2, <1>3, <1>4, <1>5, <1>6, <1>7, <1>8, <1>9 DEF Next
<1> QED
  BY <1>1, <1>10

(* Hence who adds to it is named by the shared key.                        *)
LEMMA OneWriterStep ==
  ASSUME IInv, [Next]_vars, NEW q \in Requests, Attached(q), NEW v \in transcript' \ transcript, v.req = q
  PROVE  shared.run = q /\ Active(shared)
<1>1. Next
  BY DEF vars
<1>2. request[q].at \in Wrapping
  BY <1>1, WritersOwn
<1> QED
  BY <1>2 DEF IInv, KeyInv

(* Whoever attached its run and adds to the transcript is the run that the *)
(* shared key names and that is not settled there: a later run never reads *)
(* a history that its predecessor still changes, even when the advisory    *)
(* lock was lost.                                                          *)
THEOREM OneWriter ==
  Spec => TranscriptHasOneWriter
<1>1. IInv /\ [Next]_vars =>
        [\A q \in Requests :
           /\ Attached(q)
           /\ \E v \in transcript' \ transcript : v.req = q
           => shared.run = q /\ Active(shared)]_vars
  BY OneWriterStep
<1> QED
  BY <1>1, Invariant, PTL DEF Spec, TranscriptHasOneWriter
=============================================================================
