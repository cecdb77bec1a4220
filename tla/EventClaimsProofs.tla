-------------------------- MODULE EventClaimsProofs --------------------------
(***************************************************************************)
(* Proofs about EventClaims: type correctness for any processes, and what  *)
(* the claims promise for a deployment with one process, the role all.     *)
(* With a second process they are not true: its start resumes a claim that *)
(* the first one holds (run events_once).                                  *)
(***************************************************************************)
EXTENDS EventClaims, WellFoundedInduction, TLAPS

(* The role all: one process serves requests, recovers and resumes.        *)
OneProcess == Webs = {} /\ \E p : Workers = {p}

-----------------------------------------------------------------------------
(* Types.                                                                  *)

(* A claim file, and a run that exists.                                    *)
ClaimFile == [status : Statuses, attempt : 0 .. MaxAttempts, exec : Runs \cup {None, Substitute}]

Coroutine == [at : Points \ {"free"}, proc : Processes, claim : Claims,
              attempt : 1 .. MaxAttempts, result : Results \cup {"none"}]

(* The states of a process.                                                *)
MainState == [at : {"down", "up"}] \cup Recovering \cup Sweeping \cup Resuming \cup Publishing

Types ==
  /\ claim \in [Claims -> ClaimFile]
  /\ aged \in [Claims -> BOOLEAN]
  /\ record \in [Runs -> {"none", "running"} \cup Results]
  /\ run \in [Runs -> [at : {"free"}] \cup Coroutine]
  /\ main \in [Processes -> MainState]
  /\ mishaps \in 0 .. MaxMishaps

(* The points of _recover_interrupted_executions.                          *)
Recovery == {"recovering", "looking", "failing"}

Taken(c) == claim[c].status # "none"

(* Whatever names a claim or a run names one that exists.                  *)
Links ==
  /\ \A c \in Claims : Taken(c) => claim[c].attempt >= 1
  /\ \A r \in Runs : run[r].at # "free" => Taken(run[r].claim)
  /\ \A r \in Runs : record[r] # "none" => run[r].at # "free"
  /\ \A p \in Processes :
       /\ main[p].at \in Recovery => \A r \in main[p].todo : record[r] # "none"
       /\ main[p].at \in {"looking", "failing"} => record[main[p].swept] # "none"
       /\ main[p].at = "resuming" => \A c \in main[p].todo : Taken(c)

TInv == Types /\ Links

-----------------------------------------------------------------------------
(* What one process keeps true.                                            *)

(* A run that was lost before it executed anything.                        *)
Dormant(r) == run[r].at = "lost" /\ record[r] = "none"

(* A run, its record and its claim.                                        *)
RunInv(r) ==
  LET c == run[r].claim IN
  /\ run[r].at \in {"queued", "marked"} => record[r] = "none"
  /\ run[r].at = "executing" => record[r] = "running"
  /\ run[r].at \in {"ended", "reported"} => record[r] = run[r].result /\ record[r] \in Results
  /\ run[r].at = "reported" => claim[c].status = "running" /\ claim[c].exec = r
  /\ run[r].at \in {"queued", "marked", "executing", "ended", "failing"} => claim[c].exec # r
  /\ run[r].at # "free" => run[r].attempt <= claim[c].attempt

(* Of two runs of an attempt, one executed nothing.                        *)
PairInv(r, s) ==
  r # s /\ run[r].at # "free" /\ run[s].at # "free" /\ run[r].claim = run[s].claim
  /\ run[r].attempt = run[s].attempt => Dormant(r) \/ Dormant(s)

(* A claim and the run it names; an attempt that is claimed has not begun. *)
ClaimInv(c) ==
  LET e == claim[c].exec IN
  /\ e \in Runs => record[e] \in Results /\ run[e].claim = c
  /\ claim[c].status = "succeeded" => e \in Runs /\ record[e] = "success"
  /\ claim[c].status = "claimed" =>
       /\ e = None
       /\ \A r \in RunsOf(c) : run[r].attempt = claim[c].attempt =>
            run[r].at = "queued" \/ Dormant(r)

(* A live run has the attempt of the claim.                                *)
Attended(c) == \E r \in LiveRunsOf(c) : run[r].attempt = claim[c].attempt

(* What the process knows of its runs while it starts, serves, publishes.  *)
MainInv(p) ==
  /\ main[p].at \in {"down"} \cup Recovery => \A r \in Runs : ~Live(r)
  /\ main[p].at \in Recovery => \A r \in main[p].todo : record[r] = "running"
  /\ main[p].at \in {"looking", "failing"} => record[main[p].swept] = "failed"
  /\ main[p].at = "failing" => Pending(run[main[p].swept].claim)
  /\ main[p].at = "resuming" =>
       /\ \A r \in Runs : Live(r) => run[r].at = "queued"
       /\ \A c \in main[p].todo : claim[c].status = "claimed" /\ LiveRunsOf(c) = {}
  /\ \A r \in Runs : run[r].at \in Settling => main[p] = Up
  /\ \A c \in Claims : claim[c].status = "claimed" =>
       \/ main[p].at \in {"down"} \cup Recovery
       \/ (main[p].at = "resuming" /\ c \in main[p].todo)
       \/ Attended(c)
  /\ \A r \in Runs : run[r].at = "lost" /\ record[r] = "running" =>
       main[p].at = "down" \/ (main[p].at \in Recovery /\ r \in main[p].todo)

(* At most one run is between its result and its verdict.                  *)
OneSettles == \A r, s \in Runs : run[r].at \in Settling /\ run[s].at \in Settling => r = s

SoleInv ==
  /\ \A r \in Runs : RunInv(r)
  /\ \A r, s \in Runs : PairInv(r, s)
  /\ \A c \in Claims : ClaimInv(c)
  /\ \A p \in Processes : MainInv(p)
  /\ OneSettles

IInv == TInv /\ SoleInv

-----------------------------------------------------------------------------
(* The updates of the state.                                               *)

(* A set of numbers has a least one.                                       *)
LEMMA Least ==
  ASSUME NEW S \in SUBSET Nat, S # {}
  PROVE  \E n \in S : \A m \in S : n <= m
<1> DEFINE R == OpToRel(<, Nat)
<1>1. IsWellFoundedOn(R, Nat)
  BY NatLessThanWellFounded
<1> HIDE DEF R
<1>2. PICK n \in S : \A m \in S : ~(<<m, n>> \in R)
  BY <1>1, WFMin, Zenon
<1>3. \A x, y \in Nat : x < y => <<x, y>> \in R
  BY DEF OpToRel, R
<1>4. \A m \in S : ~(m < n)
  BY <1>2, <1>3
<1> QED BY <1>4

(* The next coroutine is one that does not exist yet.                      *)
LEMMA NextRunFree ==
  ASSUME \E r \in Runs : run[r].at = "free"
  PROVE  NextRun \in Runs /\ run[NextRun].at = "free"
<1> DEFINE S == {r \in Runs : run[r].at = "free"}
<1>1. S \in SUBSET Nat /\ S # {}
  BY EventAssumption DEF Runs
<1>2. \E n \in S : \A m \in S : n <= m
  BY <1>1, Least
<1>3. \E r \in Runs : run[r].at = "free" /\ \A s \in Runs : run[s].at = "free" => r <= s
  BY <1>2
<1> QED BY <1>3 DEF NextRun

(* A tracked run is a new one.                                             *)
LEMMA TrackIs ==
  ASSUME Types, NEW p \in Processes, NEW c \in Claims, NEW k \in 1 .. MaxAttempts,
         Track(p, c, k)
  PROVE  /\ run' \in [Runs -> [at : {"free"}] \cup Coroutine]
         /\ \E r \in Runs :
              /\ run[r].at = "free"
              /\ \A s \in Runs \ {r} : run'[s] = run[s]
              /\ run'[r].at = "queued" /\ run'[r].proc = p /\ run'[r].claim = c
              /\ run'[r].attempt = k
<1> DEFINE new == [at |-> "queued", proc |-> p, claim |-> c, attempt |-> k, result |-> "none"]
<1>1. NextRun \in Runs /\ run[NextRun].at = "free" /\ run' = [run EXCEPT ![NextRun] = new]
  BY NextRunFree DEF Track
<1>2. new \in Coroutine /\ new.at = "queued" /\ new.proc = p /\ new.claim = c /\ new.attempt = k
  BY DEF Coroutine, Points, Running, Waiting, Settling
<1> HIDE DEF new
<1> QED BY <1>1, <1>2 DEF Types

(* The fields of a run that exists.                                        *)
LEMMA Coroutines ==
  ASSUME Types, NEW r \in Runs, run[r].at # "free"
  PROVE  /\ run[r] \in Coroutine
         /\ run[r].at \in Points /\ run[r].proc \in Processes /\ run[r].claim \in Claims
         /\ run[r].attempt \in 1 .. MaxAttempts /\ run[r].result \in Results \cup {"none"}
  BY DEF Types, Coroutine

(* A run at another point.                                                 *)
LEMMA Moved ==
  ASSUME NEW x \in Coroutine, NEW point \in Points \ {"free"}
  PROVE  LET y == [x EXCEPT !.at = point] IN
         /\ y \in Coroutine
         /\ y.at = point /\ y.proc = x.proc /\ y.claim = x.claim /\ y.attempt = x.attempt
         /\ y.result = x.result
  BY DEF Coroutine

(* The run r goes to a point, and nothing else of the runs changes.        *)
MovesTo(r, point) ==
  /\ run' \in [Runs -> [at : {"free"}] \cup Coroutine]
  /\ \A s \in Runs \ {r} : run'[s] = run[s]
  /\ run'[r].at = point /\ run'[r].proc = run[r].proc /\ run'[r].claim = run[r].claim
  /\ run'[r].attempt = run[r].attempt

(* Move, and the writes of a claim, field by field.                        *)
LEMMA MoveIs ==
  ASSUME Types, NEW r \in Runs, run[r].at # "free", NEW point \in Points \ {"free"},
         Move(r, point)
  PROVE  MovesTo(r, point) /\ run'[r].result = run[r].result
<1>1. PICK y : y = [run[r] EXCEPT !.at = point]
  OBVIOUS
<1>2. y \in Coroutine /\ y.at = point /\ y.proc = run[r].proc /\ y.claim = run[r].claim
      /\ y.attempt = run[r].attempt /\ y.result = run[r].result
  BY <1>1, Coroutines, Moved
<1>3. run' = [run EXCEPT ![r] = y]
  BY <1>1 DEF Move, Types
<1> QED BY <1>2, <1>3 DEF Types, MovesTo

LEMMA MarkIs ==
  ASSUME Types, NEW c \in Claims, NEW status \in Statuses,
         NEW exec \in Runs \cup {None, Substitute}, Mark(c, status, exec)
  PROVE  /\ claim' \in [Claims -> ClaimFile] /\ aged' \in [Claims -> BOOLEAN]
         /\ \A d \in Claims \ {c} : claim'[d] = claim[d]
         /\ claim'[c].status = status /\ claim'[c].attempt = claim[c].attempt
         /\ claim'[c].exec = IF exec = None THEN claim[c].exec ELSE exec
<1>1. PICK e : e = IF exec = None THEN claim[c].exec ELSE exec
  OBVIOUS
<1>2. claim[c] \in ClaimFile
  BY DEF Types
<1>3. PICK y : y = [claim[c] EXCEPT !.status = status, !.exec = e]
  OBVIOUS
<1>4. y \in ClaimFile /\ y.status = status /\ y.attempt = claim[c].attempt /\ y.exec = e
  BY <1>1, <1>2, <1>3 DEF ClaimFile
<1>5. claim' = [claim EXCEPT ![c] = y]
  BY <1>1, <1>3 DEF Mark, Types
<1>6. claim' \in [Claims -> ClaimFile] /\ claim'[c] = y /\ \A d \in Claims \ {c} : claim'[d] = claim[d]
  BY <1>4, <1>5 DEF Types
<1>7. aged' \in [Claims -> BOOLEAN]
  BY DEF Types, Mark
<1> QED BY <1>1, <1>4, <1>6, <1>7

LEMMA ReclaimIs ==
  ASSUME Types, NEW c \in Claims, Reclaim(c)
  PROVE  /\ claim' \in [Claims -> ClaimFile] /\ aged' \in [Claims -> BOOLEAN]
         /\ \A d \in Claims \ {c} : claim'[d] = claim[d]
         /\ claim'[c].status = "claimed" /\ claim'[c].attempt = claim[c].attempt + 1
         /\ claim'[c].exec = None
         /\ claim[c].attempt + 1 \in 1 .. MaxAttempts
<1>1. claim[c].attempt \in 0 .. MaxAttempts /\ claim[c].attempt < MaxAttempts /\ MaxAttempts \in Nat
  BY EventAssumption DEF Types, ClaimFile, Reclaim
<1>2. PICK y : y = [status |-> "claimed", attempt |-> claim[c].attempt + 1, exec |-> None]
  OBVIOUS
<1>3. y \in ClaimFile /\ y.status = "claimed" /\ y.attempt = claim[c].attempt + 1 /\ y.exec = None
  BY <1>1, <1>2 DEF ClaimFile, Statuses
<1>4. claim' = [claim EXCEPT ![c] = y]
  BY <1>2 DEF Reclaim, Types
<1> QED BY <1>1, <1>3, <1>4 DEF Types, Reclaim

-----------------------------------------------------------------------------
(* Types.                                                                  *)

(* The claim c is written, and no other.                                   *)
Written(c, status, exec) ==
  /\ claim' \in [Claims -> ClaimFile] /\ aged' \in [Claims -> BOOLEAN]
  /\ \A d \in Claims \ {c} : claim'[d] = claim[d]
  /\ claim'[c].status = status /\ claim'[c].attempt = claim[c].attempt
  /\ claim'[c].exec = exec

(* The record of r is written, or none.                                    *)
Recorded(r, status) ==
  /\ record' \in [Runs -> {"none", "running"} \cup Results]
  /\ \A s \in Runs \ {r} : record'[s] = record[s]
  /\ record'[r] = status

(* A step of the run r.                                                    *)
LEMMA RunTypes ==
  ASSUME TInv, NEW r \in Runs, Live(r), NEW point \in Points \ {"free"},
         MovesTo(r, point),
         NEW status, Recorded(r, status), status # "none" \/ status = record[r],
         UNCHANGED main, mishaps' \in 0 .. MaxMishaps,
         \/ UNCHANGED store
         \/ \E word \in Statuses \ {"none"} : \E exec : Written(run[r].claim, word, exec)
  PROVE  TInv'
<1>1. run[r].at # "free" /\ run[r].claim \in Claims
  <2>1. run[r].at # "free"
    BY DEF Live, Running, Waiting, Settling
  <2> QED BY <2>1, Coroutines DEF TInv
<1>2. Types'
  BY DEF TInv, Types, MovesTo, Recorded, Written, store
<1>3. \A c \in Claims : claim'[c].attempt = claim[c].attempt /\ (Taken(c) => Taken(c)')
  <2>1. CASE UNCHANGED store
    BY <2>1 DEF store, Taken
  <2>2. ASSUME NEW word \in Statuses \ {"none"}, NEW exec, Written(run[r].claim, word, exec)
        PROVE  \A c \in Claims : claim'[c].attempt = claim[c].attempt /\ (Taken(c) => Taken(c)')
    BY <2>2 DEF Written, Taken
  <2> QED BY <2>1, <2>2
<1>4. \A c \in Claims : Taken(c)' => Taken(c)
  <2>1. CASE UNCHANGED store
    BY <2>1 DEF store, Taken
  <2>2. ASSUME NEW word \in Statuses \ {"none"}, NEW exec, Written(run[r].claim, word, exec)
        PROVE  \A c \in Claims : Taken(c)' => Taken(c)
    BY <1>1, <2>2 DEF Written, Taken, TInv, Links
  <2> QED BY <2>1, <2>2
<1>5. \A s \in Runs : /\ run'[s].at # "free" <=> run[s].at # "free"
                      /\ run[s].at # "free" => run'[s].claim = run[s].claim /\ run[s].claim \in Claims
                      /\ record[s] # "none" => record'[s] # "none"
                      /\ record'[s] # "none" => run[s].at # "free"
  BY <1>1, Coroutines DEF MovesTo, Recorded, TInv, Links
<1>6. \A p \in Processes :
        /\ main[p].at = "recovering" => main[p].todo \subseteq Runs
        /\ main[p].at \in {"looking", "failing"} => main[p].todo \subseteq Runs /\ main[p].swept \in Runs
        /\ main[p].at = "resuming" => main[p].todo \subseteq Claims
  BY DEF TInv, Types, MainState, Recovering, Sweeping, Resuming, Publishing
<1>7. Links'
  BY <1>3, <1>4, <1>5, <1>6 DEF TInv, Links, Recovery
<1> QED BY <1>2, <1>7 DEF TInv

(* What each step of a run does to it, to its record and to its claim.     *)
LEMMA RunEffects ==
  ASSUME TInv, NEW r \in Runs
  PROVE  /\ Start(r) => /\ run[r].at = "queued" /\ ~Busy(run[r].proc) /\ MovesTo(r, "marked")
                        /\ Recorded(r, record[r]) /\ UNCHANGED <<main, mishaps>>
                        /\ Written(run[r].claim, "running", claim[run[r].claim].exec)
         /\ NoRecipients(r) => /\ run[r].at = "marked" /\ ~Busy(run[r].proc) /\ MovesTo(r, "failing")
                               /\ Recorded(r, "failed") /\ UNCHANGED <<store, main, mishaps>>
         /\ Create(r) => /\ run[r].at = "marked" /\ ~Busy(run[r].proc) /\ MovesTo(r, "executing")
                         /\ Recorded(r, "running") /\ UNCHANGED <<store, main, mishaps>>
         /\ \A result \in Results : Finish(r, result) =>
              /\ run[r].at = "executing" /\ ~Busy(run[r].proc) /\ MovesTo(r, "ended")
              /\ run'[r].result = result
              /\ Recorded(r, result) /\ UNCHANGED <<store, main, mishaps>>
         /\ Report(r) => /\ run[r].at = "ended" /\ MovesTo(r, "reported")
                         /\ run'[r].result = run[r].result
                         /\ Recorded(r, record[r]) /\ UNCHANGED <<main, mishaps>>
                         /\ Written(run[r].claim, "running", r)
         /\ Settle(r) => /\ run[r].at = "reported" /\ MovesTo(r, "done")
                         /\ Recorded(r, record[r]) /\ UNCHANGED <<main, mishaps>>
                         /\ Written(run[r].claim, Outcome(run[r].result), claim[run[r].claim].exec)
         /\ FailClaim(r) => /\ run[r].at = "failing" /\ MovesTo(r, "done")
                            /\ Recorded(r, record[r]) /\ UNCHANGED <<main, mishaps>>
                            /\ Written(run[r].claim, "failed",
                                       IF record[r] = "failed" THEN r ELSE Substitute)
         /\ RecordFails(r) => /\ run[r].at \in Waiting /\ ~Busy(run[r].proc)
                              /\ MovesTo(r, "failing") \/ MovesTo(r, "broken")
                              /\ Recorded(r, record[r]) /\ UNCHANGED <<store, main>>
                              /\ mishaps' \in 0 .. MaxMishaps
<1>0. Types
  BY DEF TInv
<1>1. {"marked", "failing", "executing", "ended", "reported", "done", "broken"} \subseteq Points \ {"free"}
  BY DEF Points, Running, Waiting, Settling
<1>2. record[r] \in {"none", "running"} \cup Results
  BY <1>0 DEF Types
<1>3. \A status \in {"none", "running"} \cup Results :
        record' = [record EXCEPT ![r] = status] => Recorded(r, status)
  BY <1>0 DEF Types, Recorded
<1>4. record' = record => Recorded(r, record[r])
  BY <1>0, <1>2 DEF Types, Recorded
<1>5. None \notin Runs /\ Substitute # None
  BY EventAssumption DEF Runs
<1>6. ASSUME run[r].at # "free", NEW status \in Statuses, NEW exec \in Runs \cup {None, Substitute},
             Mark(run[r].claim, status, exec)
      PROVE  Written(run[r].claim, status, IF exec = None THEN claim[run[r].claim].exec ELSE exec)
  <2>1. run[r].claim \in Claims
    BY <1>0, <1>6, Coroutines
  <2> QED BY <1>0, <1>6, <2>1, MarkIs DEF Written
<1>7. {"running", "failed", "succeeded"} \subseteq Statuses /\ {"failed", "success"} = Results
  BY DEF Statuses, Results
<1>8. Start(r) => /\ run[r].at = "queued" /\ ~Busy(run[r].proc) /\ MovesTo(r, "marked")
                  /\ Recorded(r, record[r]) /\ UNCHANGED <<main, mishaps>>
                  /\ Written(run[r].claim, "running", claim[run[r].claim].exec)
  BY <1>0, <1>1, <1>4, <1>6, <1>7, MoveIs DEF Start
<1>9. NoRecipients(r) => /\ run[r].at = "marked" /\ ~Busy(run[r].proc) /\ MovesTo(r, "failing")
                         /\ Recorded(r, "failed") /\ UNCHANGED <<store, main, mishaps>>
  BY <1>0, <1>1, <1>3, <1>7, MoveIs DEF NoRecipients
<1>10. Create(r) => /\ run[r].at = "marked" /\ ~Busy(run[r].proc) /\ MovesTo(r, "executing")
                    /\ Recorded(r, "running") /\ UNCHANGED <<store, main, mishaps>>
  BY <1>0, <1>1, <1>3, MoveIs DEF Create
<1>11. ASSUME NEW result \in Results, Finish(r, result)
       PROVE  /\ run[r].at = "executing" /\ ~Busy(run[r].proc) /\ MovesTo(r, "ended")
              /\ run'[r].result = result
              /\ Recorded(r, result) /\ UNCHANGED <<store, main, mishaps>>
  <2>1. run[r].at = "executing" /\ run[r] \in Coroutine
    BY <1>0, <1>11, Coroutines DEF Finish
  <2>2. PICK y : y = [run[r] EXCEPT !.at = "ended"]
    OBVIOUS
  <2>3. PICK z : z = [y EXCEPT !.result = result]
    OBVIOUS
  <2>a. "ended" \in Points \ {"free"}
    BY <1>1
  <2>b. y \in Coroutine /\ y.at = "ended" /\ y.proc = run[r].proc /\ y.claim = run[r].claim
        /\ y.attempt = run[r].attempt
    BY <2>1, <2>2, <2>a, Moved
  <2>4. z \in Coroutine /\ z.at = "ended" /\ z.proc = run[r].proc /\ z.claim = run[r].claim
        /\ z.attempt = run[r].attempt /\ z.result = result
    BY <2>3, <2>b DEF Coroutine
  <2>5. run' = [run EXCEPT ![r] = z]
    BY <1>0, <1>11, <2>2, <2>3 DEF Finish, Types
  <2>6. MovesTo(r, "ended") /\ run'[r].result = result
    BY <1>0, <2>4, <2>5 DEF MovesTo, Types
  <2> QED BY <1>3, <1>11, <2>6 DEF Finish
<1>12. Report(r) => /\ run[r].at = "ended" /\ MovesTo(r, "reported")
                    /\ run'[r].result = run[r].result
                    /\ Recorded(r, record[r]) /\ UNCHANGED <<main, mishaps>>
                    /\ Written(run[r].claim, "running", r)
  BY <1>0, <1>1, <1>4, <1>5, <1>6, <1>7, MoveIs DEF Report
<1>13. Settle(r) => /\ run[r].at = "reported" /\ MovesTo(r, "done")
                    /\ Recorded(r, record[r]) /\ UNCHANGED <<main, mishaps>>
                    /\ Written(run[r].claim, Outcome(run[r].result), claim[run[r].claim].exec)
  <2>1. Outcome(run[r].result) \in Statuses
    BY <1>7 DEF Outcome
  <2> QED BY <1>0, <1>1, <1>4, <1>6, <2>1, MoveIs DEF Settle
<1>14. FailClaim(r) => /\ run[r].at = "failing" /\ MovesTo(r, "done")
                       /\ Recorded(r, record[r]) /\ UNCHANGED <<main, mishaps>>
                       /\ Written(run[r].claim, "failed",
                                  IF record[r] = "failed" THEN r ELSE Substitute)
  BY <1>0, <1>1, <1>4, <1>5, <1>6, <1>7, MoveIs DEF FailClaim
<1>15. RecordFails(r) => /\ run[r].at \in Waiting /\ ~Busy(run[r].proc)
                         /\ MovesTo(r, "failing") \/ MovesTo(r, "broken")
                         /\ Recorded(r, record[r]) /\ UNCHANGED <<store, main>>
                         /\ mishaps' \in 0 .. MaxMishaps
  <2> SUFFICES ASSUME RecordFails(r)
               PROVE  /\ run[r].at \in Waiting /\ ~Busy(run[r].proc)
                      /\ MovesTo(r, "failing") \/ MovesTo(r, "broken")
                      /\ Recorded(r, record[r]) /\ UNCHANGED <<store, main>>
                      /\ mishaps' \in 0 .. MaxMishaps
    OBVIOUS
  <2>1. run[r].at \in Waiting /\ run[r].at # "free"
    BY DEF RecordFails, Waiting
  <2>2. mishaps' \in 0 .. MaxMishaps
    BY <1>0, EventAssumption DEF RecordFails, Mishap, Types
  <2> QED BY <1>0, <1>1, <1>4, <2>1, <2>2, MoveIs DEF RecordFails
<1> QED BY <1>8, <1>9, <1>10, <1>11, <1>12, <1>13, <1>14, <1>15

(* The steps of a run keep the types,                                      *)
LEMMA RunStepTypes ==
  ASSUME TInv, NEW r \in Runs, RunStep(r) \/ RecordFails(r)
  PROVE  TInv'
<1>1. {"marked", "failing", "executing", "ended", "reported", "done", "broken"} \subseteq Points \ {"free"}
  BY DEF Points, Running, Waiting, Settling
<1>2. run[r].at \in {"queued"} \cup Running => Live(r)
  BY DEF Live
<1>3. {"running", "failed"} \subseteq Statuses \ {"none"}
      /\ \A result : Outcome(result) \in Statuses \ {"none"}
  BY DEF Statuses, Outcome
<1>4. mishaps \in 0 .. MaxMishaps /\ "none" \notin Results
  BY DEF TInv, Types, Results
<1>5. ASSUME Start(r) PROVE TInv'
  BY <1>1, <1>2, <1>3, <1>4, <1>5, RunEffects, RunTypes
<1>6. ASSUME NoRecipients(r) \/ Create(r) PROVE TInv'
  BY <1>1, <1>2, <1>4, <1>6, RunEffects, RunTypes DEF Running, Waiting
<1>7. ASSUME NEW result \in Results, Finish(r, result) PROVE TInv'
  <2>1. Live(r) /\ MovesTo(r, "ended") /\ Recorded(r, result) /\ UNCHANGED <<store, main, mishaps>>
    BY <1>2, <1>7, RunEffects DEF Running, Waiting
  <2> QED BY <1>1, <1>4, <2>1, RunTypes
<1>8. ASSUME Report(r) \/ Settle(r) \/ FailClaim(r) PROVE TInv'
  BY <1>1, <1>2, <1>3, <1>4, <1>8, RunEffects, RunTypes DEF Running, Settling
<1>9. ASSUME RecordFails(r) PROVE TInv'
  BY <1>1, <1>2, <1>4, <1>9, RunEffects, RunTypes DEF Running
<1> QED BY <1>5, <1>6, <1>7, <1>8, <1>9 DEF RunStep

(* What the process holds at a point, and what it may hold.                *)
LEMMA MainHolds ==
  ASSUME Types, NEW p \in Processes
  PROVE  /\ main[p].at = "recovering" => main[p].todo \in SUBSET Runs
         /\ main[p].at \in {"looking", "failing"} =>
              main[p].todo \in SUBSET Runs /\ main[p].swept \in Runs
         /\ main[p].at = "resuming" => main[p].todo \in SUBSET Claims
         /\ main[p].at = "publishing" =>
              main[p].claim \in Claims /\ main[p].force \in BOOLEAN /\ main[p].seen \in Statuses
         /\ main[p].at = "up" <=> main[p] = Up
         /\ main[p].at = "down" <=> main[p] = Down
         /\ main[p].at \in {"down", "up", "recovering", "looking", "failing", "resuming", "publishing"}
<1>1. main[p] \in MainState
  BY DEF Types
<1> QED BY <1>1 DEF MainState, Recovering, Sweeping, Resuming, Publishing, Up, Down

(* The states of a process are what they say.                              *)
LEMMA MainStates ==
  /\ Up \in MainState /\ Down \in MainState /\ Up.at = "up" /\ Down.at = "down"
  /\ \A todo \in SUBSET Runs : LET m == [at |-> "recovering", todo |-> todo]
                               IN  m \in MainState /\ m.at = "recovering" /\ m.todo = todo
  /\ \A todo \in SUBSET Runs, r \in Runs, at \in {"looking", "failing"} :
       LET m == [at |-> at, todo |-> todo, swept |-> r]
       IN  m \in MainState /\ m.at = at /\ m.todo = todo /\ m.swept = r
  /\ \A todo \in SUBSET Claims : LET m == [at |-> "resuming", todo |-> todo]
                                 IN  m \in MainState /\ m.at = "resuming" /\ m.todo = todo
  /\ \A c \in Claims, force \in BOOLEAN, seen \in Statuses :
       LET m == [at |-> "publishing", claim |-> c, force |-> force, seen |-> seen]
       IN  m \in MainState /\ m.at = "publishing" /\ m.claim = c /\ m.force = force /\ m.seen = seen
  BY DEF MainState, Recovering, Sweeping, Resuming, Publishing, Up, Down

(* The process goes on as m, and the others as they are.                   *)
MainGoes(p) ==
  /\ main' \in [Processes -> MainState]
  /\ \A q \in Processes \ {p} : main'[q] = main[q]

(* What each step of a process does.                                       *)
LEMMA BootIs ==
  ASSUME Types, NEW p \in Processes, Boot(p)
  PROVE  /\ MainGoes(p) /\ main[p].at = "down" /\ UNCHANGED <<store, record, run, mishaps>>
         /\ IF p \in Webs THEN main'[p] = Up
            ELSE main'[p].at = "recovering" /\ main'[p].todo = {r \in Runs : record[r] = "running"}
<1>1. PICK m : m = IF p \in Webs THEN Up
                   ELSE [at |-> "recovering", todo |-> {r \in Runs : record[r] = "running"}]
  OBVIOUS
<1>2. m \in MainState /\ IF p \in Webs THEN m = Up
                         ELSE m.at = "recovering" /\ m.todo = {r \in Runs : record[r] = "running"}
  BY <1>1, MainStates
<1>3. main' = [main EXCEPT ![p] = m]
  BY <1>1 DEF Boot
<1> QED BY <1>2, <1>3, MainHolds DEF Boot, Types, MainGoes

LEMMA SweepIs ==
  ASSUME Types, NEW p \in Processes, NEW r, Sweep(p, r)
  PROVE  /\ MainGoes(p) /\ main[p].at = "recovering" /\ r \in main[p].todo /\ r \in Runs
         /\ Recorded(r, "failed") /\ UNCHANGED <<store, run, mishaps>>
         /\ main'[p].at = "looking" /\ main'[p].todo = main[p].todo \ {r} /\ main'[p].swept = r
<1>1. main[p].at = "recovering" /\ r \in main[p].todo /\ r \in Runs
  BY MainHolds DEF Sweep
<1>2. PICK m : m = [at |-> "looking", todo |-> main[p].todo \ {r}, swept |-> r]
  OBVIOUS
<1>3. m \in MainState /\ m.at = "looking" /\ m.todo = main[p].todo \ {r} /\ m.swept = r
  BY <1>1, <1>2, MainHolds, MainStates
<1>4. main' = [main EXCEPT ![p] = m]
  BY <1>2 DEF Sweep, Types
<1>5. Recorded(r, "failed")
  BY <1>1 DEF Sweep, Recorded, Types, Results
<1>6. MainGoes(p) /\ main'[p] = m
  BY <1>3, <1>4 DEF Types, MainGoes
<1>7. UNCHANGED <<store, run, mishaps>>
  BY DEF Sweep
<1> QED BY <1>1, <1>3, <1>5, <1>6, <1>7

LEMMA LookAtClaimIs ==
  ASSUME Types, NEW p \in Processes, LookAtClaim(p)
  PROVE  /\ MainGoes(p) /\ main[p].at = "looking" /\ UNCHANGED <<store, record, run, mishaps>>
         /\ main'[p].todo = main[p].todo
         /\ IF Pending(run[main[p].swept].claim)
            THEN main'[p].at = "failing" /\ main'[p].swept = main[p].swept
            ELSE main'[p].at = "recovering"
<1>1. main[p].at = "looking" /\ main[p] \in Sweeping
  <2>1. main[p].at = "looking" /\ main[p] \in MainState
    BY DEF LookAtClaim, Types
  <2> QED BY <2>1 DEF MainState, Recovering, Sweeping, Resuming, Publishing
<1>2. PICK m : m = IF Interrupted(run[main[p].swept].claim) THEN [main[p] EXCEPT !.at = "failing"]
                   ELSE [at |-> "recovering", todo |-> main[p].todo]
  OBVIOUS
<1>3. m \in MainState /\ m.todo = main[p].todo
      /\ IF Pending(run[main[p].swept].claim)
         THEN m.at = "failing" /\ m.swept = main[p].swept ELSE m.at = "recovering"
  <2>1. CASE Pending(run[main[p].swept].claim)
    BY <1>1, <1>2, <2>1 DEF Interrupted, Sweeping, MainState
  <2>2. CASE ~Pending(run[main[p].swept].claim)
    BY <1>1, <1>2, <2>2, MainHolds, MainStates DEF Interrupted
  <2> QED BY <2>1, <2>2
<1>4. main' = [main EXCEPT ![p] = m]
  BY <1>2 DEF LookAtClaim, Types
<1> QED BY <1>1, <1>3, <1>4 DEF LookAtClaim, Types, MainGoes

LEMMA FailSweptIs ==
  ASSUME Types, NEW p \in Processes, run[main[p].swept].at # "free", FailSwept(p)
  PROVE  /\ MainGoes(p) /\ main[p].at = "failing" /\ UNCHANGED <<record, run, mishaps>>
         /\ main'[p].at = "recovering" /\ main'[p].todo = main[p].todo
         /\ Written(run[main[p].swept].claim, "failed", main[p].swept)
<1>1. main[p].at = "failing" /\ main[p].swept \in Runs /\ main[p].todo \in SUBSET Runs
  BY MainHolds DEF FailSwept
<1>2. PICK m : m = [at |-> "recovering", todo |-> main[p].todo]
  OBVIOUS
<1>3. m \in MainState /\ m.at = "recovering" /\ m.todo = main[p].todo
  BY <1>1, <1>2, MainStates
<1>4. main' = [main EXCEPT ![p] = m]
  BY <1>2 DEF FailSwept, Types
<1>5. run[main[p].swept].claim \in Claims
  BY <1>1, Coroutines
<1>6. main[p].swept # None
  BY <1>1, EventAssumption DEF Runs
<1>7. Written(run[main[p].swept].claim, "failed", main[p].swept)
  <2> DEFINE c == run[main[p].swept].claim
             r == main[p].swept
  <2>1. Mark(c, "failed", r) /\ "failed" \in Statuses
    BY DEF FailSwept, Statuses
  <2> HIDE DEF c, r
  <2>2. c \in Claims /\ r \in Runs /\ r # None
    BY <1>1, <1>5, <1>6 DEF c, r
  <2> QED BY <2>1, <2>2, MarkIs DEF Written, c, r
<1>8. MainGoes(p) /\ main'[p] = m
  BY <1>3, <1>4 DEF Types, MainGoes
<1>9. UNCHANGED <<record, run, mishaps>>
  BY DEF FailSwept
<1> QED BY <1>1, <1>3, <1>7, <1>8, <1>9

LEMMA ListIs ==
  ASSUME Types, NEW p \in Processes, List(p)
  PROVE  /\ MainGoes(p) /\ main[p].at = "recovering" /\ main[p].todo = {}
         /\ UNCHANGED <<store, record, run, mishaps>>
         /\ main'[p].at = "resuming" /\ main'[p].todo = Listed
<1>1. PICK m : m = [at |-> "resuming", todo |-> Listed]
  OBVIOUS
<1>2. m \in MainState /\ m.at = "resuming" /\ m.todo = Listed
  BY <1>1, MainStates DEF Listed
<1>3. main' = [main EXCEPT ![p] = m]
  BY <1>1 DEF List
<1> QED BY <1>2, <1>3 DEF List, Types, MainGoes

LEMMA ResumeIs ==
  ASSUME Types, NEW p \in Processes, NEW c, Resume(p, c)
  PROVE  /\ MainGoes(p) /\ main[p].at = "resuming" /\ c \in main[p].todo /\ c \in Claims
         /\ main'[p].at = "resuming" /\ main'[p].todo = main[p].todo \ {c}
         /\ UNCHANGED <<record, mishaps>>
         /\ \/ Track(p, c, claim[c].attempt) /\ UNCHANGED store
            \/ Written(c, "failed", claim[c].exec) /\ UNCHANGED run
<1>1. main[p].at = "resuming" /\ c \in main[p].todo /\ c \in Claims /\ main[p] \in Resuming
  <2>1. main[p].at = "resuming" /\ c \in main[p].todo /\ main[p] \in MainState
    BY DEF Resume, Types
  <2> QED BY <2>1 DEF MainState, Recovering, Sweeping, Resuming, Publishing
<1>2. PICK m : m = [main[p] EXCEPT !.todo = main[p].todo \ {c}]
  OBVIOUS
<1>3. m \in MainState /\ m.at = "resuming" /\ m.todo = main[p].todo \ {c}
  BY <1>1, <1>2 DEF Resuming, MainState
<1>4. main' = [main EXCEPT ![p] = m]
  BY <1>2 DEF Resume, Types
<1>5. Mark(c, "failed", None) => Written(c, "failed", claim[c].exec)
  BY <1>1, MarkIs DEF Written, Statuses
<1> QED BY <1>1, <1>3, <1>4, <1>5 DEF Resume, Types, MainGoes

LEMMA ServeIs ==
  ASSUME Types, NEW p \in Processes, Serve(p)
  PROVE  /\ MainGoes(p) /\ main[p].at = "resuming" /\ main[p].todo = {}
         /\ UNCHANGED <<store, record, run, mishaps>> /\ main'[p] = Up
  BY MainStates DEF Serve, Types, MainGoes

LEMMA PublishIs ==
  ASSUME Types, NEW p \in Processes, NEW c \in Claims, NEW force \in BOOLEAN, Publish(p, c, force)
  PROVE  /\ MainGoes(p) /\ ~Busy(p) /\ UNCHANGED <<store, record, run, mishaps>>
         /\ main'[p].at = "publishing"
<1>1. PICK m : m = [at |-> "publishing", claim |-> c, force |-> force, seen |-> claim[c].status]
  OBVIOUS
<1>2. claim[c].status \in Statuses
  BY DEF Types, ClaimFile
<1>3. m \in MainState /\ m.at = "publishing"
  BY <1>1, <1>2, MainStates
<1>4. main' = [main EXCEPT ![p] = m]
  BY <1>1 DEF Publish
<1> QED BY <1>3, <1>4 DEF Publish, Types, MainGoes

LEMMA FailStaleIs ==
  ASSUME Types, NEW p \in Processes, FailStale(p)
  PROVE  /\ MainGoes(p) /\ main[p].at = "publishing" /\ UNCHANGED <<record, run, mishaps>>
         /\ \/ main'[p] = Up /\ UNCHANGED store
            \/ /\ main'[p].at = "publishing" /\ main[p].claim \in Claims
               /\ claim[main[p].claim].status = "running"
               /\ Written(main[p].claim, "failed", claim[main[p].claim].exec)
<1>1. main[p].at = "publishing" /\ main[p].claim \in Claims /\ main[p] \in Publishing
  <2>1. main[p].at = "publishing" /\ main[p] \in MainState
    BY DEF FailStale, Types
  <2> QED BY <2>1 DEF MainState, Recovering, Sweeping, Resuming, Publishing
<1>2. CASE claim[main[p].claim].status = "running" /\ aged[main[p].claim]
  <2>1. PICK m : m = [main[p] EXCEPT !.seen = "failed"]
    OBVIOUS
  <2>2. m \in MainState /\ m.at = "publishing"
    BY <1>1, <2>1 DEF Publishing, MainState, Statuses
  <2>3. main' = [main EXCEPT ![p] = m]
    BY <1>2, <2>1 DEF FailStale, Types
  <2>4. Written(main[p].claim, "failed", claim[main[p].claim].exec)
    BY <1>1, <1>2, MarkIs DEF FailStale, Written, Statuses
  <2> QED BY <1>1, <1>2, <2>2, <2>3, <2>4 DEF FailStale, Types, MainGoes
<1>3. CASE ~(claim[main[p].claim].status = "running" /\ aged[main[p].claim])
  BY <1>1, <1>3, MainStates DEF FailStale, Types, MainGoes
<1> QED BY <1>2, <1>3

LEMMA TakeIs ==
  ASSUME Types, NEW p \in Processes, Take(p)
  PROVE  /\ MainGoes(p) /\ main[p].at = "publishing" /\ main[p].claim \in Claims
         /\ UNCHANGED <<record, mishaps>> /\ main'[p] = Up
         /\ \/ UNCHANGED <<store, run>>
            \/ Reclaim(main[p].claim) /\ Track(p, main[p].claim, claim[main[p].claim].attempt + 1)
<1>1. main[p].at = "publishing" /\ main[p].claim \in Claims
  BY MainHolds DEF Take
<1> QED BY <1>1, MainStates DEF Take, Types, MainGoes

LEMMA StoppedIs ==
  ASSUME Types, NEW p \in Processes, Stopped(p)
  PROVE  /\ MainGoes(p) /\ main'[p] = Down
         /\ run' \in [Runs -> [at : {"free"}] \cup Coroutine]
         /\ \A r \in Runs : IF r \in Within(p)
                           THEN /\ run'[r].at = "lost" /\ run'[r].claim = run[r].claim
                                /\ run'[r].attempt = run[r].attempt /\ run'[r].proc = run[r].proc
                           ELSE run'[r] = run[r]
<1>1. \A r \in Within(p) : r \in Runs /\ run[r].at # "free"
  BY DEF Within, Live, Running, Waiting, Settling
<1>2. "lost" \in Points \ {"free"}
  BY DEF Points
<1>3. \A r \in Within(p) : LET y == [run[r] EXCEPT !.at = "lost"]
                          IN  /\ y \in Coroutine /\ y.at = "lost" /\ y.claim = run[r].claim
                              /\ y.attempt = run[r].attempt /\ y.proc = run[r].proc
  BY <1>1, <1>2, Coroutines, Moved
<1>4. run' = [r \in Runs |-> IF r \in Within(p) THEN [run[r] EXCEPT !.at = "lost"] ELSE run[r]]
  BY DEF Stopped
<1>5. /\ run' \in [Runs -> [at : {"free"}] \cup Coroutine]
      /\ \A r \in Runs : IF r \in Within(p)
                        THEN /\ run'[r].at = "lost" /\ run'[r].claim = run[r].claim
                             /\ run'[r].attempt = run[r].attempt /\ run'[r].proc = run[r].proc
                        ELSE run'[r] = run[r]
  BY <1>3, <1>4 DEF Types
<1> QED BY <1>5, MainStates DEF Stopped, Types, MainGoes

(* A step of one process, which forgets no claim, run or record.           *)
LEMMA LinksStep ==
  ASSUME TInv, Types', NEW p \in Processes, \A q \in Processes \ {p} : main'[q] = main[q],
         \A c \in Claims : /\ Taken(c) => Taken(c)'
                           /\ Taken(c)' => claim'[c].attempt >= 1,
         \A r \in Runs : /\ run'[r].at # "free" => Taken(run[r].claim)'
                         /\ record[r] # "none" => record'[r] # "none"
                         /\ record'[r] # "none" => run'[r].at # "free",
         main'[p].at \in Recovery => \A r \in main'[p].todo : record'[r] # "none",
         main'[p].at \in {"looking", "failing"} => record'[main'[p].swept] # "none",
         main'[p].at = "resuming" => \A c \in main'[p].todo : Taken(c)'
  PROVE  TInv'
<1>1. \A q \in Processes :
        /\ main[q].at = "recovering" => main[q].todo \subseteq Runs
        /\ main[q].at \in {"looking", "failing"} => main[q].todo \subseteq Runs /\ main[q].swept \in Runs
        /\ main[q].at = "resuming" => main[q].todo \subseteq Claims
  BY MainHolds DEF TInv
<1>2. \A q \in Processes \ {p} :
        /\ main'[q].at \in Recovery => \A r \in main'[q].todo : record'[r] # "none"
        /\ main'[q].at \in {"looking", "failing"} => record'[main'[q].swept] # "none"
        /\ main'[q].at = "resuming" => \A c \in main'[q].todo : Taken(c)'
  BY <1>1 DEF TInv, Links, Recovery
<1>3. Links'
  BY <1>2 DEF Links, MainGoes
<1> QED BY <1>3 DEF TInv

(* Such a step that leaves the runs alone, and may write a taken claim.    *)
LEMMA MainTypes ==
  ASSUME TInv, NEW p \in Processes, MainGoes(p), UNCHANGED run,
         UNCHANGED mishaps,
         \/ UNCHANGED record
         \/ \E r \in Runs, status \in {"running"} \cup Results :
              run[r].at # "free" /\ Recorded(r, status),
         \/ UNCHANGED store
         \/ \E c \in Claims, status \in Statuses \ {"none"} : \E exec :
              Taken(c) /\ Written(c, status, exec),
         main'[p].at \in Recovery => \A r \in main'[p].todo : record'[r] # "none",
         main'[p].at \in {"looking", "failing"} => record'[main'[p].swept] # "none",
         main'[p].at = "resuming" => \A c \in main'[p].todo : Taken(c)
  PROVE  TInv'
<1>1. Types'
  BY DEF TInv, Types, MainGoes, Recorded, Written, store
<1>2. \A c \in Claims : (Taken(c) <=> Taken(c)') /\ claim'[c].attempt = claim[c].attempt
  <2>1. CASE UNCHANGED store
    BY <2>1 DEF store, Taken
  <2>2. ASSUME NEW c \in Claims, NEW status \in Statuses \ {"none"}, NEW exec,
               Taken(c), Written(c, status, exec)
        PROVE  \A d \in Claims : (Taken(d) <=> Taken(d)') /\ claim'[d].attempt = claim[d].attempt
    BY <2>2 DEF Written, Taken
  <2> QED BY <2>1, <2>2
<1>3. \A r \in Runs : /\ record[r] # "none" => record'[r] # "none"
                      /\ record'[r] # "none" => run[r].at # "free"
  <2>1. CASE UNCHANGED record
    BY <2>1 DEF TInv, Links
  <2>2. ASSUME NEW r \in Runs, NEW status \in {"running"} \cup Results, run[r].at # "free",
               Recorded(r, status)
        PROVE  \A s \in Runs : /\ record[s] # "none" => record'[s] # "none"
                               /\ record'[s] # "none" => run[s].at # "free"
    BY <2>2 DEF TInv, Links, Recorded, Results
  <2> QED BY <2>1, <2>2
<1>4. \A r \in Runs : run[r].at # "free" => run[r].claim \in Claims /\ Taken(run[r].claim)
  BY Coroutines DEF TInv, Links
<1>5. \A c \in Claims : Taken(c) => claim[c].attempt >= 1
  BY DEF TInv, Links
<1>6. main'[p].at = "resuming" => main'[p].todo \in SUBSET Claims
  BY MainHolds, <1>1 DEF MainGoes, Types, MainState, Recovering, Sweeping, Resuming, Publishing
<1> QED BY <1>1, <1>2, <1>3, <1>4, <1>5, <1>6, LinksStep DEF MainGoes

(* A new run of a claim that is taken by now.                              *)
LEMMA TrackTypes ==
  ASSUME TInv, NEW p \in Processes, NEW c \in Claims, NEW k \in 1 .. MaxAttempts,
         MainGoes(p), Track(p, c, k), UNCHANGED <<record, mishaps>>,
         \/ UNCHANGED store /\ Taken(c)
         \/ Reclaim(c),
         main'[p].at \notin Recovery,
         main'[p].at = "resuming" => \A d \in main'[p].todo : Taken(d)
  PROVE  TInv'
<1>0. Types
  BY DEF TInv
<1>1. PICK r \in Runs :
              /\ run' \in [Runs -> [at : {"free"}] \cup Coroutine]
              /\ run[r].at = "free"
              /\ \A s \in Runs \ {r} : run'[s] = run[s]
              /\ run'[r].at = "queued" /\ run'[r].claim = c
  BY <1>0, TrackIs
<1>2. /\ claim' \in [Claims -> ClaimFile] /\ aged' \in [Claims -> BOOLEAN]
      /\ Taken(c)'
      /\ \A d \in Claims : /\ Taken(d) => Taken(d)'
                           /\ Taken(d)' => claim'[d].attempt >= 1
  <2>1. CASE UNCHANGED store /\ Taken(c)
    BY <2>1 DEF TInv, Types, Links, Taken, store
  <2>2. CASE Reclaim(c)
    BY <1>0, <2>2, ReclaimIs DEF TInv, Links, Taken
  <2> QED BY <2>1, <2>2
<1>3. Types'
  BY <1>1, <1>2 DEF TInv, Types, MainGoes
<1>4. \A s \in Runs : /\ run'[s].at # "free" => Taken(run[s].claim)'
                      /\ record'[s] # "none" => run'[s].at # "free"
  BY <1>0, <1>1, <1>2, Coroutines DEF TInv, Links
<1>5. main'[p].at = "resuming" => main'[p].todo \in SUBSET Claims
  BY <1>3, MainHolds DEF MainGoes, Types, MainState, Recovering, Sweeping, Resuming, Publishing
<1> QED BY <1>2, <1>3, <1>4, <1>5, LinksStep DEF MainGoes, Recovery

(* The runs of the process are lost.                                       *)
LEMMA StoppedTypes ==
  ASSUME TInv, NEW p \in Processes, Stopped(p), UNCHANGED store,
         record' \in [Runs -> {"none", "running"} \cup Results],
         \A r \in Runs : /\ record[r] # "none" => record'[r] # "none"
                         /\ record'[r] # "none" => run[r].at # "free",
         mishaps' \in 0 .. MaxMishaps
  PROVE  TInv'
<1>0. Types
  BY DEF TInv
<1>1. /\ run' \in [Runs -> [at : {"free"}] \cup Coroutine]
      /\ \A r \in Runs : /\ run'[r].at # "free" <=> run[r].at # "free"
                         /\ run[r].at # "free" => run'[r].claim = run[r].claim
      /\ MainGoes(p) /\ main'[p].at = "down"
  <2>1. \A r \in Within(p) : r \in Runs /\ run[r].at # "free"
    BY DEF Within, Live, Running, Waiting, Settling
  <2> QED BY <1>0, <2>1, StoppedIs, MainStates
<1>2. Types'
  BY <1>0, <1>1 DEF Types, MainGoes, store
<1>3. \A c \in Claims : claim'[c] = claim[c]
  BY DEF store
<1>4. \A r \in Runs : run[r].at # "free" => run[r].claim \in Claims
  BY <1>0, Coroutines
<1>5. \A c \in Claims : Taken(c)' <=> Taken(c)
  BY <1>3 DEF Taken
<1>6. \A r \in Runs : run'[r].at # "free" => Taken(run[r].claim)'
  BY <1>1, <1>4, <1>5 DEF TInv, Links
<1> QED BY <1>1, <1>2, <1>3, <1>5, <1>6, LinksStep DEF TInv, Links, MainGoes, Recovery

(* A record of a stopped execution changes from running to failed at most. *)
LEMMA StopRecords ==
  ASSUME TInv, NEW p \in Processes,
         \E broken \in SUBSET {r \in Within(p) : run[r].at = "executing"} :
           record' = [r \in Runs |-> IF r \in broken THEN "failed" ELSE record[r]]
  PROVE  /\ record' \in [Runs -> {"none", "running"} \cup Results]
         /\ \A r \in Runs : \/ record'[r] = record[r]
                            \/ run[r].at = "executing" /\ Live(r) /\ record'[r] = "failed"
  BY DEF TInv, Types, Results, Within

(* and so does every step.                                                 *)
LEMMA TInvStep ==
  ASSUME TInv, [Next]_vars
  PROVE  TInv'
<1>0. Types
  BY DEF TInv
<1>1. ASSUME NEW p \in Processes, Boot(p) PROVE TInv'
  <2>1. main'[p].at = "recovering" => \A r \in main'[p].todo : record'[r] # "none"
    BY <1>0, <1>1, BootIs, MainStates
  <2>2. main'[p].at \in {"up", "recovering"}
    BY <1>0, <1>1, BootIs, MainStates
  <2> QED BY <1>0, <1>1, <2>1, <2>2, BootIs, MainTypes DEF Recovery
<1>2. ASSUME NEW p \in Processes, NEW r \in Runs, Sweep(p, r) PROVE TInv'
  <2>1. record[r] # "none" /\ run[r].at # "free"
    BY <1>0, <1>2, SweepIs DEF TInv, Links, Recovery
  <2>2. \A s \in main'[p].todo : record'[s] # "none"
    BY <1>0, <1>2, SweepIs, MainHolds DEF TInv, Links, Recovery, Recorded
  <2>3. record'[main'[p].swept] # "none" /\ Recorded(r, "failed") /\ "failed" \in Results
        /\ main'[p].at = "looking"
    BY <1>0, <1>2, SweepIs DEF Recorded, Results
  <2> QED BY <1>0, <1>2, <2>1, <2>2, <2>3, SweepIs, MainTypes
<1>3. ASSUME NEW p \in Processes, LookAtClaim(p) PROVE TInv'
  <2>1. /\ \A s \in main'[p].todo : record[s] # "none"
        /\ main'[p].at = "failing" => record[main'[p].swept] # "none"
        /\ main'[p].at \in {"failing", "recovering"}
    BY <1>0, <1>3, LookAtClaimIs DEF TInv, Links, Recovery
  <2> QED BY <1>0, <1>3, <2>1, LookAtClaimIs, MainTypes
<1>4. ASSUME NEW p \in Processes, FailSwept(p) PROVE TInv'
  <2>1. main[p].at = "failing"
    BY <1>4 DEF FailSwept
  <2>2. main[p].swept \in Runs /\ record[main[p].swept] # "none"
        /\ \A s \in main[p].todo : record[s] # "none"
    BY <1>0, <2>1, MainHolds DEF TInv, Links, Recovery
  <2>3. run[main[p].swept].at # "free" /\ Taken(run[main[p].swept].claim)
        /\ run[main[p].swept].claim \in Claims
    BY <1>0, <2>2, Coroutines DEF TInv, Links
  <2> QED BY <1>0, <1>4, <2>2, <2>3, FailSweptIs, MainTypes DEF Statuses
<1>5. ASSUME NEW p \in Processes, List(p) \/ Serve(p) PROVE TInv'
  <2>1. /\ main'[p].at \in {"resuming", "up"}
        /\ main'[p].at = "resuming" => main'[p].todo = Listed
    BY <1>0, <1>5, ListIs, ServeIs, MainStates
  <2>2. \A c \in Listed : Taken(c)
    BY DEF Listed, Taken
  <2> QED BY <1>0, <1>5, <2>1, <2>2, ListIs, ServeIs, MainTypes DEF Recovery
<1>6. ASSUME NEW p \in Processes, NEW c \in Claims, Resume(p, c) PROVE TInv'
  <2>1. \A d \in main[p].todo : Taken(d)
    BY <1>0, <1>6, ResumeIs DEF TInv, Links
  <2>2. Taken(c) /\ main'[p].at = "resuming" /\ \A d \in main'[p].todo : Taken(d)
    BY <1>0, <1>6, <2>1, ResumeIs
  <2>3. claim[c].attempt \in 1 .. MaxAttempts
    BY <1>0, <2>2, EventAssumption DEF TInv, Links, Types, ClaimFile
  <2>4. CASE Track(p, c, claim[c].attempt) /\ UNCHANGED store
    BY <1>0, <1>6, <2>2, <2>3, <2>4, ResumeIs, TrackTypes DEF Recovery
  <2>5. CASE Written(c, "failed", claim[c].exec) /\ UNCHANGED run
    BY <1>0, <1>6, <2>2, <2>5, ResumeIs, MainTypes DEF Recovery, Statuses
  <2> QED BY <1>0, <1>6, <2>4, <2>5, ResumeIs
<1>7. ASSUME NEW p \in Processes, NEW c \in Claims, NEW force \in BOOLEAN, Publish(p, c, force)
      PROVE  TInv'
  BY <1>0, <1>7, PublishIs, MainTypes DEF Recovery
<1>8. ASSUME NEW p \in Processes, FailStale(p) PROVE TInv'
  <2>1. CASE main'[p] = Up /\ UNCHANGED store
    BY <1>0, <1>8, <2>1, FailStaleIs, MainTypes, MainStates DEF Recovery
  <2>2. CASE ~(main'[p] = Up /\ UNCHANGED store)
    BY <1>0, <1>8, <2>2, FailStaleIs, MainTypes DEF Recovery, Taken, Statuses
  <2> QED BY <2>1, <2>2
<1>9. ASSUME NEW p \in Processes, Take(p) PROVE TInv'
  <2>1. MainGoes(p) /\ main'[p].at = "up" /\ main[p].claim \in Claims
    BY <1>0, <1>9, TakeIs, MainStates
  <2>2. CASE UNCHANGED <<store, run>>
    BY <1>0, <1>9, <2>1, <2>2, TakeIs, MainTypes DEF Recovery
  <2>3. CASE Reclaim(main[p].claim) /\ Track(p, main[p].claim, claim[main[p].claim].attempt + 1)
    <3>1. claim[main[p].claim].attempt + 1 \in 1 .. MaxAttempts
      BY <1>0, <2>1, <2>3, ReclaimIs
    <3> QED BY <1>0, <1>9, <2>1, <2>3, <3>1, TakeIs, TrackTypes DEF Recovery
  <2> QED BY <1>0, <1>9, <2>2, <2>3, TakeIs
<1>10. ASSUME NEW r \in Runs, RunStep(r) \/ RecordFails(r) PROVE TInv'
  BY <1>10, RunStepTypes
<1>11. ASSUME NEW c \in Claims, Age(c) PROVE TInv'
  BY <1>11 DEF Age, TInv, Types, Links, Taken
<1>12. ASSUME NEW p \in Processes, Crash(p) \/ Stop(p) PROVE TInv'
  <2>1. mishaps' \in 0 .. MaxMishaps
    BY <1>0, <1>12, EventAssumption DEF Crash, Stop, Mishap, Types
  <2>2. CASE Crash(p)
    BY <1>0, <2>1, <2>2, StoppedTypes DEF Crash, Types, TInv, Links
  <2>3. CASE Stop(p)
    <3>1. \A r \in Runs : /\ record[r] # "none" => record'[r] # "none"
                          /\ record'[r] # "none" => run[r].at # "free"
      BY <2>3, StopRecords DEF Stop, TInv, Links
    <3> QED BY <1>0, <2>1, <2>3, <3>1, StopRecords, StoppedTypes DEF Stop
  <2> QED BY <1>12, <2>2, <2>3
<1>13. ASSUME UNCHANGED vars PROVE TInv'
  BY <1>13 DEF vars, store, TInv, Types, Links, Taken
<1> QED
  BY <1>1, <1>2, <1>3, <1>4, <1>5, <1>6, <1>7, <1>8, <1>9, <1>10, <1>11, <1>12, <1>13
  DEF Next, MainStep, Fault

(* The types at the start,                                                 *)
LEMMA TInvInit ==
  ASSUME Init
  PROVE  TInv
<1>1. Types
  BY EventAssumption, MainStates DEF Init, Types, ClaimFile, Statuses
<1>2. Links
  BY MainStates DEF Init, Links, Taken, Recovery
<1> QED BY <1>1, <1>2 DEF TInv

(* and always.                                                             *)
LEMMA Typed == Spec => []TInv
<1>1. Init => TInv
  BY TInvInit
<1>2. TInv /\ [Next]_vars => TInv'
  BY TInvStep
<1> QED BY <1>1, <1>2, PTL DEF Spec

(* Every variable has its type, for any processes.                         *)
THEOREM TypeCorrect == Spec => []TypeOK
<1>1. TInv => TypeOK
  <2> SUFFICES ASSUME TInv PROVE TypeOK
    OBVIOUS
  <2>1. Types
    BY DEF TInv
  <2>2. \A r \in Runs : run[r].at \in Points
    BY <2>1, Coroutines DEF Points
  <2> QED BY <2>1, <2>2, Coroutines DEF TypeOK, Types, ClaimFile, MainState
<1> QED BY <1>1, Typed, PTL

-----------------------------------------------------------------------------
(* The one process.                                                        *)

(* There is one process, and its event loop is free or not.                *)
LEMMA Alone ==
  ASSUME TInv, OneProcess, NEW p \in Processes
  PROVE  /\ Processes = {p} /\ p \notin Webs
         /\ \A r \in Runs : /\ Live(r) <=> r \in Within(p)
                            /\ Live(r) => run[r].proc = p /\ run[r].at # "free"
         /\ ~Busy(p) => main[p] = Up /\ \A r \in Runs : run[r].at \notin Settling
<1>1. Processes = {p} /\ p \notin Webs
  BY DEF OneProcess, Processes
<1>2. \A r \in Runs : Live(r) => run[r].proc = p /\ run[r].at # "free"
  <2>1. \A r \in Runs : Live(r) => run[r].at # "free"
    BY DEF Live, Running, Waiting, Settling
  <2> QED BY <1>1, <2>1, Coroutines DEF TInv
<1>3. \A r \in Runs : run[r].at \in Settling => Live(r)
  BY DEF Live, Running
<1> QED BY <1>1, <1>2, <1>3 DEF Within, Busy

(* No other run settles when a run begins or goes on to settle.            *)
LEMMA Exclusive ==
  ASSUME IInv, OneProcess, NEW r \in Runs, Live(r),
         run[r].at \in Settling \/ ~Busy(run[r].proc)
  PROVE  \A s \in Runs \ {r} : run[s].at \notin Settling
<1>1. run[r].proc \in Processes /\ TInv
  BY Coroutines DEF IInv, TInv, Live, Running, Waiting, Settling
<1>2. CASE run[r].at \in Settling
  BY <1>2 DEF IInv, SoleInv, OneSettles
<1>3. CASE ~Busy(run[r].proc)
  BY <1>1, <1>3, Alone
<1> QED BY <1>2, <1>3

(* What a step of a run owes: its own invariant, a result for what it      *)
(* writes into its claim, and that no other run settles meanwhile.         *)
LEMMA RunKeeps ==
  ASSUME IInv, TInv', OneProcess, NEW r \in Runs, Live(r),
         NEW point \in Points \ {"free", "queued", "lost"}, MovesTo(r, point),
         NEW status, Recorded(r, status), record[r] \in Results => status = record[r],
         UNCHANGED main,
         run[r].at \in Settling \/ ~Busy(run[r].proc),
         \/ UNCHANGED store /\ run[r].at # "queued"
         \/ \E word \in {"running", "failed", "succeeded"}, exec \in {claim[run[r].claim].exec, r, Substitute} :
              /\ Written(run[r].claim, word, exec)
              /\ exec = r => status \in Results
              /\ word = "succeeded" => exec = r /\ status = "success",
         RunInv(r)'
  PROVE  SoleInv'
<1> DEFINE c == run[r].claim
<1>0. /\ TInv /\ Types /\ SoleInv
      /\ Substitute \notin Runs
  BY EventAssumption DEF IInv, TInv, Runs
<1>1. run[r].at # "free" /\ c \in Claims /\ run[r].proc \in Processes /\ run[r].at # "lost"
  <2>1. run[r].at # "free" /\ run[r].at # "lost"
    BY DEF Live, Running, Waiting, Settling
  <2> QED BY <1>0, <2>1, Coroutines
<1>2. \A s \in Runs \ {r} : run[s].at \notin Settling
  BY Exclusive
<1>3. /\ run'[r].at = point /\ run'[r].claim = c /\ run'[r].attempt = run[r].attempt
      /\ record'[r] = status
      /\ \A s \in Runs \ {r} : run'[s] = run[s] /\ record'[s] = record[s]
  BY DEF MovesTo, Recorded
<1> HIDE DEF c
<1>4. /\ \A d \in Claims \ {c} : claim'[d] = claim[d]
      /\ \A d \in Claims : claim'[d].attempt = claim[d].attempt
      /\ claim'[c].exec \in {claim[c].exec, r, Substitute}
      /\ \/ claim'[c] = claim[c] /\ run[r].at # "queued"
         \/ /\ claim'[c].status \in {"running", "failed", "succeeded"}
            /\ claim'[c].exec = r => status \in Results
            /\ claim'[c].status = "succeeded" => claim'[c].exec = r /\ status = "success"
  <2>1. CASE UNCHANGED store /\ run[r].at # "queued"
    BY <2>1 DEF store
  <2>2. ASSUME NEW word \in {"running", "failed", "succeeded"}, NEW exec \in {claim[c].exec, r, Substitute},
               Written(c, word, exec), exec = r => status \in Results,
               word = "succeeded" => exec = r /\ status = "success"
        PROVE  /\ \A d \in Claims \ {c} : claim'[d] = claim[d]
               /\ \A d \in Claims : claim'[d].attempt = claim[d].attempt
               /\ claim'[c].exec \in {claim[c].exec, r, Substitute}
               /\ claim'[c].status \in {"running", "failed", "succeeded"}
               /\ claim'[c].exec = r => status \in Results
               /\ claim'[c].status = "succeeded" => claim'[c].exec = r /\ status = "success"
    BY <2>2 DEF Written
  <2> QED BY <2>1, <2>2 DEF c
<1>5. \A s \in Runs : s # r => RunInv(s)'
  <2> SUFFICES ASSUME NEW s \in Runs \ {r} PROVE RunInv(s)'
    OBVIOUS
  <2>1. run[s].at # "free" => run[s].claim \in Claims
    BY <1>0, Coroutines
  <2>2. RunInv(s)
    BY <1>0 DEF SoleInv
  <2>3. run[s].at \notin {"ended", "reported", "failing"}
    BY <1>2 DEF Settling
  <2>4. run[s].at \in {"queued", "marked", "executing"} => claim'[run[s].claim].exec # s
    BY <1>0, <1>1, <1>4, <2>1, <2>2 DEF RunInv
  <2> QED BY <1>3, <1>4, <2>1, <2>2, <2>3, <2>4 DEF RunInv
<1>6. \A s, t \in Runs : PairInv(s, t)'
  BY <1>0, <1>1, <1>3 DEF SoleInv, PairInv, Dormant, c
<1>7. \A d \in Claims : ClaimInv(d)'
  <2> SUFFICES ASSUME NEW d \in Claims PROVE ClaimInv(d)'
    OBVIOUS
  <2>1. ClaimInv(d)
    BY <1>0 DEF SoleInv
  <2>2. \A s \in Runs : record[s] \in Results => record'[s] = record[s] /\ run'[s].claim = run[s].claim
    BY <1>1, <1>3 DEF c
  <2>3. claim'[d].exec \in Runs => record'[claim'[d].exec] \in Results /\ run'[claim'[d].exec].claim = d
    BY <1>0, <1>3, <1>4, <2>1, <2>2 DEF ClaimInv
  <2>4. claim'[d].status = "succeeded" => claim'[d].exec \in Runs /\ record'[claim'[d].exec] = "success"
    BY <1>3, <1>4, <2>1, <2>2 DEF ClaimInv, Results
  <2>5. ASSUME claim'[d].status = "claimed"
        PROVE  /\ claim'[d].exec = None
               /\ \A s \in RunsOf(d)' : run'[s].attempt = claim'[d].attempt =>
                    run'[s].at = "queued" \/ Dormant(s)'
    <3>1. claim'[d] = claim[d] /\ (d = c => run[r].at # "queued")
      BY <1>4, <2>5
    <3>2. claim[d].exec = None /\ \A s \in RunsOf(d) : run[s].attempt = claim[d].attempt =>
                                      run[s].at = "queued" \/ Dormant(s)
      BY <2>1, <2>5, <3>1 DEF ClaimInv
    <3>3. r \in RunsOf(d) => run[r].attempt # claim[d].attempt
      BY <1>1, <3>1, <3>2 DEF RunsOf, Dormant, c
    <3>4. \A s \in Runs : s \in RunsOf(d)' <=> s \in RunsOf(d)
      BY <1>1, <1>3 DEF RunsOf, c
    <3> QED BY <1>3, <3>1, <3>2, <3>3, <3>4 DEF Dormant, RunsOf
  <2> QED BY <2>3, <2>4, <2>5 DEF ClaimInv
<1>8. ASSUME NEW p \in Processes PROVE MainInv(p)'
  <2>1. main[p] = Up /\ main' = main /\ Up.at = "up"
    <3>1. CASE run[r].at \in Settling
      BY <1>0, <3>1, MainStates DEF SoleInv, MainInv
    <3>2. CASE ~Busy(run[r].proc)
      BY <1>0, <1>1, <3>2, Alone, MainStates
    <3> QED BY <3>1, <3>2
  <2>2. ASSUME NEW d \in Claims, claim'[d].status = "claimed" PROVE Attended(d)'
    <3>1. claim'[d] = claim[d] /\ (d = c => run[r].at # "queued")
      BY <1>4, <2>2
    <3>2. PICK s \in LiveRunsOf(d) : run[s].attempt = claim[d].attempt
      BY <1>0, <2>1, <2>2, <3>1 DEF SoleInv, MainInv, Attended, Recovery
    <3>3. s \in Runs /\ run[s].at = "queued" /\ run[s].claim = d /\ run[s].at # "free"
      BY <1>0, <2>2, <3>1, <3>2 DEF SoleInv, ClaimInv, LiveRunsOf, RunsOf, Live, Dormant, Running, Waiting, Settling
    <3>4. s # r
      BY <3>1, <3>3 DEF c
    <3> QED BY <1>3, <3>1, <3>2, <3>3, <3>4 DEF Attended, LiveRunsOf, RunsOf, Live
  <2>3. \A s \in Runs : run'[s].at = "lost" => record'[s] # "running"
    BY <1>0, <1>3, <2>1 DEF SoleInv, MainInv, Recovery
  <2> QED BY <2>1, <2>2, <2>3 DEF MainInv, Recovery
<1>9. OneSettles'
  BY <1>2, <1>3 DEF OneSettles
<1> QED BY <1>5, <1>6, <1>7, <1>8, <1>9 DEF SoleInv

(* The steps of a run pay what they owe.                                   *)
LEMMA RunStepKeeps ==
  ASSUME IInv, TInv', OneProcess, NEW r \in Runs, RunStep(r) \/ RecordFails(r)
  PROVE  SoleInv'
<1>0. /\ TInv /\ Types /\ SoleInv /\ RunInv(r)
      /\ Substitute \notin Runs /\ None \notin Runs
  BY EventAssumption DEF IInv, TInv, Runs, SoleInv
<1>1. /\ {"marked", "failing", "executing", "ended", "reported", "done", "broken"}
           \subseteq Points \ {"free", "queued", "lost"}
      /\ \A point \in {"queued"} \cup Running : run[r].at = point => Live(r)
      /\ {"failed", "success"} = Results
  BY DEF Points, Running, Waiting, Settling, Live, Results
<1>2. /\ run[r].at # "free" => run[r].claim \in Claims
      /\ record[r] \in {"none", "running"} \cup Results
  BY <1>0, Coroutines DEF Types
<1>3. run[r].at # "free" => claim[run[r].claim].attempt >= run[r].attempt
  BY <1>0, <1>2, Coroutines, EventAssumption DEF RunInv, Types, ClaimFile
<1>4. ASSUME Start(r) PROVE SoleInv'
  <2>1. record[r] = "none" /\ claim[run[r].claim].exec # r /\ Live(r)
    BY <1>0, <1>1, <1>4, RunEffects DEF RunInv
  <2>2. RunInv(r)'
    <3> DEFINE c == run[r].claim
    <3>1. /\ MovesTo(r, "marked") /\ Recorded(r, record[r])
          /\ Written(c, "running", claim[c].exec) /\ run[r].at # "free"
      BY <1>0, <1>4, RunEffects
    <3>2. run'[r].at = "marked" /\ run'[r].claim = c /\ run'[r].attempt = run[r].attempt
      BY <3>1 DEF MovesTo
    <3>3. record'[r] = "none"
      BY <2>1, <3>1 DEF Recorded
    <3>4. claim'[c].exec # r /\ claim'[c].attempt >= run[r].attempt
      BY <1>3, <2>1, <3>1 DEF Written
    <3>5. run'[r].attempt <= claim'[c].attempt
      BY <1>0, <1>2, <3>1, <3>2, <3>4, Coroutines DEF Types, ClaimFile
    <3> HIDE DEF c
    <3> QED BY <3>2, <3>3, <3>4, <3>5 DEF RunInv
  <2> QED BY <1>0, <1>1, <1>4, <2>1, <2>2, RunEffects, RunKeeps
<1>5. ASSUME NoRecipients(r) PROVE SoleInv'
  <2>1. record[r] = "none" /\ claim[run[r].claim].exec # r /\ Live(r)
    BY <1>0, <1>1, <1>5, RunEffects DEF RunInv, Running, Waiting
  <2>2. RunInv(r)'
    BY <1>0, <1>2, <1>3, <1>5, <2>1, RunEffects DEF RunInv, Recorded, MovesTo, store
  <2>3. "none" \notin Results
    BY DEF Results
  <2> QED BY <1>0, <1>1, <1>5, <2>1, <2>2, <2>3, RunEffects, RunKeeps
<1>6. ASSUME Create(r) PROVE SoleInv'
  <2>1. record[r] = "none" /\ claim[run[r].claim].exec # r /\ Live(r)
    BY <1>0, <1>1, <1>6, RunEffects DEF RunInv, Running, Waiting
  <2>2. RunInv(r)'
    BY <1>0, <1>2, <1>3, <1>6, <2>1, RunEffects DEF RunInv, Recorded, MovesTo, store
  <2>3. "none" \notin Results
    BY DEF Results
  <2> QED BY <1>0, <1>1, <1>6, <2>1, <2>2, <2>3, RunEffects, RunKeeps
<1>7. ASSUME NEW result \in Results, Finish(r, result) PROVE SoleInv'
  <2>0. /\ run[r].at = "executing" /\ ~Busy(run[r].proc) /\ MovesTo(r, "ended")
        /\ run'[r].result = result /\ Recorded(r, result) /\ UNCHANGED <<store, main>>
    BY <1>0, <1>7, RunEffects
  <2>1. record[r] = "running" /\ claim[run[r].claim].exec # r /\ Live(r)
    BY <1>0, <1>1, <2>0 DEF RunInv, Running, Waiting
  <2>2. RunInv(r)'
    BY <1>0, <1>2, <1>3, <2>0, <2>1 DEF RunInv, Recorded, MovesTo, store
  <2>3. "running" \notin Results
    BY DEF Results
  <2> QED BY <1>0, <1>1, <2>0, <2>1, <2>2, <2>3, RunKeeps
<1>8. ASSUME Report(r) PROVE SoleInv'
  <2>0. /\ run[r].at = "ended" /\ MovesTo(r, "reported") /\ run'[r].result = run[r].result
        /\ Recorded(r, record[r]) /\ UNCHANGED main /\ Written(run[r].claim, "running", r)
    BY <1>0, <1>8, RunEffects
  <2>1. record[r] = run[r].result /\ record[r] \in Results /\ Live(r) /\ run[r].at \in Settling
    BY <1>0, <1>1, <2>0 DEF RunInv, Running, Settling
  <2>2. RunInv(r)'
    BY <1>0, <1>2, <1>3, <2>0, <2>1 DEF RunInv, Written, Recorded, MovesTo
  <2> QED BY <1>0, <1>1, <2>0, <2>1, <2>2, RunKeeps
<1>9. ASSUME Settle(r) PROVE SoleInv'
  <2>0. /\ run[r].at = "reported" /\ MovesTo(r, "done")
        /\ Recorded(r, record[r]) /\ UNCHANGED main
        /\ Written(run[r].claim, Outcome(run[r].result), claim[run[r].claim].exec)
    BY <1>0, <1>9, RunEffects
  <2>1. record[r] = run[r].result /\ record[r] \in Results /\ Live(r) /\ run[r].at \in Settling
        /\ claim[run[r].claim].exec = r
    BY <1>0, <1>1, <2>0 DEF RunInv, Running, Settling
  <2>2. RunInv(r)'
    BY <1>0, <1>2, <1>3, <2>0, <2>1 DEF RunInv, Written, Recorded, MovesTo
  <2>3. /\ Outcome(run[r].result) \in {"running", "failed", "succeeded"}
        /\ Outcome(run[r].result) = "succeeded" => record[r] = "success"
    BY <2>1 DEF Outcome
  <2> QED BY <1>0, <1>1, <2>0, <2>1, <2>2, <2>3, RunKeeps
<1>10. ASSUME FailClaim(r) PROVE SoleInv'
  <2>0. /\ run[r].at = "failing" /\ MovesTo(r, "done")
        /\ Recorded(r, record[r]) /\ UNCHANGED main
        /\ Written(run[r].claim, "failed", IF record[r] = "failed" THEN r ELSE Substitute)
    BY <1>0, <1>10, RunEffects
  <2>1. Live(r) /\ run[r].at \in Settling
    BY <1>1, <2>0 DEF Running, Settling
  <2>2. RunInv(r)'
    BY <1>0, <1>2, <1>3, <2>0 DEF RunInv, Written, Recorded, MovesTo
  <2> QED BY <1>0, <1>1, <2>0, <2>1, <2>2, RunKeeps
<1>11. ASSUME RecordFails(r) PROVE SoleInv'
  <2>0. /\ run[r].at \in Waiting /\ ~Busy(run[r].proc)
        /\ MovesTo(r, "failing") \/ MovesTo(r, "broken")
        /\ Recorded(r, record[r]) /\ UNCHANGED <<store, main>>
    BY <1>0, <1>11, RunEffects
  <2>1. Live(r) /\ claim[run[r].claim].exec # r /\ run[r].at # "free" /\ run[r].at # "queued"
    BY <1>0, <1>1, <2>0 DEF RunInv, Running, Waiting
  <2>2. RunInv(r)'
    BY <1>0, <1>2, <1>3, <2>0, <2>1 DEF RunInv, Recorded, MovesTo, store
  <2> QED BY <1>0, <1>1, <2>0, <2>1, <2>2, RunKeeps
<1> QED BY <1>4, <1>5, <1>6, <1>7, <1>8, <1>9, <1>10, <1>11 DEF RunStep

(* What the runs, the records and the claims keep true without the process.*)
FilesInv ==
  /\ \A r \in Runs : RunInv(r)
  /\ \A r, s \in Runs : PairInv(r, s)
  /\ \A c \in Claims : ClaimInv(c)
  /\ OneSettles

(* The two parts of the invariant.                                         *)
LEMMA FilesAndMain == SoleInv <=> FilesInv /\ \A p \in Processes : MainInv(p)
  BY DEF SoleInv, FilesInv

(* A step that writes nothing.                                             *)
LEMMA SameFiles ==
  ASSUME FilesInv, UNCHANGED <<store, record, run>>
  PROVE  FilesInv'
<1>1. claim' = claim /\ record' = record /\ run' = run
  BY DEF store
<1> QED BY <1>1 DEF FilesInv, RunInv, PairInv, Dormant, ClaimInv, RunsOf, OneSettles

(* A process that starts, resumes or publishes fails a claim.              *)
LEMMA FailedFiles ==
  ASSUME TInv, FilesInv, NEW c \in Claims, NEW exec, Written(c, "failed", exec),
         UNCHANGED <<record, run>>,
         \A r \in Runs : run[r].at \notin Settling,
         \/ exec = claim[c].exec
         \/ exec \in Runs /\ ~Live(exec) /\ record[exec] = "failed" /\ run[exec].claim = c
  PROVE  FilesInv'
<1>1. \A r \in Runs : RunInv(r)'
  <2> SUFFICES ASSUME NEW r \in Runs PROVE RunInv(r)'
    OBVIOUS
  <2>1. RunInv(r) /\ run[r].at \notin Settling
    BY DEF FilesInv
  <2>2. run[r].at # "free" => run[r].claim \in Claims
    BY Coroutines DEF TInv
  <2>3. run[r].at \in {"queued", "marked", "executing"} => claim'[run[r].claim].exec # r
    <3>1. run[r].at \in {"queued", "marked", "executing"} => Live(r) /\ run[r].at # "free"
      BY DEF Live, Running, Waiting
    <3> QED BY <2>1, <2>2, <3>1 DEF RunInv, Written
  <2>4. run[r].at # "free" => claim'[run[r].claim].attempt = claim[run[r].claim].attempt
    BY <2>2 DEF Written
  <2> QED BY <2>1, <2>3, <2>4 DEF RunInv, Settling
<1>2. \A d \in Claims : ClaimInv(d)'
  <2> SUFFICES ASSUME NEW d \in Claims PROVE ClaimInv(d)'
    OBVIOUS
  <2>1. ClaimInv(d) /\ RunsOf(d)' = RunsOf(d)
    BY DEF FilesInv, RunsOf
  <2>2. CASE d = c
    BY <2>1, <2>2 DEF ClaimInv, Written, Results
  <2>3. CASE d # c
    BY <2>1, <2>3 DEF ClaimInv, Written, Dormant
  <2> QED BY <2>2, <2>3
<1>3. (\A r, s \in Runs : PairInv(r, s)') /\ OneSettles'
  BY DEF FilesInv, PairInv, Dormant, OneSettles
<1> QED BY <1>1, <1>2, <1>3 DEF FilesInv

(* A claim gets a run: one that a restart left without, or a new attempt.  *)
LEMMA TrackFiles ==
  ASSUME TInv, FilesInv, NEW p \in Processes, NEW c \in Claims, NEW k \in 1 .. MaxAttempts,
         Track(p, c, k), UNCHANGED record,
         \A r \in Runs : run[r].at \notin Settling,
         \/ UNCHANGED store /\ claim[c].status = "claimed" /\ k = claim[c].attempt
            /\ LiveRunsOf(c) = {}
         \/ Reclaim(c) /\ k = claim[c].attempt + 1
  PROVE  /\ FilesInv' /\ Attended(c)' /\ claim'[c].status = "claimed"
         /\ \A d \in Claims \ {c} : claim'[d] = claim[d] /\ (Attended(d) => Attended(d)')
         /\ \A d \in Claims \ {c} : LiveRunsOf(d)' = LiveRunsOf(d)
         /\ \A r \in Runs : Live(r)' => Live(r) \/ run'[r].at = "queued"
         /\ \A r \in Runs : run'[r].at # "queued" => run'[r] = run[r]
<1>0. Types /\ None \notin Runs
  BY EventAssumption DEF TInv, Runs
<1>1. PICK r \in Runs :
              /\ run[r].at = "free"
              /\ \A s \in Runs \ {r} : run'[s] = run[s]
              /\ run'[r].at = "queued" /\ run'[r].claim = c /\ run'[r].attempt = k
  BY <1>0, TrackIs
<1>2. record[r] = "none" /\ record' = record
  BY <1>1 DEF TInv, Links
<1>3. /\ claim'[c].status = "claimed" /\ claim'[c].exec = None /\ claim'[c].attempt = k
      /\ \A d \in Claims \ {c} : claim'[d] = claim[d]
      /\ k >= claim[c].attempt
      /\ k = claim[c].attempt \/ k > claim[c].attempt
      /\ \A s \in RunsOf(c) : run[s].attempt = k => Dormant(s)
  <2>1. CASE UNCHANGED store /\ claim[c].status = "claimed" /\ k = claim[c].attempt
             /\ LiveRunsOf(c) = {}
    <3>1. claim' = claim /\ claim[c].exec = None
      BY <2>1 DEF store, FilesInv, ClaimInv
    <3>2. \A s \in RunsOf(c) : run[s].attempt = k => Dormant(s)
      BY <2>1 DEF FilesInv, ClaimInv, LiveRunsOf, Live
    <3> QED BY <2>1, <3>1, <3>2
  <2>2. CASE Reclaim(c) /\ k = claim[c].attempt + 1
    <3>1. claim[c].attempt \in Nat
      BY <1>0, EventAssumption DEF Types, ClaimFile
    <3>2. \A s \in RunsOf(c) : run[s].attempt \in Nat /\ run[s].attempt <= claim[c].attempt
      BY <1>0, Coroutines DEF FilesInv, RunInv, RunsOf
    <3> QED BY <1>0, <2>2, <3>1, <3>2, ReclaimIs
  <2> QED BY <2>1, <2>2
<1>4. \A s \in Runs : run[s].at # "free" => run[s].claim \in Claims
  BY <1>0, Coroutines
<1>5. \A s \in Runs : RunInv(s)'
  <2> SUFFICES ASSUME NEW s \in Runs PROVE RunInv(s)'
    OBVIOUS
  <2>1. CASE s = r
    BY <1>0, <1>1, <1>2, <1>3, <2>1 DEF RunInv
  <2>2. CASE s # r /\ run[s].at = "free"
    BY <1>1, <1>2, <2>2 DEF RunInv
  <2>3. CASE s # r /\ run[s].at # "free"
    <3>1. RunInv(s) /\ run[s].claim \in Claims /\ run[s].at \notin Settling
      BY <1>4, <2>3 DEF FilesInv
    <3>2. run[s].attempt \in Nat /\ claim[c].attempt \in Nat /\ k \in Nat
      BY <1>0, <2>3, Coroutines, EventAssumption DEF Types, ClaimFile
    <3>3. claim'[run[s].claim].exec # s \/ claim'[run[s].claim] = claim[run[s].claim]
      BY <1>0, <1>3, <3>1
    <3>4. run[s].attempt <= claim'[run[s].claim].attempt
      BY <1>3, <2>3, <3>1, <3>2 DEF RunInv
    <3> QED BY <1>1, <1>2, <2>3, <3>1, <3>3, <3>4 DEF RunInv, Settling
  <2> QED BY <2>1, <2>2, <2>3
<1>6. \A s, t \in Runs : PairInv(s, t)'
  <2> SUFFICES ASSUME NEW s \in Runs, NEW t \in Runs PROVE PairInv(s, t)'
    OBVIOUS
  <2>1. PairInv(s, t)
    BY DEF FilesInv
  <2>2. CASE s # r /\ t # r
    BY <1>1, <1>2, <2>1, <2>2 DEF PairInv, Dormant
  <2>3. CASE s = r \/ t = r
    BY <1>1, <1>2, <1>3, <2>3 DEF PairInv, Dormant, RunsOf
  <2> QED BY <2>2, <2>3
<1>7. \A d \in Claims : ClaimInv(d)'
  <2> SUFFICES ASSUME NEW d \in Claims PROVE ClaimInv(d)'
    OBVIOUS
  <2>1. ClaimInv(d)
    BY DEF FilesInv
  <2>2. CASE d = c
    <3>1. \A s \in RunsOf(c)' : s = r \/ (s \in RunsOf(c) /\ s # r)
      BY <1>1 DEF RunsOf
    <3>2. \A s \in RunsOf(c)' : run'[s].attempt = k => run'[s].at = "queued" \/ Dormant(s)'
      BY <1>1, <1>2, <1>3, <3>1 DEF Dormant, RunsOf
    <3> QED BY <1>0, <1>3, <2>2, <3>2 DEF ClaimInv
  <2>3. CASE d # c
    <3>1. RunsOf(d)' = RunsOf(d) /\ r \notin RunsOf(d)
      BY <1>1, <2>3 DEF RunsOf
    <3>2. claim[d].exec \in Runs => run'[claim[d].exec].claim = d
      BY <1>1, <1>2, <2>1 DEF ClaimInv, Results
    <3>3. RunsOf(d) \subseteq Runs
      BY DEF RunsOf
    <3> QED BY <1>1, <1>2, <1>3, <2>1, <2>3, <3>1, <3>2, <3>3 DEF ClaimInv, Dormant
  <2> QED BY <2>2, <2>3
<1>8. OneSettles'
  BY <1>1 DEF OneSettles, Settling
<1>9. Attended(c)'
  BY <1>1, <1>3 DEF Attended, LiveRunsOf, RunsOf, Live
<1>10. \A d \in Claims \ {c} : LiveRunsOf(d)' = LiveRunsOf(d)
  BY <1>1 DEF LiveRunsOf, RunsOf, Live
<1>11. \A d \in Claims \ {c} : Attended(d) => Attended(d)'
  BY <1>1, <1>3, <1>10 DEF Attended, LiveRunsOf, RunsOf
<1>12. \A s \in Runs : /\ Live(s)' => Live(s) \/ run'[s].at = "queued"
                       /\ run'[s].at # "queued" => run'[s] = run[s]
  BY <1>1 DEF Live
<1> QED BY <1>3, <1>5, <1>6, <1>7, <1>8, <1>9, <1>10, <1>11, <1>12 DEF FilesInv

(* A stop or a crash: the live runs are lost.                              *)
LEMMA StoppedFiles ==
  ASSUME IInv, OneProcess, NEW p \in Processes, Stopped(p), UNCHANGED store,
         \A r \in Runs : \/ record'[r] = record[r]
                         \/ run[r].at = "executing" /\ Live(r) /\ record'[r] = "failed"
  PROVE  FilesInv' /\ MainInv(p)'
<1>0. TInv /\ Types /\ FilesInv /\ None \notin Runs
  BY FilesAndMain, EventAssumption DEF IInv, TInv, Runs
<1>1. /\ claim' = claim /\ main'[p] = Down /\ main'[p].at = "down"
      /\ \A r \in Runs : IF Live(r)
                         THEN /\ run'[r].at = "lost" /\ run'[r].claim = run[r].claim
                              /\ run'[r].attempt = run[r].attempt
                         ELSE run'[r] = run[r]
      /\ \A r \in Runs : Live(r) => run[r].at # "free"
  BY <1>0, StoppedIs, Alone, MainStates DEF store
<1>2. \A r \in Runs : ~Live(r)' /\ run'[r].at \notin Settling
  BY <1>1 DEF Live, Running, Waiting, Settling
<1>3. \A r \in Runs : RunInv(r)'
  <2> SUFFICES ASSUME NEW r \in Runs PROVE RunInv(r)'
    OBVIOUS
  <2>1. run'[r].at \notin {"queued", "marked", "executing", "ended", "reported", "failing"}
    BY <1>2 DEF Live, Running, Waiting, Settling
  <2>2. run'[r].at # "free" => run[r].at # "free" /\ run'[r].claim = run[r].claim
                               /\ run'[r].attempt = run[r].attempt
    BY <1>1
  <2> QED BY <1>0, <1>1, <2>1, <2>2 DEF FilesInv, RunInv
<1>4. \A r \in Runs : Dormant(r) => Dormant(r)'
  BY <1>1 DEF Dormant, Live, Running, Waiting, Settling
<1>5. \A r \in Runs : /\ run'[r].at # "free" => run[r].at # "free"
                      /\ run'[r].claim = run[r].claim /\ run'[r].attempt = run[r].attempt
  BY <1>1
<1>6. \A r, s \in Runs : PairInv(r, s)'
  BY <1>0, <1>4, <1>5 DEF FilesInv, PairInv
<1>7. \A c \in Claims : ClaimInv(c)'
  <2> SUFFICES ASSUME NEW c \in Claims PROVE ClaimInv(c)'
    OBVIOUS
  <2>1. ClaimInv(c)
    BY <1>0 DEF FilesInv
  <2>2. \A r \in Runs : record[r] \in Results => record'[r] = record[r]
    <3>1. \A r \in Runs : run[r].at = "executing" => record[r] \notin Results
      BY <1>0 DEF FilesInv, RunInv, Results
    <3> QED BY <3>1
  <2>3. ASSUME NEW r \in Runs, run[r].at = "queued" PROVE Dormant(r)'
    BY <1>0, <1>1, <2>3 DEF FilesInv, RunInv, Dormant, Live
  <2>4. \A r \in Runs : r \in RunsOf(c)' => r \in RunsOf(c)
    BY <1>1 DEF RunsOf
  <2>5. claim[c].status = "claimed" => \A r \in RunsOf(c)' : run'[r].attempt = claim[c].attempt =>
            run'[r].at = "queued" \/ Dormant(r)'
    BY <1>4, <1>5, <2>1, <2>3, <2>4 DEF ClaimInv, RunsOf
  <2> QED BY <1>1, <1>5, <2>1, <2>2, <2>5 DEF ClaimInv, Results
<1>8. OneSettles' /\ MainInv(p)'
  BY <1>1, <1>2, MainStates DEF OneSettles, MainInv, Recovery, Up
<1> QED BY <1>3, <1>6, <1>7, <1>8 DEF FilesInv

(* The steps of a start: it recovers, and then resumes.                    *)
LEMMA StartsKeep ==
  ASSUME IInv, OneProcess, NEW p \in Processes,
         \/ Boot(p) \/ LookAtClaim(p) \/ FailSwept(p) \/ List(p) \/ Serve(p)
         \/ \E r \in Runs : Sweep(p, r)
         \/ \E c \in Claims : Resume(p, c)
  PROVE  FilesInv' /\ MainInv(p)'
<1>0. TInv /\ Types /\ FilesInv /\ MainInv(p) /\ p \notin Webs
  BY Alone, FilesAndMain DEF IInv, TInv
<1>1. /\ main[p].at \in {"down"} \cup Recovery => \A r \in Runs : ~Live(r) /\ run[r].at \notin Settling
      /\ main[p].at = "resuming" => \A r \in Runs : run[r].at \notin Settling
      /\ \A r \in Runs : run[r].at \in Settling => Live(r)
  BY <1>0, MainStates DEF MainInv, Live, Running, Up
<1>2. CASE Boot(p)
  <2>1. FilesInv'
    BY <1>0, <1>2, BootIs, SameFiles
  <2>2. main[p].at = "down" /\ main'[p].at = "recovering" /\ run' = run /\ record' = record /\ claim' = claim
        /\ main'[p].todo = {r \in Runs : record[r] = "running"}
    BY <1>0, <1>2, BootIs DEF store
  <2> QED BY <1>0, <1>1, <2>1, <2>2 DEF MainInv, Recovery, Live, Attended
<1>3. CASE LookAtClaim(p)
  <2>1. FilesInv'
    BY <1>0, <1>3, LookAtClaimIs, SameFiles
  <2>2. /\ main[p].at = "looking" /\ run' = run /\ record' = record /\ claim' = claim
        /\ main'[p].todo = main[p].todo
        /\ IF Pending(run[main[p].swept].claim)
           THEN main'[p].at = "failing" /\ main'[p].swept = main[p].swept
           ELSE main'[p].at = "recovering"
    BY <1>0, <1>3, LookAtClaimIs DEF store
  <2> QED BY <1>0, <1>1, <2>1, <2>2 DEF MainInv, Recovery, Live, Pending
<1>4. CASE FailSwept(p)
  <2>0. main[p].at = "failing"
    BY <1>4 DEF FailSwept
  <2>1. main[p].swept \in Runs /\ record[main[p].swept] = "failed" /\ ~Live(main[p].swept)
        /\ run[main[p].swept].at # "free" /\ run[main[p].swept].claim \in Claims
    BY <1>0, <1>1, <2>0, MainHolds, Coroutines DEF MainInv, Recovery, TInv, Links
  <2>2. /\ run' = run /\ record' = record
        /\ main'[p].at = "recovering" /\ main'[p].todo = main[p].todo
        /\ Written(run[main[p].swept].claim, "failed", main[p].swept)
    BY <1>0, <1>4, <2>1, FailSweptIs
  <2>3. FilesInv'
    BY <1>0, <1>1, <2>0, <2>1, <2>2, FailedFiles DEF Recovery
  <2> QED BY <1>0, <1>1, <2>0, <2>2, <2>3 DEF MainInv, Recovery, Live
<1>5. CASE List(p)
  <2>1. FilesInv'
    BY <1>0, <1>5, ListIs, SameFiles
  <2>2. /\ main[p].at = "recovering" /\ main[p].todo = {} /\ run' = run /\ record' = record
        /\ claim' = claim /\ main'[p].at = "resuming" /\ main'[p].todo = Listed
    BY <1>0, <1>5, ListIs DEF store
  <2>3. \A c \in Claims : LiveRunsOf(c)' = {}
    BY <1>1, <2>2 DEF LiveRunsOf, RunsOf, Recovery, Live
  <2> QED BY <1>0, <1>1, <2>1, <2>2, <2>3 DEF MainInv, Recovery, Live, Listed
<1>6. CASE Serve(p)
  <2>1. FilesInv'
    BY <1>0, <1>6, ServeIs, SameFiles
  <2>2. /\ main[p].at = "resuming" /\ main[p].todo = {} /\ run' = run /\ record' = record
        /\ claim' = claim /\ main'[p] = Up /\ main'[p].at = "up"
    BY <1>0, <1>6, ServeIs, MainStates DEF store
  <2> QED BY <1>0, <1>1, <2>1, <2>2 DEF MainInv, Recovery, Attended, LiveRunsOf, RunsOf, Live
<1>7. ASSUME NEW r \in Runs, Sweep(p, r) PROVE FilesInv' /\ MainInv(p)'
  <2>1. /\ main[p].at = "recovering" /\ r \in main[p].todo
        /\ Recorded(r, "failed") /\ run' = run /\ claim' = claim
        /\ main'[p].at = "looking" /\ main'[p].todo = main[p].todo \ {r} /\ main'[p].swept = r
    BY <1>0, <1>7, SweepIs DEF store
  <2>2. record[r] = "running" /\ \A s \in Runs : ~Live(s) /\ run[s].at \notin Settling
    BY <1>0, <1>1, <2>1 DEF MainInv, Recovery
  <2>3. record'[r] = "failed" /\ \A s \in Runs \ {r} : record'[s] = record[s]
    BY <2>1 DEF Recorded
  <2>4. \A s \in Runs : Dormant(s)' <=> Dormant(s)
    BY <2>1, <2>2, <2>3 DEF Dormant
  <2>5. \A s \in Runs : RunInv(s)'
    BY <1>0, <2>1, <2>2, <2>3 DEF FilesInv, RunInv, Live, Running, Waiting, Settling
  <2>6. \A s, t \in Runs : PairInv(s, t)'
    BY <1>0, <2>1, <2>4 DEF FilesInv, PairInv
  <2>7. \A c \in Claims : ClaimInv(c)'
    <3> SUFFICES ASSUME NEW c \in Claims PROVE ClaimInv(c)'
      OBVIOUS
    <3>1. ClaimInv(c) /\ RunsOf(c)' = RunsOf(c) /\ RunsOf(c) \subseteq Runs
      BY <1>0, <2>1 DEF FilesInv, RunsOf
    <3> QED BY <2>1, <2>2, <2>3, <2>4, <3>1 DEF ClaimInv, Results
  <2>8. OneSettles'
    BY <2>1, <2>2 DEF OneSettles
  <2>9. MainInv(p)'
    <3>1. main[p].todo \subseteq Runs
      BY <1>0, <2>1, MainHolds
    <3> QED BY <1>0, <2>1, <2>2, <2>3, <3>1 DEF MainInv, Recovery, Live
  <2> QED BY <2>5, <2>6, <2>7, <2>8, <2>9 DEF FilesInv
<1>8. ASSUME NEW c \in Claims, Resume(p, c) PROVE FilesInv' /\ MainInv(p)'
  <2>1. /\ main[p].at = "resuming" /\ c \in main[p].todo
        /\ main'[p].at = "resuming" /\ main'[p].todo = main[p].todo \ {c} /\ record' = record
        /\ main[p].todo \in SUBSET Claims
    BY <1>0, <1>8, ResumeIs, MainHolds
  <2>2. /\ claim[c].status = "claimed" /\ LiveRunsOf(c) = {}
        /\ \A r \in Runs : run[r].at \notin Settling
        /\ \A r \in Runs : Live(r) => run[r].at = "queued"
        /\ \A d \in main[p].todo : claim[d].status = "claimed" /\ LiveRunsOf(d) = {}
        /\ \A d \in Claims : claim[d].status = "claimed" /\ d \notin main[p].todo => Attended(d)
        /\ \A r \in Runs : run[r].at = "lost" => record[r] # "running"
    BY <1>0, <1>1, <2>1 DEF MainInv, Recovery
  <2>3. CASE Track(p, c, claim[c].attempt) /\ UNCHANGED store
    <3>1. claim[c].attempt \in 1 .. MaxAttempts
      BY <1>0, <2>2, EventAssumption DEF TInv, Links, Taken, Types, ClaimFile
    <3>2. /\ FilesInv' /\ Attended(c)' /\ claim'[c].status = "claimed"
          /\ \A d \in Claims \ {c} : claim'[d] = claim[d] /\ (Attended(d) => Attended(d)')
          /\ \A d \in Claims \ {c} : LiveRunsOf(d)' = LiveRunsOf(d)
          /\ \A r \in Runs : Live(r)' => Live(r) \/ run'[r].at = "queued"
          /\ \A r \in Runs : run'[r].at # "queued" => run'[r] = run[r]
      BY <1>0, <2>1, <2>2, <2>3, <3>1, TrackFiles
    <3>3. \A r \in Runs : /\ Live(r)' => run'[r].at = "queued"
                          /\ run'[r].at \notin Settling
                          /\ run'[r].at = "lost" => record'[r] # "running"
      BY <2>1, <2>2, <3>2 DEF Settling
    <3> QED BY <2>1, <2>2, <3>2, <3>3 DEF MainInv, Recovery
  <2>4. CASE Written(c, "failed", claim[c].exec) /\ UNCHANGED run
    <3>1. FilesInv'
      BY <1>0, <2>1, <2>2, <2>4, FailedFiles
    <3>2. \A d \in Claims \ {c} : claim'[d] = claim[d] /\ LiveRunsOf(d)' = LiveRunsOf(d)
                                  /\ (Attended(d) => Attended(d)')
      BY <2>4 DEF Written, LiveRunsOf, RunsOf, Live, Attended
    <3>3. claim'[c].status = "failed"
      BY <2>4 DEF Written
    <3> QED BY <2>1, <2>2, <2>4, <3>1, <3>2, <3>3 DEF MainInv, Recovery, Live
  <2> QED BY <1>0, <1>8, <2>3, <2>4, ResumeIs
<1> QED BY <1>2, <1>3, <1>4, <1>5, <1>6, <1>7, <1>8

(* The steps of publish_event.                                             *)
LEMMA PublishesKeep ==
  ASSUME IInv, OneProcess, NEW p \in Processes,
         \/ \E c \in Claims, force \in BOOLEAN : Publish(p, c, force)
         \/ FailStale(p) \/ Take(p)
  PROVE  FilesInv' /\ MainInv(p)'
<1>0. TInv /\ Types /\ FilesInv /\ MainInv(p) /\ Up.at = "up"
  BY FilesAndMain, MainStates DEF IInv, TInv
<1>1. /\ \A r \in Runs : run[r].at \notin Settling
      /\ main[p].at \in {"up", "publishing"}
  <2>1. CASE \E c \in Claims, force \in BOOLEAN : Publish(p, c, force)
    BY <1>0, <2>1, PublishIs, Alone
  <2>2. CASE FailStale(p) \/ Take(p)
    <3>1. main[p].at = "publishing"
      BY <2>2 DEF FailStale, Take
    <3> QED BY <1>0, <3>1 DEF MainInv
  <2> QED BY <2>1, <2>2
<1>2. /\ \A c \in Claims : claim[c].status = "claimed" => Attended(c)
      /\ \A r \in Runs : run[r].at = "lost" => record[r] # "running"
  BY <1>0, <1>1 DEF MainInv, Recovery
<1>3. ASSUME main'[p].at \in {"up", "publishing"}, UNCHANGED <<store, record, run>>
      PROVE  FilesInv' /\ MainInv(p)'
  <2>1. FilesInv'
    BY <1>0, <1>3, SameFiles
  <2>2. claim' = claim /\ record' = record /\ run' = run
    BY <1>3 DEF store
  <2> QED BY <1>1, <1>2, <1>3, <2>1, <2>2 DEF MainInv, Recovery, Attended, LiveRunsOf, RunsOf, Live
<1>4. CASE \E c \in Claims, force \in BOOLEAN : Publish(p, c, force)
  BY <1>0, <1>3, <1>4, PublishIs
<1>5. CASE FailStale(p)
  <2>1. CASE main'[p] = Up /\ UNCHANGED store
    BY <1>0, <1>3, <1>5, <2>1, FailStaleIs
  <2>2. CASE ~(main'[p] = Up /\ UNCHANGED store)
    <3>1. PICK c \in Claims : /\ main'[p].at = "publishing" /\ run' = run /\ record' = record
                              /\ Written(c, "failed", claim[c].exec)
      BY <1>0, <1>5, <2>2, FailStaleIs
    <3>2. FilesInv'
      BY <1>0, <1>1, <3>1, FailedFiles
    <3>3. \A d \in Claims : claim'[d].status = "claimed" => claim[d].status = "claimed" /\ claim'[d] = claim[d]
      BY <3>1 DEF Written
    <3>4. \A d \in Claims : claim'[d].status = "claimed" => Attended(d)'
      BY <1>2, <3>1, <3>3 DEF Attended, LiveRunsOf, RunsOf, Live
    <3> QED BY <1>1, <1>2, <3>1, <3>2, <3>4 DEF MainInv, Recovery
  <2> QED BY <2>1, <2>2
<1>6. CASE Take(p)
  <2>0. main[p].claim \in Claims /\ main'[p] = Up /\ main'[p].at = "up" /\ record' = record
    BY <1>0, <1>6, TakeIs
  <2>1. CASE UNCHANGED <<store, run>>
    BY <1>3, <2>0, <2>1
  <2>2. ASSUME NEW c \in Claims, Reclaim(c), Track(p, c, claim[c].attempt + 1)
        PROVE  FilesInv' /\ MainInv(p)'
    <3>1. claim[c].attempt + 1 \in 1 .. MaxAttempts
      BY <1>0, <2>2, ReclaimIs
    <3>2. /\ FilesInv' /\ Attended(c)'
          /\ \A d \in Claims \ {c} : claim'[d] = claim[d] /\ (Attended(d) => Attended(d)')
          /\ \A r \in Runs : run'[r].at # "queued" => run'[r] = run[r]
      BY <1>0, <1>1, <2>0, <2>2, <3>1, TrackFiles
    <3>3. \A r \in Runs : /\ run'[r].at \notin Settling
                          /\ run'[r].at = "lost" => record'[r] # "running"
      BY <1>1, <1>2, <2>0, <3>2 DEF Settling
    <3> QED BY <1>2, <2>0, <3>2, <3>3 DEF MainInv, Recovery
  <2> QED BY <1>0, <1>6, <2>0, <2>1, <2>2, TakeIs
<1> QED BY <1>4, <1>5, <1>6

(* IInv is inductive for one process.                                      *)
LEMMA SoleStep ==
  ASSUME IInv, OneProcess, [Next]_vars
  PROVE  IInv'
<1>0. TInv /\ FilesInv /\ \A p \in Processes : MainInv(p)
  BY FilesAndMain DEF IInv
<1>1. TInv'
  BY <1>0, TInvStep
<1>2. ASSUME NEW p \in Processes, FilesInv', MainInv(p)' PROVE SoleInv'
  <2>1. \A q \in Processes : q = p
    BY <1>0, Alone
  <2> QED BY <1>2, <2>1, FilesAndMain DEF SoleInv, FilesInv
<1>3. ASSUME NEW p \in Processes, Boot(p) \/ MainStep(p) PROVE SoleInv'
  <2>1. FilesInv' /\ MainInv(p)'
    BY <1>3, StartsKeep, PublishesKeep DEF MainStep
  <2> QED BY <1>2, <2>1
<1>4. ASSUME NEW p \in Processes, NEW c \in Claims, NEW force \in BOOLEAN, Publish(p, c, force)
      PROVE  SoleInv'
  <2>1. FilesInv' /\ MainInv(p)'
    BY <1>4, PublishesKeep
  <2> QED BY <1>2, <2>1
<1>5. ASSUME NEW r \in Runs, RunStep(r) \/ RecordFails(r) PROVE SoleInv'
  BY <1>1, <1>5, RunStepKeeps
<1>6. ASSUME NEW p \in Processes, Crash(p) \/ Stop(p) PROVE SoleInv'
  <2>1. Stopped(p) /\ UNCHANGED store
    BY <1>6 DEF Crash, Stop
  <2>2. \A r \in Runs : \/ record'[r] = record[r]
                        \/ run[r].at = "executing" /\ Live(r) /\ record'[r] = "failed"
    BY <1>0, <1>6, StopRecords DEF Crash, Stop
  <2>3. FilesInv' /\ MainInv(p)'
    BY <2>1, <2>2, StoppedFiles
  <2> QED BY <1>2, <2>3
<1>7. ASSUME UNCHANGED <<claim, record, run, main>> PROVE SoleInv'
  BY <1>0, <1>7 DEF SoleInv, FilesInv, RunInv, PairInv, Dormant, ClaimInv, RunsOf, OneSettles,
     MainInv, Live, LiveRunsOf, Attended, Pending
<1>8. ASSUME NEW c \in Claims, Age(c) PROVE SoleInv'
  BY <1>7, <1>8 DEF Age
<1>9. ASSUME UNCHANGED vars PROVE SoleInv'
  BY <1>7, <1>9 DEF vars
<1> QED
  BY <1>1, <1>3, <1>4, <1>5, <1>6, <1>8, <1>9 DEF Next, Fault, IInv

(* It holds at the start,                                                  *)
LEMMA SoleInit ==
  ASSUME Init
  PROVE  IInv
<1>1. /\ \A r \in Runs : run[r].at = "free" /\ ~Live(r) /\ record[r] = "none"
      /\ \A c \in Claims : claim[c].status = "none" /\ claim[c].exec = None
      /\ \A p \in Processes : main[p].at = "down"
      /\ None \notin Runs
  BY MainStates, EventAssumption DEF Init, Live, Running, Waiting, Settling, Runs
<1>2. SoleInv
  BY <1>1 DEF SoleInv, RunInv, PairInv, ClaimInv, MainInv, OneSettles, Recovery, Settling
<1> QED BY <1>2, TInvInit DEF IInv

(* and always.                                                             *)
LEMMA Invariant ==
  ASSUME OneProcess
  PROVE  Spec => []IInv
<1>1. Init => IInv
  BY SoleInit
<1>2. IInv /\ [Next]_vars => IInv'
  BY SoleStep
<1> QED BY <1>1, <1>2, PTL DEF Spec

-----------------------------------------------------------------------------
(* Theorems about one process.                                             *)

(* An attempt of a claim is executed at most once, although a restart      *)
(* resumes what it finds claimed and a user may publish an event again     *)
(* while its run is slow (service.py:205 and 445).                         *)
THEOREM AttemptsRunOnce ==
  ASSUME OneProcess
  PROVE  Spec => []AttemptRunsOnce
<1>1. IInv => AttemptRunsOnce
  BY DEF IInv, SoleInv, PairInv, Dormant, AttemptRunsOnce, RunsOf
<1> QED BY <1>1, Invariant, PTL

(* The claim and the record of the execution it names agree: the two       *)
(* stores are written one after the other, by runs that a newer attempt    *)
(* may have overtaken (service.py:581-593).                                *)
THEOREM ResultsAreRecorded ==
  ASSUME OneProcess
  PROVE  Spec => []SettledHasResult
<1>1. IInv => SettledHasResult
  BY DEF IInv, SoleInv, ClaimInv, SettledHasResult
<1> QED BY <1>1, Invariant, PTL

(* What a crash or a stop left behind is taken up before the process       *)
(* serves again (service.py:107-135 and 201-229).                          *)
THEOREM RestartsCleanUp ==
  ASSUME OneProcess
  PROVE  Spec => []NothingLeftBehind
<1>1. IInv => NothingLeftBehind
  <2> SUFFICES ASSUME IInv, \A p \in Processes : main[p] = Up PROVE NothingLeftBehind
    BY DEF NothingLeftBehind
  <2>1. PICK p \in Processes : TRUE
    BY DEF OneProcess, Processes
  <2>2. main[p].at = "up" /\ MainInv(p)
    BY MainStates DEF IInv, SoleInv
  <2> QED BY <2>2 DEF NothingLeftBehind, MainInv, Recovery, Attended
<1> QED BY <1>1, Invariant, PTL

(* The run of another attempt that rewrites a claim that has succeeded.    *)
LEMMA Overtaken ==
  ASSUME IInv, NEW r \in Runs, Live(r), run[r].at # "executing",
         claim[run[r].claim].status = "succeeded"
  PROVE  run[r].attempt # run[claim[run[r].claim].exec].attempt
<1> DEFINE c == run[r].claim
           e == claim[c].exec
<1>1. c \in Claims /\ run[r].at # "free" /\ RunInv(r) /\ ClaimInv(c)
  BY Coroutines DEF IInv, TInv, SoleInv, Live, Running, Waiting, Settling
<1>2. e \in Runs /\ record[e] = "success" /\ run[e].claim = c /\ run[e].at # "free"
  BY <1>1 DEF ClaimInv, IInv, TInv, Links, Results
<1>3. e # r
  BY <1>1, <1>2 DEF RunInv, Live, Running, Waiting, Settling
<1>4. ~Dormant(r) /\ ~Dormant(e)
  BY <1>2 DEF Dormant, Live, Running, Waiting, Settling
<1> QED BY <1>1, <1>2, <1>3, <1>4 DEF IInv, SoleInv, PairInv

(* A success is replaced by a new attempt or by the late end of another    *)
(* one, and by no restart (service.py:124).                                *)
THEOREM SuccessesAreKept ==
  ASSUME OneProcess
  PROVE  Spec => SuccessKept
<1>1. IInv /\ [Next]_vars =>
        [\A c \in Claims : claim[c].status = "succeeded" /\ claim'[c].status # "succeeded" =>
           \/ claim'[c].attempt > claim[c].attempt
           \/ \E r \in LiveRunsOf(c) : /\ run'[r] # run[r]
                                       /\ run[r].attempt # run[claim[c].exec].attempt]_vars
  <2> SUFFICES ASSUME IInv, [Next]_vars, NEW c \in Claims, claim[c].status = "succeeded",
                      claim'[c].status # "succeeded"
               PROVE  \/ claim'[c].attempt > claim[c].attempt
                      \/ \E r \in LiveRunsOf(c) : /\ run'[r] # run[r]
                                                  /\ run[r].attempt # run[claim[c].exec].attempt
    OBVIOUS
  <2>0. TInv /\ Types /\ \A p \in Processes : MainInv(p)
    BY DEF IInv, TInv, SoleInv
  <2>1. ASSUME NEW r \in Runs, Live(r), NEW point, point # run[r].at, MovesTo(r, point),
               run[r].at # "executing", NEW word, NEW exec, Written(run[r].claim, word, exec)
        PROVE  \E s \in LiveRunsOf(c) : /\ run'[s] # run[s]
                                        /\ run[s].attempt # run[claim[c].exec].attempt
    <3>1. run[r].claim = c
      BY <2>1 DEF Written
    <3>2. r \in LiveRunsOf(c)
      BY <2>1, <3>1 DEF LiveRunsOf, RunsOf, Live, Running, Waiting, Settling
    <3>3. run'[r] # run[r]
      BY <2>1 DEF MovesTo
    <3> QED BY <2>1, <3>1, <3>2, <3>3, Overtaken
  <2>2. ASSUME UNCHANGED store PROVE FALSE
    BY <2>2 DEF store
  <2>3. ASSUME NEW r \in Runs, RunStep(r) \/ RecordFails(r)
        PROVE  \E s \in LiveRunsOf(c) : /\ run'[s] # run[s]
                                        /\ run[s].attempt # run[claim[c].exec].attempt
    <3>1. Start(r) \/ Report(r) \/ Settle(r) \/ FailClaim(r)
      BY <2>0, <2>2, <2>3, RunEffects DEF RunStep
    <3>2. \A at \in {"queued"} \cup Settling : run[r].at = at => Live(r)
      BY DEF Live, Running
    <3> QED BY <2>0, <2>1, <3>1, <3>2, RunEffects DEF Settling
  <2>4. ASSUME NEW p \in Processes, Boot(p) \/ MainStep(p)
        PROVE  claim'[c].attempt > claim[c].attempt
    <3>1. ASSUME FailSwept(p) PROVE FALSE
      <4>1. main[p].at = "failing"
        BY <3>1 DEF FailSwept
      <4>2. /\ main[p].swept \in Runs /\ run[main[p].swept].at # "free"
            /\ Pending(run[main[p].swept].claim)
        BY <2>0, <4>1, MainHolds DEF MainInv, TInv, Links
      <4>3. Written(run[main[p].swept].claim, "failed", main[p].swept)
        BY <2>0, <3>1, <4>2, FailSweptIs
      <4> QED BY <4>2, <4>3 DEF Written, Pending
    <3>2. ASSUME NEW d \in Claims, Resume(p, d) PROVE FALSE
      <4>1. claim[d].status = "claimed"
        BY <2>0, <3>2, ResumeIs DEF MainInv
      <4> QED BY <2>0, <2>2, <3>2, <4>1, ResumeIs DEF Written
    <3>3. ASSUME FailStale(p) PROVE FALSE
      BY <2>0, <2>2, <3>3, FailStaleIs DEF Written
    <3>4. ASSUME Take(p) PROVE claim'[c].attempt > claim[c].attempt
      <4>1. main[p].claim \in Claims /\ Reclaim(main[p].claim)
        BY <2>0, <2>2, <3>4, TakeIs
      <4>2. claim[c].attempt \in Nat
        BY <2>0, EventAssumption DEF Types, ClaimFile
      <4> QED BY <2>0, <4>1, <4>2, ReclaimIs
    <3>5. ASSUME Boot(p) \/ LookAtClaim(p) \/ List(p) \/ Serve(p) \/ \E r \in Runs : Sweep(p, r)
          PROVE  FALSE
      BY <2>2, <3>5 DEF Boot, LookAtClaim, List, Serve, Sweep
    <3> QED BY <2>4, <3>1, <3>2, <3>3, <3>4, <3>5 DEF MainStep
  <2>5. ASSUME NEW p \in Processes, NEW d \in Claims, NEW force \in BOOLEAN, Publish(p, d, force)
        PROVE  FALSE
    BY <2>2, <2>5 DEF Publish
  <2>6. ASSUME NEW d \in Claims, Age(d) PROVE FALSE
    BY <2>6 DEF Age
  <2>7. ASSUME NEW p \in Processes, Crash(p) \/ Stop(p) PROVE FALSE
    BY <2>2, <2>7 DEF Crash, Stop
  <2>8. ~UNCHANGED vars
    BY DEF vars
  <2> QED BY <2>3, <2>4, <2>5, <2>6, <2>7, <2>8 DEF Next, Fault
<1> QED BY <1>1, Invariant, PTL DEF Spec, SuccessKept
==============================================================================
