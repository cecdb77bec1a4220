---------------------------- MODULE JobLifecycle ----------------------------
(***************************************************************************)
(* What the durable workflow queue promises its users, without Redis, TTLs *)
(* of leases, tokens or worker internals: a submitted job is granted to    *)
(* one worker at a time, only that worker extends its checkpoint or        *)
(* settles it, a revoked job keeps its checkpoint, and a settled job stays *)
(* settled until it is submitted again.                                    *)
(***************************************************************************)
EXTENDS Naturals

CONSTANTS
  Workflows, Workers, NoWorker,
  Checkpoints   \* the lengths a checkpoint can have

VARIABLES
  state,      \* "absent", "queued", "running" or a terminal status
  holder,     \* the worker the job is granted to
  progress,   \* length of the job's checkpoint
  author      \* the worker that last wrote since the job was granted

vars == <<state, holder, progress, author>>

Settled == {"succeeded", "partial", "failed", "cancelled"}

Init ==
  /\ state = [w \in Workflows |-> "absent"]
  /\ holder = [w \in Workflows |-> NoWorker]
  /\ progress = [w \in Workflows |-> 0]
  /\ author = [w \in Workflows |-> NoWorker]

Become(w, s, h, n, a) ==
  /\ state' = [state EXCEPT ![w] = s]
  /\ holder' = [holder EXCEPT ![w] = h]
  /\ progress' = [progress EXCEPT ![w] = n]
  /\ author' = [author EXCEPT ![w] = a]

Submit(w) ==
  /\ state[w] \in Settled \cup {"absent"}
  /\ \E n \in Checkpoints : Become(w, "queued", NoWorker, n, NoWorker)

Grant(w) ==
  /\ state[w] = "queued"
  /\ \E p \in Workers : Become(w, "running", p, progress[w], NoWorker)

Advance(w) ==
  /\ state[w] = "running"
  /\ \E n \in Checkpoints : n >= progress[w] /\ Become(w, "running", holder[w], n, holder[w])

Settle(w) ==
  /\ state[w] = "running"
  /\ \E s \in Settled : Become(w, s, NoWorker, progress[w], holder[w])

Revoke(w) ==
  /\ state[w] = "running"
  /\ Become(w, "queued", NoWorker, progress[w], author[w])

Forget(w) == Become(w, "absent", NoWorker, 0, author[w])

Next ==
  \E w \in Workflows :
    Submit(w) \/ Grant(w) \/ Advance(w) \/ Settle(w) \/ Revoke(w) \/ Forget(w)

Spec == Init /\ [][Next]_vars
=============================================================================
