----------------------------- MODULE Documents -----------------------------
(***************************************************************************)
(* One document of a knowledge base: the durable processing queue of       *)
(* knowledge_base/tasks.py, the ingestion, replacement and deletion of     *)
(* knowledge_base/ingestion_service.py, and the upload, replace, delete    *)
(* and retry requests of knowledge_base/service.py.                        *)
(*                                                                         *)
(* Everything that writes the document does so in transactions of its own, *)
(* each of which is a step; between two of them other workers, requests,   *)
(* the expiry of leases and crashes interleave.  Content is abstracted to  *)
(* the upload it came from, chunks to the upload they were made of.  Each  *)
(* queue worker stands for a process, which also serves requests; its name *)
(* serves as the lease token, since it handles one task at a time.         *)
(***************************************************************************)
EXTENDS Naturals, FiniteSets

CONSTANTS
  Workers,        \* queue workers, each in a process of its own
  Replacers,      \* requests that replace the document, one each
  Deleters,       \* requests that delete the document, one each
  Host,           \* the worker in whose process a request is served
  Upload,         \* the content of the original upload
  New,            \* the content a replacer brings
  NoWorker,       \* no lease token
  NoContent,      \* no chunks
  NoDocument,     \* no snapshot of the document
  MaxRetries,     \* max_retries
  MaxOverlap,     \* bound: replacements under way at a time
  MaxMishaps      \* bound: failing calls, stalls, cancellations, crashes, user retries

Requests == Replacers \cup Deleters
Actors == Workers \cup Requests
Contents == {Upload} \cup {New[r] : r \in Replacers}

ASSUME DocumentsAssumption ==
  /\ Workers \cap Requests = {} /\ Replacers \cap Deleters = {}
  /\ Host \in [Requests -> Workers]
  /\ NoWorker \notin Workers
  /\ NoContent \notin Contents
  /\ IsFiniteSet(Replacers)
  /\ \A r \in Replacers : New[r] # Upload /\ \A s \in Replacers \ {r} : New[r] # New[s]
  /\ {MaxRetries, MaxOverlap, MaxMishaps} \subseteq Nat

VARIABLES
  document,       \* the document row, NoDocument once deleted
  chunks,         \* the content its chunk rows were made of
  originals,      \* contents with a durable original in the file storage
  run,            \* program point of each worker and request
  held,           \* generation of the DocumentTask of each worker
  snapshot,       \* the document as the run loaded it
  previous,       \* the document as a replacement or deletion found it
  shared,         \* history: one generation served two purposes
  mishaps         \* number of bounded events

vars == <<document, chunks, originals, run, held, snapshot, previous, shared,
          mishaps>>

-----------------------------------------------------------------------------
(* Types.                                                                  *)

(* extra_metadata["_processing_task"]; a task without token has no lease.  *)
Task == [token : Workers \cup {NoWorker}, attempts : Nat, lease : {"none", "valid", "expired"}]
NoTask == [token |-> NoWorker, attempts |-> 0, lease |-> "none"]

Document == [generation : Nat,
             content : Contents,
             original : {"staged", "durable"},
             status : {"queued", "processing", "completed", "failed", "deleting"},
             queued : BOOLEAN,  \* the metadata has a _processing_task
             task : Task]

(* _DocumentSnapshot, as far as the ingestion uses it.                     *)
Snapshot == [generation : Nat, content : Contents, original : {"staged", "durable"}]

(* The null of previous and snapshot is not one of their values.           *)
ASSUME NoDocumentAssumption == NoDocument \notin Document \cup Snapshot

(* The steps of ingest_document, ... *)
Ingesting == {"loading", "storing", "parsing", "failing", "persisting", "finalizing"}

(* ... of a queue worker around it, and of replace and delete requests.    *)
Points == Ingesting \cup
          {"idle", "down", "claimed", "done", "erring", "cancelled"} \cup
          {"waiting", "dropping", "cleaning", "restoring", "purging", "removing", "ended"}

TypeOK ==
  /\ document \in Document \cup {NoDocument}
  /\ chunks \in Contents \cup {NoContent}
  /\ originals \subseteq Contents
  /\ run \in [Actors -> Points]
  /\ held \in [Workers -> Nat]
  /\ snapshot \in [Actors -> Snapshot \cup {NoDocument}]
  /\ previous \in [Requests -> Document \cup {NoDocument}]
  /\ \A x \in Actors :
       run[x] \in Ingesting \ {"loading"} => snapshot[x] # NoDocument
  /\ shared \in BOOLEAN
  /\ mishaps \in Nat

(* upload_document with defer_processing: queue_document in the same       *)
(* transaction as the row.                                                 *)
Init ==
  /\ document = [generation |-> 1, content |-> Upload, original |-> "staged",
                 status |-> "queued", queued |-> TRUE, task |-> NoTask]
  /\ chunks = NoContent
  /\ originals = {}
  /\ run = [x \in Actors |-> IF x \in Workers THEN "idle" ELSE "waiting"]
  /\ held = [w \in Workers |-> 0]
  /\ snapshot = [x \in Actors |-> NoDocument]
  /\ previous = [r \in Requests |-> NoDocument]
  /\ shared = FALSE
  /\ mishaps = 0

-----------------------------------------------------------------------------
(* Helpers.                                                                *)

Exists == document # NoDocument

At(x, point) == run[x] = point
Go(x, point) == run' = [run EXCEPT ![x] = point]

Mishap == mishaps < MaxMishaps /\ mishaps' = mishaps + 1

(* The row still has the generation the run has loaded.                    *)
Current(x) == Exists /\ document.generation = snapshot[x].generation

(* The exception of an ingestion reaches the queue worker, or              *)
(* replace_document.                                                       *)
Raised(x) == IF x \in Workers THEN "erring" ELSE "cleaning"
Returned(x) == IF x \in Workers THEN "done" ELSE "dropping"

(* queue_document.                                                         *)
Queue(d) == [d EXCEPT !.status = "queued", !.queued = TRUE, !.task = NoTask]

-----------------------------------------------------------------------------
(* The queue.                                                              *)

Claimable ==
  /\ Exists
  /\ \/ document.status = "queued"
     \/ document.status = "processing" /\ document.task.lease = "expired"

(* claim_next: a token with a new lease, or the end of the attempts.       *)
claim_next(w) ==
  /\ At(w, "idle") /\ Claimable
  /\ LET exhausted == document.task.attempts >= MaxRetries
         failed == [document EXCEPT !.status = "failed", !.queued = TRUE,
                      !.task.token = NoWorker, !.task.lease = "none"]
         claimed == [document EXCEPT !.status = "processing", !.queued = TRUE,
                       !.task = [token |-> w, attempts |-> @.attempts + 1, lease |-> "valid"]]
     IN  /\ document' = IF exhausted THEN failed ELSE claimed
         /\ IF exhausted THEN UNCHANGED <<run, held>>
            ELSE Go(w, "claimed") /\ held' = [held EXCEPT ![w] = document.generation]
  /\ UNCHANGED <<chunks, originals, snapshot, previous, shared, mishaps>>

(* _update_owned acts for the generation and the token of the task only.   *)
Owned(w) ==
  /\ Exists
  /\ document.generation = held[w]
  /\ document.task.token = w

Renewed == [document EXCEPT !.task.lease = "valid"]

(* _run_ingestion: a task that was lost before it began is left alone.     *)
BeginTask(w) ==
  /\ At(w, "claimed")
  /\ IF Owned(w) THEN document' = Renewed /\ Go(w, "loading")
     ELSE UNCHANGED document /\ Go(w, "done")
  /\ UNCHANGED <<held, chunks, originals, snapshot, previous, shared, mishaps>>

(* A heartbeat renews the lease, even an expired one, or cancels the       *)
(* ingestion whose task was lost.                                          *)
Heartbeat(w) ==
  /\ run[w] \in Ingesting
  /\ IF Owned(w) THEN document.task.lease = "expired" /\ document' = Renewed /\ UNCHANGED run
     ELSE UNCHANGED document /\ Go(w, "cancelled")
  /\ UNCHANGED <<held, chunks, originals, snapshot, previous, shared, mishaps>>

(* A heartbeat that cannot reach the database, or the stop of the queue.   *)
Cancel(w) ==
  /\ run[w] \in {"claimed"} \cup Ingesting
  /\ Mishap
  /\ Go(w, "cancelled")
  /\ UNCHANGED <<held, document, chunks, originals, snapshot, previous, shared>>

Released == [document EXCEPT !.task.token = NoWorker, !.task.lease = "none"]

(* A failed or cancelled task goes back to the queue unless the document   *)
(* was completed; a cancelled one gets its attempt back.                   *)
Requeued(failed) ==
  LET retry == ~failed \/ document.task.attempts < MaxRetries
  IN  IF document.status = "completed" THEN Released
      ELSE [Released EXCEPT
              !.status = IF retry THEN "queued" ELSE "failed",
              !.task.attempts = IF failed \/ @ = 0 THEN @ ELSE @ - 1]

(* The end of _process_task: _update_owned with the outcome.               *)
EndTask(w) ==
  /\ run[w] \in {"done", "erring", "cancelled"}
  /\ document' = IF ~Owned(w) THEN document
                 ELSE IF At(w, "done") THEN Released ELSE Requeued(At(w, "erring"))
  /\ Go(w, "idle")
  /\ held' = [held EXCEPT ![w] = 0]
  /\ snapshot' = [snapshot EXCEPT ![w] = NoDocument]
  /\ UNCHANGED <<chunks, originals, previous, shared, mishaps>>

-----------------------------------------------------------------------------
(* ingest_document, run by a queue worker or within a replacement.         *)

(* _load_and_mark_processing looks at no status, and takes the generation  *)
(* of now, not the one its task or replacement meant: it may join another  *)
(* replacement or revive a document under deletion.                        *)
Meant(x) == IF x \in Workers THEN held[x] ELSE previous[x].generation + 1

(* Mutant: the row itself instead of its snapshot.                         *)
LoadedRow == document

Loaded == [generation |-> document.generation, content |-> document.content,
           original |-> document.original]

Load(x) ==
  /\ At(x, "loading")
  /\ IF Exists
     THEN /\ document' = [document EXCEPT !.status = "processing"]
          /\ snapshot' = [snapshot EXCEPT ![x] = Loaded]
          /\ shared' = (shared \/ document.generation # Meant(x))
          /\ Go(x, "storing")
     ELSE UNCHANGED <<document, snapshot, shared>> /\ Go(x, Raised(x))
  /\ UNCHANGED <<held, chunks, originals, previous, mishaps>>

(* _store_original_file moves the staged file into the storage; the file   *)
(* may be gone after another run of the same generation.                   *)
Store(x) ==
  /\ At(x, "storing")
  /\ IF snapshot[x].original = "durable"
     THEN UNCHANGED <<document, originals>> /\ Go(x, "parsing")
     ELSE \/ /\ Current(x)
             /\ document' = [document EXCEPT !.original = "durable"]
             /\ originals' = originals \cup {snapshot[x].content}
             /\ Go(x, "parsing")
          \/ /\ Current(x) => document.original = "durable"
             /\ UNCHANGED <<document, originals>> /\ Go(x, "failing")
  /\ UNCHANGED <<held, chunks, snapshot, previous, shared, mishaps>>

(* The durable original is read and split into chunks.                     *)
Parse(x) ==
  /\ At(x, "parsing")
  /\ Go(x, IF snapshot[x].content \in originals THEN "persisting" ELSE "failing")
  /\ UNCHANGED <<held, document, chunks, originals, snapshot, previous, shared, mishaps>>

(* Storage, parser or language model fail.                                 *)
IngestionFails(x) ==
  /\ run[x] \in {"storing", "parsing"}
  /\ Mishap
  /\ Go(x, "failing")
  /\ UNCHANGED <<held, document, chunks, originals, snapshot, previous, shared>>

(* _mark_document_failed, then the exception goes on.                      *)
MarkFailed(x) ==
  /\ At(x, "failing")
  /\ document' = IF Current(x) THEN [document EXCEPT !.status = "failed"] ELSE document
  /\ Go(x, Raised(x))
  /\ UNCHANGED <<held, chunks, originals, snapshot, previous, shared, mishaps>>

(* _persist_chunks_and_outbox and _finalize_document, whose failures mark  *)
(* nothing.                                                                *)
Persist(x) ==
  /\ At(x, "persisting")
  /\ IF Current(x) THEN chunks' = snapshot[x].content /\ Go(x, "finalizing")
     ELSE UNCHANGED chunks /\ Go(x, Raised(x))
  /\ UNCHANGED <<held, document, originals, snapshot, previous, shared, mishaps>>

Finalize(x) ==
  /\ At(x, "finalizing")
  /\ IF Current(x) THEN document' = [document EXCEPT !.status = "completed"] /\ Go(x, Returned(x))
     ELSE UNCHANGED document /\ Go(x, Raised(x))
  /\ UNCHANGED <<held, chunks, originals, snapshot, previous, shared, mishaps>>

WriteFails(x) ==
  /\ run[x] \in {"persisting", "finalizing"}
  /\ Mishap
  /\ Go(x, Raised(x))
  /\ UNCHANGED <<held, document, chunks, originals, snapshot, previous, shared>>

Ingest(x) == Load(x) \/ Store(x) \/ Parse(x) \/ MarkFailed(x) \/ Persist(x) \/ Finalize(x)

-----------------------------------------------------------------------------
(* Replacement.                                                            *)

Up(r) == ~At(Host[r], "down")

Replacing == {r \in Replacers : run[r] \notin {"waiting", "ended"}}

(* _begin_replacement: a new generation without task, whatever runs.       *)
BeginReplacement(r) ==
  /\ At(r, "waiting") /\ Up(r) /\ Exists
  /\ Cardinality(Replacing) < MaxOverlap
  /\ previous' = [previous EXCEPT ![r] = document]
  /\ document' = [generation |-> document.generation + 1, content |-> New[r],
                  original |-> "staged", status |-> "processing", queued |-> FALSE, task |-> NoTask]
  /\ Go(r, "loading")
  /\ UNCHANGED <<held, chunks, originals, snapshot, shared, mishaps>>

(* Mutant: nothing is deleted.                                             *)
Kept(d) == originals

(* _delete_original_file of a snapshot.                                    *)
Without(d) == IF d.original = "durable" THEN originals \ {d.content} ELSE originals

End(r) ==
  /\ run' = [run EXCEPT ![r] = "ended"]
  /\ snapshot' = [snapshot EXCEPT ![r] = NoDocument]
  /\ previous' = [previous EXCEPT ![r] = NoDocument]

(* After success the old original is deleted.                              *)
DropOldOriginal(r) ==
  /\ At(r, "dropping")
  /\ originals' = Without(previous[r])
  /\ End(r)
  /\ UNCHANGED <<held, document, chunks, shared, mishaps>>

(* Mutant: the old original is deleted.                                    *)
DropPreviousOriginal(r) == Without(previous[r])

(* After a failure the original of the document as it is now.              *)
CurrentDropped(r) == IF Exists THEN Without(document) ELSE originals

DropFailedOriginal(r) ==
  /\ At(r, "cleaning")
  /\ originals' = CurrentDropped(r)
  /\ Go(r, "restoring")
  /\ UNCHANGED <<held, document, chunks, snapshot, previous, shared, mishaps>>

(* _restore_replacement, unless the document has moved on.                 *)
Restore(r) ==
  LET undone == Exists /\ document.generation = previous[r].generation + 1
      others == {x \in Actors \ {r} :
                   run[x] \in Ingesting /\ snapshot[x] # NoDocument
                     /\ snapshot[x].generation = document.generation}
  IN  /\ At(r, "restoring")
      /\ document' = IF undone THEN previous[r] ELSE document
      /\ shared' = (shared \/ (undone /\ (chunks = document.content \/ others # {})))
      /\ End(r)
      /\ UNCHANGED <<held, chunks, originals, mishaps>>

-----------------------------------------------------------------------------
(* Deletion.                                                               *)

BeginDelete(r) ==
  /\ At(r, "waiting") /\ Up(r) /\ Exists
  /\ document' = [document EXCEPT !.generation = @ + 1, !.status = "deleting"]
  /\ previous' = [previous EXCEPT ![r] = document']
  /\ Go(r, "purging")
  /\ UNCHANGED <<held, chunks, originals, snapshot, shared, mishaps>>

(* _purge_document_derivatives, for the generation of the deletion only.   *)
Purge(r) ==
  /\ At(r, "purging")
  /\ chunks' = IF Exists /\ document.generation = previous[r].generation THEN NoContent ELSE chunks
  /\ Go(r, "dropping")
  /\ UNCHANGED <<held, document, originals, snapshot, previous, shared, mishaps>>

DropOriginal(r) ==
  /\ At(r, "dropping")
  /\ originals' = Without(previous[r])
  /\ Go(r, "removing")
  /\ UNCHANGED <<held, document, chunks, snapshot, previous, shared, mishaps>>

(* The row is deleted whatever it has become.                              *)
Remove(r) ==
  /\ At(r, "removing")
  /\ document' = NoDocument
  /\ chunks' = NoContent
  /\ End(r)
  /\ UNCHANGED <<held, originals, shared, mishaps>>

-----------------------------------------------------------------------------
(* The user, time and processes.                                           *)

(* retry_document; a replacement that marked the document as failed may    *)
(* not have restored it yet.                                               *)
Retry ==
  /\ Exists /\ document.status = "failed"
  /\ Mishap
  /\ document' = Queue(document)
  /\ shared' = (shared \/ Replacing # {})
  /\ UNCHANGED <<held, chunks, originals, run, snapshot, previous>>

(* The lease of a worker that is gone runs out; that of a live one only if *)
(* it stalls, with its heartbeat.                                          *)
LeaseExpires ==
  /\ Exists /\ document.task.lease = "valid"
  /\ document' = [document EXCEPT !.task.lease = "expired"]
  /\ LET w == document.task.token IN
     IF run[w] \in {"idle", "down"} \/ held[w] # document.generation
     THEN UNCHANGED mishaps ELSE Mishap
  /\ UNCHANGED <<held, chunks, originals, run, snapshot, previous, shared>>

(* A process dies with its worker and the requests it serves.              *)
Crash(w) ==
  LET dead == {w} \cup {r \in Requests : Host[r] = w /\ run[r] # "waiting"}
  IN  /\ ~At(w, "down")
      /\ Mishap
      /\ run' = [x \in Actors |-> IF x = w THEN "down" ELSE IF x \in dead THEN "ended" ELSE run[x]]
      /\ held' = [held EXCEPT ![w] = 0]
      /\ snapshot' = [x \in Actors |-> IF x \in dead THEN NoDocument ELSE snapshot[x]]
      /\ previous' = [r \in Requests |-> IF r \in dead THEN NoDocument ELSE previous[r]]
      /\ UNCHANGED <<document, chunks, originals, shared>>

(* Mutant: the start of a process recovers nothing.                        *)
Unrecovered(d) == d

(* recover_interrupted adopts documents in processing without task.        *)
Recovered(d) ==
  IF d # NoDocument /\ d.status = "processing" /\ ~d.queued THEN Queue(d) ELSE d

(* start: recover_interrupted, then the workers.  The replacement whose    *)
(* document it adopts may be alive in another process.                     *)
Start(w) ==
  /\ At(w, "down")
  /\ document' = Recovered(document)
  /\ shared' = (shared \/ (document' # document /\ Replacing # {}))
  /\ Go(w, "idle")
  /\ UNCHANGED <<held, chunks, originals, snapshot, previous, mishaps>>

-----------------------------------------------------------------------------
(* Specification.                                                          *)

Work(w) == claim_next(w) \/ BeginTask(w) \/ Ingest(w) \/ EndTask(w) \/ Start(w)

Serve(r) ==
  \/ Ingest(r)
  \/ r \in Replacers /\ (DropOldOriginal(r) \/ DropFailedOriginal(r) \/ Restore(r))
  \/ r \in Deleters /\ (Purge(r) \/ DropOriginal(r) \/ Remove(r))

Next ==
  \/ \E w \in Workers : Work(w) \/ Heartbeat(w) \/ Cancel(w) \/ Crash(w)
  \/ \E x \in Actors : IngestionFails(x) \/ WriteFails(x)
  \/ \E r \in Replacers : BeginReplacement(r)
  \/ \E r \in Deleters : BeginDelete(r)
  \/ \E r \in Requests : Serve(r)
  \/ Retry \/ LeaseExpires

Spec == Init /\ [][Next]_vars

(* Workers and requests go on, processes are started again, and the lease  *)
(* of a worker that is gone runs out.  Nothing is assumed of users.        *)
Fairness ==
  /\ \A w \in Workers : WF_vars(Work(w))
  /\ \A r \in Requests : WF_vars(Serve(r))
  /\ WF_vars(LeaseExpires /\ UNCHANGED mishaps)

FairSpec == Spec /\ Fairness

-----------------------------------------------------------------------------
(* Properties.                                                             *)

Completed == Exists /\ document.status = "completed"

(* A completed document has the chunks of its own content, although queue  *)
(* workers, replacements and their restores interleave: the generation     *)
(* fences every write (chunk_repository.py:71, ingestion_service.py:521).  *)
(* And it has its durable original, which replacements and their failures  *)
(* delete by snapshots (ingestion_service.py:170).  Excepted is a restore  *)
(* that comes after the chunks of the replacement were written, or while   *)
(* another run ingests it.                                                 *)
CompletedIsWhole ==
  Completed /\ ~shared =>
    /\ chunks = document.content
    /\ document.original = "durable" /\ document.content \in originals

(* Without failures no original outlives the content of its document: what *)
(* replacements and deletions drop by the snapshot they have taken         *)
(* (ingestion_service.py:173, ingestion_service.py:217) is what ingestions *)
(* running beside them have stored.                                        *)
NoOriginalLeftBehind ==
  Exists /\ mishaps = 0 /\ ~shared /\ (\A r \in Requests : run[r] \in {"waiting", "ended"})
    => originals \subseteq {document.content}

(* A document that is queued or in processing is completed, failed or      *)
(* deleted in the end, although workers and replacements die in the middle *)
(* (tasks.py:84, tasks.py:97).  Excepted is a document that a replacement  *)
(* restored with the task of a worker that had already found it lost: the  *)
(* worker releases it as if it had been done (tasks.py:191), and nothing   *)
(* claims or recovers it any more.                                         *)
Settled == ~Exists \/ document.status \in {"completed", "failed", "deleting"}

Stranded == Exists /\ document.queued /\ document.status = "processing" /\ document.task.lease = "none"

DocumentSettles == ~Settled ~> Settled \/ Stranded \/ shared
=============================================================================
