---------------------------- MODULE IndexOutbox ----------------------------
(***************************************************************************)
(* The transactional outbox that keeps the vector index of a knowledge     *)
(* base in step with PostgreSQL: knowledge_base/index_outbox.py (the rows  *)
(* and their worker), and every transaction that writes rows: those of     *)
(* ingestion_service.py and chunk_repository.py for the chunks of a        *)
(* document, and those of the graph (graph_build_service.py, the routes of *)
(* knowledge_graph_routes.py) for facts, i.e. entities and relations.      *)
(*                                                                         *)
(* A transaction is one step, except reset_graph, whose statements see     *)
(* what others commit in between.  A chunk's key is the hash of its        *)
(* content; its text is what the index stores for it (embedding text and   *)
(* context prefix), which the chunker may choose anew at each ingestion.   *)
(* A row is known by its position in outbox, in the order of created_at;   *)
(* rows that reset_graph deletes stay there as "deleted".  A batch is the  *)
(* set of its rows not yet done with; the oldest of them is next.          *)
(***************************************************************************)
EXTENDS Naturals, Sequences, FiniteSets, SequencesExt

CONSTANTS
  Keys,           \* chunk keys of the one document
  Texts,          \* texts of chunks and facts
  NoText,         \* nothing indexed, no such chunk, or a delete's payload
  Facts,          \* ids of entities and relations
  RemovedFact,    \* the row of a fact is gone, its id will not return
  Workers,        \* outbox workers; a deployment starts one
  BatchSize,      \* limit of claim_batch
  MaxIncarnations,\* bound: chunk rows created for one key
  MaxGeneration,  \* bound: content_generation of the document
  MaxDeletions,   \* bound: deletions of the document under way
  MaxRows,        \* bound: outbox rows, after which no writer starts
  MaxFaults       \* bound: failed calls and crashes

ASSUME OutboxAssumption ==
  /\ IsFiniteSet(Keys) /\ IsFiniteSet(Facts)
  /\ Facts \cap (Keys \X Nat) = {}
  /\ NoText \notin Texts
  /\ RemovedFact \notin Texts \cup {NoText}
  /\ BatchSize \in Nat \ {0}
  /\ {MaxIncarnations, MaxGeneration, MaxDeletions, MaxRows, MaxFaults} \subseteq Nat

VARIABLES
  document,       \* the document row
  replacements,   \* snapshots held by running replacements
  deletions,      \* snapshots held by running deletions
  chunk,          \* the chunk rows
  fact,           \* the text of each fact, NoText before and while archived
  resetting,      \* the transaction of reset_graph
  outbox,         \* the outbox rows
  index,          \* the vector index
  worker,         \* the outbox workers
  collided,       \* history: records of which a row reused a version
  orphaned,       \* history: records removed without a delete row
  faults          \* faults so far

vars == <<document, replacements, deletions, chunk, fact, resetting, outbox,
          index, worker, collided, orphaned, faults>>

documentVars == <<document, replacements, deletions>>
sourceVars == <<documentVars, chunk, fact, resetting>>
historyVars == <<collided, orphaned>>

-----------------------------------------------------------------------------
(* Types.                                                                  *)

Chunks == Keys \X (1..MaxIncarnations)
Records == Chunks \cup Facts

Indexed == Texts \cup {NoText}

NoChunk == [content_generation |-> 0, text |-> NoText, vector_status |-> "absent"]

(* "waiting" is pending with a next_retry_at in the future, "expired" is   *)
(* processing with an updated_at older than the lease.                     *)
RowStatuses == {"pending", "waiting", "processing", "expired", "completed", "deleted"}

Row == [record : Records,
        operation : {"upsert", "delete"},
        payload_version : Nat,
        payload : Indexed,
        status : RowStatuses]

TypeOK ==
  /\ document \in [exists : BOOLEAN, generation : Nat, deleting : BOOLEAN]
  /\ replacements \subseteq [generation : Nat, deleting : BOOLEAN]
  /\ deletions \subseteq [generation : Nat, purged : BOOLEAN]
  /\ chunk \in [Chunks -> [content_generation : Nat, text : Indexed,
                           vector_status : {"absent", "pending", "indexed"}]]
  /\ fact \in [Facts -> Indexed \cup {RemovedFact}]
  /\ resetting \in [point : {"idle", "read", "deleted"}, version : [Facts -> Nat], doomed : SUBSET Nat]
  /\ outbox \in Seq(Row)
  /\ index \in [Records -> Indexed]
  /\ worker \in [Workers -> [point : {"idle", "checking", "writing", "completing", "retrying",
                                      "failed", "down"},
                             batch : SUBSET Nat]]
  /\ \A p \in Workers :
       worker[p].batch = {} <=> worker[p].point \in {"idle", "failed", "down"}
  /\ collided \subseteq Records
  /\ orphaned \subseteq Records
  /\ faults \in Nat

NoReset == [point |-> "idle", version |-> [f \in Facts |-> 0], doomed |-> {}]

Rest == [point |-> "idle", batch |-> {}]

Init ==
  /\ document = [exists |-> TRUE, generation |-> 1, deleting |-> FALSE]
  /\ replacements = {}
  /\ deletions = {}
  /\ chunk = [r \in Chunks |-> NoChunk]
  /\ fact = [f \in Facts |-> NoText]
  /\ resetting = NoReset
  /\ outbox = <<>>
  /\ index = [r \in Records |-> NoText]
  /\ worker = [p \in Workers |-> Rest]
  /\ collided = {}
  /\ orphaned = {}
  /\ faults = 0

-----------------------------------------------------------------------------
(* Rows.                                                                   *)

RowsOf(r) == {i \in DOMAIN outbox : outbox[i].record = r /\ outbox[i].status # "deleted"}

Latest(r) == Max({0} \cup {outbox[i].payload_version : i \in RowsOf(r)})

next_payload_version(r) == Latest(r) + 1

Item(r, operation, version, text) ==
  [record |-> r, operation |-> operation, payload_version |-> version,
   payload |-> text, status |-> "pending"]

Upsert(r, version, text) == Item(r, "upsert", version, text)
Delete(r, version) == Item(r, "delete", version, NoText)

(* Mutant: the identity is looked up without the version.                  *)
KnownAnyVersion(row) == \E i \in RowsOf(row.record) : outbox[i].operation = row.operation

(* _find_identity: a row with the same operation and version is kept as it *)
(* is, whatever the new payload.                                           *)
Known(row) ==
  \E i \in RowsOf(row.record) :
    /\ outbox[i].operation = row.operation
    /\ outbox[i].payload_version = row.payload_version

(* The version of a new row says nothing if the record has a row of this   *)
(* version, with another operation or payload, or of a later one.          *)
Collides(row) ==
  \E i \in RowsOf(row.record) :
    \/ outbox[i].payload_version > row.payload_version
    \/ /\ outbox[i].payload_version = row.payload_version
       /\ <<outbox[i].operation, outbox[i].payload>> # <<row.operation, row.payload>>

(* The rows of one transaction are those of different records, so that     *)
(* their order does not matter.                                            *)
Enqueue(rows) ==
  /\ outbox' = outbox \o SetToSeq({row \in rows : ~Known(row)})
  /\ collided' = collided \cup {row.record : row \in {new \in rows : Collides(new)}}

Room == Len(outbox) < MaxRows

-----------------------------------------------------------------------------
(* Chunks of the document.                                                 *)

Present == {r \in Chunks : chunk[r] # NoChunk}

(* The incarnations of a key that are present or were never created.       *)
Usable(k) == {i \in 1..MaxIncarnations : <<k, i>> \in Present \/ RowsOf(<<k, i>>) = {}}

(* The chunk a draft of the key is stored in.                              *)
RowOf(k) == <<k, Min(Usable(k))>>

(* Removing chunks removes the last mention of some facts, which are       *)
(* deleted from the index in the same transaction.  It fails if a reset    *)
(* has inserted the same delete row.                                       *)
Withdrawable(f) ==
  /\ fact[f] \in Texts
  /\ ~(resetting.point = "deleted" /\ resetting.version[f] = next_payload_version(f))

Withdrawn(facts) == {Delete(f, next_payload_version(f)) : f \in facts}

Withdraw(facts) == fact' = [f \in Facts |-> IF f \in facts THEN NoText ELSE fact[f]]

(* A new or reused chunk of the current generation (_apply_draft).         *)
Applied(row, text) ==
  [content_generation |-> document.generation, text |-> text,
   vector_status |-> IF row.vector_status = "indexed" /\ row.text = text
                     THEN "indexed" ELSE "pending"]

(* _persist_chunks_and_outbox for the drafts of an ingestion whose         *)
(* snapshot has the current generation; any other raises.  Every           *)
(* generation may be persisted more than once: a failed or interrupted     *)
(* ingestion is queued again, and a worker whose lease ran out goes on.    *)
Persist(drafts, facts) ==
  LET kept == {RowOf(k) : k \in {j \in Keys : drafts[j] # NoText}}
      removed == Present \ kept
      new == [r \in Chunks |->
                IF r \in kept THEN Applied(chunk[r], drafts[r[1]])
                ELSE IF r \in removed THEN NoChunk ELSE chunk[r]]
      toIndex == {r \in kept : new[r].vector_status # "indexed"}
  IN  /\ document.exists /\ ~document.deleting
      /\ Room
      /\ \A k \in Keys : drafts[k] # NoText => Usable(k) # {}
      /\ \A f \in facts : Withdrawable(f)
      /\ facts # {} => removed # {}
      /\ chunk' = new
      /\ Withdraw(facts)
      /\ Enqueue({Delete(r, document.generation) : r \in removed} \cup Withdrawn(facts)
                   \cup {Upsert(r, document.generation, new[r].text) : r \in toIndex})
      /\ UNCHANGED <<documentVars, resetting, index, worker, orphaned, faults>>

(* The end of a replacement, or its death, is no step of its own: it only  *)
(* means that its restore does not follow.                                 *)
BeginReplacement ==
  /\ document.exists
  /\ document.generation < MaxGeneration
  /\ replacements' = replacements \cup {[generation |-> document.generation,
                                         deleting |-> document.deleting]}
  /\ document' = [document EXCEPT !.generation = @ + 1, !.deleting = FALSE]
  /\ UNCHANGED <<deletions, chunk, fact, resetting, outbox, index, worker, historyVars, faults>>

(* _restore_replacement after a failure: the generation goes back, unless  *)
(* another replacement or a deletion has advanced it.                      *)
RestoreReplacement(s) ==
  /\ document.exists /\ document.generation = s.generation + 1
  /\ document' = [document EXCEPT !.generation = s.generation, !.deleting = s.deleting]
  /\ replacements' = replacements \ {s}
  /\ UNCHANGED <<deletions, chunk, fact, resetting, outbox, index, worker, historyVars, faults>>

BeginDelete ==
  /\ document.exists
  /\ document.generation < MaxGeneration
  /\ Cardinality(deletions) < MaxDeletions
  /\ document' = [document EXCEPT !.generation = @ + 1, !.deleting = TRUE]
  /\ deletions' = deletions \cup {[generation |-> document.generation + 1, purged |-> FALSE]}
  /\ UNCHANGED <<replacements, chunk, fact, resetting, outbox, index, worker, historyVars, faults>>

(* _purge_document_derivatives; without effect for another generation.     *)
PurgeDerivatives(s, facts) ==
  LET current == document.exists /\ document.generation = s.generation
      removed == IF current THEN Present ELSE {}
  IN  /\ ~s.purged
      /\ \A f \in facts : Withdrawable(f)
      /\ facts # {} => removed # {}
      /\ deletions' = (deletions \ {s}) \cup {[s EXCEPT !.purged = TRUE]}
      /\ chunk' = [r \in Chunks |-> IF r \in removed THEN NoChunk ELSE chunk[r]]
      /\ Withdraw(facts)
      /\ Enqueue({Delete(r, s.generation) : r \in removed} \cup Withdrawn(facts))
      /\ UNCHANGED <<document, replacements, resetting, index, worker, orphaned, faults>>

(* The last transaction of delete_document does not look at the            *)
(* generation; the chunks still there go with the document (ON DELETE      *)
(* CASCADE).                                                               *)
RemoveDocument(s) ==
  /\ s.purged
  /\ deletions' = deletions \ {s}
  /\ document' = [document EXCEPT !.exists = FALSE]
  /\ orphaned' = orphaned \cup Present
  /\ chunk' = [r \in Chunks |-> NoChunk]
  /\ UNCHANGED <<replacements, fact, resetting, outbox, index, worker, collided, faults>>

-----------------------------------------------------------------------------
(* Facts.                                                                  *)

(* An extraction or a user creates or edits a fact; next_payload_version   *)
(* holds an advisory lock until the commit.                                *)
UpsertFact(f, text) ==
  /\ Room
  /\ fact[f] # RemovedFact
  /\ fact' = [fact EXCEPT ![f] = text]
  /\ Enqueue({Upsert(f, next_payload_version(f), text)})
  /\ UNCHANGED <<documentVars, chunk, resetting, index, worker, orphaned, faults>>

(* A user archives or rejects a fact.                                      *)
ArchiveFact(f) ==
  /\ Room
  /\ Withdrawable(f)
  /\ fact' = [fact EXCEPT ![f] = NoText]
  /\ Enqueue(Withdrawn({f}))
  /\ UNCHANGED <<documentVars, chunk, resetting, index, worker, orphaned, faults>>

(* reset_graph reads the next version of every fact without the lock (0:   *)
(* it has found no such fact), ...                                         *)
ResetRead ==
  /\ resetting.point = "idle"
  /\ Room
  /\ resetting' = [point |-> "read", doomed |-> {},
                   version |-> [f \in Facts |-> IF RowsOf(f) = {} THEN 0 ELSE next_payload_version(f)]]
  /\ UNCHANGED <<documentVars, chunk, fact, outbox, index, worker, historyVars, faults>>

(* ... deletes all their rows that are committed by now, ...               *)
ResetDelete ==
  /\ resetting.point = "read"
  /\ resetting' = [resetting EXCEPT !.point = "deleted", !.doomed = UNION {RowsOf(f) : f \in Facts}]
  /\ UNCHANGED <<documentVars, chunk, fact, outbox, index, worker, historyVars, faults>>

(* ... and commits with a delete row for each, and without the facts.      *)
ResetCommit ==
  LET known == {f \in Facts : resetting.version[f] > 0}
      left == [i \in DOMAIN outbox |->
                 IF i \in resetting.doomed THEN [outbox[i] EXCEPT !.status = "deleted"]
                 ELSE outbox[i]]
      late == {f \in Facts : RowsOf(f) \ resetting.doomed # {}}
      created == {f \in Facts \ known : RowsOf(f) # {}}
  IN  /\ resetting.point = "deleted"
      /\ resetting' = NoReset
      /\ outbox' = left \o SetToSeq({Delete(f, resetting.version[f]) : f \in known})
      /\ fact' = [f \in Facts |-> IF f \in known \cup created THEN RemovedFact ELSE fact[f]]
      /\ collided' = collided \cup (late \cap known)
      /\ orphaned' = orphaned \cup created
      /\ UNCHANGED <<documentVars, chunk, index, worker, faults>>

-----------------------------------------------------------------------------
(* The worker.                                                             *)

Position(p) == Min(worker[p].batch)
Current(p) == outbox[Position(p)]

(* Rows under deletion by an open transaction are locked.                  *)
Locked(i) == resetting.point = "deleted" /\ i \in resetting.doomed

Move(p, point) == worker' = [worker EXCEPT ![p].point = point]

(* Mutant: the loop does not end with the last item.                       *)
AdvanceAlways(p) ==
  worker' = [worker EXCEPT ![p] = [point |-> "checking", batch |-> @.batch \ {Position(p)}]]

(* The for loop goes on to the next item of the batch.                     *)
Advance(p) ==
  worker' = [worker EXCEPT ![p] =
    IF @.batch = {Position(p)} THEN Rest
    ELSE [point |-> "checking", batch |-> @.batch \ {Position(p)}]]

SetStatus(i, status) == outbox' = [outbox EXCEPT ![i].status = status]

Fault == faults < MaxFaults /\ faults' = faults + 1

(* Mutant: leases are never reclaimed.                                     *)
ClaimablePending == {i \in DOMAIN outbox : outbox[i].status = "pending" /\ ~Locked(i)}

Claimable ==
  {i \in DOMAIN outbox : outbox[i].status \in {"pending", "expired"} /\ ~Locked(i)}

(* The oldest claimable rows, at most BatchSize of them.                   *)
Oldest ==
  {i \in Claimable : Cardinality({j \in Claimable : j < i}) < BatchSize}

claim_batch(p) ==
  /\ worker[p].point = "idle"
  /\ Claimable # {}
  /\ worker' = [worker EXCEPT ![p] = [point |-> "checking", batch |-> Oldest]]
  /\ outbox' = [i \in DOMAIN outbox |->
                  IF i \in Oldest THEN [outbox[i] EXCEPT !.status = "processing"] ELSE outbox[i]]
  /\ UNCHANGED <<sourceVars, index, historyVars, faults>>

IsLatest(p) == Current(p).payload_version >= Latest(Current(p).record)

(* is_latest: an item that a later version supersedes is only marked.      *)
is_latest(p) ==
  /\ worker[p].point = "checking"
  /\ Move(p, IF IsLatest(p) THEN "writing" ELSE "completing")
  /\ UNCHANGED <<sourceVars, outbox, index, historyVars, faults>>

Written(p) == index' = [index EXCEPT ![Current(p).record] = Current(p).payload]

WriteVector(p) ==
  /\ worker[p].point = "writing"
  /\ Written(p)
  /\ Move(p, "completing")
  /\ UNCHANGED <<sourceVars, outbox, historyVars, faults>>

(* Mutant: the chunk is marked whatever its generation.                    *)
AcknowledgedAlways(p) ==
  LET r == Current(p).record IN
  IF r \in Chunks /\ Current(p).operation = "upsert" /\ chunk[r] # NoChunk
  THEN [chunk EXCEPT ![r].vector_status = "indexed"]
  ELSE chunk

Acknowledged(p) ==
  LET r == Current(p).record IN
  IF /\ r \in Chunks /\ Current(p).operation = "upsert"
     /\ chunk[r] # NoChunk /\ chunk[r].content_generation = Current(p).payload_version
  THEN [chunk EXCEPT ![r].vector_status = "indexed"]
  ELSE chunk

(* mark_completed; a row that a reset has deleted is not found.            *)
mark_completed(p) ==
  /\ worker[p].point = "completing"
  /\ ~Locked(Position(p))
  /\ IF Current(p).status = "deleted" THEN UNCHANGED <<outbox, chunk>>
     ELSE SetStatus(Position(p), "completed") /\ chunk' = Acknowledged(p)
  /\ Advance(p)
  /\ UNCHANGED <<documentVars, fact, resetting, index, historyVars, faults>>

(* The check, the resolution of the collection, the vector store or the    *)
(* update raises; a vector store that raises may have applied the write.   *)
ItemFails(p) ==
  /\ worker[p].point \in {"checking", "writing", "completing"}
  /\ Fault
  /\ \/ UNCHANGED index
     \/ worker[p].point = "writing" /\ Written(p)
  /\ Move(p, "retrying")
  /\ UNCHANGED <<sourceVars, outbox, historyVars>>

mark_retry(p) ==
  /\ worker[p].point = "retrying"
  /\ ~Locked(Position(p))
  /\ IF Current(p).status = "deleted" THEN UNCHANGED outbox ELSE SetStatus(Position(p), "waiting")
  /\ Advance(p)
  /\ UNCHANGED <<sourceVars, index, historyVars, faults>>

(* An exception of claim_batch or mark_retry leaves run_once and ends      *)
(* run_forever: the process lives on without its outbox worker.            *)
LoopFails(p) ==
  /\ worker[p].point \in {"idle", "retrying"}
  /\ Fault
  /\ worker' = [worker EXCEPT ![p] = [point |-> "failed", batch |-> {}]]
  /\ UNCHANGED <<sourceVars, outbox, index, historyVars>>

Crash(p) ==
  /\ worker[p].point # "down"
  /\ Fault
  /\ worker' = [worker EXCEPT ![p] = [point |-> "down", batch |-> {}]]
  /\ UNCHANGED <<sourceVars, outbox, index, historyVars>>

(* start_index_outbox_worker of a new process.                             *)
Restart(p) ==
  /\ worker[p].point = "down"
  /\ worker' = [worker EXCEPT ![p] = Rest]
  /\ UNCHANGED <<sourceVars, outbox, index, historyVars, faults>>

(* Time passes: next_retry_at, or the lease counted from updated_at, which *)
(* matters once a worker could claim the row that does not hold it.        *)
Due(i) ==
  /\ outbox[i].status = "waiting"
  /\ SetStatus(i, "pending")
  /\ UNCHANGED <<sourceVars, index, worker, historyVars, faults>>

LeaseExpires(i) ==
  /\ outbox[i].status = "processing"
  /\ \E p \in Workers : i \notin worker[p].batch
  /\ SetStatus(i, "expired")
  /\ UNCHANGED <<sourceVars, index, worker, historyVars, faults>>

-----------------------------------------------------------------------------
(* Specification.                                                          *)

Work(p) == claim_batch(p) \/ is_latest(p) \/ WriteVector(p) \/ mark_completed(p) \/ mark_retry(p)

Next ==
  \/ \E drafts \in [Keys -> Indexed], facts \in SUBSET Facts : Persist(drafts, facts)
  \/ BeginReplacement \/ BeginDelete
  \/ \E s \in replacements : RestoreReplacement(s)
  \/ \E s \in deletions : RemoveDocument(s)
  \/ \E s \in deletions, facts \in SUBSET Facts : PurgeDerivatives(s, facts)
  \/ \E f \in Facts : ArchiveFact(f) \/ \E text \in Texts : UpsertFact(f, text)
  \/ ResetRead \/ ResetDelete \/ ResetCommit
  \/ \E p \in Workers : Work(p) \/ ItemFails(p) \/ LoopFails(p) \/ Crash(p) \/ Restart(p)
  \/ \E i \in DOMAIN outbox : Due(i) \/ LeaseExpires(i)

Spec == Init /\ [][Next]_vars

(* The worker's loop runs and is started again with its process; times     *)
(* come; a transaction ends.  Nothing is assumed of documents and users.   *)
Fairness ==
  /\ \A p \in Workers : WF_vars(Work(p) \/ Restart(p))
  /\ WF_vars(\E i \in DOMAIN outbox : Due(i) \/ LeaseExpires(i))
  /\ WF_vars(ResetDelete \/ ResetCommit)

FairSpec == Spec /\ Fairness
-----------------------------------------------------------------------------
(* Properties.                                                             *)

Finished(r) == \A i \in RowsOf(r) : outbox[i].status = "completed"

Source(r) ==
  IF r \in Chunks THEN chunk[r].text
  ELSE IF fact[r] = RemovedFact THEN NoText ELSE fact[r]

(* Once every row of a record is completed, the index holds what           *)
(* PostgreSQL does: neither a retry after later rows, a write of unknown   *)
(* outcome, a crash between the write and mark_completed, nor a lease that *)
(* ran out leaves an older text or a removed record (index_outbox.py:212). *)
(* Records with an ambiguous version or without a delete row are excepted. *)
IndexConverges ==
  \A r \in Records \ (collided \cup orphaned) : Finished(r) => index[r] = Source(r)

(* Retrieval trusts vector_status (retrieval_service.py:125): a chunk that *)
(* is marked indexed is found under its present text, although its row may *)
(* be acknowledged after an ingestion changed it (index_outbox.py:235).    *)
SearchableChunkIndexed ==
  \A r \in Chunks \ collided :
    chunk[r].vector_status = "indexed" => index[r] = chunk[r].text

Drained == \A i \in DOMAIN outbox : outbox[i].status \in {"completed", "deleted"}

(* All rows are completed or removed in the end, although calls fail, the  *)
(* worker crashes and leases are left behind, unless an exception has      *)
(* ended the loop itself (index_outbox.py:341).                            *)
OutboxDrains == ~Drained ~> Drained \/ \E p \in Workers : worker[p].point = "failed"

(* After a replacement "the old chunks, the old vectors ... do not exist"  *)
(* (design of the knowledge graph, section 15.2): a chunk that was removed *)
(* leaves the index with its last row.                                     *)
OldVectorsGone ==
  document.generation > 1 =>
    \A r \in Chunks : Finished(r) /\ chunk[r] = NoChunk => index[r] = NoText
=============================================================================
