--------------------------- MODULE DocumentsProofs ---------------------------
(***************************************************************************)
(* Proofs about Documents: type correctness, and the two promises about    *)
(* content and originals for replacements that do not overlap.  With two   *)
(* under way they are not true: the one that fails deletes the original    *)
(* the other has stored.                                                   *)
(***************************************************************************)
EXTENDS Documents, FiniteSetTheorems, TLAPS

Assumptions == DocumentsAssumption /\ NoDocumentAssumption

-----------------------------------------------------------------------------
(* The invariant.                                                          *)

(* The runs of ingest_document that hold a snapshot, and the deletions     *)
(* under way.                                                              *)
Loaders == {x \in Actors : run[x] \in Ingesting \ {"loading"}}

Deleting == {r \in Deleters : run[r] \notin {"waiting", "ended"}}

(* Where workers, replacements and deletions can be.                       *)
PointsOf(x) ==
  IF x \in Workers THEN Ingesting \cup {"idle", "down", "claimed", "done", "erring", "cancelled"}
  ELSE IF x \in Replacers THEN Ingesting \cup {"waiting", "dropping", "cleaning", "restoring", "ended"}
  ELSE {"waiting", "purging", "dropping", "removing", "ended"}

(* Types, as far as actions rely on them: a request under way has the      *)
(* document as it found it, a worker without a task holds no generation.   *)
TInv ==
  /\ TypeOK
  /\ \A x \in Actors : run[x] \in PointsOf(x)
  /\ \A r \in Replacing \cup Deleting : previous[r] # NoDocument
  /\ \A w \in Workers : run[w] \in {"idle", "down"} => held[w] = 0
  /\ Exists => document.generation > 0
  /\ \A r \in Replacing : previous[r].generation > 0

(* Restore would put the previous row back.                                *)
Undoable(r) == Exists /\ document.generation = previous[r].generation + 1

(* The row, or a row that may come back.                                   *)
IsRow(d) == d = document \/ \E r \in Replacing : Undoable(r) /\ d = previous[r]

(* No task, ingestion or deletion knows generation g or a later one, so    *)
(* that it can be given to a new content.                                  *)
Fresh(g, xs) ==
  /\ \A w \in Workers : held[w] < g
  /\ \A x \in xs \cap Loaders : snapshot[x].generation < g
  /\ \A r \in Deleting : previous[r].generation < g

(* The one replacement under way: the document has its content, unless it  *)
(* is deleted; while its row can be taken back no task can be claimed for  *)
(* it and nobody else knows its generation.                                *)
ReplaceInv ==
  \A r \in Replacing :
    /\ \A s \in Replacing : s = r
    /\ previous[r].content # New[r]
    /\ document.content = New[r] /\ previous[r].generation < document.generation
    /\ Undoable(r) \/ document.status = "deleting"
    /\ Undoable(r) =>
         /\ document.task = NoTask
         /\ document.status \in IF run[r] = "dropping" THEN {"completed"} ELSE {"processing", "failed"}
         /\ Fresh(document.generation, Actors \ {r})

(* A row under deletion has no task that may still be loaded; whoever      *)
(* deletes a generation or an original finds the row under deletion; a     *)
(* replacer that has not begun brings a content that nobody has seen.      *)
RowInv(d) ==
  /\ \A w \in Workers : held[w] = d.generation => d.status # "deleting"
  /\ \A r \in Deleting :
       previous[r].generation = d.generation \/ previous[r].content = d.content
         => d.status = "deleting"
  /\ \A r \in Replacers : run[r] = "waiting" =>
       d.content # New[r] /\ \A s \in Deleting : previous[s].content # New[r]

(* An ingestion of the generation of a row has seen its content; what it   *)
(* has already stored or written is that of the row.  After the chunks of  *)
(* a replacement are written those of the previous row are lost, which a   *)
(* restore notices (shared).                                               *)
RunInv(d) ==
  \A x \in Loaders :
    snapshot[x].generation = d.generation =>
      /\ d.status # "deleting"
      /\ snapshot[x].content = d.content
      /\ snapshot[x].original = "durable" \/ run[x] \in {"parsing", "persisting", "finalizing"}
           => d.original = "durable"
      /\ run[x] \in {"persisting", "finalizing"} => d.content \in originals
      /\ run[x] = "finalizing" => chunks \in {d.content, document.content}

(* A row that is completed, as CompletedIsWhole has it, for rows that may  *)
(* come back too.                                                          *)
WholeInv(d) ==
  d.status = "completed" =>
    /\ chunks \in {d.content, document.content}
    /\ d.original = "durable" /\ d.content \in originals

WInv ==
  /\ Fresh(document.generation + 1, Actors)
  /\ ReplaceInv
  /\ \A d \in Document : IsRow(d) => RowInv(d) /\ RunInv(d) /\ WholeInv(d)

IInv == TInv /\ (MaxOverlap <= 1 /\ Exists /\ ~shared => WInv)

-----------------------------------------------------------------------------
(* Updates of the row.                                                     *)

(* A row with another status or task only.                                 *)
Same(d, e) ==
  /\ d \in Document
  /\ d.generation = e.generation /\ d.content = e.content /\ d.original = e.original

LEMMA RowIsDocument ==
  ASSUME Assumptions, NEW d \in Document
  PROVE  d # NoDocument
  BY DEF Assumptions, NoDocumentAssumption

LEMMA TaskSet ==
  ASSUME Assumptions, NEW d \in Document, NEW t \in Task
  PROVE  LET e == [d EXCEPT !.task = t] IN Same(e, d) /\ e.status = d.status /\ e.task = t /\ e.queued = d.queued
  BY DEF Document, Same

LEMMA StatusSet ==
  ASSUME Assumptions, NEW d \in Document,
         NEW s \in {"queued", "processing", "completed", "failed", "deleting"}
  PROVE  LET e == [d EXCEPT !.status = s] IN Same(e, d) /\ e.status = s /\ e.task = d.task /\ e.queued = d.queued
  BY DEF Document, Same

LEMMA QueuedSet ==
  ASSUME Assumptions, NEW d \in Document, NEW b \in BOOLEAN
  PROVE  LET e == [d EXCEPT !.queued = b] IN Same(e, d) /\ e.status = d.status /\ e.task = d.task
  BY DEF Document, Same

LEMMA NoTaskIsTask ==
  ASSUME Assumptions
  PROVE  NoTask \in Task
  BY DEF NoTask, Task

LEMMA Queued ==
  ASSUME Assumptions, NEW d \in Document
  PROVE  Same(Queue(d), d) /\ Queue(d).status = "queued"
<1> DEFINE a == [d EXCEPT !.status = "queued"]
           b == [a EXCEPT !.queued = TRUE]
           c == [b EXCEPT !.task = NoTask]
<1>1. Same(a, d) /\ a.status = "queued"
  BY StatusSet
<1>2. Same(b, a) /\ b.status = "queued"
  BY <1>1, QueuedSet DEF Same
<1>3. Same(c, b) /\ c.status = "queued"
  BY <1>2, TaskSet, NoTaskIsTask DEF Same
<1>4. Queue(d) = c
  BY DEF Queue
<1> QED
  BY <1>1, <1>2, <1>3, <1>4 DEF Same

LEMMA LeaseSet ==
  ASSUME Assumptions, Exists, document \in Document, NEW l \in {"none", "valid", "expired"}
  PROVE  LET e == [document EXCEPT !.task.lease = l] IN
         Same(e, document) /\ e.status = document.status /\ e.queued = document.queued
<1> DEFINE t == [document.task EXCEPT !.lease = l]
           e == [document EXCEPT !.task.lease = l]
<1>1. t \in Task
  BY DEF Document, Task
<1>2. e = [document EXCEPT !.task = t]
  BY DEF Document
<1> QED
  BY <1>1, <1>2, TaskSet

LEMMA ReleasedRow ==
  ASSUME Assumptions, Exists, document \in Document
  PROVE  Same(Released, document) /\ Released.status = document.status
<1> DEFINE t == [document.task EXCEPT !.token = NoWorker, !.lease = "none"]
<1>1. t \in Task
  BY DEF Document, Task
<1>2. Released = [document EXCEPT !.task = t]
  BY DEF Document, Released
<1> QED
  BY <1>1, <1>2, TaskSet

LEMMA RequeuedRow ==
  ASSUME Assumptions, Exists, document \in Document, NEW failed \in BOOLEAN
  PROVE  /\ Same(Requeued(failed), document)
         /\ \/ Requeued(failed).status = document.status
            \/ Requeued(failed).status \in {"queued", "failed"}
<1>1. CASE document.status = "completed"
  BY <1>1, ReleasedRow DEF Requeued
<1>2. CASE document.status # "completed"
  <2> DEFINE retry == ~failed \/ document.task.attempts < MaxRetries
             s == IF retry THEN "queued" ELSE "failed"
             n == IF failed \/ Released.task.attempts = 0 THEN Released.task.attempts
                  ELSE Released.task.attempts - 1
             e == [Released EXCEPT !.status = s]
             t == [Released.task EXCEPT !.attempts = n]
  <2>1. Same(Released, document) /\ Released \in Document
    BY ReleasedRow DEF Same
  <2>2. Same(e, Released) /\ e.status = s /\ e.task = Released.task
    <3>1. s \in {"queued", "processing", "completed", "failed", "deleting"}
      OBVIOUS
    <3> HIDE DEF s
    <3> QED
      BY <2>1, <3>1, StatusSet
  <2>3. t \in Task
    BY <2>1 DEF Document, Task
  <2>4. Same([e EXCEPT !.task = t], e) /\ [e EXCEPT !.task = t].status = s
    BY <2>2, <2>3, TaskSet DEF Same
  <2>5. Requeued(failed) = [e EXCEPT !.task = t]
    BY <1>2, <2>1 DEF Requeued, Document
  <2> QED
    BY <2>1, <2>2, <2>4, <2>5 DEF Same
<1> QED
  BY <1>1, <1>2

LEMMA ExhaustedRow ==
  ASSUME Assumptions, Exists, document \in Document
  PROVE  LET e == [document EXCEPT !.status = "failed", !.queued = TRUE,
                     !.task.token = NoWorker, !.task.lease = "none"]
         IN  Same(e, document) /\ e.status = "failed"
<1> DEFINE t == [document.task EXCEPT !.token = NoWorker, !.lease = "none"]
           a == [document EXCEPT !.status = "failed"]
           b == [a EXCEPT !.queued = TRUE]
           c == [b EXCEPT !.task = t]
<1>1. Same(a, document) /\ a.status = "failed" /\ a.task = document.task
  BY StatusSet
<1>2. Same(b, a) /\ b.status = "failed" /\ b.task = document.task
  BY <1>1, QueuedSet DEF Same
<1>3. t \in Task
  BY DEF Document, Task
<1>4. Same(c, b) /\ c.status = "failed"
  BY <1>2, <1>3, TaskSet DEF Same
<1>5. c = [document EXCEPT !.status = "failed", !.queued = TRUE,
                     !.task.token = NoWorker, !.task.lease = "none"]
  BY DEF Document
<1> QED
  BY <1>1, <1>2, <1>4, <1>5 DEF Same

LEMMA ClaimedRow ==
  ASSUME Assumptions, Exists, document \in Document, NEW w \in Workers
  PROVE  LET e == [document EXCEPT !.status = "processing", !.queued = TRUE,
                     !.task = [token |-> w, attempts |-> @.attempts + 1, lease |-> "valid"]]
         IN  Same(e, document) /\ e.status = "processing"
<1> DEFINE t == [token |-> w, attempts |-> document.task.attempts + 1, lease |-> "valid"]
           a == [document EXCEPT !.status = "processing"]
           b == [a EXCEPT !.queued = TRUE]
           c == [b EXCEPT !.task = t]
<1>1. Same(a, document) /\ a.status = "processing" /\ a.task = document.task
  BY StatusSet
<1>2. Same(b, a) /\ b.status = "processing" /\ b.task = document.task
  BY <1>1, QueuedSet DEF Same
<1>3. t \in Task
  BY DEF Document, Task
<1>4. Same(c, b) /\ c.status = "processing"
  BY <1>2, <1>3, TaskSet DEF Same
<1>5. c = [document EXCEPT !.status = "processing", !.queued = TRUE,
                     !.task = [token |-> w, attempts |-> @.attempts + 1, lease |-> "valid"]]
  BY DEF Document
<1> QED
  BY <1>1, <1>2, <1>4, <1>5 DEF Same

LEMMA OriginalSet ==
  ASSUME Assumptions, NEW d \in Document
  PROVE  LET e == [d EXCEPT !.original = "durable"] IN
         /\ e \in Document /\ e.generation = d.generation /\ e.content = d.content
         /\ e.status = d.status /\ e.task = d.task /\ e.queued = d.queued /\ e.original = "durable"
  BY DEF Document

LEMMA GenerationSet ==
  ASSUME Assumptions, NEW d \in Document
  PROVE  LET e == [d EXCEPT !.generation = @ + 1, !.status = "deleting"] IN
         /\ e \in Document /\ e.generation = d.generation + 1 /\ e.content = d.content
         /\ e.original = d.original /\ e.status = "deleting"
<1> DEFINE a == [d EXCEPT !.generation = d.generation + 1]
<1>1. a \in Document /\ a.generation = d.generation + 1 /\ a.content = d.content /\ a.original = d.original
  BY DEF Document
<1>2. Same([a EXCEPT !.status = "deleting"], a) /\ [a EXCEPT !.status = "deleting"].status = "deleting"
  BY <1>1, StatusSet
<1>3. [a EXCEPT !.status = "deleting"] = [d EXCEPT !.generation = @ + 1, !.status = "deleting"]
  BY DEF Document
<1> QED
  BY <1>1, <1>2, <1>3 DEF Same

-----------------------------------------------------------------------------
(* Steps that change no claim on the row.                                  *)

LEMMA Goes ==
  ASSUME TInv, NEW x \in Actors, NEW s \in PointsOf(x), Go(x, s)
  PROVE  /\ run' \in [Actors -> Points]
         /\ run'[x] = s
         /\ \A y \in Actors \ {x} : run'[y] = run[y]
         /\ \A y \in Actors : run'[y] \in PointsOf(y)
<1>1. s \in Points
  BY DEF PointsOf, Points
<1> QED
  BY <1>1 DEF TInv, TypeOK, Go

(* No ingestion begins or goes on but to fail, requests only end, and      *)
(* workers lose their generation.                                          *)
QuietRuns ==
  /\ \A x \in Loaders' : /\ x \in Loaders /\ snapshot'[x] = snapshot[x]
                         /\ run'[x] \in {run[x], "failing"}
  /\ \A r \in Replacing' : /\ r \in Replacing /\ previous'[r] = previous[r]
                           /\ run'[r] = "dropping" <=> run[r] = "dropping"
  /\ \A r \in Deleting' : r \in Deleting /\ previous'[r] = previous[r]
  /\ \A r \in Replacers : run'[r] = "waiting" => run[r] = "waiting"
  /\ \A w \in Workers : held'[w] \in {held[w], 0}

(* The row keeps generation, content and original, and becomes neither     *)
(* completed nor, under deletion, anything else.                           *)
QuietRow ==
  /\ Same(document', document)
  /\ \/ document'.status = document.status
     \/ document.status # "deleting" /\ document'.status \notin {"deleting", "completed"}
  /\ \A r \in Replacing : Undoable(r) =>
       /\ document'.task = NoTask
       /\ \/ document'.status = document.status
          \/ document'.status \in {"processing", "failed"} /\ run[r] # "dropping"

LEMMA RowTypes ==
  ASSUME TInv, Assumptions, Exists, NEW d, IsRow(d)
  PROVE  d \in Document /\ d.generation > 0
  BY DEF TInv, TypeOK, IsRow, Exists, Replacing, Actors, Requests

(* A row that is one after the step; a row that is completed or being      *)
(* ingested by somebody.                                                   *)
StaysRow(d) == d = document \/ \E r \in Replacing' : Undoable(r) /\ d = previous[r]

InUse(d) ==
  \/ d.status = "completed"
  \/ d.status # "deleting" /\ \E x \in Loaders' : snapshot[x].generation = d.generation

(* Chunks and originals that somebody counts on stay.                      *)
QuietFiles ==
  /\ chunks' = chunks \/ \A d \in Document : StaysRow(d) => d.status = "deleting"
  /\ \A d \in Document :
       StaysRow(d) /\ InUse(d) /\ d.content \in originals => d.content \in originals'

(* Such steps keep everything, whoever takes them.                         *)
LEMMA QuietDrops ==
  ASSUME TInv, Assumptions, Exists, WInv, QuietRuns, QuietRow, QuietFiles
  PROVE  WInv'
<1>1. document \in Document /\ document' \in Document /\ document'.generation = document.generation
      /\ document'.content = document.content /\ document'.original = document.original
  BY DEF TInv, TypeOK, Exists, QuietRow, Same
<1>2. \A r \in Replacing' : r \in Replacing /\ (Undoable(r)' <=> Undoable(r))
  BY <1>1, RowIsDocument DEF QuietRuns, Undoable, Exists
<1>3. \A w \in Workers : held'[w] \in {held[w], 0} /\ held[w] \in Nat
  BY DEF QuietRuns, TInv, TypeOK
<1>4. ASSUME NEW g \in Nat \ {0}, NEW xs, Fresh(g, xs)
      PROVE  Fresh(g, xs)'
  BY <1>3, <1>4 DEF Fresh, QuietRuns
<1>5. Fresh(document.generation + 1, Actors)'
  <2>1. document.generation + 1 \in Nat \ {0}
    BY <1>1 DEF Document
  <2> QED
    BY <2>1, <1>1, <1>4 DEF WInv
<1>6. ReplaceInv'
  <2> SUFFICES ASSUME NEW r \in Replacing'
               PROVE  /\ \A s \in Replacing' : s = r
                      /\ previous'[r].content # New[r]
                      /\ document'.content = New[r] /\ previous'[r].generation < document'.generation
                      /\ Undoable(r)' \/ document'.status = "deleting"
                      /\ Undoable(r)' =>
                          /\ document'.task = NoTask
                          /\ document'.status \in IF run'[r] = "dropping" THEN {"completed"} ELSE {"processing", "failed"}
                          /\ Fresh(document.generation, Actors \ {r})'
    BY DEF ReplaceInv
  <2>1. document.generation \in Nat \ {0}
    BY <1>1 DEF TInv, Document
  <2>2. /\ \A s \in Replacing' : s = r
        /\ previous'[r].content # New[r]
        /\ document'.content = New[r] /\ previous'[r].generation < document'.generation
    <3>1. r \in Replacing /\ Replacing' \subseteq Replacing
      BY <1>2
    <3>2. previous'[r] = previous[r]
      BY <3>1 DEF QuietRuns
    <3>3. /\ \A s \in Replacing : s = r
          /\ previous[r].content # New[r]
          /\ document.content = New[r] /\ previous[r].generation < document.generation
      BY <3>1 DEF WInv, ReplaceInv
    <3> QED
      BY <1>1, <3>1, <3>2, <3>3
  <2>3. Undoable(r)' \/ document'.status = "deleting"
    BY <1>1, <1>2 DEF WInv, ReplaceInv, QuietRow
  <2>4. ASSUME Undoable(r)'
        PROVE  /\ document'.task = NoTask
               /\ document'.status \in IF run'[r] = "dropping" THEN {"completed"} ELSE {"processing", "failed"}
    BY <1>2, <2>4 DEF WInv, ReplaceInv, QuietRow, QuietRuns
  <2>5. ASSUME Undoable(r)' PROVE Fresh(document.generation, Actors \ {r})'
    BY <1>1, <1>2, <1>4, <2>1, <2>5 DEF WInv, ReplaceInv
  <2> QED
    BY <2>2, <2>3, <2>4, <2>5
<1>7. ASSUME NEW d \in Document, IsRow(d)'
      PROVE  RowInv(d)' /\ RunInv(d)' /\ WholeInv(d)'
  <2>1. PICK e \in Document : /\ StaysRow(e) /\ IsRow(e) /\ d.generation = e.generation /\ d.content = e.content
                              /\ d.original = e.original
                              /\ \/ d.status = e.status
                                 \/ e.status # "deleting" /\ d.status \notin {"deleting", "completed"}
    <3>1. CASE d = document'
      BY <1>1, <3>1 DEF IsRow, StaysRow, QuietRow
    <3>2. CASE d # document'
      BY <1>2, <1>7, <3>2 DEF IsRow, StaysRow, QuietRuns
    <3> QED
      BY <3>1, <3>2
  <2>2. /\ RowInv(e) /\ RunInv(e) /\ WholeInv(e) /\ e.generation > 0
        /\ e.status # "deleting" => chunks' = chunks
        /\ InUse(e) /\ e.content \in originals => e.content \in originals'
    BY <2>1, RowTypes DEF WInv, QuietFiles
  <2>3. RowInv(d)'
    BY <1>3, <2>1, <2>2 DEF RowInv, QuietRuns
  <2>4. RunInv(d)'
    BY <1>1, <2>1, <2>2 DEF RunInv, QuietRuns, InUse
  <2>5. WholeInv(d)'
    BY <1>1, <2>1, <2>2 DEF WholeInv, InUse
  <2> QED
    BY <2>3, <2>4, <2>5
<1> QED
  BY <1>5, <1>6, <1>7 DEF WInv

LEMMA QuietKeeps ==
  ASSUME TInv, Assumptions, Exists, WInv, QuietRuns, QuietRow, UNCHANGED <<chunks, originals>>
  PROVE  WInv'
<1>1. QuietFiles
  BY DEF QuietFiles
<1> QED
  BY <1>1, QuietDrops

(* One worker or request goes to another point with the snapshots it has.  *)
Moves(x, s) ==
  /\ s \in PointsOf(x) \ {"waiting"}
  /\ Go(x, s)
  /\ UNCHANGED <<snapshot, previous>>
  /\ s \in Ingesting \ {"loading"} => x \in Loaders
  /\ x \in Requests => run[x] \notin {"waiting", "ended"}

Typed ==
  /\ document' = document \/ (document' \in Document /\ document'.generation > 0)
  /\ chunks' \in Contents \cup {NoContent} /\ originals' \subseteq Contents
  /\ held' \in [Workers -> Nat]
  /\ shared' \in BOOLEAN /\ mishaps' \in Nat

LEMMA MovesTypes ==
  ASSUME TInv, Assumptions, NEW x \in Actors, NEW s, Moves(x, s), Typed,
         \A w \in Workers : held'[w] = held[w] \/ (w = x /\ s \notin {"idle", "down"}),
         x \in Workers /\ s \in {"idle", "down"} => run[x] \in {"idle", "down"}
  PROVE  TInv'
<1>1. /\ run' \in [Actors -> Points] /\ run'[x] = s
      /\ \A y \in Actors \ {x} : run'[y] = run[y]
      /\ \A y \in Actors : run'[y] \in PointsOf(y)
  BY Goes DEF Moves
<1>2. Replacing' \subseteq Replacing /\ Deleting' \subseteq Deleting
  BY <1>1 DEF Replacing, Deleting, Moves, Actors, Requests
<1>3. TypeOK'
  BY <1>1 DEF TInv, TypeOK, Moves, Typed, Loaders
<1>4. \A r \in Replacing' \cup Deleting' : previous'[r] # NoDocument
  BY <1>2 DEF TInv, Moves
<1>5. \A w \in Workers : run'[w] \in {"idle", "down"} => held'[w] = 0
  BY <1>1 DEF TInv, Actors
<1>6. Exists' => document'.generation > 0
  BY DEF TInv, Typed, Exists
<1>7. \A r \in Replacing' : previous'[r].generation > 0
  BY <1>2 DEF TInv, Moves
<1> QED
  BY <1>1, <1>3, <1>4, <1>5, <1>6, <1>7 DEF TInv

LEMMA MovesQuiet ==
  ASSUME TInv, Assumptions, NEW x \in Actors, NEW s, Moves(x, s), UNCHANGED held,
         s \in Ingesting \ {"loading"} => s \in {run[x], "failing"},
         s = "dropping" => run[x] = "dropping",
         run[x] = "dropping" => s \in {"dropping", "ended"} \/ x \in Deleters
  PROVE  QuietRuns
<1>1. /\ run' \in [Actors -> Points] /\ run'[x] = s
      /\ \A y \in Actors \ {x} : run'[y] = run[y]
  BY Goes DEF Moves
<1>2. Replacing' \subseteq Replacing /\ Deleting' \subseteq Deleting
  BY <1>1 DEF Replacing, Deleting, Moves, Actors, Requests
<1>3. \A y \in Loaders' : y \in Loaders /\ run'[y] \in {run[y], "failing"}
  BY <1>1 DEF Loaders, Moves
<1>4. \A r \in Replacing' : run'[r] = "dropping" <=> run[r] = "dropping"
  BY <1>1 DEF Replacing, Assumptions, DocumentsAssumption, Actors, Requests
<1>5. \A r \in Replacers : run'[r] = "waiting" => run[r] = "waiting"
  BY <1>1 DEF Moves, Actors, Requests
<1> QED
  BY <1>2, <1>3, <1>4, <1>5 DEF QuietRuns, Moves

LEMMA SameQuiet ==
  ASSUME TInv, Assumptions, Exists, WInv, document' = document, QuietRuns
  PROVE  QuietRow
  BY DEF QuietRow, QuietRuns, WInv, ReplaceInv, TInv, TypeOK, Same, Exists

LEMMA Quietly ==
  ASSUME IInv, Assumptions, NEW x \in Actors, NEW s, Moves(x, s), Typed,
         UNCHANGED <<chunks, originals, held>>, shared => shared',
         document' = document \/ (Exists /\ (~shared' /\ WInv => QuietRow)),
         x \in Workers /\ s \in {"idle", "down"} => run[x] \in {"idle", "down"},
         s \in Ingesting \ {"loading"} => s \in {run[x], "failing"},
         s = "dropping" => run[x] = "dropping",
         run[x] = "dropping" => s \in {"dropping", "ended"} \/ x \in Deleters
  PROVE  IInv'
<1>1. TInv'
  BY MovesTypes DEF IInv
<1>2. ASSUME MaxOverlap <= 1, Exists', ~shared'
      PROVE  WInv'
  <2>1. Exists /\ WInv
    BY <1>2 DEF IInv, Exists
  <2>2. QuietRuns
    BY MovesQuiet DEF IInv
  <2>3. QuietRow
    BY <1>2, <2>1, <2>2, SameQuiet DEF IInv
  <2> QED
    BY <2>1, <2>2, <2>3, QuietKeeps DEF IInv
<1> QED
  BY <1>1, <1>2 DEF IInv

(* Nobody can claim the row of a replacement.                              *)
LEMMA IdleTask ==
  ASSUME WInv, NEW r \in Replacing, Undoable(r)
  PROVE  document.task = NoTask /\ document.status \in {"processing", "failed", "completed"}
  BY DEF WInv, ReplaceInv

(* A worker that owns the task, or knows the generation, does so of no row *)
(* that a replacement will take back.                                      *)
LEMMA NotUndoable ==
  ASSUME TInv, Assumptions, WInv, Exists, NEW w \in Workers,
         Owned(w) \/ held[w] = document.generation
         \/ (w \in Loaders /\ snapshot[w].generation = document.generation)
  PROVE  \A r \in Replacing : ~Undoable(r)
<1> SUFFICES ASSUME NEW r \in Replacing, Undoable(r)
             PROVE  FALSE
  OBVIOUS
<1>1. Fresh(document.generation, Actors \ {r}) /\ document.task = NoTask
  BY DEF WInv, ReplaceInv
<1>2. w # r /\ w \in Actors
  BY DEF Assumptions, DocumentsAssumption, Replacing, Requests, Actors
<1>3. document.generation \in Nat /\ held[w] \in Nat
  BY DEF TInv, TypeOK, Document, Exists
<1>4. w \in Loaders => snapshot[w].generation \in Nat
  BY <1>2 DEF TInv, TypeOK, Snapshot, Loaders
<1> QED
  BY <1>1, <1>2, <1>3, <1>4 DEF Fresh, Owned

(* What has been claimed or loaded is not under deletion.                  *)
LEMMA Alive ==
  ASSUME TInv, WInv, Exists, Assumptions, NEW x \in Actors,
         \/ x \in Workers /\ (Owned(x) \/ held[x] = document.generation)
         \/ x \in Loaders /\ snapshot[x].generation = document.generation
  PROVE  document.status # "deleting"
<1>1. document \in Document
  BY DEF TInv, TypeOK, Exists
<1> QED
  BY <1>1 DEF WInv, IsRow, RowInv, RunInv, Owned

(* Every step keeps the invariant.  First those that are quiet: the queue, *)
(* failures, the user, time and processes.                                 *)
LEMMA BeginTaskStep ==
  ASSUME IInv, Assumptions, NEW w \in Workers, BeginTask(w)
  PROVE  IInv'
<1>1. CASE Owned(w)
  <2>1. Moves(w, "loading")
    BY <1>1 DEF BeginTask, At, Moves, PointsOf, Ingesting, Actors, Assumptions, DocumentsAssumption
  <2>2. Exists /\ document \in Document /\ document.generation > 0
    BY <1>1 DEF Owned, IInv, TInv, TypeOK, Exists
  <2>3. document' = Renewed /\ Same(Renewed, document) /\ Renewed.status = document.status
    BY <1>1, <2>2, LeaseSet DEF BeginTask, Renewed
  <2>4. WInv => QuietRow
    BY <1>1, <2>2, <2>3, NotUndoable DEF QuietRow, IInv
  <2> QED
    BY <1>1, <2>1, <2>2, <2>3, <2>4, Quietly DEF BeginTask, At, Typed, Same, Actors, IInv,
       TInv, TypeOK
<1>2. CASE ~Owned(w)
  <2>1. Moves(w, "done")
    BY <1>2 DEF BeginTask, At, Moves, PointsOf, Ingesting, Actors, Assumptions, DocumentsAssumption
  <2> QED
    BY <1>2, <2>1, Quietly DEF BeginTask, At, Typed, Same, Actors, IInv, TInv, TypeOK, Ingesting
<1> QED
  BY <1>1, <1>2

LEMMA HeartbeatStep ==
  ASSUME IInv, Assumptions, NEW w \in Workers, Heartbeat(w)
  PROVE  IInv'
<1>1. CASE Owned(w)
  <2>1. Exists /\ document \in Document /\ document.generation > 0
    BY <1>1 DEF Owned, IInv, TInv, TypeOK, Exists
  <2>2. document' = Renewed /\ Same(Renewed, document) /\ Renewed.status = document.status
    BY <1>1, <2>1, LeaseSet DEF Heartbeat, Renewed
  <2>3. WInv => QuietRow
    BY <1>1, <2>1, <2>2, NotUndoable DEF QuietRow, IInv
  <2>4. Moves(w, run[w])
    BY <1>1 DEF Heartbeat, Moves, Go, IInv, TInv, TypeOK, Ingesting, Actors, Requests, Loaders,
       Assumptions, DocumentsAssumption
  <2> QED
    BY <1>1, <2>1, <2>2, <2>3, <2>4, Quietly DEF Heartbeat, Typed, Same, Actors, IInv, TInv, TypeOK
<1>2. CASE ~Owned(w)
  <2>1. Moves(w, "cancelled")
    BY <1>2 DEF Heartbeat, Moves, PointsOf, Ingesting, Actors, Assumptions, DocumentsAssumption
  <2> QED
    BY <1>2, <2>1, Quietly DEF Heartbeat, Typed, Actors, IInv, TInv, TypeOK, Ingesting
<1> QED
  BY <1>1, <1>2

LEMMA CancelStep ==
  ASSUME IInv, Assumptions, NEW w \in Workers, Cancel(w)
  PROVE  IInv'
<1>1. Moves(w, "cancelled")
  BY DEF Cancel, Moves, PointsOf, Ingesting, Actors, Assumptions, DocumentsAssumption
<1> QED
  BY <1>1, Quietly DEF Cancel, Mishap, Typed, Actors, IInv, TInv, TypeOK, Ingesting

LEMMA EndTaskStep ==
  ASSUME IInv, Assumptions, NEW w \in Workers, EndTask(w)
  PROVE  IInv'
<1>1. /\ run' \in [Actors -> Points] /\ run'[w] = "idle"
      /\ \A y \in Actors \ {w} : run'[y] = run[y]
      /\ \A y \in Actors : run'[y] \in PointsOf(y)
  BY Goes DEF EndTask, IInv, PointsOf, Actors
<1>2. \/ document' = document /\ ~Owned(w)
      \/ /\ Exists /\ document \in Document /\ Owned(w) /\ Same(document', document)
         /\ document'.status = document.status \/ document'.status \in {"queued", "failed"}
  <2>1. Owned(w) => Exists /\ document \in Document
    BY DEF Owned, IInv, TInv, TypeOK, Exists
  <2> QED
    BY <2>1, ReleasedRow, RequeuedRow DEF EndTask, At
<1>3. w \in Actors /\ w \notin Requests
  BY DEF Actors, Assumptions, DocumentsAssumption
<1>4. /\ Replacing' = Replacing /\ Deleting' = Deleting /\ Loaders' \subseteq Loaders
      /\ \A y \in Loaders' : y # w
  BY <1>1, <1>3 DEF Replacing, Deleting, Loaders, Requests, Actors, Ingesting
<1>5. held' \in [Workers -> Nat] /\ \A v \in Workers : held'[v] = IF v = w THEN 0 ELSE held[v]
  BY DEF EndTask, IInv, TInv, TypeOK
<1>6. /\ snapshot' \in [Actors -> Snapshot \cup {NoDocument}]
      /\ \A y \in Actors \ {w} : snapshot'[y] = snapshot[y]
  BY DEF EndTask, IInv, TInv, TypeOK
<1>7. TInv'
  <2>1. TypeOK'
    BY <1>1, <1>2, <1>5, <1>6 DEF EndTask, IInv, TInv, TypeOK, Same, Ingesting
  <2>2. Exists' => document'.generation > 0
    BY <1>2 DEF IInv, TInv, Same, Exists
  <2> QED
    BY <1>1, <1>4, <1>5, <2>1, <2>2 DEF EndTask, IInv, TInv, Actors
<1>8. ASSUME MaxOverlap <= 1, Exists', ~shared'
      PROVE  WInv'
  <2>1. Exists /\ WInv
    BY <1>2, <1>8 DEF IInv, EndTask, Exists
  <2>2. QuietRuns
    BY <1>1, <1>3, <1>4, <1>5, <1>6 DEF QuietRuns, EndTask, Loaders, Replacing, Deleting,
       Actors, Requests
  <2>3. QuietRow
    <3>1. CASE document' = document
      BY <3>1, <2>1, <2>2, SameQuiet DEF IInv
    <3>2. CASE document' # document
      BY <1>2, <1>3, <2>1, <3>2, NotUndoable, Alive DEF QuietRow, IInv, Actors
    <3> QED
      BY <3>1, <3>2
  <2> QED
    BY <2>1, <2>2, <2>3, QuietKeeps DEF IInv, EndTask
<1> QED
  BY <1>7, <1>8 DEF IInv

LEMMA IngestionFailsStep ==
  ASSUME IInv, Assumptions, NEW x \in Actors, IngestionFails(x)
  PROVE  IInv'
<1>1. Moves(x, "failing")
  BY DEF IngestionFails, Moves, PointsOf, Ingesting, Loaders, IInv, TInv
<1> QED
  BY <1>1, Quietly DEF IngestionFails, Mishap, Typed, IInv, TInv, TypeOK, Ingesting

LEMMA RaisedPoint ==
  ASSUME TInv, Assumptions, NEW x \in Actors, run[x] \in Ingesting
  PROVE  /\ Raised(x) \in PointsOf(x) \ ({"waiting", "idle", "down", "dropping"} \cup Ingesting)
         /\ Returned(x) \in PointsOf(x) \ ({"waiting", "idle", "down", "ended"} \cup Ingesting)
         /\ x \in Workers \/ x \in Replacing
         /\ x \in Requests => run[x] \notin {"waiting", "ended"}
  BY DEF TInv, Raised, Returned, PointsOf, Ingesting, Actors, Requests, Replacing

LEMMA WriteFailsStep ==
  ASSUME IInv, Assumptions, NEW x \in Actors, WriteFails(x)
  PROVE  IInv'
<1>1. run[x] \in Ingesting
  BY DEF WriteFails, Ingesting
<1>2. Moves(x, Raised(x))
  BY <1>1, RaisedPoint DEF WriteFails, Moves, IInv
<1> QED
  BY <1>1, <1>2, RaisedPoint, Quietly DEF WriteFails, Mishap, Typed, IInv, TInv, TypeOK, Ingesting

LEMMA MarkFailedStep ==
  ASSUME IInv, Assumptions, NEW x \in Actors, MarkFailed(x)
  PROVE  IInv'
<1>1. run[x] = "failing" /\ run[x] \in Ingesting /\ x \in Loaders
  BY DEF MarkFailed, At, Ingesting, Loaders
<1>2. Moves(x, Raised(x))
  BY <1>1, RaisedPoint DEF MarkFailed, Moves, IInv
<1>3. \/ document' = document
      \/ /\ Exists /\ document \in Document /\ Current(x) /\ document' = [document EXCEPT !.status = "failed"]
         /\ Same(document', document) /\ document'.status = "failed" /\ document'.task = document.task
  <2>1. Current(x) => Exists /\ document \in Document
    BY DEF Current, IInv, TInv, TypeOK, Exists
  <2> QED
    BY <2>1, StatusSet DEF MarkFailed
<1>4. document' = document \/ (Exists /\ (~shared' /\ WInv => QuietRow))
  <2> SUFFICES ASSUME document' # document, ~shared', WInv, Exists
               PROVE  QuietRow
    BY <1>3
  <2>1. document.status # "deleting"
    BY <1>1, <1>3, Alive DEF Current, IInv
  <2>2. \A r \in Replacing : Undoable(r) => document.task = NoTask /\ run[r] # "dropping"
    <3> SUFFICES ASSUME NEW r \in Replacing, Undoable(r), run[r] = "dropping"
                 PROVE  FALSE
      BY DEF WInv, ReplaceInv
    <3>1. x # r
      BY <1>1
    <3>2. snapshot[x].generation < document.generation
      BY <1>1, <3>1 DEF WInv, ReplaceInv, Fresh
    <3>3. snapshot[x].generation = document.generation /\ document.generation \in Nat
      BY <1>3 DEF Current, Document
    <3> QED
      BY <3>2, <3>3
  <2> QED
    BY <1>3, <2>1, <2>2 DEF QuietRow
<1> QED
  BY <1>1, <1>2, <1>3, <1>4, RaisedPoint, Quietly DEF MarkFailed, Typed, IInv, TInv, TypeOK,
     Same, Exists

LEMMA StillRuns ==
  ASSUME TInv, UNCHANGED <<run, held, snapshot, previous>>
  PROVE  QuietRuns /\ Replacing' = Replacing /\ Deleting' = Deleting
  BY DEF QuietRuns, Loaders, Replacing, Deleting

LEMMA RetryStep ==
  ASSUME IInv, Assumptions, Retry
  PROVE  IInv'
<1>1. document \in Document /\ document.status = "failed"
  BY DEF Retry, IInv, TInv, TypeOK, Exists
<1>2. Same(document', document) /\ document'.status = "queued"
  BY <1>1, Queued DEF Retry
<1>3. Replacing' = Replacing /\ Deleting' = Deleting /\ QuietRuns
  BY StillRuns DEF Retry, IInv
<1>4. TInv'
  BY <1>2, <1>3 DEF Retry, Mishap, IInv, TInv, TypeOK, Same, Exists
<1>5. ASSUME MaxOverlap <= 1, ~shared'
      PROVE  WInv'
  <2>1. Exists /\ WInv /\ Replacing = {}
    BY <1>5 DEF IInv, Retry
  <2>2. QuietRow
    BY <1>1, <1>2, <2>1 DEF QuietRow
  <2> QED
    BY <1>3, <2>1, <2>2, QuietKeeps DEF IInv, Retry
<1> QED
  BY <1>4, <1>5 DEF IInv

LEMMA LeaseExpiresStep ==
  ASSUME IInv, Assumptions, LeaseExpires
  PROVE  IInv'
<1>1. Exists /\ document \in Document /\ document.task.lease = "valid"
  BY DEF LeaseExpires, IInv, TInv, TypeOK, Exists
<1>2. Same(document', document) /\ document'.status = document.status
  BY <1>1, LeaseSet DEF LeaseExpires
<1>3. Replacing' = Replacing /\ Deleting' = Deleting /\ QuietRuns
  BY StillRuns DEF LeaseExpires, IInv
<1>4. TInv'
  <2>1. mishaps' \in Nat
    BY DEF LeaseExpires, Mishap, IInv, TInv, TypeOK
  <2> QED
    BY <1>2, <1>3, <2>1 DEF LeaseExpires, IInv, TInv, TypeOK, Same, Exists
<1>5. ASSUME MaxOverlap <= 1, ~shared'
      PROVE  WInv'
  <2>1. WInv
    BY <1>1, <1>5 DEF IInv, LeaseExpires
  <2>2. \A r \in Replacing : ~Undoable(r)
    BY <1>1, <2>1, IdleTask DEF NoTask
  <2>3. QuietRow
    BY <1>2, <2>2 DEF QuietRow
  <2> QED
    BY <1>1, <1>3, <2>1, <2>3, QuietKeeps DEF IInv, LeaseExpires
<1> QED
  BY <1>4, <1>5 DEF IInv

LEMMA StartStep ==
  ASSUME IInv, Assumptions, NEW w \in Workers, Start(w)
  PROVE  IInv'
<1>1. Moves(w, "idle")
  BY DEF Start, Moves, PointsOf, Ingesting, Actors, Assumptions, DocumentsAssumption
<1>2. \/ document' = document
      \/ /\ Exists /\ document \in Document /\ Same(document', document)
         /\ document.status = "processing" /\ document'.status = "queued"
  BY Queued DEF Start, Recovered, IInv, TInv, TypeOK, Exists
<1>3. document' = document \/ (Exists /\ (~shared' /\ WInv => QuietRow))
  BY <1>2 DEF QuietRow, Start
<1>4. Typed
  BY <1>2 DEF Start, Typed, IInv, TInv, TypeOK, Same, Exists
<1> QED
  BY <1>1, <1>3, <1>4, Quietly DEF Start, At, Actors, Ingesting

LEMMA CrashStep ==
  ASSUME IInv, Assumptions, NEW w \in Workers, Crash(w)
  PROVE  IInv'
<1> DEFINE dead == {w} \cup {r \in Requests : Host[r] = w /\ run[r] # "waiting"}
<1>1. /\ run' = [x \in Actors |-> IF x = w THEN "down" ELSE IF x \in dead THEN "ended" ELSE run[x]]
      /\ held' = [held EXCEPT ![w] = 0]
      /\ snapshot' = [x \in Actors |-> IF x \in dead THEN NoDocument ELSE snapshot[x]]
      /\ previous' = [r \in Requests |-> IF r \in dead THEN NoDocument ELSE previous[r]]
      /\ UNCHANGED <<document, chunks, originals, shared>> /\ mishaps' \in Nat
  BY DEF Crash, Mishap, IInv, TInv, TypeOK
<1>2. w \in Actors /\ w \notin Requests /\ \A x \in dead : x = w \/ (x \in Requests /\ run[x] # "waiting")
  BY DEF Actors, Assumptions, DocumentsAssumption
<1> HIDE DEF dead
<1>3. /\ Replacing' = {r \in Replacing : r \notin dead} /\ Deleting' = {r \in Deleting : r \notin dead}
      /\ \A x \in Loaders' : x \in Loaders /\ x \notin dead /\ run'[x] = run[x]
  BY <1>1, <1>2 DEF Replacing, Deleting, Loaders, Actors, Requests, Ingesting
<1>4. TInv'
  <2>1. TypeOK'
    BY <1>1, <1>2 DEF IInv, TInv, TypeOK, Points, Ingesting
  <2>2. \A x \in Actors : run'[x] \in PointsOf(x)
    <3>1. /\ run'[w] = "down"
          /\ \A x \in Actors \ {w} : run'[x] = run[x] \/ (x \in Requests /\ run'[x] = "ended")
      BY <1>1, <1>2
    <3> QED
      BY <1>2, <3>1 DEF IInv, TInv, PointsOf, Actors, Requests, Assumptions, DocumentsAssumption
  <2>3. \A v \in Workers : run'[v] \in {"idle", "down"} => held'[v] = 0
    BY <1>1, <1>2 DEF IInv, TInv, TypeOK, Actors
  <2>4. \A r \in Replacing' \cup Deleting' : previous'[r] = previous[r]
    BY <1>1, <1>3 DEF Replacing, Deleting, Requests
  <2> QED
    BY <1>1, <1>3, <2>1, <2>2, <2>3, <2>4 DEF IInv, TInv, Exists
<1>5. QuietRuns
  <2>1. \A v \in Workers : held'[v] \in {held[v], 0}
    BY <1>1 DEF IInv, TInv, TypeOK
  <2>2. \A x \in Loaders' : snapshot'[x] = snapshot[x]
    BY <1>1, <1>3 DEF Loaders
  <2>3. \A r \in Replacing' \cup Deleting' : previous'[r] = previous[r] /\ run'[r] = run[r]
    BY <1>1, <1>2, <1>3 DEF Replacing, Deleting, Requests, Actors
  <2>4. \A r \in Replacers : run'[r] = "waiting" => run[r] = "waiting"
    BY <1>1 DEF Actors, Requests
  <2> QED
    BY <1>3, <2>1, <2>2, <2>3, <2>4 DEF QuietRuns
<1> QED
  BY <1>1, <1>4, <1>5, SameQuiet, QuietKeeps DEF IInv, Exists

(* An original that was found is there.                                    *)
LEMMA ParseStep ==
  ASSUME IInv, Assumptions, NEW x \in Actors, Parse(x)
  PROVE  IInv'
<1>1. run[x] = "parsing" /\ run[x] \in Ingesting /\ x \in Loaders
  BY DEF Parse, At, Ingesting, Loaders
<1>2. CASE snapshot[x].content \notin originals
  <2>1. Moves(x, "failing")
    BY <1>1, <1>2, RaisedPoint DEF Parse, Moves, PointsOf, Ingesting, IInv, TInv
  <2> QED
    BY <1>1, <2>1, Quietly DEF Parse, Typed, IInv, TInv, TypeOK
<1>3. CASE snapshot[x].content \in originals
  <2>1. Moves(x, "persisting")
    BY <1>1, <1>3, RaisedPoint DEF Parse, Moves, PointsOf, Ingesting, IInv, TInv
  <2>2. TInv'
    BY <1>1, <2>1, MovesTypes DEF Parse, Typed, IInv, TInv, TypeOK
  <2>3. /\ run'[x] = "persisting" /\ \A y \in Actors \ {x} : run'[y] = run[y]
        /\ UNCHANGED <<held, document, chunks, originals, snapshot, previous, shared>>
    BY <2>1, Goes DEF Moves, IInv, Parse
  <2>4. Loaders' = Loaders /\ Replacing' = Replacing /\ Deleting' = Deleting
    BY <1>1, <2>3 DEF Loaders, Replacing, Deleting, Ingesting, Actors, Requests
  <2>5. ASSUME MaxOverlap <= 1, Exists', ~shared'
        PROVE  WInv'
    <3>1. Exists /\ WInv
      BY <2>3, <2>5 DEF IInv, Exists
    <3>2. \A d : IsRow(d)' => IsRow(d)
      BY <2>3, <2>4 DEF IsRow, Undoable, Exists
    <3>3. Fresh(document.generation + 1, Actors)'
      BY <2>3, <2>4, <3>1 DEF WInv, Fresh
    <3>4. ReplaceInv'
      BY <1>1, <2>3, <2>4, <3>1 DEF WInv, ReplaceInv, Fresh, Undoable, Exists, Replacing,
         Actors, Requests
    <3>5. ASSUME NEW d \in Document, IsRow(d)'
          PROVE  RowInv(d)' /\ RunInv(d)' /\ WholeInv(d)'
      <4>1. RowInv(d) /\ RunInv(d) /\ WholeInv(d)
        BY <3>1, <3>2, <3>5 DEF WInv
      <4>2. RowInv(d)'
        BY <1>1, <2>3, <2>4, <4>1 DEF RowInv, Actors, Requests
      <4>3. RunInv(d)'
        BY <1>1, <1>3, <2>3, <2>4, <4>1 DEF RunInv, Loaders
      <4> QED
        BY <2>3, <4>1, <4>2, <4>3 DEF WholeInv
    <3> QED
      BY <3>3, <3>4, <3>5 DEF WInv
  <2> QED
    BY <2>2, <2>5 DEF IInv
<1> QED
  BY <1>2, <1>3

(* A claim learns the generation of a row that is not under deletion nor   *)
(* to be taken back.                                                       *)
LEMMA ClaimStep ==
  ASSUME IInv, Assumptions, NEW w \in Workers, claim_next(w)
  PROVE  IInv'
<1>1. Exists /\ document \in Document /\ document.generation \in Nat \ {0}
  BY DEF claim_next, Claimable, IInv, TInv, TypeOK, Exists, Document
<1>2. w \in Actors /\ w \notin Requests
  BY DEF Actors, Assumptions, DocumentsAssumption
<1>3. document.status # "deleting"
  BY DEF claim_next, Claimable
<1>4. /\ Same(document', document)
      /\ document'.status \in {"failed", "processing"}
      /\ UNCHANGED <<chunks, originals, snapshot, previous, shared, mishaps>>
  BY <1>1, ExhaustedRow, ClaimedRow DEF claim_next
<1>5. WInv => \A r \in Replacing : ~Undoable(r)
  <2>1. document.status = "queued" \/ document.task.lease = "expired"
    BY DEF claim_next, Claimable
  <2> QED
    BY <2>1, IdleTask DEF NoTask
<1>6. WInv => QuietRow
  BY <1>3, <1>4, <1>5 DEF QuietRow
<1>7. CASE UNCHANGED <<run, held>>
  <2>1. Replacing' = Replacing /\ Deleting' = Deleting /\ QuietRuns
    BY <1>4, <1>7, StillRuns DEF IInv
  <2>2. TInv'
    BY <1>1, <1>4, <1>7, <2>1 DEF IInv, TInv, TypeOK, Same
  <2> QED
    BY <1>1, <1>4, <1>6, <2>1, <2>2, QuietKeeps DEF IInv
<1>8. CASE Go(w, "claimed") /\ held' = [held EXCEPT ![w] = document.generation] /\ At(w, "idle")
  <2>1. Moves(w, "claimed")
    BY <1>2, <1>4, <1>8 DEF Moves, PointsOf, Ingesting
  <2>2. held' \in [Workers -> Nat] /\ \A v \in Workers : held'[v] = IF v = w THEN document.generation ELSE held[v]
    BY <1>1, <1>8 DEF IInv, TInv, TypeOK
  <2>3. TInv'
    BY <1>1, <1>2, <1>4, <2>1, <2>2, MovesTypes DEF Typed, IInv, TInv, TypeOK, Same
  <2>4. run'[w] = "claimed" /\ \A y \in Actors \ {w} : run'[y] = run[y]
    BY <1>2, <2>1, Goes DEF Moves, IInv
  <2>5. Loaders' = Loaders /\ Replacing' = Replacing /\ Deleting' = Deleting
    BY <1>2, <1>8, <2>4 DEF At, Loaders, Replacing, Deleting, Ingesting, Actors, Requests
  <2>6. ASSUME MaxOverlap <= 1, ~shared'
        PROVE  WInv'
    <3>1. WInv /\ \A r \in Replacing : ~Undoable(r)
      BY <1>1, <1>4, <1>5, <2>6 DEF IInv
    <3>2. Exists' /\ \A r \in Replacing : ~Undoable(r)'
      BY <1>1, <1>4, <3>1, RowIsDocument DEF Undoable, Same, Exists
    <3>3. Fresh(document.generation + 1, Actors)'
      BY <1>1, <1>4, <2>2, <2>5, <3>1 DEF WInv, Fresh, Same
    <3>4. ReplaceInv'
      BY <1>3, <1>4, <2>5, <3>1, <3>2 DEF WInv, ReplaceInv, Same
    <3>5. ASSUME NEW d \in Document, IsRow(d)'
          PROVE  RowInv(d)' /\ RunInv(d)' /\ WholeInv(d)'
      <4>1. d = document'
        BY <2>5, <3>2, <3>5 DEF IsRow
      <4>2. RowInv(document) /\ RunInv(document)
        BY <1>1, <3>1 DEF WInv, IsRow
      <4>3. RowInv(d)'
        BY <1>2, <1>3, <1>4, <2>4, <2>5, <4>1, <4>2 DEF RowInv, Same, Actors, Requests
      <4>4. RunInv(d)'
        BY <1>2, <1>3, <1>4, <1>8, <2>4, <2>5, <4>1, <4>2 DEF RunInv, Same, Loaders, At, Ingesting
      <4> QED
        BY <1>4, <4>1, <4>3, <4>4 DEF WholeInv
    <3> QED
      BY <3>3, <3>4, <3>5 DEF WInv
  <2> QED
    BY <2>3, <2>6 DEF IInv
<1> QED
  BY <1>7, <1>8 DEF claim_next

(* A snapshot is taken of the generation that was meant, or shared says    *)
(* so.                                                                     *)
LEMMA LoadStep ==
  ASSUME IInv, Assumptions, NEW x \in Actors, Load(x)
  PROVE  IInv'
<1>1. run[x] = "loading" /\ run[x] \in Ingesting /\ x \notin Loaders
  BY DEF Load, At, Ingesting, Loaders
<1>2. CASE ~Exists
  <2>1. Moves(x, Raised(x))
    BY <1>1, <1>2, RaisedPoint DEF Load, Moves, IInv
  <2> QED
    BY <1>1, <1>2, <2>1, RaisedPoint, Quietly DEF Load, Typed, IInv, TInv, TypeOK
<1>3. CASE Exists
  <2>1. document \in Document /\ document.generation \in Nat \ {0}
    BY <1>3 DEF IInv, TInv, TypeOK, Exists, Document
  <2>2. /\ Same(document', document) /\ document'.status = "processing" /\ document'.task = document.task
        /\ UNCHANGED <<held, chunks, originals, previous, mishaps>>
    <3>1. /\ document' = [document EXCEPT !.status = "processing"]
          /\ UNCHANGED <<held, chunks, originals, previous, mishaps>>
      BY <1>3 DEF Load
    <3> QED
      BY <2>1, <3>1, StatusSet
  <2>3. Loaded \in Snapshot
    BY <2>1 DEF Loaded, Document, Snapshot
  <2>4. snapshot' \in [Actors -> Snapshot \cup {NoDocument}] /\ snapshot'[x] = Loaded
        /\ \A y \in Actors \ {x} : snapshot'[y] = snapshot[y]
    BY <1>3, <2>3 DEF Load, IInv, TInv, TypeOK
  <2>5. /\ run' \in [Actors -> Points] /\ run'[x] = "storing"
        /\ \A y \in Actors \ {x} : run'[y] = run[y]
        /\ \A y \in Actors : run'[y] \in PointsOf(y)
    <3>1. "storing" \in PointsOf(x)
      BY <1>1 DEF IInv, TInv, PointsOf, Ingesting
    <3> QED
      BY <1>3, <3>1, Goes DEF Load, IInv
  <2>6. Loaders' = Loaders \cup {x} /\ Replacing' = Replacing /\ Deleting' = Deleting
    BY <1>1, <2>5 DEF Loaders, Replacing, Deleting, Ingesting, Actors, Requests
  <2>7. TInv'
    <3>1. Loaded # NoDocument
      BY <2>3 DEF Assumptions, NoDocumentAssumption
    <3>2. TypeOK'
      BY <1>3, <2>2, <2>4, <2>5, <3>1 DEF Load, IInv, TInv, TypeOK, Same
    <3>3. \A w \in Workers : run'[w] \in {"idle", "down"} => held'[w] = 0
      BY <2>2, <2>5 DEF IInv, TInv, Actors
    <3> QED
      BY <2>1, <2>2, <2>5, <2>6, <3>2, <3>3 DEF IInv, TInv, Same
  <2>8. ASSUME MaxOverlap <= 1, ~shared'
        PROVE  WInv'
    <3>1. WInv /\ document.generation = Meant(x)
      BY <1>3, <2>8 DEF IInv, Load
    <3>2. \A r \in Replacing : Undoable(r) => r = x
      <4> SUFFICES ASSUME NEW r \in Replacing, Undoable(r), r # x
                   PROVE  FALSE
        OBVIOUS
      <4>1. CASE x \in Workers
        BY <1>3, <3>1, <4>1, NotUndoable DEF Meant, IInv
      <4>2. CASE x \notin Workers
        <5>1. x \in Replacing
          BY <1>1, <4>2, RaisedPoint DEF IInv
        <5> QED
          BY <3>1, <5>1 DEF WInv, ReplaceInv
      <4> QED
        BY <4>1, <4>2
    <3>3. document.status # "deleting"
      <4>1. CASE x \in Workers
        BY <1>3, <3>1, <4>1, Alive DEF Meant, IInv
      <4>2. CASE x \notin Workers
        <5>1. x \in Replacing /\ Undoable(x)
          BY <1>1, <1>3, <3>1, <4>2, RaisedPoint DEF IInv, Meant, Undoable
        <5> QED
          BY <3>1, <5>1, IdleTask
      <4> QED
        BY <4>1, <4>2
    <3>4. Exists' /\ \A r \in Replacing : Undoable(r)' <=> Undoable(r)
      BY <1>3, <2>1, <2>2, RowIsDocument DEF Undoable, Same, Exists
    <3>5. Fresh(document.generation + 1, Actors)'
      BY <2>1, <2>2, <2>4, <2>6, <3>1 DEF WInv, Fresh, Same, Loaded
    <3>6. ReplaceInv'
      <4> SUFFICES ASSUME NEW r \in Replacing
                   PROVE  /\ \A s \in Replacing : s = r
                          /\ previous[r].content # New[r]
                          /\ document'.content = New[r] /\ previous[r].generation < document'.generation
                          /\ Undoable(r) \/ document'.status = "deleting"
                          /\ Undoable(r) =>
                               /\ document'.task = NoTask
                               /\ document'.status \in IF run'[r] = "dropping" THEN {"completed"} ELSE {"processing", "failed"}
                               /\ Fresh(document.generation, Actors \ {r})'
        BY <2>2, <2>6, <3>4 DEF ReplaceInv
      <4>1. Undoable(r)
        BY <3>1, <3>3 DEF WInv, ReplaceInv
      <4>2. r = x
        BY <3>2, <4>1
      <4>3. Fresh(document.generation, Actors \ {r})'
        BY <2>1, <2>2, <2>4, <2>6, <3>1, <4>1, <4>2 DEF WInv, ReplaceInv, Fresh, Same
      <4> QED
        BY <2>2, <2>5, <3>1, <4>1, <4>2, <4>3 DEF WInv, ReplaceInv, Same
    <3>7. ASSUME NEW d \in Document, IsRow(d)'
          PROVE  RowInv(d)' /\ RunInv(d)' /\ WholeInv(d)'
      <4>1. d = document' \/ IsRow(d)
        BY <2>2, <2>6, <3>4, <3>7 DEF IsRow
      <4>2. IsRow(document)
        BY DEF IsRow
      <4>3. CASE d = document'
        <5>1. RowInv(document) /\ RunInv(document)
          BY <2>1, <3>1, <4>2 DEF WInv
        <5>2. RowInv(d)'
          BY <2>2, <2>5, <2>6, <3>3, <4>3, <5>1, <1>1 DEF RowInv, Same, Actors, Requests
        <5>3. RunInv(d)'
          BY <2>2, <2>4, <2>5, <2>6, <3>3, <4>3, <5>1, <1>1 DEF RunInv, Same, Loaded, Loaders
        <5> QED
          BY <2>2, <4>3, <5>2, <5>3 DEF WholeInv
      <4>4. CASE d # document'
        <5>0. PICK r \in Replacing : Undoable(r) /\ d = previous[r]
          BY <2>2, <2>6, <3>4, <3>7, <4>4 DEF IsRow
        <5>1. RowInv(d) /\ RunInv(d) /\ WholeInv(d) /\ d.generation < document.generation
          BY <2>1, <3>1, <5>0 DEF WInv, IsRow, Undoable, Document
        <5>2. RowInv(d)'
          BY <2>2, <2>5, <2>6, <5>1, <1>1 DEF RowInv, Actors, Requests
        <5>3. RunInv(d)'
          BY <2>1, <2>2, <2>4, <2>5, <2>6, <5>1, <1>1 DEF RunInv, Same, Loaded, Loaders, Document
        <5> QED
          BY <2>2, <5>1, <5>2, <5>3 DEF WholeInv, Same
      <4> QED
        BY <4>3, <4>4
    <3> QED
      BY <3>5, <3>6, <3>7 DEF WInv
  <2> QED
    BY <2>7, <2>8 DEF IInv
<1> QED
  BY <1>2, <1>3

(* The three transactions of an ingestion check the generation, by which   *)
(* the snapshot has the content of the row.                                *)
LEMMA StoreStep ==
  ASSUME IInv, Assumptions, NEW x \in Actors, Store(x)
  PROVE  IInv'
<1>1. run[x] = "storing" /\ run[x] \in Ingesting /\ x \in Loaders
  BY DEF Store, At, Ingesting, Loaders
<1>2. UNCHANGED <<held, chunks, snapshot, previous, shared, mishaps>>
  BY DEF Store
<1>3. CASE Go(x, "failing") /\ UNCHANGED <<document, originals>>
  <2>1. Moves(x, "failing")
    BY <1>1, <1>2, <1>3, RaisedPoint DEF Moves, PointsOf, Ingesting, IInv, TInv
  <2> QED
    BY <1>1, <1>2, <1>3, <2>1, Quietly DEF Typed, IInv, TInv, TypeOK
<1>4. CASE /\ Go(x, "parsing")
           /\ \/ snapshot[x].original = "durable" /\ UNCHANGED <<document, originals>>
              \/ /\ Current(x) /\ document' = [document EXCEPT !.original = "durable"]
                 /\ originals' = originals \cup {snapshot[x].content}
  <2>1. Moves(x, "parsing")
    BY <1>1, <1>2, <1>4, RaisedPoint DEF Moves, PointsOf, Ingesting, IInv, TInv
  <2>2. run'[x] = "parsing" /\ \A y \in Actors \ {x} : run'[y] = run[y]
    BY <2>1, Goes DEF Moves, IInv
  <2>3. Loaders' = Loaders /\ Replacing' = Replacing /\ Deleting' = Deleting
    BY <1>1, <2>2 DEF Loaders, Replacing, Deleting, Ingesting, Actors, Requests
  <2>4. \/ document' = document
        \/ /\ Exists /\ document \in Document /\ document' \in Document
           /\ document'.generation = document.generation /\ document'.content = document.content
           /\ document'.status = document.status /\ document'.task = document.task
           /\ document'.original = "durable"
    <3>1. Current(x) => Exists /\ document \in Document
      BY DEF Current, IInv, TInv, TypeOK, Exists
    <3> QED
      BY <1>4, <3>1, OriginalSet
  <2>5. TInv'
    <3>1. snapshot[x].content \in Contents
      BY <1>1 DEF IInv, TInv, TypeOK, Loaders, Snapshot
    <3>2. Typed
      BY <1>2, <1>4, <2>4, <3>1 DEF Typed, IInv, TInv, TypeOK
    <3> QED
      BY <1>1, <1>2, <2>1, <3>2, MovesTypes DEF IInv
  <2>6. ASSUME MaxOverlap <= 1, Exists', ~shared'
        PROVE  WInv'
    <3>1. Exists /\ WInv /\ document \in Document /\ document' \in Document
      BY <1>2, <2>4, <2>6 DEF IInv, TInv, TypeOK, Exists
    <3>2. /\ document'.generation = document.generation /\ document'.content = document.content
          /\ document'.status = document.status /\ document'.task = document.task
          /\ document'.original \in {document.original, "durable"}
          /\ originals \subseteq originals'
      BY <1>4, <2>4
    <3>3. \A r \in Replacing : Undoable(r)' <=> Undoable(r)
      BY <1>2, <2>6, <3>1, <3>2 DEF Undoable
    <3>4. Fresh(document.generation + 1, Actors)'
      BY <1>2, <2>3, <3>1, <3>2 DEF WInv, Fresh
    <3>5. ReplaceInv'
      <4>1. \A r \in Replacing : run'[r] = "dropping" <=> run[r] = "dropping"
        BY <1>1, <2>2 DEF Replacing, Actors, Requests
      <4>2. \A r \in Replacing : Fresh(document.generation, Actors \ {r}) => Fresh(document.generation, Actors \ {r})'
        BY <1>2, <2>3, <3>2 DEF Fresh
      <4> QED
        BY <1>2, <2>3, <3>1, <3>2, <3>3, <4>1, <4>2 DEF WInv, ReplaceInv
    <3>6. ASSUME NEW d \in Document, IsRow(d)'
          PROVE  RowInv(d)' /\ RunInv(d)' /\ WholeInv(d)'
      <4>1. d = document' \/ IsRow(d)
        BY <1>2, <2>3, <3>3, <3>6 DEF IsRow
      <4>2. IsRow(document) /\ RowInv(document) /\ RunInv(document) /\ WholeInv(document)
        BY <3>1 DEF IsRow, WInv
      <4>3. CASE d = document'
        <5>1. RowInv(d)'
          <6>1. /\ d.generation = document.generation /\ d.content = document.content
                /\ d.status = document.status
            BY <3>2, <4>3
          <6>2. \A r \in Replacers : run'[r] = "waiting" => run[r] = "waiting"
            BY <1>1, <2>2 DEF Actors, Requests
          <6> QED
            BY <1>2, <2>3, <4>2, <6>1, <6>2 DEF RowInv
        <5>2. snapshot[x].generation = document.generation => document'.original = "durable"
          <6>1. CASE snapshot[x].original = "durable" /\ UNCHANGED document
            BY <1>1, <4>2, <6>1 DEF RunInv
          <6>2. CASE document' = [document EXCEPT !.original = "durable"]
            BY <3>1, <6>2, OriginalSet
          <6> QED
            BY <1>4, <6>1, <6>2
        <5>3. RunInv(d)'
          BY <1>1, <1>2, <2>2, <2>3, <3>2, <4>2, <4>3, <5>2 DEF RunInv, Loaders
        <5> QED
          BY <1>2, <3>2, <4>2, <4>3, <5>1, <5>3 DEF WholeInv
      <4>4. CASE d # document'
        <5>1. PICK r \in Replacing : Undoable(r) /\ d = previous[r]
          BY <1>2, <2>3, <3>3, <3>6, <4>4 DEF IsRow
        <5>2. RowInv(d) /\ RunInv(d) /\ WholeInv(d) /\ d.generation # document.generation
          BY <3>1, <5>1 DEF WInv, IsRow, Undoable, Document
        <5>3. RowInv(d)'
          BY <1>1, <1>2, <2>2, <2>3, <5>2 DEF RowInv, Actors, Requests
        <5>4. RunInv(d)'
          <6>1. snapshot[x].generation = d.generation => snapshot[x].original = "durable"
            BY <1>4, <5>2 DEF Current
          <6> QED
            BY <1>1, <1>2, <2>2, <2>3, <3>2, <5>2, <6>1 DEF RunInv, Loaders
        <5> QED
          BY <1>2, <3>2, <5>2, <5>3, <5>4 DEF WholeInv
      <4> QED
        BY <4>3, <4>4
    <3> QED
      BY <3>4, <3>5, <3>6 DEF WInv
  <2> QED
    BY <2>5, <2>6 DEF IInv
<1> QED
  BY <1>3, <1>4 DEF Store

LEMMA PersistStep ==
  ASSUME IInv, Assumptions, NEW x \in Actors, Persist(x)
  PROVE  IInv'
<1>1. run[x] = "persisting" /\ run[x] \in Ingesting /\ x \in Loaders
  BY DEF Persist, At, Ingesting, Loaders
<1>2. UNCHANGED <<held, document, originals, snapshot, previous, shared, mishaps>>
  BY DEF Persist
<1>3. CASE ~Current(x)
  <2>1. Moves(x, Raised(x))
    BY <1>1, <1>3, RaisedPoint DEF Persist, Moves, IInv
  <2> QED
    BY <1>1, <1>3, <2>1, RaisedPoint, Quietly DEF Persist, Typed, IInv, TInv, TypeOK
<1>4. CASE Current(x)
  <2>0. chunks' = snapshot[x].content /\ Go(x, "finalizing")
    BY <1>4 DEF Persist
  <2>1. Moves(x, "finalizing")
    BY <1>1, <1>2, <2>0, RaisedPoint DEF Moves, PointsOf, Ingesting, IInv, TInv
  <2>2. run'[x] = "finalizing" /\ \A y \in Actors \ {x} : run'[y] = run[y]
    BY <2>1, Goes DEF Moves, IInv
  <2>3. Loaders' = Loaders /\ Replacing' = Replacing /\ Deleting' = Deleting
    BY <1>1, <2>2 DEF Loaders, Replacing, Deleting, Ingesting, Actors, Requests
  <2>4. TInv'
    <3>1. snapshot[x].content \in Contents
      BY <1>1 DEF IInv, TInv, TypeOK, Loaders, Snapshot
    <3>2. Typed
      BY <1>2, <2>0, <3>1 DEF Typed, IInv, TInv, TypeOK
    <3> QED
      BY <1>1, <1>2, <2>1, <3>2, MovesTypes DEF IInv
  <2>5. ASSUME MaxOverlap <= 1, ~shared'
        PROVE  WInv'
    <3>1. Exists /\ WInv /\ document \in Document
      BY <1>2, <1>4, <2>5 DEF Current, IInv, TInv, TypeOK, Exists
    <3>2. IsRow(document) /\ RunInv(document)
      BY <3>1 DEF IsRow, WInv
    <3>3. chunks' = document.content
      BY <1>1, <1>4, <2>0, <3>2 DEF RunInv, Current
    <3>4. Fresh(document.generation + 1, Actors)'
      BY <1>2, <2>3, <3>1 DEF WInv, Fresh
    <3>5. ReplaceInv'
      BY <1>1, <1>2, <2>2, <2>3, <3>1 DEF WInv, ReplaceInv, Fresh, Undoable, Exists, Replacing,
         Actors, Requests
    <3>6. ASSUME NEW d \in Document, IsRow(d)'
          PROVE  RowInv(d)' /\ RunInv(d)' /\ WholeInv(d)'
      <4>1. IsRow(d)
        BY <1>2, <2>3, <3>6 DEF IsRow, Undoable, Exists
      <4>2. RowInv(d) /\ RunInv(d) /\ WholeInv(d)
        BY <3>1, <4>1 DEF WInv
      <4>3. RowInv(d)'
        BY <1>1, <1>2, <2>2, <2>3, <4>2 DEF RowInv, Actors, Requests
      <4>4. RunInv(d)'
        BY <1>1, <1>2, <2>2, <2>3, <3>3, <4>2 DEF RunInv, Loaders
      <4> QED
        BY <1>2, <3>3, <4>2, <4>3, <4>4 DEF WholeInv
    <3> QED
      BY <3>4, <3>5, <3>6 DEF WInv
  <2> QED
    BY <2>4, <2>5 DEF IInv
<1> QED
  BY <1>3, <1>4

LEMMA FinalizeStep ==
  ASSUME IInv, Assumptions, NEW x \in Actors, Finalize(x)
  PROVE  IInv'
<1>1. run[x] = "finalizing" /\ run[x] \in Ingesting /\ x \in Loaders
  BY DEF Finalize, At, Ingesting, Loaders
<1>2. UNCHANGED <<held, chunks, originals, snapshot, previous, shared, mishaps>>
  BY DEF Finalize
<1>3. CASE ~Current(x)
  <2>1. Moves(x, Raised(x))
    BY <1>1, <1>3, RaisedPoint DEF Finalize, Moves, IInv
  <2> QED
    BY <1>1, <1>3, <2>1, RaisedPoint, Quietly DEF Finalize, Typed, IInv, TInv, TypeOK
<1>4. CASE Current(x)
  <2>0. /\ Exists /\ document \in Document /\ snapshot[x].generation = document.generation
        /\ Same(document', document) /\ document'.status = "completed" /\ document'.task = document.task
    <3>1. Exists /\ document \in Document /\ snapshot[x].generation = document.generation
      BY <1>4 DEF Current, IInv, TInv, TypeOK, Exists
    <3>2. document' = [document EXCEPT !.status = "completed"]
      BY <1>4 DEF Finalize
    <3> QED
      BY <3>1, <3>2, StatusSet
  <2>1. Moves(x, Returned(x))
    BY <1>1, <1>4, RaisedPoint DEF Finalize, Moves, IInv
  <2>2. run'[x] = Returned(x) /\ \A y \in Actors \ {x} : run'[y] = run[y]
    BY <2>1, Goes DEF Moves, IInv
  <2>3. /\ Loaders' = Loaders \ {x} /\ Replacing' = Replacing /\ Deleting' = Deleting
        /\ x \in Replacers => run'[x] = "dropping"
    BY <1>1, <2>2, RaisedPoint DEF Loaders, Replacing, Deleting, Ingesting, Actors, Requests,
       Returned, Assumptions, DocumentsAssumption, IInv
  <2>4. TInv'
    <3>1. Typed
      BY <1>2, <2>0 DEF Typed, IInv, TInv, TypeOK, Same
    <3> QED
      BY <1>1, <1>2, <2>1, <3>1, RaisedPoint, MovesTypes DEF IInv
  <2>5. ASSUME MaxOverlap <= 1, ~shared'
        PROVE  WInv'
    <3>1. WInv /\ Exists'
      BY <1>2, <2>0, <2>5, RowIsDocument DEF IInv, Exists, Same
    <3>2. IsRow(document) /\ RunInv(document) /\ RowInv(document)
      BY <2>0, <3>1 DEF IsRow, WInv
    <3>3. /\ document.status # "deleting" /\ document.original = "durable"
          /\ document.content \in originals /\ chunks = document.content
      BY <1>1, <2>0, <3>2 DEF RunInv
    <3>4. \A r \in Replacing : r = x /\ Undoable(r)
      <4> SUFFICES ASSUME NEW r \in Replacing
                   PROVE  r = x /\ Undoable(r)
        OBVIOUS
      <4>1. Undoable(r)
        BY <3>1, <3>3 DEF WInv, ReplaceInv
      <4>2. x # r => snapshot[x].generation < document.generation
        BY <1>1, <3>1, <4>1 DEF WInv, ReplaceInv, Fresh
      <4> QED
        BY <2>0, <4>1, <4>2 DEF Document
    <3>5. \A r \in Replacing : Undoable(r)'
      BY <1>2, <2>0, <3>1, <3>4 DEF Undoable, Same
    <3>6. Fresh(document.generation + 1, Actors)'
      BY <1>2, <2>0, <2>3, <3>1 DEF WInv, Fresh, Same
    <3>7. ReplaceInv'
      <4>1. \A r \in Replacing : Fresh(document.generation, Actors \ {r})'
        BY <1>2, <2>0, <2>3, <3>1, <3>4 DEF WInv, ReplaceInv, Fresh, Same
      <4>2. \A r \in Replacing : run'[r] = "dropping"
        BY <2>3, <3>4 DEF Replacing
      <4> QED
        BY <1>2, <2>0, <2>3, <3>1, <3>4, <3>5, <4>1, <4>2 DEF WInv, ReplaceInv, Same
    <3>8. ASSUME NEW d \in Document, IsRow(d)'
          PROVE  RowInv(d)' /\ RunInv(d)' /\ WholeInv(d)'
      <4>1. d = document' \/ \E r \in Replacing : Undoable(r) /\ d = previous[r]
        BY <1>2, <2>3, <3>4, <3>8 DEF IsRow
      <4>2. CASE d = document'
        <5>1. RowInv(d)'
          BY <1>1, <1>2, <2>0, <2>2, <2>3, <3>2, <3>3, <4>2, RaisedPoint DEF RowInv, Same,
             Actors, Requests, IInv
        <5>2. RunInv(d)'
          BY <1>1, <1>2, <2>0, <2>2, <2>3, <3>2, <3>3, <4>2 DEF RunInv, Same, Loaders
        <5> QED
          BY <1>2, <2>0, <3>3, <4>2, <5>1, <5>2 DEF WholeInv, Same
      <4>3. CASE d # document'
        <5>1. RowInv(d) /\ RunInv(d) /\ WholeInv(d)
          BY <3>1, <4>1, <4>3 DEF WInv, IsRow
        <5>2. RowInv(d)'
          BY <1>1, <1>2, <2>2, <2>3, <5>1, RaisedPoint DEF RowInv, Actors, Requests, IInv
        <5>3. RunInv(d)'
          BY <1>1, <1>2, <2>0, <2>2, <2>3, <5>1 DEF RunInv, Same, Loaders
        <5> QED
          BY <1>2, <2>0, <5>1, <5>2, <5>3 DEF WholeInv, Same
      <4> QED
        BY <4>2, <4>3
    <3> QED
      BY <3>6, <3>7, <3>8 DEF WInv
  <2> QED
    BY <2>4, <2>5 DEF IInv
<1> QED
  BY <1>3, <1>4

(* Replacements do not overlap, hence a beginning one finds none.          *)
LEMMA NoneUnderWay ==
  ASSUME Assumptions, MaxOverlap <= 1, Cardinality(Replacing) < MaxOverlap
  PROVE  Replacing = {}
<1>1. IsFiniteSet(Replacing)
  BY FS_Subset DEF Assumptions, DocumentsAssumption, Replacing
<1>2. Cardinality(Replacing) \in Nat
  BY <1>1, FS_CardinalityType
<1>3. Cardinality(Replacing) = 0
  BY <1>2 DEF Assumptions, DocumentsAssumption
<1> QED
  BY <1>1, <1>3, FS_EmptySet

(* A new generation is known to nobody, and its content is new.            *)
LEMMA BeginReplacementStep ==
  ASSUME IInv, Assumptions, NEW r \in Replacers, BeginReplacement(r)
  PROVE  IInv'
<1>1. /\ Exists /\ document \in Document /\ document.generation \in Nat \ {0}
      /\ r \in Actors /\ r \in Requests /\ run[r] = "waiting" /\ r \notin Workers /\ r \notin Deleters
      /\ UNCHANGED <<held, chunks, originals, snapshot, shared, mishaps>>
  BY DEF BeginReplacement, At, IInv, TInv, TypeOK, Exists, Document, Requests, Actors,
     Assumptions, DocumentsAssumption
<1>2. /\ document' \in Document /\ document'.generation = document.generation + 1
      /\ document'.content = New[r] /\ document'.status = "processing" /\ document'.task = NoTask
  BY <1>1, NoTaskIsTask DEF BeginReplacement, Document, Contents
<1>3. /\ previous' \in [Requests -> Document \cup {NoDocument}] /\ previous'[r] = document
      /\ \A s \in Requests \ {r} : previous'[s] = previous[s]
  BY <1>1 DEF BeginReplacement, IInv, TInv, TypeOK
<1>4. /\ run' \in [Actors -> Points] /\ run'[r] = "loading"
      /\ \A y \in Actors \ {r} : run'[y] = run[y]
      /\ \A y \in Actors : run'[y] \in PointsOf(y)
  <2>1. "loading" \in PointsOf(r)
    BY <1>1 DEF PointsOf, Ingesting
  <2> QED
    BY <1>1, <2>1, Goes DEF BeginReplacement, IInv
<1>5. Loaders' = Loaders /\ Replacing' = Replacing \cup {r} /\ Deleting' = Deleting
  BY <1>1, <1>4 DEF Loaders, Replacing, Deleting, Ingesting, Actors, Requests
<1>6. TInv'
  <2>1. TypeOK'
    BY <1>1, <1>2, <1>3, <1>4 DEF IInv, TInv, TypeOK
  <2>2. \A s \in Replacing' \cup Deleting' : previous'[s] # NoDocument
    BY <1>1, <1>3, <1>5 DEF IInv, TInv, Exists, Replacing, Deleting, Requests
  <2>3. \A s \in Replacing' : previous'[s].generation > 0
    BY <1>1, <1>3, <1>5 DEF IInv, TInv, Replacing, Requests
  <2>4. \A w \in Workers : run'[w] \in {"idle", "down"} => held'[w] = 0
    BY <1>1, <1>4 DEF IInv, TInv, Actors
  <2> QED
    BY <1>1, <1>2, <1>4, <2>1, <2>2, <2>3, <2>4 DEF IInv, TInv
<1>7. ASSUME MaxOverlap <= 1, ~shared'
      PROVE  WInv'
  <2>1. WInv /\ Replacing = {}
    BY <1>1, <1>7, NoneUnderWay DEF IInv, BeginReplacement
  <2>2. Exists' /\ Undoable(r)'
    BY <1>1, <1>2, <1>3, RowIsDocument DEF Undoable, Exists
  <2>3. RowInv(document) /\ RunInv(document) /\ WholeInv(document)
    BY <1>1, <2>1 DEF WInv, IsRow
  <2>4. Fresh(document.generation, Actors)'
    <3>1. \A w \in Workers : held[w] \in Nat
      BY DEF IInv, TInv, TypeOK
    <3>2. \A s \in Deleting : previous'[s] = previous[s]
      BY <1>1, <1>3 DEF Deleting, Requests
    <3> QED
      BY <1>1, <1>2, <1>5, <2>1, <3>1, <3>2 DEF WInv, Fresh
  <2>5. Fresh(document.generation + 1, Actors)'
    <3>1. \A w \in Workers : held'[w] \in Nat
      BY <1>6 DEF TInv, TypeOK
    <3>2. \A y \in Loaders' : snapshot'[y].generation \in Nat
      BY <1>6 DEF TInv, TypeOK, Loaders, Snapshot
    <3>3. \A s \in Deleting' : previous'[s].generation \in Nat
      BY <1>6 DEF TInv, TypeOK, Deleting, Document, Requests
    <3>4. document'.generation \in Nat
      BY <1>2 DEF Document
    <3> QED
      BY <2>4, <3>1, <3>2, <3>3, <3>4 DEF Fresh
  <2>6. ReplaceInv'
    <3>1. previous'[r].content # New[r]
      BY <1>1, <1>3, <2>3 DEF RowInv
    <3>2. Fresh(document.generation, Actors \ {r})'
      BY <2>4 DEF Fresh
    <3> QED
      BY <1>1, <1>2, <1>3, <1>4, <1>5, <2>1, <2>2, <3>1, <3>2 DEF ReplaceInv
  <2>7. ASSUME NEW d \in Document, IsRow(d)'
        PROVE  RowInv(d)' /\ RunInv(d)' /\ WholeInv(d)'
    <3>1. d = document' \/ d = document
      BY <1>3, <1>5, <2>1, <2>7 DEF IsRow
    <3>2. \A s \in Deleting : previous'[s] = previous[s]
      BY <1>1, <1>3 DEF Deleting, Requests
    <3>3. CASE d = document'
      <4>1. RowInv(d)'
        <5>1. \A s \in Deleting : previous[s].content # New[r]
          BY <1>1, <2>3 DEF RowInv
        <5> QED
          BY <1>1, <1>2, <1>4, <1>5, <2>4, <3>2, <2>3, <3>3, <5>1 DEF RowInv, Fresh, Actors,
             Requests, Document, Assumptions, DocumentsAssumption
      <4>2. RunInv(d)'
        BY <1>2, <1>5, <2>4, <3>3 DEF RunInv, Fresh, Document, Loaders
      <4> QED
        BY <1>2, <3>3, <4>1, <4>2 DEF WholeInv
    <3>4. CASE d = document
      <4>1. RowInv(d)'
        BY <1>1, <1>4, <1>5, <2>3, <3>2, <3>4 DEF RowInv, Actors, Requests
      <4>2. RunInv(d)'
        BY <1>1, <1>4, <1>5, <2>3, <3>4 DEF RunInv, Loaders, Ingesting
      <4> QED
        BY <1>1, <2>3, <3>4, <4>1, <4>2 DEF WholeInv
    <3> QED
      BY <3>1, <3>3, <3>4
  <2> QED
    BY <2>5, <2>6, <2>7 DEF WInv
<1> QED
  BY <1>6, <1>7 DEF IInv

(* A request ends.                                                         *)
LEMMA Ends ==
  ASSUME TInv, Assumptions, NEW r \in Requests, End(r), UNCHANGED held
  PROVE  /\ run' \in [Actors -> Points] /\ run'[r] = "ended"
         /\ \A y \in Actors \ {r} : run'[y] = run[y]
         /\ \A y \in Actors : run'[y] \in PointsOf(y)
         /\ \A w \in Workers : run'[w] \in {"idle", "down"} => held'[w] = 0
         /\ snapshot' \in [Actors -> Snapshot \cup {NoDocument}]
         /\ \A y \in Actors \ {r} : snapshot'[y] = snapshot[y]
         /\ previous' \in [Requests -> Document \cup {NoDocument}]
         /\ \A s \in Requests \ {r} : previous'[s] = previous[s]
         /\ Replacing' = Replacing \ {r} /\ Deleting' = Deleting \ {r} /\ Loaders' = Loaders \ {r}
         /\ \A s \in Replacing' \cup Deleting' : previous'[s] # NoDocument
         /\ \A s \in Replacing' : previous'[s].generation > 0
<1>1. r \in Actors /\ r \notin Workers
  BY DEF Actors, Assumptions, DocumentsAssumption
<1>2. /\ run' \in [Actors -> Points] /\ run'[r] = "ended"
      /\ \A y \in Actors \ {r} : run'[y] = run[y]
  BY <1>1 DEF End, TInv, TypeOK, Points
<1>3. \A y \in Actors : run'[y] \in PointsOf(y)
  BY <1>1, <1>2 DEF TInv, PointsOf
<1>4. \A w \in Workers : run'[w] \in {"idle", "down"} => held'[w] = 0
  BY <1>1, <1>2 DEF TInv, Actors
<1>5. /\ snapshot' \in [Actors -> Snapshot \cup {NoDocument}]
      /\ \A y \in Actors \ {r} : snapshot'[y] = snapshot[y]
  BY <1>1 DEF End, TInv, TypeOK
<1>6. /\ previous' \in [Requests -> Document \cup {NoDocument}]
      /\ \A s \in Requests \ {r} : previous'[s] = previous[s]
  BY <1>1 DEF End, TInv, TypeOK
<1>7. Replacing' = Replacing \ {r} /\ Deleting' = Deleting \ {r} /\ Loaders' = Loaders \ {r}
  BY <1>1, <1>2 DEF Replacing, Deleting, Loaders, Ingesting, Actors, Requests
<1>8. /\ \A s \in Replacing' \cup Deleting' : previous'[s] # NoDocument
      /\ \A s \in Replacing' : previous'[s].generation > 0
  BY <1>6, <1>7 DEF TInv, Replacing, Deleting, Requests
<1> QED
  BY <1>2, <1>3, <1>4, <1>5, <1>6, <1>7, <1>8

LEMMA EndsQuiet ==
  ASSUME TInv, Assumptions, NEW r \in Requests, End(r), UNCHANGED held
  PROVE  QuietRuns
<1>1. \A y \in Loaders' : y # r /\ y \in Loaders /\ run'[y] = run[y] /\ snapshot'[y] = snapshot[y]
  BY Ends DEF Loaders
<1>2. \A s \in Replacing' \cup Deleting' : s # r /\ s \in Requests /\ run'[s] = run[s] /\ previous'[s] = previous[s]
  BY Ends DEF Replacing, Deleting, Requests, Actors
<1>3. \A s \in Replacers : run'[s] = "waiting" => run[s] = "waiting"
  BY Ends DEF Requests, Actors
<1> QED
  BY <1>1, <1>2, <1>3, Ends DEF QuietRuns

(* The old original is not that of the document.                           *)
LEMMA DropOldOriginalStep ==
  ASSUME IInv, Assumptions, NEW r \in Replacers, DropOldOriginal(r)
  PROVE  IInv'
<1>1. /\ r \in Replacing /\ r \in Requests /\ run[r] = "dropping"
      /\ End(r) /\ originals' = Without(previous[r])
      /\ UNCHANGED <<held, document, chunks, shared, mishaps>>
  BY DEF DropOldOriginal, At, Replacing, Requests
<1>2. TInv'
  <2>1. originals' \subseteq Contents
    BY <1>1 DEF Without, IInv, TInv, TypeOK
  <2>2. TypeOK'
    BY <1>1, <2>1, Ends DEF IInv, TInv, TypeOK, Loaders
  <2> QED
    BY <1>1, <2>2, Ends DEF IInv, TInv, Exists
<1>3. ASSUME MaxOverlap <= 1, Exists', ~shared'
      PROVE  WInv'
  <2>1. Exists /\ WInv /\ document \in Document
    BY <1>1, <1>3 DEF IInv, TInv, TypeOK, Exists
  <2>2. Replacing' = {}
    <3>1. \A s \in Replacing : s = r
      BY <1>1, <2>1 DEF WInv, ReplaceInv
    <3>2. Replacing' = Replacing \ {r}
      BY <1>1, Ends DEF IInv
    <3> QED
      BY <3>1, <3>2
  <2>3. document.content # previous[r].content
    BY <1>1, <2>1 DEF WInv, ReplaceInv
  <2>4. QuietFiles
    BY <1>1, <2>2, <2>3 DEF QuietFiles, StaysRow, Without
  <2> QED
    BY <1>1, <2>1, <2>4, EndsQuiet, SameQuiet, QuietDrops DEF IInv
<1> QED
  BY <1>2, <1>3 DEF IInv

(* After a failure the document is the failed upload, which nobody else    *)
(* ingests, or under deletion.                                             *)
LEMMA DropFailedOriginalStep ==
  ASSUME IInv, Assumptions, NEW r \in Replacers, DropFailedOriginal(r)
  PROVE  IInv'
<1>1. /\ r \in Replacing /\ r \in Requests /\ r \in Actors /\ run[r] = "cleaning" /\ r \notin Workers
      /\ originals' = CurrentDropped(r) /\ Go(r, "restoring")
      /\ UNCHANGED <<held, document, chunks, snapshot, previous, shared, mishaps>>
  BY DEF DropFailedOriginal, At, Replacing, Requests, Actors, Assumptions, DocumentsAssumption
<1>2. Moves(r, "restoring")
  BY <1>1 DEF Moves, PointsOf, Ingesting
<1>3. Typed
  BY <1>1 DEF Typed, CurrentDropped, Without, IInv, TInv, TypeOK
<1>4. TInv'
  BY <1>1, <1>2, <1>3, MovesTypes DEF IInv
<1>5. ASSUME MaxOverlap <= 1, Exists', ~shared'
      PROVE  WInv'
  <2>1. Exists /\ WInv /\ document \in Document
    BY <1>1, <1>5 DEF IInv, TInv, TypeOK, Exists
  <2>2. QuietRuns
    BY <1>1, <1>2, MovesQuiet DEF IInv, Ingesting
  <2>3. Undoable(r) \/ document.status = "deleting"
    BY <1>1, <2>1 DEF WInv, ReplaceInv
  <2>4. document.status # "completed"
    BY <1>1, <2>1, <2>3 DEF WInv, ReplaceInv
  <2>5. \A d \in Document : StaysRow(d) => d = document \/ d.content # document.content
    <3> SUFFICES ASSUME NEW d \in Document, NEW s \in Replacing', d = previous[s]
                 PROVE  d.content # document.content
      BY DEF StaysRow
    <3>1. s \in Replacing
      BY <2>2 DEF QuietRuns
    <3>2. previous[s].content # New[s] /\ document.content = New[s]
      BY <2>1, <3>1 DEF WInv, ReplaceInv
    <3> QED
      BY <3>2
  <2>6. ~InUse(document)
    <3> SUFFICES ASSUME NEW x \in Loaders, snapshot[x].generation = document.generation, Undoable(r),
                        x # r
                 PROVE  FALSE
      BY <1>1, <1>2, <2>2, <2>3, <2>4, Goes DEF InUse, QuietRuns, Loaders, Ingesting, Moves, IInv
    <3>1. snapshot[x].generation < document.generation /\ document.generation \in Nat
      BY <1>1, <2>1 DEF WInv, ReplaceInv, Fresh, Loaders, Document
    <3> QED
      BY <3>1
  <2>7. QuietFiles
    BY <1>1, <2>1, <2>5, <2>6 DEF QuietFiles, CurrentDropped, Without
  <2> QED
    BY <1>1, <2>1, <2>2, <2>7, SameQuiet, QuietDrops DEF IInv
<1> QED
  BY <1>4, <1>5 DEF IInv

(* The previous row is as whole as it was, unless the chunks were written. *)
LEMMA RestoreStep ==
  ASSUME IInv, Assumptions, NEW r \in Replacers, Restore(r)
  PROVE  IInv'
<1>1. /\ r \in Replacing /\ r \in Requests /\ run[r] = "restoring" /\ End(r)
      /\ UNCHANGED <<held, chunks, originals, mishaps>>
      /\ document' = IF Undoable(r) THEN previous[r] ELSE document
      /\ ~shared' => ~shared /\ (Undoable(r) => chunks # document.content)
      /\ shared' \in BOOLEAN
  BY DEF Restore, At, Replacing, Requests, Undoable, IInv, TInv, TypeOK
<1>2. previous[r] \in Document /\ previous[r].generation \in Nat \ {0}
  BY <1>1 DEF IInv, TInv, TypeOK, Document
<1>3. TInv'
  <2>1. TypeOK'
    BY <1>1, <1>2, Ends DEF IInv, TInv, TypeOK, Loaders
  <2>2. Exists' => document'.generation > 0
    BY <1>1, <1>2 DEF IInv, TInv, Exists
  <2> QED
    BY <1>1, <2>1, <2>2, Ends DEF IInv, TInv
<1>4. ASSUME MaxOverlap <= 1, Exists', ~shared'
      PROVE  WInv'
  <2>1. Exists /\ WInv /\ document \in Document
    BY <1>1, <1>4 DEF IInv, TInv, TypeOK, Exists, Undoable
  <2>2. CASE ~Undoable(r)
    BY <1>1, <2>1, <2>2, EndsQuiet, SameQuiet, QuietKeeps DEF IInv
  <2>3. CASE Undoable(r)
    <3>1. document' = previous[r] /\ chunks # document.content /\ document.generation = previous[r].generation + 1
      BY <1>1, <1>4, <2>3 DEF Undoable
    <3>2. Replacing' = {}
      <4>1. \A s \in Replacing : s = r
        BY <1>1, <2>1 DEF WInv, ReplaceInv
      <4>2. Replacing' = Replacing \ {r}
        BY <1>1, Ends DEF IInv
      <4> QED
        BY <4>1, <4>2
    <3>3. RowInv(previous[r]) /\ RunInv(previous[r]) /\ WholeInv(previous[r])
      BY <1>1, <1>2, <2>1, <2>3 DEF WInv, IsRow
    <3>4. Fresh(document.generation + 1, Actors)'
      <4>1. Fresh(document.generation, Actors \ {r})
        BY <1>1, <2>1, <2>3 DEF WInv, ReplaceInv
      <4> QED
        BY <1>1, <3>1, <4>1, Ends DEF IInv, Fresh, Loaders, Deleting, Requests
    <3>5. ReplaceInv'
      BY <3>2 DEF ReplaceInv
    <3>6. ASSUME NEW d \in Document, IsRow(d)'
          PROVE  RowInv(d)' /\ RunInv(d)' /\ WholeInv(d)'
      <4>1. d = previous[r]
        BY <3>1, <3>2, <3>6 DEF IsRow
      <4>2. RowInv(d)'
        BY <1>1, <3>3, <4>1, Ends DEF IInv, RowInv, Deleting, Actors, Requests
      <4>3. RunInv(d)'
        BY <1>1, <3>1, <3>3, <4>1, Ends DEF IInv, RunInv, Loaders
      <4> QED
        BY <1>1, <3>1, <3>3, <4>1, <4>2, <4>3 DEF WholeInv
    <3> QED
      BY <3>4, <3>5, <3>6 DEF WInv
  <2> QED
    BY <2>2, <2>3
<1> QED
  BY <1>3, <1>4 DEF IInv

(* A deletion takes a generation that nobody knows, so that it fences      *)
(* everybody.                                                              *)
LEMMA BeginDeleteStep ==
  ASSUME IInv, Assumptions, NEW r \in Deleters, BeginDelete(r)
  PROVE  IInv'
<1>1. /\ Exists /\ document \in Document /\ document.generation \in Nat \ {0}
      /\ r \in Actors /\ r \in Requests /\ run[r] = "waiting" /\ r \notin Workers /\ r \notin Replacers
      /\ UNCHANGED <<held, chunks, originals, snapshot, shared, mishaps>>
  BY DEF BeginDelete, At, IInv, TInv, TypeOK, Exists, Document, Requests, Actors, Assumptions,
     DocumentsAssumption
<1>2. /\ document' \in Document /\ document'.generation = document.generation + 1
      /\ document'.content = document.content /\ document'.status = "deleting"
  <2>1. document' = [document EXCEPT !.generation = @ + 1, !.status = "deleting"]
    BY DEF BeginDelete
  <2> QED
    BY <1>1, <2>1, GenerationSet
<1>3. /\ previous' \in [Requests -> Document \cup {NoDocument}] /\ previous'[r] = document'
      /\ \A s \in Requests \ {r} : previous'[s] = previous[s]
  BY <1>1, <1>2 DEF BeginDelete, IInv, TInv, TypeOK
<1>4. /\ run' \in [Actors -> Points] /\ run'[r] = "purging"
      /\ \A y \in Actors \ {r} : run'[y] = run[y]
      /\ \A y \in Actors : run'[y] \in PointsOf(y)
  <2>1. "purging" \in PointsOf(r)
    BY <1>1 DEF PointsOf
  <2> QED
    BY <1>1, <2>1, Goes DEF BeginDelete, IInv
<1>5. Loaders' = Loaders /\ Replacing' = Replacing /\ Deleting' = Deleting \cup {r}
  BY <1>1, <1>4 DEF Loaders, Replacing, Deleting, Ingesting, Actors, Requests
<1>6. TInv'
  <2>1. TypeOK'
    BY <1>1, <1>2, <1>3, <1>4 DEF IInv, TInv, TypeOK, Ingesting
  <2>2. \A s \in Replacing' \cup Deleting' : previous'[s] # NoDocument
    BY <1>1, <1>2, <1>3, <1>5, RowIsDocument DEF IInv, TInv, Replacing, Deleting, Requests
  <2>3. \A s \in Replacing' : previous'[s].generation > 0
    BY <1>1, <1>3, <1>5 DEF IInv, TInv, Replacing, Requests
  <2>4. \A w \in Workers : run'[w] \in {"idle", "down"} => held'[w] = 0
    BY <1>1, <1>4 DEF IInv, TInv, Actors
  <2> QED
    BY <1>1, <1>2, <1>4, <2>1, <2>2, <2>3, <2>4 DEF IInv, TInv
<1>7. ASSUME MaxOverlap <= 1, ~shared'
      PROVE  WInv'
  <2>1. WInv
    BY <1>1, <1>7 DEF IInv
  <2>2. RowInv(document) /\ RunInv(document) /\ WholeInv(document)
    BY <1>1, <2>1 DEF WInv, IsRow
  <2>3. \A s \in Replacing \cup Deleting : previous'[s] = previous[s] /\ previous[s].generation \in Nat
    BY <1>1, <1>3 DEF IInv, TInv, TypeOK, Document, Replacing, Deleting, Requests
  <2>4. \A s \in Replacing : ~Undoable(s)'
    <3>1. \A s \in Replacing : previous'[s].generation < document.generation
      BY <2>1, <2>3 DEF WInv, ReplaceInv
    <3>2. \A s \in Replacing : document'.generation # previous'[s].generation + 1
      BY <1>1, <1>2, <2>3, <3>1
    <3> QED
      BY <3>2 DEF Undoable
  <2>5. Fresh(document.generation + 1, Actors)'
    <3>1. \A w \in Workers : held[w] \in Nat
      BY DEF IInv, TInv, TypeOK
    <3>2. \A y \in Loaders : snapshot[y].generation \in Nat
      BY DEF IInv, TInv, TypeOK, Loaders, Snapshot
    <3> QED
      BY <1>1, <1>2, <1>3, <1>5, <2>1, <2>3, <3>1, <3>2 DEF WInv, Fresh
  <2>6. ReplaceInv'
    <3> SUFFICES ASSUME NEW s \in Replacing
                 PROVE  /\ \A t \in Replacing : t = s
                        /\ previous[s].content # New[s]
                        /\ document'.content = New[s] /\ previous[s].generation < document'.generation
      BY <1>2, <1>5, <2>3, <2>4 DEF ReplaceInv
    <3>1. /\ \A t \in Replacing : t = s
          /\ previous[s].content # New[s]
          /\ document.content = New[s] /\ previous[s].generation < document.generation
      BY <2>1 DEF WInv, ReplaceInv
    <3> QED
      BY <1>1, <1>2, <2>3, <3>1
  <2>7. ASSUME NEW d \in Document, IsRow(d)'
        PROVE  RowInv(d)' /\ RunInv(d)' /\ WholeInv(d)'
    <3>1. d = document'
      BY <1>5, <2>4, <2>7 DEF IsRow
    <3>2. Fresh(document.generation + 1, Actors)
      BY <2>1 DEF WInv
    <3>3. RowInv(d)'
      BY <1>1, <1>2, <1>3, <1>4, <1>5, <2>2, <2>3, <3>1, <3>2 DEF RowInv, Fresh, Actors, Requests
    <3>4. RunInv(d)'
      BY <1>1, <1>2, <1>5, <3>1, <3>2 DEF RunInv, Fresh, Loaders
    <3> QED
      BY <1>2, <3>1, <3>3, <3>4 DEF WholeInv
  <2> QED
    BY <2>5, <2>6, <2>7 DEF WInv
<1> QED
  BY <1>6, <1>7 DEF IInv

LEMMA PurgeStep ==
  ASSUME IInv, Assumptions, NEW r \in Deleters, Purge(r)
  PROVE  IInv'
<1>1. /\ r \in Deleting /\ r \in Requests /\ r \in Actors /\ run[r] = "purging" /\ r \notin Workers
      /\ r \notin Replacers
      /\ Go(r, "dropping")
      /\ UNCHANGED <<held, document, originals, snapshot, previous, shared, mishaps>>
      /\ chunks' = chunks \/ (Exists /\ document.generation = previous[r].generation /\ chunks' = NoContent)
  BY DEF Purge, At, Deleting, Requests, Actors, Assumptions, DocumentsAssumption
<1>2. Moves(r, "dropping")
  BY <1>1 DEF Moves, PointsOf, Ingesting
<1>3. TInv'
  <2>1. Typed
    BY <1>1 DEF Typed, IInv, TInv, TypeOK
  <2> QED
    BY <1>1, <1>2, <2>1, MovesTypes DEF IInv
<1>4. QuietRuns
  <2>1. /\ run' \in [Actors -> Points] /\ run'[r] = "dropping"
        /\ \A y \in Actors \ {r} : run'[y] = run[y]
    BY <1>1, <1>2, Goes DEF Moves, IInv
  <2>2. Replacing' = Replacing /\ Deleting' = Deleting /\ Loaders' = Loaders
    BY <1>1, <2>1 DEF Replacing, Deleting, Loaders, Ingesting, Actors, Requests
  <2>3. \A x \in Loaders : x # r
    BY <1>1 DEF Loaders, Ingesting
  <2> QED
    BY <1>1, <2>1, <2>2, <2>3 DEF QuietRuns, Loaders, Replacing, Actors, Requests
<1>5. ASSUME MaxOverlap <= 1, Exists', ~shared'
      PROVE  WInv'
  <2>1. Exists /\ WInv /\ document \in Document
    BY <1>1, <1>5 DEF IInv, TInv, TypeOK, Exists
  <2>2. ASSUME document.generation = previous[r].generation, NEW d \in Document, StaysRow(d)
        PROVE  d.status = "deleting"
    <3>1. CASE d = document
      BY <1>1, <2>1, <2>2, <3>1 DEF WInv, IsRow, RowInv
    <3>2. CASE d # document
      <4>1. PICK s \in Replacing : Undoable(s)
        BY <1>4, <2>2, <3>2 DEF StaysRow, QuietRuns
      <4>2. previous[r].generation < document.generation /\ document.generation \in Nat
        BY <1>1, <2>1, <4>1 DEF WInv, ReplaceInv, Fresh, Document
      <4> QED
        BY <2>2, <4>2
    <3> QED
      BY <3>1, <3>2
  <2>3. QuietFiles
    BY <1>1, <2>2 DEF QuietFiles
  <2> QED
    BY <1>1, <1>4, <2>1, <2>3, SameQuiet, QuietDrops DEF IInv
<1> QED
  BY <1>3, <1>5 DEF IInv

LEMMA DropOriginalStep ==
  ASSUME IInv, Assumptions, NEW r \in Deleters, DropOriginal(r)
  PROVE  IInv'
<1>1. /\ r \in Deleting /\ r \in Requests /\ r \in Actors /\ run[r] = "dropping" /\ r \notin Workers
      /\ r \notin Replacers
      /\ Go(r, "removing") /\ originals' = Without(previous[r])
      /\ UNCHANGED <<held, document, chunks, snapshot, previous, shared, mishaps>>
  BY DEF DropOriginal, At, Deleting, Requests, Actors, Assumptions, DocumentsAssumption
<1>2. Moves(r, "removing")
  BY <1>1 DEF Moves, PointsOf, Ingesting
<1>3. TInv'
  <2>1. Typed
    BY <1>1 DEF Typed, Without, IInv, TInv, TypeOK
  <2> QED
    BY <1>1, <1>2, <2>1, MovesTypes DEF IInv
<1>4. QuietRuns
  BY <1>1, <1>2, MovesQuiet DEF IInv, Ingesting
<1>5. ASSUME MaxOverlap <= 1, Exists', ~shared'
      PROVE  WInv'
  <2>1. Exists /\ WInv /\ document \in Document
    BY <1>1, <1>5 DEF IInv, TInv, TypeOK, Exists
  <2>2. ASSUME NEW d \in Document, StaysRow(d), InUse(d)
        PROVE  d.content # previous[r].content
    <3>1. IsRow(d)
      BY <1>4, <2>2 DEF StaysRow, IsRow, QuietRuns
    <3> QED
      BY <1>1, <2>1, <2>2, <3>1 DEF WInv, RowInv, InUse
  <2>3. QuietFiles
    BY <1>1, <2>2 DEF QuietFiles, Without
  <2> QED
    BY <1>1, <1>4, <2>1, <2>3, SameQuiet, QuietDrops DEF IInv
<1> QED
  BY <1>3, <1>5 DEF IInv

LEMMA RemoveStep ==
  ASSUME IInv, Assumptions, NEW r \in Deleters, Remove(r)
  PROVE  IInv'
<1>1. /\ r \in Requests /\ End(r) /\ document' = NoDocument /\ chunks' = NoContent
      /\ UNCHANGED <<held, originals, shared, mishaps>>
  BY DEF Remove, Requests
<1>2. TypeOK'
  BY <1>1, Ends DEF IInv, TInv, TypeOK, Loaders
<1>3. ~Exists'
  BY <1>1 DEF Exists
<1> QED
  BY <1>1, <1>2, <1>3, Ends DEF IInv, TInv

LEMMA IngestStep ==
  ASSUME IInv, Assumptions, NEW x \in Actors, Ingest(x)
  PROVE  IInv'
  BY LoadStep, StoreStep, ParseStep, MarkFailedStep, PersistStep, FinalizeStep DEF Ingest

LEMMA WorkerStep ==
  ASSUME IInv, Assumptions, NEW w \in Workers, Work(w) \/ Heartbeat(w) \/ Cancel(w) \/ Crash(w)
  PROVE  IInv'
<1>1. w \in Actors
  BY DEF Actors
<1> QED
  BY <1>1, ClaimStep, BeginTaskStep, IngestStep, EndTaskStep, StartStep, HeartbeatStep, CancelStep,
     CrashStep DEF Work

LEMMA RequestStep ==
  ASSUME IInv, Assumptions, NEW r \in Requests, Serve(r)
  PROVE  IInv'
<1>1. r \in Actors
  BY DEF Actors
<1> QED
  BY <1>1, IngestStep, DropOldOriginalStep, DropFailedOriginalStep, RestoreStep, PurgeStep,
     DropOriginalStep, RemoveStep DEF Serve

LEMMA InvariantStart ==
  ASSUME Assumptions, Init
  PROVE  IInv
<1>1. /\ document \in Document /\ document.generation = 1 /\ document.content = Upload
      /\ document.status = "queued"
  BY NoTaskIsTask DEF Init, Document, Contents
<1>2. /\ Loaders = {} /\ Replacing = {} /\ Deleting = {}
      /\ run \in [Actors -> Points] /\ \A x \in Actors : run[x] \in PointsOf(x)
  BY DEF Init, Loaders, Replacing, Deleting, Ingesting, Actors, Requests, Points, PointsOf,
     Assumptions,
         DocumentsAssumption
<1>3. TInv
  <2>1. TypeOK
    <3>1. \A x \in Actors : run[x] \notin Ingesting
      BY DEF Init, Ingesting
    <3> QED
      BY <1>1, <1>2, <3>1 DEF Init, TypeOK
  <2>2. \A w \in Workers : held[w] = 0
    BY DEF Init
  <2> QED
    BY <1>1, <1>2, <2>1, <2>2 DEF TInv
<1>4. WInv
  <2>1. \A d \in Document : IsRow(d) => d = document
    BY <1>2 DEF IsRow
  <2> QED
    BY <1>1, <1>2, <2>1 DEF Init, WInv, Fresh, ReplaceInv, RowInv, RunInv, WholeInv,
       Assumptions, DocumentsAssumption
<1> QED
  BY <1>3, <1>4 DEF IInv

LEMMA InvariantStep ==
  ASSUME IInv, Assumptions, [Next]_vars
  PROVE  IInv'
<1>1. CASE Next
  BY <1>1, WorkerStep, IngestionFailsStep, WriteFailsStep, BeginReplacementStep, BeginDeleteStep,
     RequestStep, RetryStep, LeaseExpiresStep DEF Next
<1>2. CASE UNCHANGED vars
  BY <1>2 DEF vars, IInv, TInv, TypeOK, WInv, Fresh, ReplaceInv, RowInv, RunInv, WholeInv,
     IsRow, Undoable,
     Loaders, Replacing, Deleting, Exists
<1> QED
  BY <1>1, <1>2

(* The invariant holds of every behaviour.                                 *)
LEMMA Invariant ==
  ASSUME Assumptions
  PROVE  Spec => []IInv
<1>1. Init => IInv
  BY InvariantStart
<1>2. IInv /\ [Next]_vars => IInv'
  BY InvariantStep
<1> QED
  BY <1>1, <1>2, PTL DEF Spec

-----------------------------------------------------------------------------
(* Every variable keeps its type, for any workers and any requests,        *)
(* overlapping or not.  In particular no ingestion goes on without the     *)
(* snapshot it has loaded (ingestion_service.py:225).                      *)
THEOREM TypeCorrect ==
  Spec => []TypeOK
<1>1. IInv => TypeOK
  BY DEF IInv, TInv
<1>2. Assumptions
  BY DocumentsAssumption, NoDocumentAssumption DEF Assumptions
<1> QED
  BY <1>1, <1>2, Invariant, PTL

(* A completed document has the chunks of its own content and its durable  *)
(* original, for any number of workers, failures, crashes and deletions,   *)
(* as long as replacements follow one another: the generation fences every *)
(* write of chunks and status (ingestion_service.py:521), and the          *)
(* snapshots by which replacements and deletions drop originals are not of *)
(* a content that somebody completes.                                      *)
THEOREM CompletedStaysWhole ==
  ASSUME MaxOverlap <= 1
  PROVE  Spec => []CompletedIsWhole
<1>1. IInv => CompletedIsWhole
  <2> SUFFICES ASSUME IInv, Completed, ~shared
               PROVE  chunks = document.content /\ document.original = "durable" /\ document.content \in originals
    BY DEF CompletedIsWhole
  <2>1. document \in Document /\ WInv
    BY DEF IInv, TInv, TypeOK, Completed, Exists
  <2> QED
    BY <2>1 DEF WInv, IsRow, WholeInv, Completed
<1>2. Assumptions
  BY DocumentsAssumption, NoDocumentAssumption DEF Assumptions
<1> QED
  BY <1>1, <1>2, Invariant, PTL

-----------------------------------------------------------------------------
(* An original is that of the document, or the one a replacement has put   *)
(* aside.                                                                  *)
HasOwner(c) ==
  \/ document.content = c /\ document.original = "durable"
  \/ \E r \in Replacing : previous[r].content = c /\ previous[r].original = "durable"

(* What holds without failures and deletions: every original has an owner, *)
(* and a replacement that goes back has dropped its own.                   *)
Accounted ==
  /\ \A r \in Deleters : run[r] = "waiting"
  /\ document.status # "deleting"
  /\ \A r \in Replacing : previous[r].status # "deleting"
  /\ \A c \in originals : HasOwner(c)
  /\ \A r \in Replacing : run[r] = "restoring" => document.content \notin originals

(* No failure, no deletion under way.                                      *)
Calm == MaxOverlap <= 1 /\ Exists /\ mishaps = 0 /\ ~shared /\ Deleting = {}

FilesInv == Calm => Accounted

(* Steps that touch neither originals nor what owns them.                  *)
LEMMA FilesStay ==
  ASSUME NEW x \in Actors \ Deleters,
         IInv, Accounted, Assumptions, Exists, Same(document', document), document'.status # "deleting",
         UNCHANGED <<originals, previous>>,
         \A y \in Actors \ {x} : run'[y] = run[y],
         x \in Requests => run[x] \notin {"waiting", "ended"} /\ run'[x] \notin {"waiting", "ended", "restoring"}
  PROVE  Accounted'
<1>1. Replacing' = Replacing
  BY DEF Replacing, Actors, Requests
<1>2. \A r \in Deleters : run'[r] = "waiting"
  BY DEF Accounted, Actors, Requests
<1>3. \A c \in originals' : HasOwner(c)'
  BY <1>1 DEF Accounted, HasOwner, Same
<1>4. \A r \in Replacing' : run'[r] = "restoring" => document'.content \notin originals'
  BY <1>1 DEF Accounted, Same, Replacing, Actors, Requests
<1> QED
  BY <1>1, <1>2, <1>3, <1>4 DEF Accounted

LEMMA SameRow ==
  ASSUME IInv, Exists
  PROVE  document \in Document /\ Same(document, document)
  BY DEF IInv, TInv, TypeOK, Exists, Same

(* The steps of the queue, of ingestions and of replacements.              *)
LEMMA WorkerFiles ==
  ASSUME IInv, FilesInv, Assumptions, NEW w \in Workers, Calm',
         claim_next(w) \/ BeginTask(w) \/ EndTask(w) \/ Start(w) \/ Heartbeat(w)
  PROVE  Accounted'
<1>1. w \in Actors \ Deleters /\ w \notin Requests /\ w \in Actors
  BY DEF Actors, Requests, Assumptions, DocumentsAssumption
<1>2. /\ \A y \in Actors \ {w} : run'[y] = run[y]
      /\ UNCHANGED <<originals, previous, mishaps>> /\ (shared => shared')
  BY DEF claim_next, BeginTask, EndTask, Start, Heartbeat, Go, IInv, TInv, TypeOK
<1>3. Deleting' = Deleting
  BY <1>1, <1>2 DEF Deleting, Requests, Actors
<1>4. Exists
  BY DEF Calm, Exists, claim_next, Claimable, BeginTask, EndTask, Owned, Start, Recovered, Heartbeat
<1>5. Accounted /\ document \in Document /\ WInv
  <2>1. Calm
    BY <1>2, <1>3, <1>4 DEF Calm
  <2>2. Accounted /\ WInv
    BY <2>1 DEF FilesInv, Calm, IInv
  <2> QED
    BY <1>4, <2>2, SameRow
<1>6. Same(document', document) /\ document'.status # "deleting"
  <2>1. CASE claim_next(w)
    BY <1>4, <1>5, <2>1, ExhaustedRow, ClaimedRow DEF claim_next
  <2>2. CASE BeginTask(w) \/ Heartbeat(w)
    BY <1>4, <1>5, <2>2, LeaseSet, SameRow DEF BeginTask, Heartbeat, Renewed, Accounted
  <2>3. CASE EndTask(w)
    BY <1>4, <1>5, <2>3, ReleasedRow, RequeuedRow, SameRow DEF EndTask, Accounted, At
  <2>4. CASE Start(w)
    BY <1>4, <1>5, <2>4, Queued, SameRow DEF Start, Recovered, Accounted
  <2> QED
    BY <2>1, <2>2, <2>3, <2>4
<1> QED
  BY <1>1, <1>2, <1>4, <1>5, <1>6, FilesStay

LEMMA IngestFiles ==
  ASSUME IInv, FilesInv, Assumptions, NEW x \in Actors, Calm', Ingest(x)
  PROVE  Accounted'
<1>1. run[x] \in Ingesting
  BY DEF Ingest, Load, Store, Parse, MarkFailed, Persist, Finalize, At, Ingesting
<1>2. x \in Actors \ Deleters
  BY <1>1 DEF IInv, TInv, PointsOf, Ingesting, Assumptions, DocumentsAssumption, Actors, Requests
<1>3. /\ \A y \in Actors \ {x} : run'[y] = run[y]
      /\ UNCHANGED <<previous, mishaps>> /\ (shared => shared')
  BY DEF Ingest, Load, Store, Parse, MarkFailed, Persist, Finalize, Go, IInv, TInv, TypeOK
<1>4. Deleting' = Deleting
  BY <1>2, <1>3 DEF Deleting, Requests, Actors
<1>5. Exists
  BY DEF Calm, Exists, Ingest, Load, Store, Parse, MarkFailed, Persist, Finalize, Current
<1>6. Accounted /\ document \in Document /\ WInv
  <2>1. Calm
    BY <1>3, <1>4, <1>5 DEF Calm
  <2>2. Accounted /\ WInv
    BY <2>1 DEF FilesInv, Calm, IInv
  <2> QED
    BY <1>5, <2>2, SameRow
<1>7. x \in Requests => run[x] \notin {"waiting", "ended"} /\ run'[x] \notin {"waiting", "ended", "restoring"}
  BY <1>1, RaisedPoint DEF Ingest, Load, Store, Parse, MarkFailed, Persist, Finalize, Go, IInv,
     TInv, TypeOK, Ingesting, Raised, Returned
<1>8. CASE Load(x) \/ Parse(x) \/ MarkFailed(x) \/ Persist(x) \/ Finalize(x)
  <2>1. UNCHANGED originals
    BY <1>8 DEF Load, Parse, MarkFailed, Persist, Finalize
  <2>2. \/ document' = document
        \/ \E s \in {"processing", "failed", "completed"} : document' = [document EXCEPT !.status = s]
    BY <1>8 DEF Load, Parse, MarkFailed, Persist, Finalize
  <2>3. Same(document', document) /\ document'.status # "deleting"
    <3>1. CASE document' = document
      BY <1>5, <1>6, <3>1, SameRow DEF Accounted
    <3>2. ASSUME NEW s \in {"processing", "failed", "completed"}, document' = [document EXCEPT !.status = s]
          PROVE  Same(document', document) /\ document'.status # "deleting"
      BY <1>6, <3>2, StatusSet
    <3> QED
      BY <2>2, <3>1, <3>2
  <2> QED
    BY <1>2, <1>3, <1>5, <1>6, <1>7, <2>1, <2>3, FilesStay
<1>9. CASE Store(x)
  <2>1. CASE document' = document /\ UNCHANGED originals
    BY <1>2, <1>3, <1>5, <1>6, <1>7, <2>1, FilesStay, SameRow DEF Accounted
  <2>2. CASE /\ Current(x) /\ document' = [document EXCEPT !.original = "durable"]
             /\ originals' = originals \cup {snapshot[x].content} /\ At(x, "storing")
    <3>1. /\ document'.content = document.content /\ document'.status = document.status
          /\ document'.original = "durable"
      BY <1>6, <2>2, OriginalSet
    <3>2. x \in Loaders /\ snapshot[x].generation = document.generation
      BY <2>2 DEF At, Loaders, Ingesting, Current
    <3>3. snapshot[x].content = document.content
      BY <1>6, <3>2 DEF WInv, IsRow, RunInv
    <3>4. Replacing' = Replacing
      BY <1>3, <1>7 DEF Replacing, Actors, Requests
    <3>5. \A r \in Replacing : run'[r] # "restoring"
      <4> SUFFICES ASSUME NEW r \in Replacing, r # x
                   PROVE  FALSE
        BY <1>7 DEF Replacing, Requests
      <4>1. Undoable(r)
        BY <1>6 DEF WInv, ReplaceInv, Accounted
      <4>2. snapshot[x].generation < document.generation /\ document.generation \in Nat
        BY <1>6, <3>2, <4>1 DEF WInv, ReplaceInv, Fresh, Document
      <4> QED
        BY <3>2, <4>2
    <3>6. \A c \in originals' : HasOwner(c)'
      BY <1>3, <1>6, <2>2, <3>1, <3>3, <3>4 DEF Accounted, HasOwner
    <3>7. \A r \in Deleters : run'[r] = "waiting"
      BY <1>2, <1>3, <1>6 DEF Accounted, Actors, Requests
    <3> QED
      BY <1>3, <1>6, <3>1, <3>4, <3>5, <3>6, <3>7 DEF Accounted
  <2> QED
    BY <1>9, <2>1, <2>2 DEF Store
<1> QED
  BY <1>8, <1>9 DEF Ingest

LEMMA ReplacerFiles ==
  ASSUME IInv, FilesInv, Assumptions, NEW r \in Replacers, Calm',
         \/ BeginReplacement(r) \/ DropOldOriginal(r) \/ DropFailedOriginal(r) \/ Restore(r)
  PROVE  Accounted'
<1>1. r \in Requests /\ r \in Actors /\ r \notin Deleters /\ r \notin Workers
  BY DEF Requests, Actors, Assumptions, DocumentsAssumption
<1>2. /\ \A y \in Actors \ {r} : run'[y] = run[y]
      /\ UNCHANGED mishaps /\ (shared => shared')
  BY DEF BeginReplacement, DropOldOriginal, DropFailedOriginal, Restore, End, Go, IInv, TInv, TypeOK
<1>3. Deleting' = Deleting
  BY <1>1, <1>2 DEF Deleting, Requests, Actors
<1>4. Exists
  BY DEF Calm, Exists, BeginReplacement, DropOldOriginal, DropFailedOriginal, Restore
<1>5. Accounted /\ document \in Document /\ WInv
  <2>1. Calm
    BY <1>2, <1>3, <1>4 DEF Calm
  <2>2. Accounted /\ WInv
    BY <2>1 DEF FilesInv, Calm, IInv
  <2> QED
    BY <1>4, <2>2, SameRow
<1>6. \A s \in Deleters : run'[s] = "waiting"
  BY <1>1, <1>2, <1>5 DEF Accounted, Actors, Requests
<1>7. CASE BeginReplacement(r)
  <2>1. Replacing = {} /\ run'[r] = "loading" /\ previous'[r] = document
    BY <1>1, <1>7, NoneUnderWay DEF BeginReplacement, Go, IInv, TInv, TypeOK, Calm
  <2>2. Replacing' = {r}
    BY <1>1, <1>2, <2>1 DEF Replacing, Actors, Requests
  <2>3. document'.status = "processing" /\ originals' = originals
    BY <1>7 DEF BeginReplacement
  <2>4. \A c \in originals' : HasOwner(c)'
    BY <1>5, <2>1, <2>2, <2>3 DEF Accounted, HasOwner
  <2> QED
    BY <1>5, <1>6, <2>1, <2>2, <2>3, <2>4 DEF Accounted
<1>8. CASE ~BeginReplacement(r)
  <2>1. r \in Replacing
    BY <1>8 DEF Replacing, DropOldOriginal, DropFailedOriginal, Restore, At
  <2>2. /\ Undoable(r) /\ \A s \in Replacing : s = r
        /\ document.content # previous[r].content
    BY <1>5, <2>1 DEF WInv, ReplaceInv, Accounted
  <2>3. Replacing = {r}
    BY <2>1, <2>2
  <2>4. \A c \in originals : HasOwner(c)
    BY <1>5 DEF Accounted
  <2>5. CASE DropOldOriginal(r)
    <3>1. Replacing' = {} /\ document' = document /\ originals' = Without(previous[r])
      BY <1>1, <2>3, <2>5, Ends DEF DropOldOriginal, IInv
    <3>2. \A c \in originals' : HasOwner(c)'
      BY <2>3, <2>4, <3>1 DEF Without, HasOwner
    <3> QED
      BY <1>5, <1>6, <3>1, <3>2 DEF Accounted
  <2>6. CASE DropFailedOriginal(r)
    <3>1. /\ document' = document /\ previous' = previous /\ originals' = Without(document)
          /\ run'[r] = "restoring"
      BY <1>1, <1>4, <2>6 DEF DropFailedOriginal, CurrentDropped, Go, IInv, TInv, TypeOK
    <3>2. Replacing' = Replacing
      BY <1>1, <1>2, <2>1, <3>1 DEF Replacing, Actors, Requests
    <3>3. \A c \in originals' : HasOwner(c)'
      BY <2>4, <3>1, <3>2 DEF Without, HasOwner
    <3>4. document.content \notin originals'
      BY <2>2, <2>3, <2>4, <3>1 DEF Without, HasOwner
    <3> QED
      BY <1>5, <1>6, <3>1, <3>2, <3>3, <3>4 DEF Accounted
  <2>7. CASE Restore(r)
    <3>1. document' = previous[r] /\ originals' = originals /\ Replacing' = {}
      BY <1>1, <2>2, <2>3, <2>7, Ends DEF Restore, IInv, Undoable
    <3>2. document.content \notin originals
      BY <1>5, <2>1, <2>7 DEF Accounted, Restore, At
    <3>3. \A c \in originals' : HasOwner(c)'
      BY <2>3, <2>4, <3>1, <3>2 DEF HasOwner
    <3>4. previous[r].status # "deleting"
      BY <1>5, <2>1 DEF Accounted
    <3> QED
      BY <1>6, <3>1, <3>3, <3>4 DEF Accounted
  <2> QED
    BY <1>8, <2>5, <2>6, <2>7
<1> QED
  BY <1>7, <1>8

(* The others fail, or delete the document in the end.                     *)
LEMMA FilesInvNext ==
  ASSUME IInv, FilesInv, Assumptions, [Next]_vars
  PROVE  FilesInv'
<1> SUFFICES ASSUME Calm'
             PROVE  Accounted'
  BY DEF FilesInv
<1>1. ASSUME NEW w \in Workers, Cancel(w) \/ Crash(w)
      PROVE  FALSE
  BY <1>1 DEF Cancel, Crash, Mishap, Calm, IInv, TInv, TypeOK
<1>2. ASSUME NEW x \in Actors, IngestionFails(x) \/ WriteFails(x)
      PROVE  FALSE
  BY <1>2 DEF IngestionFails, WriteFails, Mishap, Calm, IInv, TInv, TypeOK
<1>3. CASE Retry
  BY <1>3 DEF Retry, Mishap, Calm, IInv, TInv, TypeOK
<1>4. ASSUME NEW r \in Deleters, BeginDelete(r)
      PROVE  FALSE
  <2>1. r \in Actors
    BY DEF Actors, Requests
  <2>2. run'[r] = "purging"
    BY <1>4, <2>1 DEF BeginDelete, Go, IInv, TInv, TypeOK
  <2> QED
    BY <2>2 DEF Calm, Deleting
<1>5. ASSUME NEW r \in Deleters, Purge(r) \/ DropOriginal(r) \/ Remove(r)
      PROVE  FALSE
  <2>1. r \in Actors
    BY DEF Actors, Requests
  <2>2. Remove(r) \/ run'[r] \in {"dropping", "removing"}
    BY <1>5, <2>1 DEF Purge, DropOriginal, Go, IInv, TInv, TypeOK
  <2>3. ~Remove(r)
    BY DEF Remove, Calm, Exists
  <2> QED
    BY <2>2, <2>3 DEF Calm, Deleting
<1>6. CASE LeaseExpires
  <2>1. Exists /\ document \in Document /\ UNCHANGED <<originals, run, previous, shared>>
        /\ (mishaps' = mishaps \/ mishaps' = mishaps + 1)
    BY <1>6, SameRow DEF LeaseExpires, Mishap
  <2>2. Calm
    BY <2>1 DEF Calm, Deleting, IInv, TInv, TypeOK
  <2>3. document' = [document EXCEPT !.task.lease = "expired"]
    BY <1>6 DEF LeaseExpires
  <2>4. Same(document', document) /\ document'.status = document.status
    BY <2>1, <2>3, LeaseSet
  <2> QED
    BY <2>1, <2>2, <2>4 DEF FilesInv, Accounted, HasOwner, Replacing, Same
<1>7. CASE UNCHANGED vars
  BY <1>7 DEF vars, FilesInv, Calm, Accounted, HasOwner, Replacing, Deleting, Exists
<1>8. ASSUME NEW w \in Workers, Work(w)
      PROVE  Accounted'
  <2>1. w \in Actors
    BY DEF Actors
  <2> QED
    BY <1>8, <2>1, WorkerFiles, IngestFiles DEF Work
<1>9. ASSUME NEW r \in Requests, Serve(r)
      PROVE  Accounted'
  <2>1. r \in Actors
    BY DEF Actors
  <2> QED
    BY <1>5, <1>9, <2>1, IngestFiles, ReplacerFiles DEF Serve
<1> QED
  BY <1>1, <1>2, <1>3, <1>4, <1>6, <1>7, <1>8, <1>9, WorkerFiles, ReplacerFiles DEF Next

(* Without failures no original outlives the content of its document, for  *)
(* any number of workers and requests, as long as replacements follow one  *)
(* another: what the old snapshot names is all there is to drop            *)
(* (ingestion_service.py:173), and after a failed replacement what the row *)
(* names (ingestion_service.py:170).                                       *)
THEOREM OriginalsAreDropped ==
  ASSUME MaxOverlap <= 1
  PROVE  Spec => []NoOriginalLeftBehind
<1> DEFINE Both == IInv /\ FilesInv
<1>1. Assumptions
  BY DocumentsAssumption, NoDocumentAssumption DEF Assumptions
<1>2. Init => Both
  <2> SUFFICES ASSUME Init
               PROVE  Accounted
    BY <1>1, InvariantStart DEF FilesInv
  <2>1. Replacing = {} /\ originals = {} /\ document.status = "queued"
    BY <1>1 DEF Init, Replacing, Actors, Requests, Assumptions, DocumentsAssumption
  <2>2. \A r \in Deleters : run[r] = "waiting"
    BY <1>1 DEF Init, Actors, Requests, Assumptions, DocumentsAssumption
  <2> QED
    BY <2>1, <2>2 DEF Accounted
<1>3. Both /\ [Next]_vars => Both'
  BY <1>1, InvariantStep, FilesInvNext
<1>4. Both => NoOriginalLeftBehind
  <2> SUFFICES ASSUME Both, Exists, mishaps = 0, ~shared, \A r \in Requests : run[r] \in {"waiting", "ended"}
               PROVE  originals \subseteq {document.content}
    BY DEF NoOriginalLeftBehind
  <2>1. Replacing = {} /\ Deleting = {}
    BY DEF Replacing, Deleting, Requests
  <2> QED
    BY <2>1 DEF FilesInv, Calm, Accounted, HasOwner
<1> QED
  BY <1>2, <1>3, <1>4, PTL DEF Spec
=============================================================================
