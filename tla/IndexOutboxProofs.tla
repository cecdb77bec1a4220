-------------------------- MODULE IndexOutboxProofs --------------------------
(***************************************************************************)
(* Proofs about IndexOutbox: type correctness for any number of workers,   *)
(* and what the index and vector_status promise for the one worker that a  *)
(* deployment starts.                                                      *)
(***************************************************************************)
EXTENDS IndexOutbox, FiniteSetTheorems, SequenceTheorems, WellFoundedInduction, TLAPS

(* The outbox worker, as deployed.                                         *)
OneWorker == \E p : Workers = {p}

-----------------------------------------------------------------------------
(* The invariant.                                                          *)

(* Types, as far as actions rely on them: rows that are held or deleted    *)
(* exist, and only rows of facts are deleted.                              *)
TInv ==
  /\ TypeOK
  /\ \A p \in Workers : worker[p].batch \subseteq DOMAIN outbox
  /\ \A i \in resetting.doomed : i \in DOMAIN outbox /\ outbox[i].record \in Facts
  /\ \A i \in DOMAIN outbox : outbox[i].status = "deleted" => outbox[i].record \in Facts

Clean(r) == r \in Records /\ r \notin collided \cup orphaned

(* Row i is the last row of record r.                                      *)
IsLast(r, i) == i \in RowsOf(r) /\ \A j \in RowsOf(r) : j <= i

(* What the rows of a record say: their versions grow, and the last one    *)
(* has what PostgreSQL has; once it is completed the index has it too.     *)
RecordInv(r) ==
  /\ \A i, j \in RowsOf(r) : i < j => outbox[i].payload_version < outbox[j].payload_version
  /\ RowsOf(r) = {} =>
       /\ Source(r) = NoText /\ index[r] = NoText
       /\ \A i \in DOMAIN outbox : outbox[i].record # r
  /\ \A i : IsLast(r, i) =>
       /\ outbox[i].payload = Source(r)
       /\ outbox[i].status = "completed" => index[r] = outbox[i].payload

(* What vector_status says of a chunk.                                     *)
ChunkInv(r) ==
  /\ chunk[r].vector_status = "absent" <=> chunk[r] = NoChunk
  /\ chunk[r].vector_status # "absent" => RowsOf(r) # {}
  /\ \A i : IsLast(r, i) =>
       /\ chunk[r].vector_status = "indexed" => outbox[i].status = "completed"
       /\ chunk[r].vector_status = "pending" =>
            outbox[i].payload_version = chunk[r].content_generation

(* Whatever the worker may still write of row i is superseded by a row     *)
(* that it has not claimed yet.                                            *)
Superseded(i) == \A k : IsLast(outbox[i].record, k) => k = i \/ outbox[k].status = "pending"

(* What a worker owes to the rows it holds.                                *)
BatchInv(p) ==
  \A i \in worker[p].batch :
    /\ outbox[i].status \in {"processing", "deleted"}
    /\ Clean(outbox[i].record) =>
         /\ outbox[i].status = "deleted" => Superseded(i)
         /\ worker[p].point = "writing" /\ i = Position(p) => Superseded(i)
         /\ worker[p].point = "completing" /\ i = Position(p) /\ IsLast(outbox[i].record, i) =>
              index[outbox[i].record] = outbox[i].payload

IInv ==
  /\ TInv
  /\ document.exists \/ \A r \in Chunks : chunk[r] = NoChunk
  /\ document.exists => orphaned \cap Chunks = {}
  /\ \A r \in Records : Clean(r) => RecordInv(r)
  /\ \A r \in Chunks : Clean(r) => ChunkInv(r)
  /\ \A p \in Workers : BatchInv(p)

-----------------------------------------------------------------------------
(* Numbers, finite sets and sequences.                                     *)

(* A set of numbers has a least element, ...                               *)
LEMMA LeastNumber ==
  ASSUME NEW S \in SUBSET Nat, S # {}
  PROVE  Min(S) \in S /\ \A n \in S : Min(S) <= n
<1> DEFINE R == OpToRel(<, Nat)
<1>1. IsWellFoundedOn(R, Nat)
  BY NatLessThanWellFounded
<1>2. \A m, n \in Nat : m < n => <<m, n>> \in R
  BY DEF OpToRel
<1> HIDE DEF R
<1>3. PICK m \in S : \A n \in S : ~(<<n, m>> \in R)
  BY <1>1, WFMin, Zenon
<1>4. \A n \in S : ~(n < m)
  BY <1>2, <1>3, Zenon
<1>5. \A n \in S : m <= n
  BY <1>4
<1> QED
  BY <1>3, <1>5 DEF Min

(* and a greatest one if it is bounded.                                    *)
LEMMA GreatestNumber ==
  ASSUME NEW S \in SUBSET Nat, S # {}, NEW b \in Nat, \A n \in S : n <= b
  PROVE  Max(S) \in S /\ \A n \in S : n <= Max(S)
<1> DEFINE T == {n \in Nat : \A m \in S : m <= n}
           t == Min(T)
<1>1. t \in T /\ \A n \in T : t <= n
  BY LeastNumber
<1> HIDE DEF t
<1>2. t \in S
  <2>1. SUFFICES ASSUME t \notin S PROVE FALSE
    OBVIOUS
  <2>2. \A m \in S : m < t
    BY <1>1, <2>1
  <2>3. PICK m \in S : m \in Nat
    OBVIOUS
  <2>4. t \in Nat /\ t > m
    BY <1>1, <2>2, <2>3
  <2> DEFINE u == t - 1
  <2>5. u \in Nat /\ u < t
    BY <2>3, <2>4
  <2>6. \A n \in S : n <= u
    BY <2>2, <2>4
  <2>7. u \in T
    BY <2>5, <2>6
  <2> HIDE DEF u, T
  <2> QED
    BY <1>1, <2>4, <2>5, <2>7
<1>3. \A n \in S : t >= n
  BY <1>1
<1> QED
  BY <1>2, <1>3 DEF Max

(* Induction over the numbers, as a set that contains zero and successors. *)
LEMMA NumbersInduct ==
  ASSUME NEW S \in SUBSET Nat, 0 \in S, \A n \in S : n + 1 \in S
  PROVE  S = Nat
<1> SUFFICES ASSUME Nat \ S # {} PROVE FALSE
  OBVIOUS
<1>1. PICK m \in Nat \ S : \A n \in Nat \ S : m <= n
  <2> DEFINE T == Nat \ S
  <2>1. Min(T) \in T /\ \A n \in T : Min(T) <= n
    BY LeastNumber
  <2> QED
    BY <2>1
<1>2. m - 1 \in S
  BY <1>1
<1> QED
  BY <1>1, <1>2

(* SetToSeq lists every element of a finite set once.                      *)
LEMMA Listed ==
  ASSUME NEW S, IsFiniteSet(S)
  PROVE  LET s == SetToSeq(S) IN
         /\ s \in Seq(S)
         /\ \A i, j \in 1 .. Len(s) : s[i] = s[j] => i = j
         /\ \A x \in S : \E i \in 1 .. Len(s) : s[i] = x
<1> DEFINE n == Cardinality(S)
           s == SetToSeq(S)
<1>1. n \in Nat /\ ExistsBijection(1 .. n, S)
  BY FS_CardinalityType
<1>2. PICK f : f \in Bijection(1 .. n, S)
  BY <1>1 DEF ExistsBijection
<1>3. f \in [1 .. n -> S] /\ IsInjective(f)
  BY <1>2 DEF Bijection, Injection, IsInjective
<1>4. s \in [1 .. n -> S] /\ IsInjective(s)
  BY <1>3 DEF SetToSeq
<1> HIDE DEF s
<1>5. s \in Seq(S) /\ Len(s) = n
  BY <1>1, <1>4
<1>6. \A i, j \in 1 .. n : s[i] = s[j] => i = j
  BY <1>4 DEF IsInjective
<1>7. s \in Surjection(1 .. n, S)
  <2>1. IsFiniteSet(1 .. n) /\ Cardinality(1 .. n) = n
    BY <1>1, FS_Interval
  <2>2. s \in Injection(1 .. n, S)
    BY <1>4, <1>6 DEF Injection, IsInjective
  <2> QED
    BY <2>1, <2>2, FS_Injection
<1>8. \A x \in S : \E i \in 1 .. n : s[i] = x
  BY <1>7 DEF Surjection
<1> QED
  BY <1>5, <1>6, <1>8 DEF s

-----------------------------------------------------------------------------
(* Rows.                                                                   *)

(* What TypeOK says of the rows.                                           *)
LEMMA RowsAre ==
  ASSUME TypeOK
  PROVE  /\ Len(outbox) \in Nat
         /\ DOMAIN outbox = 1 .. Len(outbox)
         /\ \A i \in DOMAIN outbox : outbox[i] \in Row
         /\ \A i \in DOMAIN outbox : outbox[i].payload_version \in Nat
         /\ \A r : RowsOf(r) \subseteq 1 .. Len(outbox)
<1>1. outbox \in Seq(Row)
  BY DEF TypeOK
<1>2. Len(outbox) \in Nat /\ DOMAIN outbox = 1 .. Len(outbox)
  BY <1>1, LenProperties
<1>3. \A i \in DOMAIN outbox : outbox[i] \in Row
  BY <1>1, <1>2, ElementOfSeq
<1>4. \A i \in DOMAIN outbox : outbox[i].payload_version \in Nat
  BY <1>3 DEF Row
<1>5. \A r : RowsOf(r) \subseteq 1 .. Len(outbox)
  BY <1>2 DEF RowsOf
<1> QED
  BY <1>2, <1>3, <1>4, <1>5

(* There is a greatest version, as there are finitely many rows.           *)
LEMMA VersionsBounded ==
  ASSUME TypeOK
  PROVE  \E b \in Nat : \A i \in DOMAIN outbox : outbox[i].payload_version <= b
<1> DEFINE v(i) == outbox[i].payload_version
           B(n) == \E b \in Nat : \A i \in DOMAIN outbox : i <= n => v(i) <= b
           T == {n \in Nat : B(n)}
<1>1. /\ Len(outbox) \in Nat
      /\ DOMAIN outbox = 1 .. Len(outbox)
      /\ \A i \in DOMAIN outbox : v(i) \in Nat
  BY RowsAre
<1> HIDE DEF v
<1>2. 0 \in T
  BY <1>1
<1>3. ASSUME NEW n \in T
      PROVE  n + 1 \in T
  <2>1. PICK b \in Nat : \A i \in DOMAIN outbox : i <= n => v(i) <= b
    OBVIOUS
  <2>2. CASE n + 1 \in DOMAIN outbox
    <3> DEFINE c == b + v(n + 1)
    <3>1. c \in Nat /\ b <= c /\ v(n + 1) <= c
      BY <1>1, <2>2
    <3>2. ASSUME NEW i \in DOMAIN outbox, i <= n + 1
          PROVE  v(i) <= c
      <4> HIDE DEF c
      <4>1. i = n + 1 \/ i <= n
        BY <1>1, <3>2
      <4>2. v(i) \in Nat
        BY <1>1
      <4> QED
        BY <2>1, <3>1, <4>1, <4>2
    <3> HIDE DEF c
    <3> QED
      BY <3>1, <3>2
  <2>3. CASE n + 1 \notin DOMAIN outbox
    <3>1. \A i \in DOMAIN outbox : i <= n + 1 => i <= n
      BY <1>1, <2>3
    <3> QED
      BY <2>1, <3>1
  <2> QED
    BY <2>2, <2>3
<1>4. T = Nat
  <2>1. T \in SUBSET Nat
    OBVIOUS
  <2> HIDE DEF T
  <2> QED
    BY <1>2, <1>3, <2>1, NumbersInduct
<1>5. B(Len(outbox))
  <2>1. Len(outbox) \in T
    <3> HIDE DEF T
    <3> QED
      BY <1>1, <1>4
  <2> QED
    BY <2>1
<1> QED
  BY <1>1, <1>5 DEF v

(* Latest is the greatest version of a record, 0 if it has no row.         *)
LEMMA LatestIs ==
  ASSUME TypeOK, NEW r
  PROVE  /\ Latest(r) \in Nat
         /\ next_payload_version(r) \in Nat \ {0}
         /\ \A i \in RowsOf(r) : outbox[i].payload_version <= Latest(r)
         /\ Latest(r) = 0 \/ \E i \in RowsOf(r) : outbox[i].payload_version = Latest(r)
<1> DEFINE V == {0} \cup {outbox[i].payload_version : i \in RowsOf(r)}
<1>1. \A i \in RowsOf(r) : i \in DOMAIN outbox
  BY DEF RowsOf
<1>2. V \in SUBSET Nat /\ V # {}
  BY <1>1, RowsAre
<1>3. PICK b \in Nat : \A i \in DOMAIN outbox : outbox[i].payload_version <= b
  BY VersionsBounded
<1>4. \A n \in V : n <= b
  BY <1>1, <1>3
<1>5. \A i \in RowsOf(r) : outbox[i].payload_version \in V
  OBVIOUS
<1>6. \A n \in V : n = 0 \/ \E i \in RowsOf(r) : outbox[i].payload_version = n
  OBVIOUS
<1>7. Latest(r) = Max(V)
  BY DEF Latest
<1> HIDE DEF V
<1>8. Max(V) \in V /\ \A n \in V : n <= Max(V)
  BY <1>2, <1>4, GreatestNumber
<1>9. Latest(r) \in Nat
  BY <1>2, <1>7, <1>8
<1> QED
  BY <1>5, <1>6, <1>7, <1>8, <1>9 DEF next_payload_version

(* A record with a row has a last row, and only one.                       *)
LEMMA LastExists ==
  ASSUME TypeOK, NEW r, RowsOf(r) # {}
  PROVE  \E i \in RowsOf(r) : IsLast(r, i)
<1>1. Len(outbox) \in Nat /\ RowsOf(r) \subseteq 1 .. Len(outbox)
  BY RowsAre
<1>2. RowsOf(r) \in SUBSET Nat /\ \A n \in RowsOf(r) : n <= Len(outbox)
  BY <1>1
<1>3. Max(RowsOf(r)) \in RowsOf(r) /\ \A n \in RowsOf(r) : n <= Max(RowsOf(r))
  BY <1>1, <1>2, GreatestNumber
<1> QED
  BY <1>3 DEF IsLast

(* A record has at most one last row.                                      *)
LEMMA LastUnique ==
  ASSUME TypeOK, NEW r, NEW i, NEW j, IsLast(r, i), IsLast(r, j)
  PROVE  i = j
<1>1. i \in Nat /\ j \in Nat
  BY RowsAre DEF IsLast
<1> QED
  BY <1>1 DEF IsLast

(* Chunks and facts are different records.                                 *)
LEMMA Disjoint ==
  Chunks \cap Facts = {}
BY OutboxAssumption DEF Chunks

(* A draft is stored in a chunk of its key, present or without any row.    *)
LEMMA RowOfIs ==
  ASSUME NEW k \in Keys, Usable(k) # {}
  PROVE  /\ RowOf(k) \in Chunks
         /\ RowOf(k)[1] = k
         /\ RowOf(k) \in Present \/ RowsOf(RowOf(k)) = {}
<1>1. Usable(k) \in SUBSET Nat
  BY OutboxAssumption DEF Usable
<1>2. Min(Usable(k)) \in Usable(k)
  BY <1>1, LeastNumber
<1> QED
  BY <1>2 DEF RowOf, Usable, Chunks

(* There are finitely many records, and hence rows with one for each.      *)
LEMMA RecordsFinite ==
  IsFiniteSet(Records)
<1>1. IsFiniteSet(1 .. MaxIncarnations)
  BY OutboxAssumption, FS_Interval
<1>2. IsFiniteSet(Chunks)
  BY <1>1, OutboxAssumption, FS_Product DEF Chunks
<1> QED
  BY <1>2, OutboxAssumption, FS_Union DEF Records

(* A set of rows of different records is finite.                           *)
LEMMA RowsFinite ==
  ASSUME NEW R \in SUBSET Row, \A x, y \in R : x.record = y.record => x = y
  PROVE  IsFiniteSet(R)
<1> DEFINE f == [x \in R |-> x.record]
<1>1. f \in [R -> Records]
  BY DEF Row
<1>2. f \in Injection(R, Records)
  BY <1>1 DEF Injection, IsInjective
<1> HIDE DEF f
<1> QED
  BY <1>2, RecordsFinite, FS_Injection

(* What appending a set of rows does to a sequence of rows.                *)
LEMMA Appended ==
  ASSUME NEW left \in Seq(Row), NEW R \in SUBSET Row,
         \A x, y \in R : x.record = y.record => x = y
  PROVE  LET o == left \o SetToSeq(R) IN
         /\ o \in Seq(Row)
         /\ Len(left) \in Nat /\ Len(o) \in Nat /\ Len(left) <= Len(o)
         /\ DOMAIN left = 1 .. Len(left)
         /\ DOMAIN o = 1 .. Len(o)
         /\ \A i \in DOMAIN left : o[i] = left[i]
         /\ \A i \in DOMAIN o : i \in DOMAIN left \/ o[i] \in R
         /\ \A i, j \in DOMAIN o \ DOMAIN left : o[i].record = o[j].record => i = j
         /\ \A x \in R : \E i \in DOMAIN o \ DOMAIN left : o[i] = x
<1> DEFINE s == SetToSeq(R)
           o == left \o s
<1>1. IsFiniteSet(R)
  BY RowsFinite
<1>2. /\ s \in Seq(R)
      /\ \A i, j \in 1 .. Len(s) : s[i] = s[j] => i = j
      /\ \A x \in R : \E i \in 1 .. Len(s) : s[i] = x
  BY <1>1, Listed
<1> HIDE DEF s
<1>3. s \in Seq(Row)
  BY <1>2
<1>4. /\ Len(left) \in Nat
      /\ Len(s) \in Nat
      /\ \A i \in 1 .. Len(s) : s[i] \in R
      /\ DOMAIN left = 1 .. Len(left)
  BY <1>2, LenProperties, ElementOfSeq
<1>5. /\ o \in Seq(Row)
      /\ Len(o) = Len(left) + Len(s)
      /\ DOMAIN o = 1 .. Len(o)
      /\ \A i \in 1 .. Len(left) + Len(s) :
           o[i] = IF i <= Len(left) THEN left[i] ELSE s[i - Len(left)]
  BY <1>3, ConcatProperties, LenProperties
<1> HIDE DEF o
<1>6. \A i \in DOMAIN left : o[i] = left[i]
  BY <1>4, <1>5
<1>7. \A i \in DOMAIN o \ DOMAIN left : i - Len(left) \in 1 .. Len(s) /\ o[i] = s[i - Len(left)]
  BY <1>4, <1>5
<1>8. \A i \in DOMAIN o : i \in DOMAIN left \/ o[i] \in R
  BY <1>4, <1>7
<1>9. ASSUME NEW i \in DOMAIN o \ DOMAIN left, NEW j \in DOMAIN o \ DOMAIN left,
             o[i].record = o[j].record
      PROVE  i = j
  <2>1. i \in Nat /\ j \in Nat
    BY <1>5
  <2>2. s[i - Len(left)] = s[j - Len(left)]
    BY <1>4, <1>7, <1>9
  <2>3. i - Len(left) = j - Len(left)
    BY <1>2, <1>7, <2>2
  <2> QED
    BY <1>4, <2>1, <2>3
<1>10. ASSUME NEW x \in R
       PROVE  \E i \in DOMAIN o \ DOMAIN left : o[i] = x
  <2>1. PICK n \in 1 .. Len(s) : s[n] = x
    BY <1>2
  <2> DEFINE i == n + Len(left)
  <2>2. i \in DOMAIN o \ DOMAIN left /\ i - Len(left) = n
    BY <1>4, <1>5
  <2> HIDE DEF i
  <2> QED
    BY <1>7, <2>1, <2>2
<1> QED
  BY <1>4, <1>5, <1>6, <1>8, <1>9, <1>10 DEF o, s

-----------------------------------------------------------------------------
(* How the actions change the outbox.                                      *)

(* Rows are appended, and what was there stays.                            *)
Appends(R) ==
  /\ outbox' \in Seq(Row)
  /\ Len(outbox') \in Nat /\ Len(outbox) <= Len(outbox')
  /\ DOMAIN outbox \subseteq DOMAIN outbox'
  /\ \A i \in DOMAIN outbox : outbox'[i] = outbox[i]
  /\ \A i \in DOMAIN outbox' \ DOMAIN outbox :
       /\ outbox'[i] \in R
       /\ \A j \in DOMAIN outbox : j < i
  /\ \A i, j \in DOMAIN outbox' \ DOMAIN outbox : outbox'[i].record = outbox'[j].record => i = j
  /\ \A x \in R : \E i \in DOMAIN outbox' \ DOMAIN outbox : outbox'[i] = x

(* New rows are pending and of different records.                          *)
NewRows(rows) ==
  /\ rows \subseteq Row
  /\ \A x \in rows : x.status = "pending"
  /\ \A x, y \in rows : x.record = y.record => x = y

(* Items are rows.                                                         *)
LEMMA ItemIs ==
  ASSUME NEW r, NEW operation, NEW version, NEW text
  PROVE  LET x == Item(r, operation, version, text) IN
         /\ x.record = r /\ x.operation = operation /\ x.payload_version = version
         /\ x.payload = text /\ x.status = "pending"
         /\ r \in Records /\ operation \in {"upsert", "delete"} /\ version \in Nat
              /\ text \in Indexed => x \in Row
BY DEF Item, Row, RowStatuses

(* What enqueue does: the rows that it does not find are appended, and     *)
(* the records whose idempotency key names another row are noted as        *)
(* collided.                                                               *)
LEMMA EnqueueAppends ==
  ASSUME TypeOK, NEW rows, NewRows(rows), Enqueue(rows)
  PROVE  /\ Appends({x \in rows : ~Known(x)})
         /\ \A x \in rows : Collides(x) => x.record \in collided'
         /\ collided \subseteq collided' /\ collided' \subseteq Records
<1> DEFINE R == {x \in rows : ~Known(x)}
<1>1. outbox \in Seq(Row) /\ collided \subseteq Records
  BY DEF TypeOK
<1>2. R \in SUBSET Row /\ \A x, y \in R : x.record = y.record => x = y
  BY DEF NewRows
<1>3. outbox' = outbox \o SetToSeq(R)
  BY DEF Enqueue
<1> HIDE DEF R
<1>4. outbox \in Seq(Row)
  BY <1>1
<1>5. /\ outbox' \in Seq(Row)
      /\ Len(outbox) \in Nat /\ Len(outbox') \in Nat /\ Len(outbox) <= Len(outbox')
      /\ DOMAIN outbox = 1 .. Len(outbox)
      /\ DOMAIN outbox' = 1 .. Len(outbox')
      /\ \A i \in DOMAIN outbox : outbox'[i] = outbox[i]
      /\ \A i \in DOMAIN outbox' : i \in DOMAIN outbox \/ outbox'[i] \in R
      /\ \A i, j \in DOMAIN outbox' \ DOMAIN outbox : outbox'[i].record = outbox'[j].record => i = j
      /\ \A x \in R : \E i \in DOMAIN outbox' \ DOMAIN outbox : outbox'[i] = x
  BY ONLY <1>2, <1>3, <1>4, Appended
<1>6. DOMAIN outbox \subseteq DOMAIN outbox'
  BY <1>5
<1>7. \A i \in DOMAIN outbox' \ DOMAIN outbox : \A j \in DOMAIN outbox : j < i
  BY <1>5
<1>8. Appends(R)
  BY <1>5, <1>6, <1>7 DEF Appends
<1>9. /\ \A x \in rows : Collides(x) => x.record \in collided'
      /\ collided \subseteq collided'
      /\ collided' \subseteq Records
  BY <1>1 DEF Enqueue, NewRows, Row
<1> QED
  BY <1>8, <1>9 DEF R

(* One row gets another status, and is not found again as "deleted".       *)
LEMMA StatusIs ==
  ASSUME TypeOK, NEW i \in DOMAIN outbox, NEW status \in RowStatuses, SetStatus(i, status)
  PROVE  /\ outbox' \in Seq(Row)
         /\ DOMAIN outbox' = DOMAIN outbox
         /\ outbox'[i].status = status
         /\ \A j \in DOMAIN outbox :
              /\ outbox'[j].record = outbox[j].record
              /\ outbox'[j].operation = outbox[j].operation
              /\ outbox'[j].payload_version = outbox[j].payload_version
              /\ outbox'[j].payload = outbox[j].payload
              /\ j # i => outbox'[j].status = outbox[j].status
<1>1. outbox \in Seq(Row) /\ outbox[i] \in Row
  BY RowsAre DEF TypeOK
<1> DEFINE y == [outbox[i] EXCEPT !.status = status]
<1>2. /\ y \in Row /\ y.status = status /\ y.record = outbox[i].record
      /\ y.operation = outbox[i].operation
      /\ y.payload_version = outbox[i].payload_version /\ y.payload = outbox[i].payload
  BY <1>1 DEF Row
<1>3. outbox' = [outbox EXCEPT ![i] = y]
  BY DEF SetStatus
<1> HIDE DEF y
<1>4. outbox' \in Seq(Row) /\ DOMAIN outbox' = DOMAIN outbox
  BY <1>1, <1>2, <1>3, LenProperties
<1>5. \A j \in DOMAIN outbox : outbox'[j] = IF j = i THEN y ELSE outbox[j]
  BY <1>3
<1> QED
  BY <1>2, <1>4, <1>5

(* Several rows get another status.                                        *)
LEMMA StatusesAre ==
  ASSUME TypeOK, NEW S, NEW status \in RowStatuses,
         NEW left, left = [i \in DOMAIN outbox |->
                             IF i \in S THEN [outbox[i] EXCEPT !.status = status] ELSE outbox[i]]
  PROVE  /\ left \in Seq(Row)
         /\ DOMAIN left = DOMAIN outbox /\ Len(left) = Len(outbox)
         /\ \A j \in DOMAIN outbox :
              /\ left[j].record = outbox[j].record
              /\ left[j].operation = outbox[j].operation
              /\ left[j].payload_version = outbox[j].payload_version
              /\ left[j].payload = outbox[j].payload
              /\ left[j].status = IF j \in S THEN status ELSE outbox[j].status
<1>1. /\ Len(outbox) \in Nat /\ DOMAIN outbox = 1 .. Len(outbox)
      /\ \A i \in DOMAIN outbox : outbox[i] \in Row
  BY RowsAre
<1>2. ASSUME NEW j \in DOMAIN outbox
      PROVE  /\ left[j] \in Row
             /\ left[j].record = outbox[j].record
             /\ left[j].operation = outbox[j].operation
             /\ left[j].payload_version = outbox[j].payload_version
             /\ left[j].payload = outbox[j].payload
             /\ left[j].status = IF j \in S THEN status ELSE outbox[j].status
  <2>1. outbox[j] \in Row
    BY <1>1
  <2>2. CASE j \in S
    <3> DEFINE y == [outbox[j] EXCEPT !.status = status]
    <3>1. left[j] = y
      BY <2>2
    <3>2. /\ y \in Row /\ y.status = status /\ y.record = outbox[j].record
          /\ y.operation = outbox[j].operation
          /\ y.payload_version = outbox[j].payload_version /\ y.payload = outbox[j].payload
      BY <2>1 DEF Row
    <3> HIDE DEF y
    <3> QED
      BY <2>2, <3>1, <3>2
  <2>3. CASE j \notin S
    <3>1. left[j] = outbox[j]
      BY <2>3
    <3> QED
      BY <2>1, <2>3, <3>1
  <2> QED
    BY <2>2, <2>3
<1>3. left \in [1 .. Len(outbox) -> Row]
  BY <1>1, <1>2
<1>4. left \in Seq(Row) /\ DOMAIN left = DOMAIN outbox
  BY <1>1, <1>3
<1>5. Len(left) = Len(outbox)
  BY <1>1, <1>3, <1>4, LenProperties
<1> QED
  BY <1>2, <1>4, <1>5

(* Only statuses change, and no row is deleted or comes back.              *)
Restated ==
  /\ outbox' \in Seq(Row)
  /\ DOMAIN outbox' = DOMAIN outbox
  /\ \A j \in DOMAIN outbox :
       /\ outbox'[j].record = outbox[j].record
       /\ outbox'[j].operation = outbox[j].operation
       /\ outbox'[j].payload_version = outbox[j].payload_version
       /\ outbox'[j].payload = outbox[j].payload
       /\ outbox'[j].status = "deleted" <=> outbox[j].status = "deleted"

(* An outbox that stays the same keeps its rows.                           *)
LEMMA SameRestated ==
  ASSUME TypeOK, outbox' = outbox
  PROVE  Restated
BY DEF Restated, TypeOK

(* So does one in which a row gets another status than "deleted".          *)
LEMMA StatusRestated ==
  ASSUME TypeOK, NEW i \in DOMAIN outbox, outbox[i].status # "deleted",
         NEW status \in RowStatuses \ {"deleted"}, SetStatus(i, status)
  PROVE  Restated
BY StatusIs DEF Restated

(* Rows that only change status stay the rows, and the last rows, of       *)
(* their records.                                                          *)
LEMMA RestatedKeeps ==
  ASSUME Restated, NEW r
  PROVE  /\ RowsOf(r)' = RowsOf(r)
         /\ \A i : IsLast(r, i)' <=> IsLast(r, i)
<1>1. RowsOf(r)' = RowsOf(r)
  BY DEF Restated, RowsOf
<1> QED
  BY <1>1 DEF IsLast

-----------------------------------------------------------------------------
(* How the actions change a worker.                                        *)

Resting == {"idle", "failed", "down"}
Holding == {"checking", "writing", "completing", "retrying"}
WorkerState == [point : Holding \cup Resting, batch : SUBSET Nat]

(* A worker goes to a point with a batch, and the others stay.             *)
Goes(p, point, batch) ==
  /\ worker' \in [Workers -> WorkerState]
  /\ \A q \in Workers : worker'[q].batch = {} <=> worker'[q].point \in Resting
  /\ worker'[p].point = point /\ worker'[p].batch = batch
  /\ \A q \in Workers \ {p} : worker'[q] = worker[q]

(* What the types say of the workers.                                      *)
LEMMA WorkersAre ==
  ASSUME TypeOK
  PROVE  /\ worker \in [Workers -> WorkerState]
         /\ \A q \in Workers : worker[q].batch = {} <=> worker[q].point \in Resting
<1>1. {"idle", "checking", "writing", "completing", "retrying", "failed", "down"}
        = Holding \cup Resting
  BY DEF Holding, Resting
<1> QED
  BY <1>1 DEF TypeOK, WorkerState, Resting

(* A worker that is assigned a state goes to it.                           *)
LEMMA GoesTo ==
  ASSUME TypeOK, NEW p \in Workers, NEW y \in WorkerState,
         y.batch = {} <=> y.point \in Resting, worker' = [worker EXCEPT ![p] = y]
  PROVE  Goes(p, y.point, y.batch)
<1>1. worker' \in [Workers -> WorkerState] /\ worker'[p] = y
      /\ \A q \in Workers \ {p} : worker'[q] = worker[q]
  BY WorkersAre
<1>2. \A q \in Workers : worker'[q].batch = {} <=> worker'[q].point \in Resting
  BY <1>1, WorkersAre
<1> QED
  BY <1>1, <1>2 DEF Goes

(* Move keeps the batch.                                                   *)
LEMMA MoveGoes ==
  ASSUME TypeOK, NEW p \in Workers, NEW point \in Holding, Move(p, point),
         worker[p].point \in Holding
  PROVE  Goes(p, point, worker[p].batch) /\ worker[p].batch # {}
<1>1. worker[p] \in WorkerState /\ worker[p].batch # {}
  BY WorkersAre DEF Holding, Resting
<1> DEFINE y == [worker[p] EXCEPT !.point = point]
<1>2. y \in WorkerState /\ y.point = point /\ y.batch = worker[p].batch
  BY <1>1 DEF WorkerState
<1>3. worker' = [worker EXCEPT ![p] = y]
  BY DEF Move
<1>4. y.batch # {} /\ y.point \notin Resting
  BY <1>1, <1>2 DEF Holding, Resting
<1> HIDE DEF y
<1> QED
  BY <1>1, <1>2, <1>3, <1>4, GoesTo

(* A worker that holds rows is at the oldest of them.                      *)
LEMMA PositionIs ==
  ASSUME TInv, NEW p \in Workers, worker[p].point \in Holding
  PROVE  /\ worker[p].batch # {}
         /\ Position(p) \in worker[p].batch
         /\ Position(p) \in DOMAIN outbox
         /\ Current(p) \in Row
<1>1. TypeOK /\ worker[p].batch \subseteq DOMAIN outbox
  BY DEF TInv
<1>2. worker[p].batch \in SUBSET Nat /\ worker[p].batch # {}
  BY <1>1, WorkersAre DEF WorkerState, Holding, Resting
<1>3. Position(p) \in worker[p].batch
  BY <1>2, LeastNumber DEF Position
<1> QED
  BY <1>1, <1>2, <1>3, RowsAre DEF Current

(* Advance gives up the row in hand.                                       *)
LEMMA AdvanceGoes ==
  ASSUME TInv, NEW p \in Workers, worker[p].point \in Holding, Advance(p)
  PROVE  \E point \in {"idle", "checking"} : Goes(p, point, worker[p].batch \ {Position(p)})
<1>1. TypeOK /\ worker[p] \in WorkerState /\ Position(p) \in worker[p].batch
  BY PositionIs, WorkersAre DEF TInv
<1> DEFINE b == worker[p].batch
           y == IF b = {Position(p)} THEN Rest
                ELSE [point |-> "checking", batch |-> b \ {Position(p)}]
<1>2. worker' = [worker EXCEPT ![p] = y]
  BY DEF Advance
<1>3. CASE b = {Position(p)}
  <2>1. y = [point |-> "idle", batch |-> {}] /\ b \ {Position(p)} = {}
    BY <1>3 DEF Rest
  <2>2. y \in WorkerState /\ y.batch = {} /\ y.point = "idle" /\ y.point \in Resting
    BY <2>1 DEF WorkerState, Resting
  <2> HIDE DEF y, b
  <2>3. Goes(p, "idle", {})
    BY <1>1, <1>2, <2>2, GoesTo
  <2> QED
    BY <2>1, <2>3 DEF b
<1>4. CASE b # {Position(p)}
  <2>1. y = [point |-> "checking", batch |-> b \ {Position(p)}] /\ b \ {Position(p)} # {}
    BY <1>1, <1>4
  <2>2. b \ {Position(p)} \in SUBSET Nat
    BY <1>1 DEF WorkerState
  <2> HIDE DEF b
  <2>3. y.batch = b \ {Position(p)} /\ y.point = "checking"
    BY <2>1
  <2>4. y \in WorkerState /\ y.batch # {} /\ y.point \notin Resting
    BY <2>1, <2>2, <2>3 DEF WorkerState, Resting, Holding
  <2> HIDE DEF y
  <2> QED
    BY <1>1, <1>2, <2>3, <2>4, GoesTo DEF b
<1> QED
  BY <1>3, <1>4

(* The claimed rows are rows; there is one if a row can be claimed.        *)
LEMMA OldestIs ==
  ASSUME TypeOK
  PROVE  /\ Oldest \subseteq Claimable /\ Claimable \subseteq DOMAIN outbox
         /\ Claimable # {} => Oldest # {}
<1>1. Oldest \subseteq Claimable /\ Claimable \subseteq DOMAIN outbox
  BY DEF Oldest, Claimable
<1>2. ASSUME Claimable # {}
      PROVE  Oldest # {}
  <2>1. Claimable \in SUBSET Nat
    BY <1>1, RowsAre
  <2>2. PICK m : m = Min(Claimable)
    OBVIOUS
  <2>3. m \in Claimable /\ \A n \in Claimable : m <= n
    BY <1>2, <2>1, <2>2, LeastNumber
  <2>4. \A n \in Claimable : ~(n < m)
    BY <2>1, <2>3
  <2>5. {j \in Claimable : j < m} = {}
    BY <2>4
  <2>6. Cardinality({j \in Claimable : j < m}) < BatchSize
    BY <2>5, FS_EmptySet, OutboxAssumption
  <2> QED
    BY <2>3, <2>6 DEF Oldest
<1> QED
  BY <1>1, <1>2

(* What claim_batch does: the oldest claimable rows become the batch of    *)
(* the worker, and are "processing".                                       *)
LEMMA ClaimGoes ==
  ASSUME TypeOK, NEW p \in Workers, claim_batch(p)
  PROVE  /\ Goes(p, "checking", Oldest)
         /\ Restated
         /\ \A j \in DOMAIN outbox :
              outbox'[j].status = IF j \in Oldest THEN "processing" ELSE outbox[j].status
<1>1. Oldest \subseteq Claimable /\ Oldest \subseteq DOMAIN outbox /\ Oldest # {}
  BY OldestIs DEF claim_batch
<1> DEFINE y == [point |-> "checking", batch |-> Oldest]
<1>2. y \in WorkerState /\ y.point = "checking" /\ y.batch = Oldest /\ y.point \notin Resting
  BY <1>1, RowsAre DEF WorkerState, Holding, Resting
<1>3. worker' = [worker EXCEPT ![p] = y]
  BY DEF claim_batch
<1> HIDE DEF y
<1>4. Goes(p, "checking", Oldest)
  BY <1>1, <1>2, <1>3, GoesTo
<1>5. outbox' = [i \in DOMAIN outbox |->
                   IF i \in Oldest THEN [outbox[i] EXCEPT !.status = "processing"] ELSE outbox[i]]
  BY DEF claim_batch
<1>6. /\ outbox' \in Seq(Row)
      /\ DOMAIN outbox' = DOMAIN outbox
      /\ \A j \in DOMAIN outbox :
           /\ outbox'[j].record = outbox[j].record
           /\ outbox'[j].operation = outbox[j].operation
           /\ outbox'[j].payload_version = outbox[j].payload_version
           /\ outbox'[j].payload = outbox[j].payload
           /\ outbox'[j].status = IF j \in Oldest THEN "processing" ELSE outbox[j].status
  <2>1. PICK left : left = outbox'
    OBVIOUS
  <2>2. "processing" \in RowStatuses
    BY DEF RowStatuses
  <2> QED
    BY <1>5, <2>1, <2>2, StatusesAre
<1>7. \A j \in Oldest : outbox[j].status # "deleted"
  BY <1>1 DEF Claimable
<1> QED
  BY <1>4, <1>6, <1>7 DEF Restated

-----------------------------------------------------------------------------
(* Types.                                                                  *)

ChunkRow == [content_generation : Nat, text : Indexed, vector_status : {"absent", "pending", "indexed"}]

DataTyped ==
  /\ document \in [exists : BOOLEAN, generation : Nat, deleting : BOOLEAN]
  /\ replacements \subseteq [generation : Nat, deleting : BOOLEAN]
  /\ deletions \subseteq [generation : Nat, purged : BOOLEAN]
  /\ chunk \in [Chunks -> ChunkRow]
  /\ fact \in [Facts -> Indexed \cup {RemovedFact}]
  /\ index \in [Records -> Indexed]
  /\ collided \subseteq Records
  /\ orphaned \subseteq Records
  /\ faults \in Nat

WorkTyped ==
  /\ resetting \in [point : {"idle", "read", "deleted"}, version : [Facts -> Nat], doomed : SUBSET Nat]
  /\ outbox \in Seq(Row)
  /\ worker \in [Workers -> WorkerState]
  /\ \A q \in Workers : worker[q].batch = {} <=> worker[q].point \in Resting
  /\ \A p \in Workers : worker[p].batch \subseteq DOMAIN outbox
  /\ \A i \in resetting.doomed : i \in DOMAIN outbox /\ outbox[i].record \in Facts
  /\ \A i \in DOMAIN outbox : outbox[i].status = "deleted" => outbox[i].record \in Facts

(* The two halves of TInv: one is about the outbox and its workers, the    *)
(* other about the data.                                                   *)
LEMMA TInvParts ==
  /\ TInv <=> DataTyped /\ WorkTyped
  /\ TInv' <=> DataTyped' /\ WorkTyped'
<1>1. {"idle", "checking", "writing", "completing", "retrying", "failed", "down"}
        = Holding \cup Resting
  BY DEF Holding, Resting
<1>2. TInv <=> DataTyped /\ WorkTyped
  BY <1>1 DEF TInv, TypeOK, DataTyped, WorkTyped, WorkerState, Resting, ChunkRow
<1>3. TInv' <=> DataTyped' /\ WorkTyped'
  BY <1>1 DEF TInv, TypeOK, DataTyped, WorkTyped, WorkerState, Resting, ChunkRow
<1> QED
  BY <1>2, <1>3

(* Rows that are appended keep the outbox half of the types.               *)
LEMMA AppendTyped ==
  ASSUME TInv, NEW R, Appends(R), \A x \in R : x.status = "pending", UNCHANGED <<resetting, worker>>
  PROVE  WorkTyped'
<1>1. WorkTyped
  BY TInvParts
<1>2. /\ outbox' \in Seq(Row)
      /\ DOMAIN outbox \subseteq DOMAIN outbox'
      /\ \A i \in DOMAIN outbox : outbox'[i] = outbox[i]
      /\ \A i \in DOMAIN outbox' \ DOMAIN outbox : outbox'[i].status = "pending"
  BY DEF Appends
<1>3. \A p \in Workers : worker'[p].batch \subseteq DOMAIN outbox'
  BY <1>1, <1>2 DEF WorkTyped
<1>4. \A i \in resetting'.doomed : i \in DOMAIN outbox' /\ outbox'[i].record \in Facts
  BY <1>1, <1>2 DEF WorkTyped
<1>5. \A i \in DOMAIN outbox' : outbox'[i].status = "deleted" => outbox'[i].record \in Facts
  BY <1>1, <1>2 DEF WorkTyped
<1> QED
  BY <1>1, <1>2, <1>3, <1>4, <1>5 DEF WorkTyped

(* Steps that only change statuses keep the outbox half,                   *)
LEMMA RestateTyped ==
  ASSUME TInv, Restated, UNCHANGED resetting,
         worker' \in [Workers -> WorkerState],
         \A q \in Workers : worker'[q].batch = {} <=> worker'[q].point \in Resting,
         \A q \in Workers : worker'[q].batch \subseteq DOMAIN outbox
  PROVE  WorkTyped'
BY TInvParts DEF WorkTyped, Restated

(* also when one worker goes on,                                           *)
LEMMA GoesTyped ==
  ASSUME TInv, Restated, UNCHANGED resetting, NEW p \in Workers, NEW point, NEW batch,
         Goes(p, point, batch), batch \subseteq DOMAIN outbox
  PROVE  WorkTyped'
<1>1. \A q \in Workers : worker'[q].batch \subseteq DOMAIN outbox
  BY TInvParts DEF Goes, WorkTyped
<1> QED
  BY <1>1, RestateTyped DEF Goes

(* and so do steps that leave the outbox alone.                            *)
LEMMA SameTyped ==
  ASSUME TInv, UNCHANGED <<resetting, outbox, worker>>
  PROVE  WorkTyped'
BY TInvParts DEF WorkTyped

(* What a transaction of an ingestion does, by name.                       *)
Kept(drafts) == {RowOf(k) : k \in {j \in Keys : drafts[j] # NoText}}
Removed(drafts) == Present \ Kept(drafts)
NewChunks(drafts) ==
  [r \in Chunks |-> IF r \in Kept(drafts) THEN Applied(chunk[r], drafts[r[1]])
                    ELSE IF r \in Removed(drafts) THEN NoChunk ELSE chunk[r]]
ToIndex(drafts) == {r \in Kept(drafts) : NewChunks(drafts)[r].vector_status # "indexed"}
PersistRows(drafts, facts) ==
  {Delete(r, document.generation) : r \in Removed(drafts)} \cup Withdrawn(facts)
    \cup {Upsert(r, document.generation, NewChunks(drafts)[r].text) : r \in ToIndex(drafts)}

(* What persist does, its LETs named.                                      *)
LEMMA PersistIs ==
  ASSUME NEW drafts, NEW facts, Persist(drafts, facts)
  PROVE  /\ document.exists
         /\ \A k \in Keys : drafts[k] # NoText => Usable(k) # {}
         /\ \A f \in facts : Withdrawable(f)
         /\ chunk' = NewChunks(drafts)
         /\ Withdraw(facts)
         /\ Enqueue(PersistRows(drafts, facts))
         /\ UNCHANGED <<documentVars, resetting, index, worker, orphaned, faults>>
BY DEF Persist, Kept, Removed, NewChunks, ToIndex, PersistRows

(* A chunk that is kept has a draft, and is present or was never indexed.  *)
LEMMA KeptAre ==
  ASSUME TypeOK, NEW drafts \in [Keys -> Indexed],
         \A k \in Keys : drafts[k] # NoText => Usable(k) # {},
         NEW r \in Kept(drafts)
  PROVE  /\ r \in Chunks /\ drafts[r[1]] \in Texts
         /\ r \in Present \/ RowsOf(r) = {}
<1>1. PICK k \in Keys : drafts[k] # NoText /\ r = RowOf(k)
  BY DEF Kept
<1>2. RowOf(k) \in Chunks /\ RowOf(k)[1] = k /\ (RowOf(k) \in Present \/ RowsOf(RowOf(k)) = {})
  BY <1>1, RowOfIs
<1>3. drafts[k] \in Texts
  BY <1>1 DEF Indexed
<1> QED
  BY <1>1, <1>2, <1>3

(* What becomes of each chunk.                                             *)
LEMMA NewChunkIs ==
  ASSUME TypeOK, NEW drafts \in [Keys -> Indexed],
         \A k \in Keys : drafts[k] # NoText => Usable(k) # {},
         NEW r \in Chunks
  PROVE  LET new == NewChunks(drafts)[r] IN
         /\ new \in ChunkRow
         /\ r \in Kept(drafts) =>
              /\ new.text \in Texts
              /\ new.content_generation = document.generation
              /\ IF chunk[r].vector_status = "indexed" /\ chunk[r].text = new.text
                 THEN new.vector_status = "indexed" ELSE new.vector_status = "pending"
         /\ r \notin Kept(drafts) => new = NoChunk
<1>1. NewChunks(drafts)[r] = IF r \in Kept(drafts) THEN Applied(chunk[r], drafts[r[1]])
                             ELSE IF r \in Removed(drafts) THEN NoChunk ELSE chunk[r]
  BY DEF NewChunks
<1>2. document.generation \in Nat /\ chunk[r] \in ChunkRow
  BY DEF TypeOK, ChunkRow
<1>3. CASE r \in Kept(drafts)
  <2>1. drafts[r[1]] \in Texts
    BY <1>3, KeptAre
  <2>2. NewChunks(drafts)[r] = Applied(chunk[r], drafts[r[1]])
    BY <1>1, <1>3
  <2> DEFINE a == Applied(chunk[r], drafts[r[1]])
  <2>3. /\ a \in ChunkRow
        /\ a.text = drafts[r[1]]
        /\ a.content_generation = document.generation
        /\ IF chunk[r].vector_status = "indexed" /\ chunk[r].text = drafts[r[1]]
           THEN a.vector_status = "indexed" ELSE a.vector_status = "pending"
    BY <1>2, <2>1 DEF Applied, ChunkRow, Indexed
  <2> HIDE DEF a
  <2> QED
    BY <1>3, <2>1, <2>2, <2>3 DEF a
<1>4. CASE r \notin Kept(drafts)
  <2>1. NewChunks(drafts)[r] = NoChunk
    BY <1>1, <1>4 DEF Removed, Present
  <2>2. NoChunk \in ChunkRow
    BY DEF NoChunk, ChunkRow, Indexed
  <2> QED
    BY <1>4, <2>1, <2>2
<1> QED
  BY <1>3, <1>4

(* The rows of facts that are withdrawn.                                   *)
LEMMA WithdrawnAre ==
  ASSUME TypeOK, NEW facts \in SUBSET Facts
  PROVE  /\ NewRows(Withdrawn(facts))
         /\ \A x \in Withdrawn(facts) : x.record \in facts /\ x.payload = NoText
         /\ \A f \in facts : \E x \in Withdrawn(facts) : x.record = f
<1>1. ASSUME NEW f \in facts
      PROVE  LET x == Delete(f, next_payload_version(f)) IN
             x \in Row /\ x.record = f /\ x.payload = NoText /\ x.status = "pending"
  <2>1. next_payload_version(f) \in Nat
    BY LatestIs
  <2>2. f \in Records /\ NoText \in Indexed
    BY DEF Records, Indexed
  <2> QED
    BY <2>1, <2>2, ItemIs DEF Delete
<1>2. ASSUME NEW x \in Withdrawn(facts)
      PROVE  \E f \in facts : x = Delete(f, next_payload_version(f))
  BY DEF Withdrawn
<1>3. \A x \in Withdrawn(facts) :
        /\ x \in Row /\ x.status = "pending" /\ x.record \in facts /\ x.payload = NoText
        /\ x = Delete(x.record, next_payload_version(x.record))
  BY <1>1, <1>2
<1>4. \A x, y \in Withdrawn(facts) : x.record = y.record => x = y
  BY <1>3
<1>5. \A f \in facts : Delete(f, next_payload_version(f)) \in Withdrawn(facts)
  BY DEF Withdrawn
<1>6. \A f \in facts : \E x \in Withdrawn(facts) : x.record = f
  BY <1>1, <1>5
<1>7. NewRows(Withdrawn(facts))
  BY <1>3, <1>4 DEF NewRows
<1> QED
  BY <1>3, <1>6, <1>7

(* The delete rows of chunks that are removed.                             *)
Deletes(removed, version) == {Delete(r, version) : r \in removed}

(* The delete rows of a set of chunks.                                     *)
LEMMA DeletesAre ==
  ASSUME NEW removed \in SUBSET Chunks, NEW version \in Nat
  PROVE  /\ NewRows(Deletes(removed, version))
         /\ \A x \in Deletes(removed, version) : x.record \in removed /\ x.payload = NoText
         /\ \A r \in removed : \E x \in Deletes(removed, version) : x.record = r
<1>1. ASSUME NEW r \in removed
      PROVE  LET x == Delete(r, version) IN
             x \in Row /\ x.record = r /\ x.payload = NoText /\ x.status = "pending"
  <2>1. r \in Records /\ NoText \in Indexed
    BY DEF Records, Indexed
  <2> QED
    BY <2>1, ItemIs DEF Delete
<1>2. \A x \in Deletes(removed, version) : \E r \in removed : x = Delete(r, version)
  BY DEF Deletes
<1>3. \A x \in Deletes(removed, version) :
        /\ x \in Row /\ x.status = "pending" /\ x.record \in removed /\ x.payload = NoText
        /\ x = Delete(x.record, version)
  BY <1>1, <1>2
<1>4. \A x, y \in Deletes(removed, version) : x.record = y.record => x = y
  BY <1>3
<1>5. \A r \in removed : Delete(r, version) \in Deletes(removed, version)
  BY DEF Deletes
<1>6. \A r \in removed : \E x \in Deletes(removed, version) : x.record = r
  BY <1>1, <1>5
<1>7. NewRows(Deletes(removed, version))
  BY <1>3, <1>4 DEF NewRows
<1> QED
  BY <1>3, <1>6, <1>7

(* The upsert rows of chunks that are to be indexed.                       *)
Upserts(drafts) ==
  {Upsert(r, document.generation, NewChunks(drafts)[r].text) : r \in ToIndex(drafts)}

(* The upsert rows of the chunks that are to be indexed.                   *)
LEMMA UpsertsAre ==
  ASSUME TypeOK, NEW drafts \in [Keys -> Indexed],
         \A k \in Keys : drafts[k] # NoText => Usable(k) # {}
  PROVE  /\ NewRows(Upserts(drafts))
         /\ \A x \in Upserts(drafts) :
              /\ x.record \in ToIndex(drafts) /\ x.payload = NewChunks(drafts)[x.record].text
              /\ x.payload_version = document.generation
         /\ \A r \in ToIndex(drafts) : \E x \in Upserts(drafts) : x.record = r
<1>1. ASSUME NEW r \in ToIndex(drafts)
      PROVE  LET x == Upsert(r, document.generation, NewChunks(drafts)[r].text) IN
             /\ x \in Row /\ x.record = r /\ x.payload = NewChunks(drafts)[r].text
             /\ x.payload_version = document.generation /\ x.status = "pending"
  <2>1. r \in Kept(drafts)
    BY DEF ToIndex
  <2>2. r \in Chunks
    BY <2>1, KeptAre
  <2>3. NewChunks(drafts)[r].text \in Texts
    BY <2>1, <2>2, NewChunkIs
  <2>4. r \in Records /\ NewChunks(drafts)[r].text \in Indexed /\ document.generation \in Nat
    BY <2>2, <2>3 DEF Records, Indexed, TypeOK
  <2> QED
    BY <2>4, ItemIs DEF Upsert
<1>2. \A x \in Upserts(drafts) : \E r \in ToIndex(drafts) :
        x = Upsert(r, document.generation, NewChunks(drafts)[r].text)
  BY DEF Upserts
<1>3. \A x \in Upserts(drafts) :
        /\ x \in Row /\ x.status = "pending" /\ x.record \in ToIndex(drafts)
        /\ x.payload = NewChunks(drafts)[x.record].text
        /\ x.payload_version = document.generation
        /\ x = Upsert(x.record, document.generation, NewChunks(drafts)[x.record].text)
  BY <1>1, <1>2
<1>4. \A x, y \in Upserts(drafts) : x.record = y.record => x = y
  BY <1>3
<1>5. \A r \in ToIndex(drafts) :
        Upsert(r, document.generation, NewChunks(drafts)[r].text) \in Upserts(drafts)
  BY DEF Upserts
<1>6. \A r \in ToIndex(drafts) : \E x \in Upserts(drafts) : x.record = r
  BY <1>1, <1>5
<1>7. NewRows(Upserts(drafts))
  BY <1>3, <1>4 DEF NewRows
<1> QED
  BY <1>3, <1>6, <1>7

(* Rows of different records are the rows of one transaction.              *)
LEMMA NewRowsUnion ==
  ASSUME NEW A, NEW B, NewRows(A), NewRows(B), \A x \in A, y \in B : x.record # y.record
  PROVE  NewRows(A \cup B)
BY DEF NewRows

(* The rows that persist enqueues are of different records.                *)
LEMMA PersistRowsAre ==
  ASSUME TypeOK, NEW drafts \in [Keys -> Indexed], NEW facts \in SUBSET Facts,
         \A k \in Keys : drafts[k] # NoText => Usable(k) # {}
  PROVE  NewRows(PersistRows(drafts, facts))
<1> DEFINE A == Deletes(Removed(drafts), document.generation)
           B == Withdrawn(facts)
           C == Upserts(drafts)
<1>1. Removed(drafts) \in SUBSET Chunks /\ document.generation \in Nat
  BY DEF Removed, Present, TypeOK
<1>2. ToIndex(drafts) \subseteq Kept(drafts) /\ Kept(drafts) \subseteq Chunks
      /\ Kept(drafts) \cap Removed(drafts) = {}
  BY KeptAre DEF ToIndex, Removed
<1>3. NewRows(A) /\ \A x \in A : x.record \in Removed(drafts)
  BY <1>1, DeletesAre
<1>4. NewRows(B) /\ \A x \in B : x.record \in Facts
  BY WithdrawnAre
<1>5. NewRows(C) /\ \A x \in C : x.record \in Kept(drafts)
  BY <1>2, UpsertsAre
<1>6. PersistRows(drafts, facts) = A \cup B \cup C
  BY DEF PersistRows, Deletes, Upserts
<1> HIDE DEF A, B, C
<1>7. \A x \in A, y \in B : x.record # y.record
  BY <1>1, <1>3, <1>4, Disjoint
<1>8. NewRows(A \cup B)
  BY <1>3, <1>4, <1>7, NewRowsUnion
<1>9. \A x \in A \cup B, y \in C : x.record # y.record
  BY <1>2, <1>3, <1>4, <1>5, Disjoint
<1> QED
  BY <1>5, <1>6, <1>8, <1>9, NewRowsUnion

(* What a purge does, by name.                                             *)
Purged(s) == IF document.exists /\ document.generation = s.generation THEN Present ELSE {}
PurgeRows(s, facts) == Deletes(Purged(s), s.generation) \cup Withdrawn(facts)

(* What purge_document_derivatives does, its LETs named.                   *)
LEMMA PurgeIs ==
  ASSUME NEW s, NEW facts, PurgeDerivatives(s, facts)
  PROVE  /\ \A f \in facts : Withdrawable(f)
         /\ deletions' = (deletions \ {s}) \cup {[s EXCEPT !.purged = TRUE]}
         /\ chunk' = [r \in Chunks |-> IF r \in Purged(s) THEN NoChunk ELSE chunk[r]]
         /\ Withdraw(facts)
         /\ Enqueue(PurgeRows(s, facts))
         /\ UNCHANGED <<document, replacements, resetting, index, worker, orphaned, faults>>
BY DEF PurgeDerivatives, Purged, PurgeRows, Deletes

(* The rows that it enqueues are of different records.                     *)
LEMMA PurgeRowsAre ==
  ASSUME TypeOK, NEW s \in deletions, NEW facts \in SUBSET Facts
  PROVE  NewRows(PurgeRows(s, facts)) /\ Purged(s) \in SUBSET Chunks /\ s.generation \in Nat
<1>1. s.generation \in Nat /\ Purged(s) \in SUBSET Chunks
  BY DEF TypeOK, Purged, Present
<1>2. NewRows(Deletes(Purged(s), s.generation))
      /\ \A x \in Deletes(Purged(s), s.generation) : x.record \in Chunks
  BY <1>1, DeletesAre
<1>3. NewRows(Withdrawn(facts)) /\ \A x \in Withdrawn(facts) : x.record \in Facts
  BY WithdrawnAre
<1> QED
  BY <1>1, <1>2, <1>3, Disjoint, NewRowsUnion DEF PurgeRows

(* The one row of a fact that is created or edited.                        *)
LEMMA UpsertFactRow ==
  ASSUME TypeOK, NEW f \in Facts, NEW text \in Texts
  PROVE  LET x == Upsert(f, next_payload_version(f), text) IN
         NewRows({x}) /\ x.record = f /\ x.payload = text
<1> DEFINE x == Upsert(f, next_payload_version(f), text)
<1>1. next_payload_version(f) \in Nat
  BY LatestIs
<1>2. f \in Records /\ text \in Indexed
  BY DEF Records, Indexed
<1>3. x \in Row /\ x.record = f /\ x.payload = text /\ x.status = "pending"
  BY <1>1, <1>2, ItemIs DEF Upsert
<1> HIDE DEF x
<1>4. NewRows({x})
  BY <1>3 DEF NewRows
<1> QED
  BY <1>3, <1>4 DEF x

(* Enqueue keeps the outbox half of the types.                             *)
LEMMA EnqueueTyped ==
  ASSUME TInv, NEW rows, NewRows(rows), Enqueue(rows), UNCHANGED <<resetting, worker>>
  PROVE  WorkTyped' /\ collided' \subseteq Records
<1>1. TypeOK
  BY DEF TInv
<1>2. Appends({x \in rows : ~Known(x)}) /\ collided' \subseteq Records
  BY <1>1, EnqueueAppends
<1>3. \A x \in {y \in rows : ~Known(y)} : x.status = "pending"
  BY DEF NewRows
<1> QED
  BY <1>2, <1>3, AppendTyped

(* The initial state has the types.                                        *)
LEMMA InitTyped ==
  Init => TInv
<1> SUFFICES ASSUME Init PROVE TInv
  OBVIOUS
<1>1. NoText \in Indexed /\ 0 \in Nat /\ 1 \in Nat
  BY DEF Indexed
<1>2. NoChunk \in ChunkRow
  BY <1>1 DEF NoChunk, ChunkRow
<1>3. DataTyped
  BY <1>1, <1>2 DEF Init, DataTyped
<1>4. /\ outbox \in Seq(Row) /\ DOMAIN outbox = {}
      /\ resetting \in [point : {"idle", "read", "deleted"}, version : [Facts -> Nat], doomed : SUBSET Nat]
      /\ resetting.doomed = {}
  BY DEF Init, NoReset
<1>5. Rest \in WorkerState /\ Rest.point \in Resting /\ Rest.batch = {}
  BY DEF Rest, WorkerState, Resting
<1>6. \A q \in Workers : worker[q] = Rest
  BY DEF Init
<1>7. worker \in [Workers -> WorkerState]
  BY <1>5 DEF Init
<1>8. WorkTyped
  BY <1>4, <1>5, <1>6, <1>7 DEF WorkTyped
<1> QED
  BY <1>3, <1>8, TInvParts

(* Persist keeps the types.                                                *)
LEMMA PersistTyped ==
  ASSUME TInv, NEW drafts \in [Keys -> Indexed], NEW facts \in SUBSET Facts, Persist(drafts, facts)
  PROVE  TInv'
<1>1. TypeOK /\ DataTyped
  BY TInvParts DEF TInv
<1>2. /\ \A k \in Keys : drafts[k] # NoText => Usable(k) # {}
      /\ chunk' = NewChunks(drafts)
      /\ Withdraw(facts)
      /\ Enqueue(PersistRows(drafts, facts))
      /\ UNCHANGED <<documentVars, resetting, index, worker, orphaned, faults>>
  BY PersistIs
<1>3. NewRows(PersistRows(drafts, facts))
  BY <1>1, <1>2, PersistRowsAre
<1>4. WorkTyped' /\ collided' \subseteq Records
  BY <1>2, <1>3, EnqueueTyped
<1>5. chunk' \in [Chunks -> ChunkRow]
  <2>1. \A r \in Chunks : NewChunks(drafts)[r] \in ChunkRow
    BY <1>1, <1>2, NewChunkIs
  <2>2. NewChunks(drafts) = [r \in Chunks |-> NewChunks(drafts)[r]]
    BY DEF NewChunks
  <2> QED
    BY <1>2, <2>1, <2>2
<1>6. fact' \in [Facts -> Indexed \cup {RemovedFact}]
  BY <1>1, <1>2 DEF DataTyped, Withdraw, Indexed
<1>7. DataTyped'
  BY <1>1, <1>2, <1>4, <1>5, <1>6 DEF DataTyped, documentVars
<1> QED
  BY <1>4, <1>7, TInvParts

(* The purge of a document keeps the types.                                *)
LEMMA PurgeTyped ==
  ASSUME TInv, NEW s \in deletions, NEW facts \in SUBSET Facts, PurgeDerivatives(s, facts)
  PROVE  TInv'
<1>1. TypeOK /\ DataTyped
  BY TInvParts DEF TInv
<1>2. /\ deletions' = (deletions \ {s}) \cup {[s EXCEPT !.purged = TRUE]}
      /\ chunk' = [r \in Chunks |-> IF r \in Purged(s) THEN NoChunk ELSE chunk[r]]
      /\ Withdraw(facts)
      /\ Enqueue(PurgeRows(s, facts))
      /\ UNCHANGED <<document, replacements, resetting, index, worker, orphaned, faults>>
  BY PurgeIs
<1>3. WorkTyped' /\ collided' \subseteq Records
  BY <1>1, <1>2, PurgeRowsAre, EnqueueTyped
<1>4. chunk' \in [Chunks -> ChunkRow]
  <2>1. NoChunk \in ChunkRow
    BY DEF NoChunk, ChunkRow, Indexed
  <2> QED
    BY <1>1, <1>2, <2>1 DEF DataTyped
<1>5. fact' \in [Facts -> Indexed \cup {RemovedFact}]
  BY <1>1, <1>2 DEF DataTyped, Withdraw, Indexed
<1>6. deletions' \subseteq [generation : Nat, purged : BOOLEAN]
  <2>1. s \in [generation : Nat, purged : BOOLEAN]
    BY <1>1 DEF DataTyped
  <2>2. [s EXCEPT !.purged = TRUE] \in [generation : Nat, purged : BOOLEAN]
    BY <2>1
  <2> QED
    BY <1>1, <1>2, <2>2 DEF DataTyped
<1>7. DataTyped'
  BY <1>1, <1>2, <1>3, <1>4, <1>5, <1>6 DEF DataTyped
<1> QED
  BY <1>3, <1>7, TInvParts

(* The start of a replacement or a deletion keeps the types.               *)
LEMMA BeginTyped ==
  ASSUME TInv, BeginReplacement \/ BeginDelete
  PROVE  TInv'
<1>1. DataTyped /\ document.generation \in Nat
  BY TInvParts DEF DataTyped
<1>2. WorkTyped'
  BY SameTyped DEF BeginReplacement, BeginDelete
<1>3. UNCHANGED <<chunk, fact, index, historyVars, faults>>
  BY DEF BeginReplacement, BeginDelete
<1>4. PICK n \in Nat, deleting \in BOOLEAN :
        /\ n = document.generation + 1
        /\ document' = [document EXCEPT !.generation = n, !.deleting = deleting]
  <2>1. document.generation + 1 \in Nat
    BY <1>1
  <2>2. \E deleting \in BOOLEAN :
          document' = [document EXCEPT !.generation = document.generation + 1, !.deleting = deleting]
    BY DEF BeginReplacement, BeginDelete
  <2> QED
    BY <2>1, <2>2
<1>5. document' \in [exists : BOOLEAN, generation : Nat, deleting : BOOLEAN]
  <2>1. document \in [exists : BOOLEAN, generation : Nat, deleting : BOOLEAN]
    BY <1>1 DEF DataTyped
  <2> QED
    BY <1>4, <2>1
<1>6. replacements' \subseteq [generation : Nat, deleting : BOOLEAN]
  <2> DEFINE x == [generation |-> document.generation, deleting |-> document.deleting]
  <2>1. x \in [generation : Nat, deleting : BOOLEAN]
    BY <1>1 DEF DataTyped
  <2>2. replacements' \subseteq replacements \cup {x}
    BY DEF BeginReplacement, BeginDelete
  <2> HIDE DEF x
  <2> QED
    BY <1>1, <2>1, <2>2 DEF DataTyped
<1>7. deletions' \subseteq [generation : Nat, purged : BOOLEAN]
  <2> DEFINE x == [generation |-> document.generation + 1, purged |-> FALSE]
  <2>1. x \in [generation : Nat, purged : BOOLEAN]
    BY <1>1
  <2>2. deletions' \subseteq deletions \cup {x}
    BY DEF BeginReplacement, BeginDelete
  <2> HIDE DEF x
  <2> QED
    BY <1>1, <2>1, <2>2 DEF DataTyped
<1>8. DataTyped'
  BY <1>1, <1>3, <1>5, <1>6, <1>7 DEF DataTyped, historyVars
<1> QED
  BY <1>2, <1>8, TInvParts

(* The restore of a replacement keeps the types.                           *)
LEMMA RestoreTyped ==
  ASSUME TInv, NEW s \in replacements, RestoreReplacement(s)
  PROVE  TInv'
<1>1. DataTyped
  BY TInvParts
<1>2. WorkTyped'
  BY SameTyped DEF RestoreReplacement
<1>3. s.generation \in Nat /\ s.deleting \in BOOLEAN
  BY <1>1 DEF DataTyped
<1>4. document' \in [exists : BOOLEAN, generation : Nat, deleting : BOOLEAN]
  BY <1>1, <1>3 DEF RestoreReplacement, DataTyped
<1>5. replacements' \subseteq replacements
      /\ UNCHANGED <<deletions, chunk, fact, index, historyVars, faults>>
  BY DEF RestoreReplacement
<1>6. DataTyped'
  BY <1>1, <1>4, <1>5 DEF DataTyped, historyVars
<1> QED
  BY <1>2, <1>6, TInvParts

(* The end of a deletion keeps the types.                                  *)
LEMMA RemoveTyped ==
  ASSUME TInv, NEW s \in deletions, RemoveDocument(s)
  PROVE  TInv'
<1>1. DataTyped
  BY TInvParts
<1>2. WorkTyped'
  BY SameTyped DEF RemoveDocument
<1>3. document' \in [exists : BOOLEAN, generation : Nat, deleting : BOOLEAN]
  BY <1>1 DEF RemoveDocument, DataTyped
<1>4. chunk' \in [Chunks -> ChunkRow]
  BY DEF RemoveDocument, NoChunk, ChunkRow, Indexed
<1>5. orphaned' \subseteq Records
  BY <1>1 DEF RemoveDocument, DataTyped, Present, Records
<1>6. deletions' \subseteq deletions /\ UNCHANGED <<replacements, fact, index, collided, faults>>
  BY DEF RemoveDocument
<1>7. DataTyped'
  BY <1>1, <1>3, <1>4, <1>5, <1>6 DEF DataTyped
<1> QED
  BY <1>2, <1>7, TInvParts

(* An upsert and an archival of a fact keep the types.                     *)
LEMMA FactTyped ==
  ASSUME TInv, NEW f \in Facts, ArchiveFact(f) \/ \E text \in Texts : UpsertFact(f, text)
  PROVE  TInv'
<1>1. TypeOK /\ DataTyped
  BY TInvParts DEF TInv
<1>2. CASE ArchiveFact(f)
  <2>1. WorkTyped' /\ collided' \subseteq Records
    <3>1. NewRows(Withdrawn({f}))
      BY <1>1, WithdrawnAre
    <3> QED
      BY <1>2, <3>1, EnqueueTyped DEF ArchiveFact
  <2>2. fact' \in [Facts -> Indexed \cup {RemovedFact}]
    BY <1>1, <1>2 DEF ArchiveFact, DataTyped, Indexed
  <2>3. DataTyped'
    BY <1>1, <1>2, <2>1, <2>2 DEF ArchiveFact, DataTyped, documentVars
  <2> QED
    BY <2>1, <2>3, TInvParts
<1>3. ASSUME NEW text \in Texts, UpsertFact(f, text) PROVE TInv'
  <2>1. WorkTyped' /\ collided' \subseteq Records
    BY <1>1, <1>3, UpsertFactRow, EnqueueTyped DEF UpsertFact
  <2>2. fact' \in [Facts -> Indexed \cup {RemovedFact}]
    BY <1>1, <1>3 DEF UpsertFact, DataTyped, Indexed
  <2>3. DataTyped'
    BY <1>1, <1>3, <2>1, <2>2 DEF UpsertFact, DataTyped, documentVars
  <2> QED
    BY <2>1, <2>3, TInvParts
<1> QED
  BY <1>2, <1>3

(* The three statements of a reset; the last, by name.                     *)
Found == {f \in Facts : resetting.version[f] > 0}
Left == [i \in DOMAIN outbox |->
           IF i \in resetting.doomed THEN [outbox[i] EXCEPT !.status = "deleted"] ELSE outbox[i]]
Tombstones == {Delete(f, resetting.version[f]) : f \in Found}

(* What the commit of a reset does, its LETs named.                        *)
LEMMA ResetIs ==
  ASSUME ResetCommit
  PROVE  /\ resetting.point = "deleted"
         /\ resetting' = NoReset
         /\ outbox' = Left \o SetToSeq(Tombstones)
         /\ \A f \in Found : fact'[f] = RemovedFact
         /\ \A f \in Facts \ Found : fact'[f] = IF RowsOf(f) # {} THEN RemovedFact ELSE fact[f]
         /\ fact' = [f \in Facts |-> fact'[f]]
         /\ \A f \in Found : RowsOf(f) \ resetting.doomed # {} => f \in collided'
         /\ collided \subseteq collided' /\ collided' \subseteq collided \cup Facts
         /\ \A f \in Facts \ Found : RowsOf(f) # {} => f \in orphaned'
         /\ orphaned \subseteq orphaned' /\ orphaned' \subseteq orphaned \cup Facts
         /\ UNCHANGED <<documentVars, chunk, index, worker, faults>>
BY DEF ResetCommit, Found, Left, Tombstones

(* The tombstones are of different facts.                                  *)
LEMMA TombstonesAre ==
  ASSUME TypeOK
  PROVE  /\ NewRows(Tombstones)
         /\ \A x \in Tombstones : x.record \in Found /\ x.payload = NoText
         /\ \A f \in Found : \E x \in Tombstones : x.record = f
<1>1. ASSUME NEW f \in Found
      PROVE  LET x == Delete(f, resetting.version[f]) IN
             x \in Row /\ x.record = f /\ x.payload = NoText /\ x.status = "pending"
  <2>1. f \in Records /\ NoText \in Indexed /\ resetting.version[f] \in Nat
    BY DEF Records, Indexed, TypeOK, Found
  <2> QED
    BY <2>1, ItemIs DEF Delete
<1>2. \A x \in Tombstones : \E f \in Found : x = Delete(f, resetting.version[f])
  BY DEF Tombstones
<1>3. \A x \in Tombstones :
        /\ x \in Row /\ x.status = "pending" /\ x.record \in Found /\ x.payload = NoText
        /\ x = Delete(x.record, resetting.version[x.record])
  BY <1>1, <1>2
<1>4. \A x, y \in Tombstones : x.record = y.record => x = y
  BY <1>3
<1>5. \A f \in Found : Delete(f, resetting.version[f]) \in Tombstones
  BY DEF Tombstones
<1>6. \A f \in Found : \E x \in Tombstones : x.record = f
  BY <1>1, <1>5
<1>7. NewRows(Tombstones)
  BY <1>3, <1>4 DEF NewRows
<1> QED
  BY <1>3, <1>6, <1>7

(* What a reset does to the outbox: the rows that it read as deletable     *)
(* are gone, the others stay, and the tombstones come last.                *)
LEMMA ResetRows ==
  ASSUME TypeOK, ResetCommit
  PROVE  /\ outbox' \in Seq(Row)
         /\ DOMAIN outbox \subseteq DOMAIN outbox'
         /\ \A i \in DOMAIN outbox :
              /\ outbox'[i].record = outbox[i].record
              /\ outbox'[i].operation = outbox[i].operation
              /\ outbox'[i].payload_version = outbox[i].payload_version
              /\ outbox'[i].payload = outbox[i].payload
              /\ outbox'[i].status = IF i \in resetting.doomed THEN "deleted" ELSE outbox[i].status
         /\ \A i \in DOMAIN outbox' \ DOMAIN outbox :
              outbox'[i] \in Tombstones /\ \A j \in DOMAIN outbox : j < i
         /\ \A i, j \in DOMAIN outbox' \ DOMAIN outbox : outbox'[i].record = outbox'[j].record => i = j
         /\ \A x \in Tombstones : \E i \in DOMAIN outbox' \ DOMAIN outbox : outbox'[i] = x
<1>1. "deleted" \in RowStatuses
  BY DEF RowStatuses
<1>2. PICK left, d, R : left = Left /\ d = resetting.doomed /\ R = Tombstones
  OBVIOUS
<1>3. /\ left \in Seq(Row)
      /\ DOMAIN left = DOMAIN outbox /\ Len(left) = Len(outbox)
      /\ \A j \in DOMAIN outbox :
           /\ left[j].record = outbox[j].record
           /\ left[j].operation = outbox[j].operation
           /\ left[j].payload_version = outbox[j].payload_version
           /\ left[j].payload = outbox[j].payload
           /\ left[j].status = IF j \in d THEN "deleted" ELSE outbox[j].status
  <2>1. left = [i \in DOMAIN outbox |->
                  IF i \in d THEN [outbox[i] EXCEPT !.status = "deleted"] ELSE outbox[i]]
    BY <1>2 DEF Left
  <2> QED
    BY <1>1, <2>1, StatusesAre
<1>4. R \in SUBSET Row /\ \A x, y \in R : x.record = y.record => x = y
  BY <1>2, TombstonesAre DEF NewRows
<1>5. outbox' = left \o SetToSeq(R)
  BY <1>2, ResetIs
<1>6. /\ outbox' \in Seq(Row)
      /\ Len(left) \in Nat /\ Len(outbox') \in Nat /\ Len(left) <= Len(outbox')
      /\ DOMAIN left = 1 .. Len(left)
      /\ DOMAIN outbox' = 1 .. Len(outbox')
      /\ \A i \in DOMAIN left : outbox'[i] = left[i]
      /\ \A i \in DOMAIN outbox' : i \in DOMAIN left \/ outbox'[i] \in R
      /\ \A i, j \in DOMAIN outbox' \ DOMAIN left : outbox'[i].record = outbox'[j].record => i = j
      /\ \A x \in R : \E i \in DOMAIN outbox' \ DOMAIN left : outbox'[i] = x
  <2>1. left \in Seq(Row)
    BY <1>3
  <2> QED
    BY ONLY <1>4, <1>5, <2>1, Appended
<1>7. DOMAIN left \subseteq DOMAIN outbox'
  BY <1>6
<1>8. \A i \in DOMAIN outbox' \ DOMAIN left : \A j \in DOMAIN left : j < i
  BY <1>6
<1> QED
  BY <1>2, <1>3, <1>6, <1>7, <1>8

(* The steps of a reset keep the types.                                    *)
LEMMA ResetTyped ==
  ASSUME TInv, ResetRead \/ ResetDelete \/ ResetCommit
  PROVE  TInv'
<1>1. TypeOK /\ DataTyped /\ WorkTyped
  BY TInvParts DEF TInv
<1>2. CASE ResetRead
  <2> DEFINE v == [f \in Facts |-> IF RowsOf(f) = {} THEN 0 ELSE next_payload_version(f)]
  <2>1. \A f \in Facts : next_payload_version(f) \in Nat
    BY <1>1, LatestIs
  <2>2. v \in [Facts -> Nat]
    BY <2>1
  <2>3. resetting' = [point |-> "read", doomed |-> {}, version |-> v]
    BY <1>2 DEF ResetRead
  <2> HIDE DEF v
  <2>4. /\ resetting' \in [point : {"idle", "read", "deleted"}, version : [Facts -> Nat], doomed : SUBSET Nat]
        /\ resetting'.doomed = {}
    BY <2>2, <2>3
  <2>5. UNCHANGED <<documentVars, chunk, fact, outbox, index, worker, historyVars, faults>>
    BY <1>2 DEF ResetRead
  <2>6. WorkTyped'
    BY <1>1, <2>4, <2>5 DEF WorkTyped
  <2>7. DataTyped'
    BY <1>1, <2>5 DEF DataTyped, documentVars, historyVars
  <2> QED
    BY <2>6, <2>7, TInvParts
<1>3. CASE ResetDelete
  <2> DEFINE d == UNION {RowsOf(f) : f \in Facts}
  <2>1. \A i \in d : i \in DOMAIN outbox /\ outbox[i].record \in Facts
    BY DEF RowsOf
  <2>2. d \in SUBSET Nat
    BY <1>1, <2>1, RowsAre
  <2>3. resetting' = [resetting EXCEPT !.point = "deleted", !.doomed = d]
    BY <1>3 DEF ResetDelete
  <2> HIDE DEF d
  <2>4. /\ resetting' \in [point : {"idle", "read", "deleted"}, version : [Facts -> Nat], doomed : SUBSET Nat]
        /\ resetting'.doomed = d
    BY <1>1, <2>2, <2>3 DEF WorkTyped
  <2>5. UNCHANGED <<documentVars, chunk, fact, outbox, index, worker, historyVars, faults>>
    BY <1>3 DEF ResetDelete
  <2>6. WorkTyped'
    BY <1>1, <2>1, <2>4, <2>5 DEF WorkTyped
  <2>7. DataTyped'
    BY <1>1, <2>5 DEF DataTyped, documentVars, historyVars
  <2> QED
    BY <2>6, <2>7, TInvParts
<1>4. CASE ResetCommit
  <2>1. /\ resetting' = NoReset
        /\ collided' \subseteq collided \cup Facts /\ orphaned' \subseteq orphaned \cup Facts
        /\ UNCHANGED <<documentVars, chunk, index, worker, faults>>
    BY <1>4, ResetIs
  <2>2. fact' \in [Facts -> Indexed \cup {RemovedFact}]
    BY <1>1, <1>4 DEF ResetCommit, DataTyped
  <2>3. DataTyped'
    BY <1>1, <2>1, <2>2 DEF DataTyped, documentVars, Records
  <2>4. /\ resetting' \in [point : {"idle", "read", "deleted"}, version : [Facts -> Nat], doomed : SUBSET Nat]
        /\ resetting'.doomed = {}
    BY <2>1 DEF NoReset
  <2>5. outbox' \in Seq(Row) /\ DOMAIN outbox \subseteq DOMAIN outbox'
    BY <1>1, <1>4, ResetRows
  <2>6. \A p \in Workers : worker'[p].batch \subseteq DOMAIN outbox'
    BY <1>1, <2>1, <2>5 DEF WorkTyped
  <2>7. ASSUME NEW i \in DOMAIN outbox', outbox'[i].status = "deleted"
        PROVE  outbox'[i].record \in Facts
    <3>1. CASE i \in DOMAIN outbox
      <4>1. outbox'[i].record = outbox[i].record
            /\ (i \in resetting.doomed \/ outbox[i].status = "deleted")
        BY <1>1, <1>4, <2>7, <3>1, ResetRows
      <4> QED
        BY <1>1, <3>1, <4>1 DEF WorkTyped
    <3>2. CASE i \notin DOMAIN outbox
      <4>1. outbox'[i] \in Tombstones
        BY <1>1, <1>4, <3>2, ResetRows
      <4>2. outbox'[i].record \in Found
        BY <1>1, <4>1, TombstonesAre
      <4> QED
        BY <4>2 DEF Found
    <3> QED
      BY <3>1, <3>2
  <2>8. WorkTyped'
    BY <1>1, <2>1, <2>4, <2>5, <2>6, <2>7 DEF WorkTyped
  <2> QED
    BY <2>3, <2>8, TInvParts
<1> QED
  BY <1>2, <1>3, <1>4

(* Marking a chunk changes its vector_status only, and only for a row of   *)
(* the chunk's own generation.                                             *)
LEMMA AcknowledgedIs ==
  ASSUME TypeOK, NEW p \in Workers
  PROVE  /\ Acknowledged(p) \in [Chunks -> ChunkRow]
         /\ \A c \in Chunks :
              /\ Acknowledged(p)[c].text = chunk[c].text
              /\ Acknowledged(p)[c].content_generation = chunk[c].content_generation
              /\ Acknowledged(p)[c] # chunk[c] =>
                   /\ c = Current(p).record
                   /\ chunk[c] # NoChunk
                   /\ chunk[c].content_generation = Current(p).payload_version
                   /\ Acknowledged(p)[c].vector_status = "indexed"
<1>1. chunk \in [Chunks -> ChunkRow]
  BY DEF TypeOK, ChunkRow
<1> DEFINE r == Current(p).record
           Marks == /\ r \in Chunks /\ Current(p).operation = "upsert" /\ chunk[r] # NoChunk
                    /\ chunk[r].content_generation = Current(p).payload_version
           y == [chunk[r] EXCEPT !.vector_status = "indexed"]
<1>2. CASE Marks
  <2>1. chunk[r] \in ChunkRow
    BY <1>1, <1>2
  <2>2. /\ y \in ChunkRow /\ y.text = chunk[r].text
        /\ y.content_generation = chunk[r].content_generation
        /\ y.vector_status = "indexed"
    BY <2>1 DEF ChunkRow
  <2>3. Acknowledged(p) = [chunk EXCEPT ![r] = y]
    BY <1>2 DEF Acknowledged
  <2> HIDE DEF y
  <2>4. \A c \in Chunks : Acknowledged(p)[c] = IF c = r THEN y ELSE chunk[c]
    BY <1>1, <2>3
  <2>5. Acknowledged(p) \in [Chunks -> ChunkRow]
    BY <1>1, <2>2, <2>3
  <2> QED
    BY <1>2, <2>2, <2>4, <2>5
<1>3. CASE ~Marks
  <2>1. Acknowledged(p) = chunk
    BY <1>3 DEF Acknowledged
  <2> QED
    BY <1>1, <2>1
<1> QED
  BY <1>2, <1>3

(* What each step of a worker does. is_latest decides whether the vector   *)
(* is written,                                                             *)
LEMMA IsLatestIs ==
  ASSUME TInv, NEW p \in Workers, is_latest(p)
  PROVE  /\ worker[p].point = "checking"
         /\ Goes(p, IF IsLatest(p) THEN "writing" ELSE "completing", worker[p].batch)
         /\ UNCHANGED <<sourceVars, outbox, index, historyVars, faults>>
<1> DEFINE point == IF IsLatest(p) THEN "writing" ELSE "completing"
<1>1. point \in Holding /\ worker[p].point \in Holding
  BY DEF Holding, is_latest
<1>2. Move(p, point) /\ TypeOK
  BY DEF is_latest, TInv
<1> HIDE DEF point
<1>3. Goes(p, point, worker[p].batch)
  BY <1>1, <1>2, MoveGoes
<1> QED
  BY <1>3 DEF is_latest, point

(* the write changes the index only,                                       *)
LEMMA WriteVectorIs ==
  ASSUME TInv, NEW p \in Workers, WriteVector(p)
  PROVE  /\ worker[p].point = "writing"
         /\ Written(p)
         /\ Goes(p, "completing", worker[p].batch)
         /\ UNCHANGED <<sourceVars, outbox, historyVars, faults>>
BY MoveGoes DEF WriteVector, Holding, TInv

(* mark_completed gives up the row, completed unless a reset deleted it,   *)
LEMMA MarkCompletedIs ==
  ASSUME TInv, NEW p \in Workers, mark_completed(p)
  PROVE  /\ worker[p].point = "completing"
         /\ \E point \in {"idle", "checking"} : Goes(p, point, worker[p].batch \ {Position(p)})
         /\ Restated
         /\ \/ Current(p).status = "deleted" /\ outbox' = outbox /\ chunk' = chunk
            \/ /\ Current(p).status # "deleted"
               /\ SetStatus(Position(p), "completed") /\ chunk' = Acknowledged(p)
         /\ UNCHANGED <<documentVars, fact, resetting, index, historyVars, faults>>
<1>1. worker[p].point = "completing" /\ worker[p].point \in Holding
  BY DEF mark_completed, Holding
<1>2. \E point \in {"idle", "checking"} : Goes(p, point, worker[p].batch \ {Position(p)})
  BY <1>1, AdvanceGoes DEF mark_completed
<1>3. IF Current(p).status = "deleted" THEN UNCHANGED <<outbox, chunk>>
      ELSE SetStatus(Position(p), "completed") /\ chunk' = Acknowledged(p)
  BY DEF mark_completed
<1>4. TypeOK /\ Position(p) \in DOMAIN outbox /\ "completed" \in RowStatuses \ {"deleted"}
  BY <1>1, PositionIs DEF TInv, RowStatuses
<1>5. Restated
  BY <1>3, <1>4, StatusRestated, SameRestated DEF Current
<1> QED
  BY <1>1, <1>2, <1>3, <1>5 DEF mark_completed

(* mark_retry gives it up for later,                                       *)
LEMMA MarkRetryIs ==
  ASSUME TInv, NEW p \in Workers, mark_retry(p)
  PROVE  /\ worker[p].point = "retrying"
         /\ \E point \in {"idle", "checking"} : Goes(p, point, worker[p].batch \ {Position(p)})
         /\ Restated
         /\ \/ outbox' = outbox
            \/ Current(p).status # "deleted" /\ SetStatus(Position(p), "waiting")
         /\ UNCHANGED <<sourceVars, index, historyVars, faults>>
<1>1. worker[p].point = "retrying" /\ worker[p].point \in Holding
  BY DEF mark_retry, Holding
<1>2. \E point \in {"idle", "checking"} : Goes(p, point, worker[p].batch \ {Position(p)})
  BY <1>1, AdvanceGoes DEF mark_retry
<1>3. IF Current(p).status = "deleted" THEN UNCHANGED outbox ELSE SetStatus(Position(p), "waiting")
  BY DEF mark_retry
<1>4. TypeOK /\ Position(p) \in DOMAIN outbox /\ "waiting" \in RowStatuses \ {"deleted"}
  BY <1>1, PositionIs DEF TInv, RowStatuses
<1>5. Restated
  BY <1>3, <1>4, StatusRestated, SameRestated DEF Current
<1> QED
  BY <1>1, <1>2, <1>3, <1>5 DEF mark_retry

(* a failure of one item leads to mark_retry, the vector written or not,   *)
LEMMA ItemFailsIs ==
  ASSUME TInv, NEW p \in Workers, ItemFails(p)
  PROVE  /\ worker[p].point \in {"checking", "writing", "completing"}
         /\ Goes(p, "retrying", worker[p].batch)
         /\ \/ UNCHANGED index
            \/ worker[p].point = "writing" /\ Written(p)
         /\ UNCHANGED <<sourceVars, outbox, historyVars>>
         /\ faults' = faults + 1
<1>1. "retrying" \in Holding /\ worker[p].point \in Holding
  BY DEF Holding, ItemFails
<1>2. Goes(p, "retrying", worker[p].batch)
  BY <1>1, MoveGoes DEF ItemFails, TInv
<1> QED
  BY <1>2 DEF ItemFails, Fault

(* and a failure of the loop, a crash and a restart give up the batch.     *)
LEMMA StopIs ==
  ASSUME TInv, NEW p \in Workers, LoopFails(p) \/ Crash(p) \/ Restart(p)
  PROVE  /\ \E point \in Resting : Goes(p, point, {})
         /\ UNCHANGED <<sourceVars, outbox, index, historyVars>>
         /\ faults' \in {faults, faults + 1}
<1>1. PICK point \in Resting : worker' = [worker EXCEPT ![p] = [point |-> point, batch |-> {}]]
  BY DEF LoopFails, Crash, Restart, Rest, Resting
<1> DEFINE y == [point |-> point, batch |-> {}]
<1>2. y \in WorkerState /\ y.point = point /\ y.batch = {}
  BY DEF WorkerState
<1>3. worker' = [worker EXCEPT ![p] = y]
  BY <1>1
<1> HIDE DEF y
<1>4. Goes(p, point, {})
  BY <1>2, <1>3, GoesTo DEF TInv
<1> QED
  BY <1>4 DEF LoopFails, Crash, Restart, Fault

(* What time does to a row: it is due, or its lease is over.               *)
LEMMA TimeIs ==
  ASSUME TInv, NEW i \in DOMAIN outbox, Due(i) \/ LeaseExpires(i)
  PROVE  /\ Restated
         /\ outbox[i].status \in {"waiting", "processing"}
         /\ outbox[i].status = "processing" => \E p \in Workers : i \notin worker[p].batch
         /\ \E status \in {"pending", "expired"} : SetStatus(i, status)
         /\ UNCHANGED <<sourceVars, index, worker, historyVars, faults>>
<1>1. {"pending", "expired"} \subseteq RowStatuses \ {"deleted"}
  BY DEF RowStatuses
<1>2. \E status \in {"pending", "expired"} : SetStatus(i, status)
  BY DEF Due, LeaseExpires
<1>3. outbox[i].status \in {"waiting", "processing"}
  BY DEF Due, LeaseExpires
<1>4. Restated
  BY <1>1, <1>2, <1>3, StatusRestated DEF TInv
<1> QED
  BY <1>2, <1>3, <1>4 DEF Due, LeaseExpires

(* What a worker writes to the index has the type of the index.            *)
LEMMA WrittenTyped ==
  ASSUME TInv, NEW p \in Workers, worker[p].point \in Holding, Written(p)
  PROVE  index' \in [Records -> Indexed]
<1>1. Current(p).payload \in Indexed
  BY PositionIs DEF Row
<1>2. index \in [Records -> Indexed]
  BY DEF TInv, TypeOK
<1> QED
  BY <1>1, <1>2 DEF Written

(* The steps of a worker keep the types.                                   *)
LEMMA WorkerTyped ==
  ASSUME TInv, NEW p \in Workers,
         Work(p) \/ ItemFails(p) \/ LoopFails(p) \/ Crash(p) \/ Restart(p)
  PROVE  TInv'
<1>1. /\ TypeOK /\ DataTyped
      /\ worker[p].batch \subseteq DOMAIN outbox
      /\ faults + 1 \in Nat
  BY TInvParts DEF TInv, DataTyped
<1>2. ASSUME claim_batch(p) PROVE TInv'
  <2>1. UNCHANGED <<sourceVars, index, historyVars, faults>>
    BY <1>2 DEF claim_batch
  <2>2. Oldest \subseteq DOMAIN outbox
    BY <1>1, OldestIs
  <2>3. WorkTyped'
    BY <1>1, <1>2, <2>1, <2>2, ClaimGoes, GoesTyped DEF sourceVars
  <2>4. DataTyped'
    BY <1>1, <2>1 DEF DataTyped, sourceVars, documentVars, historyVars
  <2> QED
    BY <2>3, <2>4, TInvParts
<1>3. ASSUME is_latest(p) PROVE TInv'
  <2>1. UNCHANGED <<sourceVars, outbox, index, historyVars, faults>>
    BY <1>3, IsLatestIs
  <2>2. \E point : Goes(p, point, worker[p].batch)
    BY <1>3, IsLatestIs
  <2>3. WorkTyped'
    BY <1>1, <2>1, <2>2, SameRestated, GoesTyped DEF sourceVars
  <2>4. DataTyped'
    BY <1>1, <2>1 DEF DataTyped, sourceVars, documentVars, historyVars
  <2> QED
    BY <2>3, <2>4, TInvParts
<1>4. ASSUME WriteVector(p) PROVE TInv'
  <2>1. UNCHANGED <<sourceVars, outbox, historyVars, faults>> /\ worker[p].point \in Holding
    BY <1>4, WriteVectorIs DEF Holding
  <2>2. WorkTyped'
    BY <1>1, <1>4, <2>1, WriteVectorIs, SameRestated, GoesTyped DEF sourceVars
  <2>3. index' \in [Records -> Indexed]
    BY <1>4, <2>1, WriteVectorIs, WrittenTyped
  <2>4. DataTyped'
    BY <1>1, <2>1, <2>3 DEF DataTyped, sourceVars, documentVars, historyVars
  <2> QED
    BY <2>2, <2>4, TInvParts
<1>5. ASSUME mark_completed(p) PROVE TInv'
  <2>1. UNCHANGED <<documentVars, fact, resetting, index, historyVars, faults>> /\ Restated
    BY <1>5, MarkCompletedIs
  <2>2. PICK point : Goes(p, point, worker[p].batch \ {Position(p)})
    BY <1>5, MarkCompletedIs
  <2>3. WorkTyped'
    BY <1>1, <2>1, <2>2, GoesTyped
  <2>4. chunk' \in [Chunks -> ChunkRow]
    BY <1>1, <1>5, MarkCompletedIs, AcknowledgedIs DEF DataTyped
  <2>5. DataTyped'
    BY <1>1, <2>1, <2>4 DEF DataTyped, documentVars, historyVars
  <2> QED
    BY <2>3, <2>5, TInvParts
<1>6. ASSUME mark_retry(p) PROVE TInv'
  <2>1. UNCHANGED <<sourceVars, index, historyVars, faults>> /\ Restated
    BY <1>6, MarkRetryIs
  <2>2. PICK point : Goes(p, point, worker[p].batch \ {Position(p)})
    BY <1>6, MarkRetryIs
  <2>3. WorkTyped'
    BY <1>1, <2>1, <2>2, GoesTyped DEF sourceVars
  <2>4. DataTyped'
    BY <1>1, <2>1 DEF DataTyped, sourceVars, documentVars, historyVars
  <2> QED
    BY <2>3, <2>4, TInvParts
<1>7. ASSUME ItemFails(p) PROVE TInv'
  <2>1. UNCHANGED <<sourceVars, outbox, historyVars>> /\ faults' = faults + 1
        /\ worker[p].point \in Holding
    BY <1>7, ItemFailsIs DEF Holding
  <2>2. WorkTyped'
    BY <1>1, <1>7, <2>1, ItemFailsIs, SameRestated, GoesTyped DEF sourceVars
  <2>3. index' \in [Records -> Indexed]
    BY <1>1, <1>7, <2>1, ItemFailsIs, WrittenTyped DEF DataTyped
  <2>4. DataTyped'
    BY <1>1, <2>1, <2>3 DEF DataTyped, sourceVars, documentVars, historyVars
  <2> QED
    BY <2>2, <2>4, TInvParts
<1>8. ASSUME LoopFails(p) \/ Crash(p) \/ Restart(p) PROVE TInv'
  <2>1. UNCHANGED <<sourceVars, outbox, index, historyVars>> /\ faults' \in {faults, faults + 1}
    BY <1>8, StopIs
  <2>2. PICK point : Goes(p, point, {})
    BY <1>8, StopIs
  <2>3. WorkTyped'
    BY <1>1, <2>1, <2>2, SameRestated, GoesTyped DEF sourceVars
  <2>4. DataTyped'
    BY <1>1, <2>1 DEF DataTyped, sourceVars, documentVars, historyVars
  <2> QED
    BY <2>3, <2>4, TInvParts
<1> QED
  BY <1>2, <1>3, <1>4, <1>5, <1>6, <1>7, <1>8 DEF Work

(* The passing of time keeps the types.                                    *)
LEMMA TimeTyped ==
  ASSUME TInv, NEW i \in DOMAIN outbox, Due(i) \/ LeaseExpires(i)
  PROVE  TInv'
<1>1. Restated /\ UNCHANGED <<sourceVars, index, worker, historyVars, faults>>
  BY TimeIs
<1>2. DataTyped /\ WorkTyped
  BY TInvParts
<1>3. WorkTyped'
  BY <1>1, <1>2, RestateTyped DEF WorkTyped, sourceVars
<1>4. DataTyped'
  BY <1>1, <1>2 DEF DataTyped, sourceVars, documentVars, historyVars
<1> QED
  BY <1>3, <1>4, TInvParts

(* A stutter keeps the types.                                              *)
LEMMA StutterTyped ==
  ASSUME TInv, UNCHANGED vars
  PROVE  TInv'
<1>1. DataTyped /\ WorkTyped
  BY TInvParts
<1>2. WorkTyped'
  BY <1>1, SameTyped DEF vars
<1>3. DataTyped'
  BY <1>1 DEF DataTyped, vars
<1> QED
  BY <1>2, <1>3, TInvParts

(* Every step keeps the types.                                             *)
LEMMA StepTyped ==
  ASSUME TInv, [Next]_vars
  PROVE  TInv'
<1>1. ASSUME NEW drafts \in [Keys -> Indexed], NEW facts \in SUBSET Facts, Persist(drafts, facts)
      PROVE  TInv'
  BY <1>1, PersistTyped
<1>2. ASSUME BeginReplacement \/ BeginDelete PROVE TInv'
  BY <1>2, BeginTyped
<1>3. ASSUME NEW s \in replacements, RestoreReplacement(s) PROVE TInv'
  BY <1>3, RestoreTyped
<1>4. ASSUME NEW s \in deletions, RemoveDocument(s) PROVE TInv'
  BY <1>4, RemoveTyped
<1>5. ASSUME NEW s \in deletions, NEW facts \in SUBSET Facts, PurgeDerivatives(s, facts) PROVE TInv'
  BY <1>5, PurgeTyped
<1>6. ASSUME NEW f \in Facts, ArchiveFact(f) \/ \E text \in Texts : UpsertFact(f, text) PROVE TInv'
  BY <1>6, FactTyped
<1>7. ASSUME ResetRead \/ ResetDelete \/ ResetCommit PROVE TInv'
  BY <1>7, ResetTyped
<1>8. ASSUME NEW p \in Workers,
             Work(p) \/ ItemFails(p) \/ LoopFails(p) \/ Crash(p) \/ Restart(p)
      PROVE  TInv'
  BY <1>8, WorkerTyped
<1>9. ASSUME NEW i \in DOMAIN outbox, Due(i) \/ LeaseExpires(i) PROVE TInv'
  BY <1>9, TimeTyped
<1>10. ASSUME UNCHANGED vars PROVE TInv'
  BY <1>10, StutterTyped
<1> QED
  BY <1>1, <1>2, <1>3, <1>4, <1>5, <1>6, <1>7, <1>8, <1>9, <1>10 DEF Next

(* The types are correct, whatever the number of workers.                  *)
THEOREM TypeCorrect == Spec => []TypeOK
<1>1. TInv /\ [Next]_vars => TInv'
  BY StepTyped
<1>2. TInv => TypeOK
  BY DEF TInv
<1> QED
  BY <1>1, <1>2, InitTyped, PTL DEF Spec

-----------------------------------------------------------------------------
(* What one transaction means for a record.                                *)

(* A record that stays clean was clean.                                    *)
LEMMA CleanBefore ==
  ASSUME NEW r, Clean(r)', collided \subseteq collided', orphaned \subseteq orphaned'
  PROVE  Clean(r)
BY DEF Clean

(* Without a row of its own, a record keeps its rows; ...                  *)
LEMMA NoRowFor ==
  ASSUME TypeOK, NEW R, Appends(R), NEW r, \A x \in R : x.record # r
  PROVE  RowsOf(r)' = RowsOf(r)
BY DEF Appends, RowsOf

(* ... a row that enqueue finds is the last row, and says what it says,    *)
(* ...                                                                     *)
LEMMA RowKnown ==
  ASSUME TypeOK, NEW r, RecordInv(r), NEW x \in Row, x.record = r, Known(x), ~Collides(x)
  PROVE  \E k \in RowsOf(r) :
           /\ IsLast(r, k)
           /\ outbox[k].payload = x.payload /\ outbox[k].payload_version = x.payload_version
<1>1. PICK k \in RowsOf(r) : /\ outbox[k].operation = x.operation
                             /\ outbox[k].payload_version = x.payload_version
  BY DEF Known
<1>2. outbox[k].payload = x.payload
  BY <1>1 DEF Collides
<1>3. /\ RowsOf(r) \subseteq Nat
      /\ \A i \in RowsOf(r) : outbox[i].payload_version \in Nat
  BY RowsAre DEF RowsOf
<1>4. \A i \in RowsOf(r) : ~(outbox[i].payload_version > outbox[k].payload_version)
  BY <1>1 DEF Collides
<1>5. \A i \in RowsOf(r) : ~(k < i)
  BY <1>1, <1>3, <1>4 DEF RecordInv
<1>6. IsLast(r, k)
  BY <1>1, <1>3, <1>5 DEF IsLast
<1> QED
  BY <1>1, <1>2, <1>6

(* ... and without one that says it, a row that does not collide is newer  *)
(* than all rows of its record, ...                                        *)
LEMMA RowUnknown ==
  ASSUME TypeOK, NEW x \in Row, ~Known(x), ~Collides(x)
  PROVE  \A i \in RowsOf(x.record) : outbox[i].payload_version < x.payload_version
<1>1. \A i \in RowsOf(x.record) : outbox[i].payload_version \in Nat
  BY RowsAre DEF RowsOf
<1>2. x.payload_version \in Nat
  BY DEF Row
<1>3. \A i \in RowsOf(x.record) : ~(outbox[i].payload_version > x.payload_version)
  BY DEF Collides
<1>4. \A i \in RowsOf(x.record) : outbox[i].payload_version # x.payload_version
  BY DEF Collides, Known
<1> QED
  BY <1>1, <1>2, <1>3, <1>4

(* ... and versions go on growing.                                         *)
LEMMA EnqueueIs ==
  ASSUME TypeOK, NEW rows, NewRows(rows), Enqueue(rows), NEW r, RecordInv(r), r \notin collided'
  PROVE  /\ \A i \in DOMAIN outbox : i \in DOMAIN outbox' /\ outbox'[i] = outbox[i]
         /\ RowsOf(r) \subseteq RowsOf(r)'
         /\ (\A x \in rows : x.record # r) => RowsOf(r)' = RowsOf(r)
         /\ \A x \in rows : x.record = r =>
              /\ RowsOf(r)' # {}
              /\ \A k : IsLast(r, k)' => /\ outbox'[k].payload = x.payload
                                         /\ outbox'[k].payload_version = x.payload_version
         /\ \A i, j \in RowsOf(r)' : i < j => outbox'[i].payload_version < outbox'[j].payload_version
         /\ \A k : IsLast(r, k)' => \/ IsLast(r, k)
                                    \/ k \notin DOMAIN outbox /\ outbox'[k].status = "pending"
<1> DEFINE R == {x \in rows : ~Known(x)}
           new == DOMAIN outbox' \ DOMAIN outbox
<1>1. /\ Appends(R) /\ R \subseteq rows /\ \A x \in rows : ~Known(x) => x \in R
      /\ \A x \in rows : Collides(x) => x.record \in collided'
  BY EnqueueAppends
<1>2. \A x \in rows : x \in Row /\ x.status = "pending" /\ x.payload_version \in Nat
  BY DEF NewRows, Row
<1>3. \A i \in R : ~Known(i)
  OBVIOUS
<1> HIDE DEF R
<1>4. /\ \A i \in DOMAIN outbox : i \in DOMAIN outbox' /\ outbox'[i] = outbox[i]
      /\ \A i \in new : outbox'[i] \in R /\ \A j \in DOMAIN outbox : j < i
      /\ \A x \in R : \E i \in new : outbox'[i] = x
      /\ DOMAIN outbox' \subseteq Nat
  BY <1>1, LenProperties DEF Appends
<1>5. RowsOf(r) \subseteq DOMAIN outbox /\ RowsOf(r)' \subseteq DOMAIN outbox'
      /\ RowsOf(r) \subseteq RowsOf(r)' /\ RowsOf(r)' \subseteq RowsOf(r) \cup new
  BY <1>4 DEF RowsOf
<1>6. \A i, j \in RowsOf(r) : i < j => outbox'[i].payload_version < outbox'[j].payload_version
  BY <1>4, <1>5 DEF RecordInv
<1>7. ASSUME RowsOf(r)' = RowsOf(r)
      PROVE  /\ \A i, j \in RowsOf(r)' : i < j => outbox'[i].payload_version < outbox'[j].payload_version
             /\ \A k : IsLast(r, k)' <=> IsLast(r, k)
  BY <1>6, <1>7 DEF IsLast
<1>8. CASE \A x \in rows : x.record # r
  <2>1. RowsOf(r)' = RowsOf(r)
    BY <1>1, <1>8, NoRowFor
  <2> QED
    BY <1>4, <1>5, <1>7, <1>8, <2>1
<1>9. ASSUME NEW x \in rows, x.record = r
      PROVE  /\ RowsOf(r)' # {}
             /\ \A k : IsLast(r, k)' => /\ outbox'[k].payload = x.payload
                                        /\ outbox'[k].payload_version = x.payload_version
             /\ \A i, j \in RowsOf(r)' : i < j => outbox'[i].payload_version < outbox'[j].payload_version
             /\ \A k : IsLast(r, k)' => \/ IsLast(r, k)
                                        \/ k \notin DOMAIN outbox /\ outbox'[k].status = "pending"
  <2>1. ~Collides(x) /\ x \in Row
    BY <1>1, <1>2, <1>9
  <2>2. \A y \in rows : y.record = r => y = x
    BY <1>9 DEF NewRows
  <2>3. CASE Known(x)
    <3>1. \A y \in R : y.record # r
      BY <1>1, <1>3, <2>2, <2>3
    <3>2. RowsOf(r)' = RowsOf(r)
      BY <1>1, <3>1, NoRowFor
    <3>3. PICK k \in RowsOf(r) : /\ IsLast(r, k)
                                 /\ outbox[k].payload = x.payload
                                 /\ outbox[k].payload_version = x.payload_version
      BY <1>9, <2>1, <2>3, RowKnown
    <3>4. \A j : IsLast(r, j)' => j = k
      BY <1>7, <3>2, <3>3, LastUnique
    <3>5. outbox'[k] = outbox[k]
      BY <1>4, <1>5
    <3> QED
      BY <1>7, <3>2, <3>3, <3>4, <3>5
  <2>4. CASE ~Known(x)
    <3>1. PICK n \in new : outbox'[n] = x
      BY <1>1, <1>4, <2>4
    <3>2. n \in RowsOf(r)'
      BY <1>2, <1>9, <3>1 DEF RowsOf
    <3>3. \A i \in RowsOf(r)' : i \in RowsOf(r) \/ i = n
      <4>1. \A i, j \in new : outbox'[i].record = outbox'[j].record => i = j
        BY <1>1 DEF Appends
      <4>2. \A i \in RowsOf(r)' : outbox'[i].record = r
        BY DEF RowsOf
      <4> QED
        BY <1>5, <1>9, <3>1, <4>1, <4>2
    <3>4. \A i \in RowsOf(r) : i < n /\ i # n /\ outbox'[i].payload_version < outbox'[n].payload_version
      <4>1. \A i \in RowsOf(r) : outbox[i].payload_version < x.payload_version
        BY <1>9, <2>1, <2>4, RowUnknown
      <4> QED
        BY <1>4, <1>5, <3>1, <4>1
    <3>5. n \in Nat /\ RowsOf(r)' \subseteq Nat
      BY <1>4, <1>5
    <3>6. \A i, j \in RowsOf(r)' : i < j => outbox'[i].payload_version < outbox'[j].payload_version
      <4>1. ASSUME NEW i \in RowsOf(r)', NEW j \in RowsOf(r)', i < j
            PROVE  outbox'[i].payload_version < outbox'[j].payload_version
        <5>1. i # n
          BY <3>3, <3>4, <3>5, <4>1
        <5>2. i \in RowsOf(r)
          BY <3>3, <5>1
        <5> QED
          BY <1>6, <3>3, <3>4, <4>1, <5>2
      <4> QED
        BY <4>1
    <3>7. \A k : IsLast(r, k)' => k = n
      BY <3>2, <3>3, <3>4, <3>5 DEF IsLast
    <3>8. outbox'[n].payload = x.payload /\ outbox'[n].payload_version = x.payload_version
          /\ outbox'[n].status = "pending" /\ n \notin DOMAIN outbox
      BY <1>2, <3>1
    <3> QED
      BY <3>2, <3>6, <3>7, <3>8
  <2> QED
    BY <2>3, <2>4
<1> QED
  BY <1>4, <1>5, <1>8, <1>9

(* Enqueue keeps RecordInv of a record if its row, if it has one, says     *)
(* what PostgreSQL has from now on.                                        *)
LEMMA EnqueueRecord ==
  ASSUME TypeOK, NEW rows, NewRows(rows), Enqueue(rows), NEW r, RecordInv(r), r \notin collided',
         UNCHANGED index,
         \/ (\A x \in rows : x.record # r) /\ Source(r)' = Source(r)
         \/ \E x \in rows : x.record = r /\ x.payload = Source(r)'
  PROVE  RecordInv(r)'
<1>1. /\ \A i \in DOMAIN outbox : i \in DOMAIN outbox' /\ outbox'[i] = outbox[i]
      /\ RowsOf(r) \subseteq RowsOf(r)'
      /\ (\A x \in rows : x.record # r) => RowsOf(r)' = RowsOf(r)
      /\ \A x \in rows : x.record = r =>
           RowsOf(r)' # {} /\ \A k : IsLast(r, k)' => outbox'[k].payload = x.payload
      /\ \A i, j \in RowsOf(r)' : i < j => outbox'[i].payload_version < outbox'[j].payload_version
      /\ \A k : IsLast(r, k)' => \/ IsLast(r, k)
                                 \/ k \notin DOMAIN outbox /\ outbox'[k].status = "pending"
  BY EnqueueIs
<1>2. ASSUME RowsOf(r)' = {}
      PROVE  Source(r)' = NoText /\ index'[r] = NoText /\ \A i \in DOMAIN outbox' : outbox'[i].record # r
  <2>1. \A x \in rows : x.record # r
    BY <1>1, <1>2
  <2>2. RowsOf(r) = {} /\ Source(r)' = Source(r)
    BY <1>1, <1>2, <2>1
  <2>3. /\ Source(r) = NoText /\ index[r] = NoText
        /\ \A i \in DOMAIN outbox : outbox[i].record # r
    BY <2>2 DEF RecordInv
  <2>4. \A i \in DOMAIN outbox' \ DOMAIN outbox : outbox'[i] \in rows
    BY EnqueueAppends DEF Appends
  <2> QED
    BY <1>1, <2>1, <2>2, <2>3, <2>4
<1>3. ASSUME NEW k, IsLast(r, k)'
      PROVE  outbox'[k].payload = Source(r)' /\ (outbox'[k].status = "completed" => index'[r] = outbox'[k].payload)
  <2>1. CASE IsLast(r, k)
    <3>1. k \in DOMAIN outbox /\ outbox'[k] = outbox[k]
      BY <1>1, <2>1 DEF IsLast, RowsOf
    <3>2. outbox[k].payload = Source(r) /\ (outbox[k].status = "completed" => index[r] = outbox[k].payload)
      BY <2>1 DEF RecordInv
    <3> QED
      BY <1>1, <1>3, <3>1, <3>2
  <2>2. CASE ~IsLast(r, k)
    <3>1. k \notin DOMAIN outbox /\ outbox'[k].status = "pending"
      BY <1>1, <1>3, <2>2
    <3>2. \E x \in rows : x.record = r
      <4>1. SUFFICES ASSUME RowsOf(r)' = RowsOf(r) PROVE FALSE
        BY <1>1
      <4>2. k \in RowsOf(r)
        BY <1>3, <4>1 DEF IsLast
      <4> QED
        BY <3>1, <4>2 DEF RowsOf
    <3> QED
      BY <1>1, <1>3, <3>1, <3>2
  <2> QED
    BY <2>1, <2>2
<1> QED
  BY <1>1, <1>2, <1>3 DEF RecordInv

(* New rows do not touch what the workers hold.                            *)
LEMMA EnqueueBatch ==
  ASSUME IInv, NEW rows, NewRows(rows), Enqueue(rows), UNCHANGED <<index, worker>>,
         orphaned \subseteq orphaned', NEW p \in Workers
  PROVE  BatchInv(p)'
<1>1. TInv /\ TypeOK /\ BatchInv(p) /\ \A r \in Records : Clean(r) => RecordInv(r)
  BY DEF IInv, TInv
<1>2. collided \subseteq collided'
  BY <1>1, EnqueueAppends
<1>3. Position(p)' = Position(p)
  BY DEF Position
<1>4. ASSUME NEW i \in worker[p].batch
      PROVE  /\ outbox'[i] = outbox[i] /\ i \in DOMAIN outbox
             /\ Clean(outbox[i].record)' =>
                  /\ Clean(outbox[i].record)
                  /\ Superseded(i) => Superseded(i)'
                  /\ IsLast(outbox[i].record, i)' => IsLast(outbox[i].record, i)
  <2>1. i \in DOMAIN outbox
    BY <1>1 DEF TInv
  <2>2. outbox'[i] = outbox[i]
    BY <1>1, <2>1, EnqueueAppends DEF Appends
  <2>3. PICK r : r = outbox[i].record
    OBVIOUS
  <2>4. ASSUME Clean(r)'
        PROVE  /\ Clean(r)
               /\ Superseded(i) => Superseded(i)'
               /\ IsLast(r, i)' => IsLast(r, i)
    <3>1. Clean(r)
      BY <1>2, <2>4, CleanBefore
    <3>2. RecordInv(r) /\ r \notin collided'
      BY <1>1, <2>4, <3>1 DEF Clean
    <3>3. /\ \A k \in DOMAIN outbox : outbox'[k] = outbox[k]
          /\ \A k : IsLast(r, k)' => \/ IsLast(r, k)
                                     \/ k \notin DOMAIN outbox /\ outbox'[k].status = "pending"
      BY <1>1, <3>2, EnqueueIs
    <3>4. \A k : IsLast(r, k) => k \in DOMAIN outbox
      BY DEF IsLast, RowsOf
    <3>5. ASSUME Superseded(i) PROVE Superseded(i)'
      <4>1. \A k : IsLast(r, k) => k = i \/ outbox[k].status = "pending"
        BY <2>3, <3>5 DEF Superseded
      <4>2. \A k : IsLast(r, k)' => k = i \/ outbox'[k].status = "pending"
        BY <3>3, <3>4, <4>1
      <4> QED
        BY <2>2, <2>3, <4>2 DEF Superseded
    <3>6. IsLast(r, i)' => IsLast(r, i)
      BY <2>1, <3>3
    <3> QED
      BY <3>1, <3>5, <3>6
  <2>5. outbox'[i].record = r
    BY <2>2, <2>3
  <2> QED
    BY <2>1, <2>2, <2>3, <2>4, <2>5
<1> QED
  BY <1>1, <1>3, <1>4 DEF BatchInv

-----------------------------------------------------------------------------
(* Transactions of the document.                                           *)

(* The rows of an ingestion, by record.                                    *)
LEMMA PersistRowOf ==
  ASSUME TypeOK, NEW drafts \in [Keys -> Indexed], NEW facts \in SUBSET Facts,
         \A k \in Keys : drafts[k] # NoText => Usable(k) # {}
  PROVE  LET rows == PersistRows(drafts, facts) IN
         /\ \A x \in rows :
              \/ x.record \in Removed(drafts) /\ x.payload = NoText
              \/ x.record \in facts /\ x.payload = NoText
              \/ /\ x.record \in ToIndex(drafts) /\ x.payload = NewChunks(drafts)[x.record].text
                 /\ x.payload_version = document.generation
         /\ \A r \in Removed(drafts) \cup facts \cup ToIndex(drafts) : \E x \in rows : x.record = r
<1> DEFINE A == Deletes(Removed(drafts), document.generation)
           B == Withdrawn(facts)
           C == Upserts(drafts)
<1>1. Removed(drafts) \in SUBSET Chunks /\ document.generation \in Nat
  BY DEF Removed, Present, TypeOK
<1>2. /\ \A x \in A : x.record \in Removed(drafts) /\ x.payload = NoText
      /\ \A r \in Removed(drafts) : \E x \in A : x.record = r
  BY <1>1, DeletesAre
<1>3. /\ \A x \in B : x.record \in facts /\ x.payload = NoText
      /\ \A r \in facts : \E x \in B : x.record = r
  BY WithdrawnAre
<1>4. /\ \A x \in C : /\ x.record \in ToIndex(drafts) /\ x.payload = NewChunks(drafts)[x.record].text
                      /\ x.payload_version = document.generation
      /\ \A r \in ToIndex(drafts) : \E x \in C : x.record = r
  BY UpsertsAre
<1>5. PersistRows(drafts, facts) = A \cup B \cup C
  BY DEF PersistRows, Deletes, Upserts
<1> HIDE DEF A, B, C
<1> QED
  BY <1>2, <1>3, <1>4, <1>5

(* What an ingestion makes of a chunk, and the rows it writes for it.      *)
LEMMA PersistChunk ==
  ASSUME TypeOK, NEW drafts \in [Keys -> Indexed], NEW facts \in SUBSET Facts,
         Persist(drafts, facts), NEW r \in Chunks
  PROVE  LET rows == PersistRows(drafts, facts) IN
         \/ /\ chunk'[r] = NoChunk
            /\ \E x \in rows : x.record = r /\ x.payload = NoText
         \/ /\ chunk'[r] = NoChunk /\ chunk[r] = NoChunk
            /\ \A x \in rows : x.record # r
         \/ /\ chunk'[r].vector_status = "indexed" /\ chunk[r].vector_status = "indexed"
            /\ chunk'[r].text = chunk[r].text
            /\ \A x \in rows : x.record # r
         \/ /\ chunk'[r].vector_status = "pending"
            /\ \E x \in rows : /\ x.record = r /\ x.payload = chunk'[r].text
                               /\ x.payload_version = chunk'[r].content_generation
<1> DEFINE rows == PersistRows(drafts, facts)
           new == NewChunks(drafts)[r]
<1>1. /\ \A k \in Keys : drafts[k] # NoText => Usable(k) # {}
      /\ chunk' = NewChunks(drafts)
  BY PersistIs
<1>2. /\ \A x \in rows :
           \/ x.record \in Removed(drafts) /\ x.payload = NoText
           \/ x.record \in facts /\ x.payload = NoText
           \/ /\ x.record \in ToIndex(drafts) /\ x.payload = NewChunks(drafts)[x.record].text
              /\ x.payload_version = document.generation
      /\ \A s \in Removed(drafts) \cup facts \cup ToIndex(drafts) : \E x \in rows : x.record = s
  BY <1>1, PersistRowOf
<1>3. r \notin facts /\ chunk'[r] = new
  BY <1>1, Disjoint
<1>4. /\ r \in Kept(drafts) =>
           /\ new.content_generation = document.generation
           /\ IF chunk[r].vector_status = "indexed" /\ chunk[r].text = new.text
              THEN new.vector_status = "indexed" ELSE new.vector_status = "pending"
      /\ r \notin Kept(drafts) => new = NoChunk
  BY <1>1, NewChunkIs
<1>5. r \in ToIndex(drafts) <=> r \in Kept(drafts) /\ new.vector_status # "indexed"
  BY DEF ToIndex
<1>6. r \in Removed(drafts) <=> chunk[r] # NoChunk /\ r \notin Kept(drafts)
  BY DEF Removed, Present
<1> HIDE DEF rows, new
<1>7. CASE r \in Removed(drafts)
  <2>1. \E x \in rows : x.record = r /\ x.payload = NoText
    BY <1>2, <1>3, <1>5, <1>6, <1>7
  <2> QED
    BY <1>3, <1>4, <1>6, <1>7, <2>1 DEF rows
<1>8. CASE r \notin Removed(drafts) /\ r \notin Kept(drafts)
  <2>1. \A x \in rows : x.record # r
    BY <1>2, <1>3, <1>5, <1>8
  <2> QED
    BY <1>3, <1>4, <1>6, <1>8, <2>1 DEF rows
<1>9. CASE r \in Kept(drafts) /\ new.vector_status = "indexed"
  <2>1. \A x \in rows : x.record # r
    BY <1>2, <1>3, <1>5, <1>6, <1>9
  <2> QED
    BY <1>3, <1>4, <1>9, <2>1 DEF rows
<1>10. CASE r \in Kept(drafts) /\ new.vector_status # "indexed"
  <2>1. PICK x \in rows : x.record = r
    BY <1>2, <1>5, <1>10
  <2>2. x.payload = NewChunks(drafts)[r].text /\ x.payload_version = document.generation
    BY <1>2, <1>3, <1>6, <1>10, <2>1
  <2> QED
    BY <1>3, <1>4, <1>10, <2>1, <2>2 DEF rows, new
<1> QED
  BY <1>7, <1>8, <1>9, <1>10

(* What becomes of each fact in persist.                                   *)
LEMMA PersistFact ==
  ASSUME TypeOK, NEW drafts \in [Keys -> Indexed], NEW facts \in SUBSET Facts,
         Persist(drafts, facts), NEW f \in Facts
  PROVE  LET rows == PersistRows(drafts, facts) IN
         \/ fact'[f] = NoText /\ \E x \in rows : x.record = f /\ x.payload = NoText
         \/ fact'[f] = fact[f] /\ \A x \in rows : x.record # f
<1> DEFINE rows == PersistRows(drafts, facts)
<1>1. /\ \A k \in Keys : drafts[k] # NoText => Usable(k) # {}
      /\ Withdraw(facts)
  BY PersistIs
<1>2. /\ \A x \in rows :
           \/ x.record \in Removed(drafts) /\ x.payload = NoText
           \/ x.record \in facts /\ x.payload = NoText
           \/ x.record \in ToIndex(drafts)
      /\ \A s \in facts : \E x \in rows : x.record = s
  BY <1>1, PersistRowOf
<1>3. f \notin Removed(drafts) /\ f \notin ToIndex(drafts)
  <2>1. f \notin Chunks
    BY Disjoint
  <2>2. Kept(drafts) \subseteq Chunks
    BY <1>1, KeptAre
  <2> QED
    BY <2>1, <2>2 DEF Removed, Present, ToIndex
<1>4. fact'[f] = IF f \in facts THEN NoText ELSE fact[f]
  BY <1>1 DEF Withdraw
<1> HIDE DEF rows
<1> QED
  BY <1>2, <1>3, <1>4 DEF rows

(* What PostgreSQL has of a record.                                        *)
LEMMA SourceIs ==
  /\ \A r \in Chunks : Source(r) = chunk[r].text /\ Source(r)' = chunk'[r].text
  /\ \A f \in Facts : /\ Source(f) = IF fact[f] = RemovedFact THEN NoText ELSE fact[f]
                      /\ Source(f)' = IF fact'[f] = RemovedFact THEN NoText ELSE fact'[f]
BY Disjoint DEF Source

(* A removed fact is not an absent one.                                    *)
LEMMA NoTextIs ==
  RemovedFact # NoText
BY OutboxAssumption

(* Enqueue keeps ChunkInv of the chunks for which it has no row,           *)
LEMMA EnqueueSameChunk ==
  ASSUME TypeOK, NEW rows, NewRows(rows), Enqueue(rows), NEW r \in Chunks,
         RecordInv(r), ChunkInv(r), r \notin collided', \A x \in rows : x.record # r,
         chunk'[r].vector_status = chunk[r].vector_status,
         chunk'[r].content_generation = chunk[r].content_generation
           \/ chunk[r].vector_status = "indexed",
         chunk'[r] = NoChunk <=> chunk[r] = NoChunk
  PROVE  ChunkInv(r)'
<1>1. /\ \A i \in DOMAIN outbox : outbox'[i] = outbox[i]
      /\ RowsOf(r)' = RowsOf(r)
  BY EnqueueIs
<1>2. \A k : IsLast(r, k)' => IsLast(r, k) /\ outbox'[k] = outbox[k]
  BY <1>1 DEF IsLast, RowsOf
<1> QED
  BY <1>1, <1>2 DEF ChunkInv

(* and of those that are gone.                                             *)
LEMMA EnqueueNoChunk ==
  ASSUME NEW r, chunk'[r] = NoChunk
  PROVE  ChunkInv(r)'
BY DEF ChunkInv, NoChunk

(* Persist keeps the invariant.                                            *)
LEMMA PersistKeeps ==
  ASSUME IInv, TInv', NEW drafts \in [Keys -> Indexed], NEW facts \in SUBSET Facts,
         Persist(drafts, facts)
  PROVE  IInv'
<1> DEFINE rows == PersistRows(drafts, facts)
<1>1. /\ TInv /\ TypeOK
      /\ \A r \in Records : Clean(r) => RecordInv(r)
      /\ \A r \in Chunks : Clean(r) => ChunkInv(r)
  BY DEF IInv, TInv
<1>2. /\ document.exists
      /\ \A k \in Keys : drafts[k] # NoText => Usable(k) # {}
      /\ Enqueue(rows)
      /\ UNCHANGED <<documentVars, resetting, index, worker, orphaned, faults>>
  BY PersistIs
<1>3. NewRows(rows)
  BY <1>1, <1>2, PersistRowsAre
<1>4. \A r \in Chunks :
        \/ chunk'[r] = NoChunk /\ \E x \in rows : x.record = r /\ x.payload = NoText
        \/ /\ chunk'[r] = NoChunk /\ chunk[r] = NoChunk
           /\ \A x \in rows : x.record # r
        \/ /\ chunk'[r].vector_status = "indexed" /\ chunk[r].vector_status = "indexed"
           /\ chunk'[r].text = chunk[r].text
           /\ \A x \in rows : x.record # r
        \/ /\ chunk'[r].vector_status = "pending"
           /\ \E x \in rows : /\ x.record = r /\ x.payload = chunk'[r].text
                              /\ x.payload_version = chunk'[r].content_generation
  BY <1>1, PersistChunk
<1>5. \A f \in Facts :
        \/ fact'[f] = NoText /\ \E x \in rows : x.record = f /\ x.payload = NoText
        \/ fact'[f] = fact[f] /\ \A x \in rows : x.record # f
  BY <1>1, PersistFact
<1> HIDE DEF rows
<1>6. collided \subseteq collided' /\ orphaned' = orphaned
  BY <1>1, <1>2, <1>3, EnqueueAppends
<1>7. ASSUME NEW r \in Records, Clean(r)'
      PROVE  RecordInv(r)'
  <2>1. RecordInv(r) /\ r \notin collided'
    BY <1>1, <1>6, <1>7, CleanBefore DEF Clean
  <2>2. \/ (\A x \in rows : x.record # r) /\ Source(r)' = Source(r)
        \/ \E x \in rows : x.record = r /\ x.payload = Source(r)'
    <3>1. CASE r \in Chunks
      <4>1. Source(r) = chunk[r].text /\ Source(r)' = chunk'[r].text /\ NoChunk.text = NoText
        BY <3>1, SourceIs DEF NoChunk
      <4> QED
        BY <1>4, <3>1, <4>1
    <3>2. CASE r \in Facts
      BY <1>5, <3>2, SourceIs, NoTextIs
    <3> QED
      BY <3>1, <3>2 DEF Records
  <2> QED
    BY <1>1, <1>2, <1>3, <2>1, <2>2, EnqueueRecord
<1>8. ASSUME NEW r \in Chunks, Clean(r)'
      PROVE  ChunkInv(r)'
  <2>1. RecordInv(r) /\ ChunkInv(r) /\ r \notin collided'
    BY <1>1, <1>6, <1>8, CleanBefore DEF Clean, Records
  <2>2. CASE chunk'[r] = NoChunk
    BY <2>2, EnqueueNoChunk
  <2>3. CASE /\ chunk'[r].vector_status = "indexed" /\ chunk[r].vector_status = "indexed"
             /\ \A x \in rows : x.record # r
    <3>1. chunk[r] # NoChunk /\ chunk'[r] # NoChunk
      BY <2>3 DEF NoChunk
    <3> QED
      BY <1>1, <1>2, <1>3, <2>1, <2>3, <3>1, EnqueueSameChunk
  <2>4. ASSUME chunk'[r].vector_status = "pending",
               NEW x \in rows, x.record = r, x.payload_version = chunk'[r].content_generation
        PROVE  ChunkInv(r)'
    <3>1. chunk'[r] # NoChunk
      BY <2>4 DEF NoChunk
    <3>2. RowsOf(r)' # {} /\ \A k : IsLast(r, k)' => outbox'[k].payload_version = x.payload_version
      BY <1>1, <1>2, <1>3, <2>1, <2>4, EnqueueIs
    <3> QED
      BY <2>4, <3>1, <3>2 DEF ChunkInv
  <2> QED
    BY <1>4, <2>2, <2>3, <2>4
<1>9. \A p \in Workers : BatchInv(p)'
  BY <1>2, <1>3, <1>6, EnqueueBatch
<1>10. document'.exists /\ orphaned' \cap Chunks = {}
  BY <1>2, <1>6 DEF IInv, documentVars
<1> QED
  BY <1>7, <1>8, <1>9, <1>10 DEF IInv

(* The rows of a purge delete the chunks and facts that it removes.        *)
LEMMA PurgeRowOf ==
  ASSUME TypeOK, NEW s \in deletions, NEW facts \in SUBSET Facts
  PROVE  LET rows == PurgeRows(s, facts) IN
         /\ \A x \in rows : x.record \in Purged(s) \cup facts /\ x.payload = NoText
         /\ \A r \in Purged(s) \cup facts : \E x \in rows : x.record = r /\ x.payload = NoText
<1>1. Purged(s) \in SUBSET Chunks /\ s.generation \in Nat
  BY PurgeRowsAre
<1> DEFINE A == Deletes(Purged(s), s.generation)
           B == Withdrawn(facts)
<1>2. /\ \A x \in A : x.record \in Purged(s) /\ x.payload = NoText
      /\ \A r \in Purged(s) : \E x \in A : x.record = r
  BY <1>1, DeletesAre
<1>3. /\ \A x \in B : x.record \in facts /\ x.payload = NoText
      /\ \A r \in facts : \E x \in B : x.record = r
  BY WithdrawnAre
<1>4. PurgeRows(s, facts) = A \cup B
  BY DEF PurgeRows
<1> HIDE DEF A, B
<1> QED
  BY <1>2, <1>3, <1>4

(* The purge of a document keeps the invariant.                            *)
LEMMA PurgeKeeps ==
  ASSUME IInv, TInv', NEW s \in deletions, NEW facts \in SUBSET Facts, PurgeDerivatives(s, facts)
  PROVE  IInv'
<1> DEFINE rows == PurgeRows(s, facts)
<1>1. /\ TInv /\ TypeOK
      /\ \A r \in Records : Clean(r) => RecordInv(r)
      /\ \A r \in Chunks : Clean(r) => ChunkInv(r)
  BY DEF IInv, TInv
<1>2. /\ chunk' = [r \in Chunks |-> IF r \in Purged(s) THEN NoChunk ELSE chunk[r]]
      /\ Withdraw(facts)
      /\ Enqueue(rows)
      /\ UNCHANGED <<document, replacements, resetting, index, worker, orphaned, faults>>
  BY PurgeIs
<1>3. NewRows(rows) /\ Purged(s) \in SUBSET Chunks
  BY <1>1, PurgeRowsAre
<1>4. /\ \A x \in rows : x.record \in Purged(s) \cup facts /\ x.payload = NoText
      /\ \A r \in Purged(s) \cup facts : \E x \in rows : x.record = r /\ x.payload = NoText
  BY <1>1, PurgeRowOf
<1> HIDE DEF rows
<1>5. collided \subseteq collided' /\ orphaned' = orphaned
  BY <1>1, <1>2, <1>3, EnqueueAppends
<1>6. \A r \in Chunks : chunk'[r] = IF r \in Purged(s) THEN NoChunk ELSE chunk[r]
  BY <1>2
<1>7. \A f \in Facts : fact'[f] = IF f \in facts THEN NoText ELSE fact[f]
  BY <1>2 DEF Withdraw
<1>8. ASSUME NEW r \in Records, Clean(r)'
      PROVE  RecordInv(r)'
  <2>1. RecordInv(r) /\ r \notin collided'
    BY <1>1, <1>5, <1>8, CleanBefore DEF Clean
  <2>2. \/ (\A x \in rows : x.record # r) /\ Source(r)' = Source(r)
        \/ \E x \in rows : x.record = r /\ x.payload = Source(r)'
    <3>1. CASE r \in Chunks
      <4>1. Source(r) = chunk[r].text /\ Source(r)' = chunk'[r].text /\ NoChunk.text = NoText
        BY <3>1, SourceIs DEF NoChunk
      <4>2. r \notin facts
        BY <3>1, Disjoint
      <4> QED
        BY <1>4, <1>6, <3>1, <4>1, <4>2
    <3>2. CASE r \in Facts
      <4>1. r \notin Purged(s)
        BY <1>3, <3>2, Disjoint
      <4>2. r \in facts => Source(r)' = NoText
        BY <1>7, <3>2, SourceIs, NoTextIs
      <4>3. r \notin facts => Source(r)' = Source(r)
        BY <1>7, <3>2, SourceIs
      <4> QED
        BY <1>4, <4>1, <4>2, <4>3
    <3> QED
      BY <3>1, <3>2 DEF Records
  <2> QED
    BY <1>1, <1>2, <1>3, <2>1, <2>2, EnqueueRecord
<1>9. ASSUME NEW r \in Chunks, Clean(r)'
      PROVE  ChunkInv(r)'
  <2>1. RecordInv(r) /\ ChunkInv(r) /\ r \notin collided'
    BY <1>1, <1>5, <1>9, CleanBefore DEF Clean, Records
  <2>2. CASE r \in Purged(s)
    BY <1>6, <2>2, EnqueueNoChunk
  <2>3. CASE r \notin Purged(s)
    <3>1. chunk'[r] = chunk[r]
      BY <1>6, <2>3
    <3>2. \A x \in rows : x.record # r
      BY <1>4, <2>3, Disjoint
    <3> QED
      BY <1>1, <1>2, <1>3, <2>1, <3>1, <3>2, EnqueueSameChunk
  <2> QED
    BY <2>2, <2>3
<1>10. \A p \in Workers : BatchInv(p)'
  BY <1>2, <1>3, <1>5, EnqueueBatch
<1>11. /\ document'.exists \/ \A r \in Chunks : chunk'[r] = NoChunk
       /\ document'.exists => orphaned' \cap Chunks = {}
  BY <1>2, <1>5, <1>6 DEF IInv
<1> QED
  BY <1>8, <1>9, <1>10, <1>11 DEF IInv

(* So does whatever enqueues one row of a fact,                            *)
LEMMA FactRow ==
  ASSUME IInv, TInv', NEW f \in Facts, NEW rows, NewRows(rows), Enqueue(rows),
         \A x \in rows : x.record = f /\ x.payload = Source(f)',
         \E x \in rows : x.record = f,
         \A g \in Facts \ {f} : fact'[g] = fact[g],
         UNCHANGED <<documentVars, chunk, resetting, index, worker, orphaned, faults>>
  PROVE  IInv'
<1>1. /\ TInv /\ TypeOK
      /\ \A r \in Records : Clean(r) => RecordInv(r)
      /\ \A r \in Chunks : Clean(r) => ChunkInv(r)
  BY DEF IInv, TInv
<1>2. collided \subseteq collided' /\ orphaned' = orphaned
  BY <1>1, EnqueueAppends
<1>3. ASSUME NEW r \in Records, Clean(r)'
      PROVE  RecordInv(r)'
  <2>1. RecordInv(r) /\ r \notin collided'
    BY <1>1, <1>2, <1>3, CleanBefore DEF Clean
  <2>2. \/ (\A x \in rows : x.record # r) /\ Source(r)' = Source(r)
        \/ \E x \in rows : x.record = r /\ x.payload = Source(r)'
    <3>1. CASE r \in Chunks
      BY <3>1, SourceIs, Disjoint
    <3>2. CASE r \in Facts \ {f}
      BY <3>2, SourceIs
    <3> QED
      BY <3>1, <3>2 DEF Records
  <2> QED
    BY <1>1, <2>1, <2>2, EnqueueRecord
<1>4. ASSUME NEW r \in Chunks, Clean(r)'
      PROVE  ChunkInv(r)'
  <2>1. RecordInv(r) /\ ChunkInv(r) /\ r \notin collided'
    BY <1>1, <1>2, <1>4, CleanBefore DEF Clean, Records
  <2>2. \A x \in rows : x.record # r
    BY Disjoint
  <2> QED
    BY <1>1, <2>1, <2>2, EnqueueSameChunk
<1>5. \A p \in Workers : BatchInv(p)'
  BY <1>2, EnqueueBatch
<1>6. /\ document'.exists \/ \A r \in Chunks : chunk'[r] = NoChunk
      /\ document'.exists => orphaned' \cap Chunks = {}
  BY <1>2 DEF IInv, documentVars
<1> QED
  BY <1>3, <1>4, <1>5, <1>6 DEF IInv

(* as an upsert and an archival of a fact do.                              *)
LEMMA FactKeeps ==
  ASSUME IInv, TInv', NEW f \in Facts, ArchiveFact(f) \/ \E text \in Texts : UpsertFact(f, text)
  PROVE  IInv'
<1>1. TypeOK /\ fact \in [Facts -> Indexed \cup {RemovedFact}]
  BY DEF IInv, TInv, TypeOK
<1>2. CASE ArchiveFact(f)
  <2>1. /\ fact' = [fact EXCEPT ![f] = NoText]
        /\ Enqueue(Withdrawn({f}))
        /\ UNCHANGED <<documentVars, chunk, resetting, index, worker, orphaned, faults>>
    BY <1>2 DEF ArchiveFact
  <2>2. Source(f)' = NoText /\ \A g \in Facts \ {f} : fact'[g] = fact[g]
    BY <1>1, <2>1, SourceIs, NoTextIs
  <2>3. /\ NewRows(Withdrawn({f}))
        /\ \A x \in Withdrawn({f}) : x.record = f /\ x.payload = NoText
        /\ \E x \in Withdrawn({f}) : x.record = f
    BY <1>1, WithdrawnAre
  <2> QED
    BY <2>1, <2>2, <2>3, FactRow
<1>3. ASSUME NEW text \in Texts, UpsertFact(f, text)
      PROVE  IInv'
  <2> DEFINE x == Upsert(f, next_payload_version(f), text)
  <2>1. /\ fact' = [fact EXCEPT ![f] = text]
        /\ Enqueue({x})
        /\ UNCHANGED <<documentVars, chunk, resetting, index, worker, orphaned, faults>>
    BY <1>3 DEF UpsertFact
  <2>2. Source(f)' = text /\ \A g \in Facts \ {f} : fact'[g] = fact[g]
    BY <1>1, <2>1, SourceIs, OutboxAssumption
  <2>3. NewRows({x}) /\ x.record = f /\ x.payload = text
    BY <1>1, UpsertFactRow
  <2> HIDE DEF x
  <2> QED
    BY <2>1, <2>2, <2>3, FactRow
<1> QED
  BY <1>2, <1>3

(* What is left alone keeps RecordInv,                                     *)
LEMMA SameRecord ==
  ASSUME TypeOK, NEW r, RecordInv(r), UNCHANGED <<outbox, index>>, Source(r)' = Source(r)
  PROVE  RecordInv(r)'
<1>1. RowsOf(r)' = RowsOf(r) /\ \A i : IsLast(r, i)' <=> IsLast(r, i)
  BY SameRestated, RestatedKeeps
<1> QED
  BY <1>1 DEF RecordInv

(* ChunkInv                                                                *)
LEMMA SameChunk ==
  ASSUME TypeOK, NEW r \in Chunks, ChunkInv(r), UNCHANGED outbox, chunk'[r] = chunk[r]
  PROVE  ChunkInv(r)'
<1>1. RowsOf(r)' = RowsOf(r) /\ \A i : IsLast(r, i)' <=> IsLast(r, i)
  BY SameRestated, RestatedKeeps
<1> QED
  BY <1>1 DEF ChunkInv

(* and BatchInv.                                                           *)
LEMMA SameBatch ==
  ASSUME IInv, UNCHANGED <<outbox, index, worker>>, collided \subseteq collided',
         orphaned \subseteq orphaned', NEW p \in Workers
  PROVE  BatchInv(p)'
<1>1. TypeOK /\ BatchInv(p)
  BY DEF IInv, TInv
<1>2. \A r : \A i : IsLast(r, i)' <=> IsLast(r, i)
  BY <1>1, SameRestated, RestatedKeeps
<1>3. Position(p)' = Position(p)
  BY DEF Position
<1>4. \A i \in worker[p].batch :
        /\ Clean(outbox[i].record)' => Clean(outbox[i].record)
        /\ Superseded(i) => Superseded(i)'
        /\ IsLast(outbox[i].record, i)' => IsLast(outbox[i].record, i)
  BY <1>2, CleanBefore DEF Superseded, Clean
<1> QED
  BY <1>1, <1>3, <1>4 DEF BatchInv

(* The document alone changes: the invariant is kept.                      *)
LEMMA DocumentKeeps ==
  ASSUME IInv, TInv', BeginReplacement \/ BeginDelete \/ \E s \in replacements : RestoreReplacement(s)
  PROVE  IInv'
<1>1. /\ TypeOK
      /\ UNCHANGED <<chunk, fact, outbox, index, worker, historyVars>>
      /\ document.exists /\ document'.exists
  <2>1. TypeOK /\ document \in [exists : BOOLEAN, generation : Nat, deleting : BOOLEAN]
    BY DEF IInv, TInv, TypeOK
  <2> QED
    BY <2>1 DEF BeginReplacement, BeginDelete, RestoreReplacement
<1>2. UNCHANGED <<collided, orphaned>>
  BY <1>1 DEF historyVars
<1>3. \A r \in Records : Source(r)' = Source(r)
  BY <1>1 DEF Source
<1>4. \A r \in Records : Clean(r)' <=> Clean(r)
  BY <1>2 DEF Clean
<1>5. \A r \in Records : Clean(r)' => RecordInv(r)'
  BY <1>1, <1>3, <1>4, SameRecord DEF IInv
<1>6. \A r \in Chunks : Clean(r)' => ChunkInv(r)'
  BY <1>1, <1>4, SameChunk DEF IInv, Records
<1>7. \A p \in Workers : BatchInv(p)'
  BY <1>1, <1>2, SameBatch
<1> QED
  BY <1>1, <1>2, <1>5, <1>6, <1>7 DEF IInv

(* The end of a deletion keeps the invariant.                              *)
LEMMA RemoveKeeps ==
  ASSUME IInv, TInv', NEW s \in deletions, RemoveDocument(s)
  PROVE  IInv'
<1>1. /\ TypeOK
      /\ UNCHANGED <<fact, outbox, index, worker, collided>>
      /\ orphaned' = orphaned \cup Present
      /\ \A r \in Chunks : chunk'[r] = NoChunk
  BY DEF IInv, TInv, RemoveDocument
<1>2. ~document'.exists
  <2>1. document \in [exists : BOOLEAN, generation : Nat, deleting : BOOLEAN]
    BY <1>1 DEF TypeOK
  <2> QED
    BY <2>1 DEF RemoveDocument
<1>3. ASSUME NEW r \in Records, Clean(r)'
      PROVE  Clean(r) /\ Source(r)' = Source(r)
  <2>1. Clean(r) /\ r \notin Present
    BY <1>1, <1>3 DEF Clean
  <2>2. r \in Chunks => chunk'[r] = chunk[r]
    BY <1>1, <2>1 DEF Present
  <2> QED
    BY <1>1, <2>1, <2>2 DEF Source
<1>4. \A r \in Records : Clean(r)' => RecordInv(r)'
  BY <1>1, <1>3, SameRecord DEF IInv
<1>5. \A r \in Chunks : Clean(r)' => ChunkInv(r)'
  BY <1>1, EnqueueNoChunk
<1>6. \A p \in Workers : BatchInv(p)'
  BY <1>1, SameBatch
<1> QED
  BY <1>1, <1>2, <1>4, <1>5, <1>6 DEF IInv

-----------------------------------------------------------------------------
(* The reset.                                                              *)

(* The first two steps of a reset change no data.                          *)
LEMMA ResetBeginKeeps ==
  ASSUME IInv, TInv', ResetRead \/ ResetDelete
  PROVE  IInv'
<1>1. /\ TypeOK
      /\ UNCHANGED <<documentVars, chunk, fact, outbox, index, worker, historyVars>>
  BY DEF IInv, TInv, ResetRead, ResetDelete
<1>2. UNCHANGED <<document, collided, orphaned>>
  BY <1>1 DEF historyVars, documentVars
<1>3. \A r \in Records : Source(r)' = Source(r)
  BY <1>1 DEF Source
<1>4. \A r \in Records : Clean(r)' <=> Clean(r)
  BY <1>2 DEF Clean
<1>5. \A r \in Records : Clean(r)' => RecordInv(r)'
  BY <1>1, <1>3, <1>4, SameRecord DEF IInv
<1>6. \A r \in Chunks : Clean(r)' => ChunkInv(r)'
  BY <1>1, <1>4, SameChunk DEF IInv, Records
<1>7. \A p \in Workers : BatchInv(p)'
  BY <1>1, <1>2, SameBatch
<1> QED
  BY <1>1, <1>2, <1>5, <1>6, <1>7 DEF IInv

(* It does not touch the rows of chunks, ...                               *)
LEMMA ResetChunk ==
  ASSUME TInv, ResetCommit, NEW r \in Chunks
  PROVE  /\ RowsOf(r)' = RowsOf(r)
         /\ \A i : IsLast(r, i)' <=> IsLast(r, i)
         /\ \A i \in RowsOf(r) : /\ outbox'[i].payload_version = outbox[i].payload_version
                                 /\ outbox'[i].payload = outbox[i].payload
                                 /\ outbox'[i].status = outbox[i].status
<1>1. /\ DOMAIN outbox \subseteq DOMAIN outbox'
      /\ \A i \in DOMAIN outbox :
           /\ outbox'[i].record = outbox[i].record
           /\ outbox'[i].payload_version = outbox[i].payload_version
           /\ outbox'[i].payload = outbox[i].payload
           /\ outbox'[i].status = IF i \in resetting.doomed THEN "deleted" ELSE outbox[i].status
      /\ \A i \in DOMAIN outbox' \ DOMAIN outbox : outbox'[i] \in Tombstones
  BY ResetRows DEF TInv
<1>2. \A x \in Tombstones : x.record \in Facts
  BY TombstonesAre DEF TInv, Found
<1>3. r \notin Facts
  BY Disjoint
<1>4. \A i \in DOMAIN outbox : outbox[i].record = r => i \notin resetting.doomed
  BY <1>3 DEF TInv
<1>5. RowsOf(r)' = RowsOf(r)
  BY <1>1, <1>2, <1>3, <1>4 DEF RowsOf
<1>6. \A i : IsLast(r, i)' <=> IsLast(r, i)
  BY <1>5 DEF IsLast
<1> QED
  BY <1>1, <1>4, <1>5, <1>6 DEF RowsOf

(* ... and leaves a clean fact that it has found with the one new row.     *)
LEMMA ResetFound ==
  ASSUME TInv, ResetCommit, NEW f \in Found, f \notin collided'
  PROVE  \E n \in DOMAIN outbox' \ DOMAIN outbox :
           /\ RowsOf(f)' = {n}
           /\ outbox'[n].status = "pending" /\ outbox'[n].payload = NoText
<1>1. RowsOf(f) \subseteq resetting.doomed
  BY ResetIs
<1>2. PICK x \in Tombstones : x.record = f
  BY TombstonesAre DEF TInv
<1>3. x.payload = NoText /\ x.status = "pending"
  BY <1>2, TombstonesAre DEF TInv, NewRows
<1>4. PICK n \in DOMAIN outbox' \ DOMAIN outbox : outbox'[n] = x
  BY <1>2, ResetRows DEF TInv
<1>5. n \in RowsOf(f)'
  BY <1>2, <1>3, <1>4 DEF RowsOf
<1>6. ASSUME NEW i \in RowsOf(f)'
      PROVE  i = n
  <2>1. i \in DOMAIN outbox' /\ outbox'[i].record = f /\ outbox'[i].status # "deleted"
    BY <1>6 DEF RowsOf
  <2>2. i \notin DOMAIN outbox
    <3>1. SUFFICES ASSUME i \in DOMAIN outbox PROVE FALSE
      OBVIOUS
    <3>2. /\ outbox'[i].record = outbox[i].record
          /\ outbox'[i].status = IF i \in resetting.doomed THEN "deleted" ELSE outbox[i].status
      BY <3>1, ResetRows DEF TInv
    <3>3. i \in RowsOf(f)
      BY <2>1, <3>1, <3>2 DEF RowsOf
    <3> QED
      BY <1>1, <2>1, <3>2, <3>3
  <2>3. \A j, k \in DOMAIN outbox' \ DOMAIN outbox : outbox'[j].record = outbox'[k].record => j = k
    BY ResetRows DEF TInv
  <2> QED
    BY <1>2, <1>4, <2>1, <2>2, <2>3
<1> QED
  BY <1>3, <1>4, <1>5, <1>6

(* A clean fact that it has not found has never had a row.                 *)
LEMMA ResetUnknown ==
  ASSUME IInv, ResetCommit, NEW f \in Facts \ Found, Clean(f)'
  PROVE  /\ RowsOf(f) = {} /\ RowsOf(f)' = {} /\ fact'[f] = fact[f]
         /\ \A i \in DOMAIN outbox : outbox[i].record # f
         /\ \A i \in DOMAIN outbox' : outbox'[i].record # f
<1>1. RowsOf(f) = {} /\ Clean(f) /\ fact'[f] = fact[f]
  BY ResetIs DEF Clean
<1>2. \A i \in DOMAIN outbox : outbox[i].record # f
  BY <1>1 DEF IInv, RecordInv, Clean
<1>3. \A i \in DOMAIN outbox' : outbox'[i].record # f
  <2>1. \A i \in DOMAIN outbox : outbox'[i].record = outbox[i].record
    BY ResetRows DEF IInv, TInv
  <2>2. \A i \in DOMAIN outbox' \ DOMAIN outbox : outbox'[i].record \in Found
    BY ResetRows, TombstonesAre DEF IInv, TInv
  <2> QED
    BY <1>2, <2>1, <2>2
<1>4. RowsOf(f)' = {}
  BY <1>3 DEF RowsOf
<1> QED
  BY <1>1, <1>2, <1>3, <1>4

(* A reset keeps RecordInv of the records that are still clean,            *)
LEMMA ResetRecord ==
  ASSUME IInv, TInv', ResetCommit, NEW r \in Records, Clean(r)'
  PROVE  RecordInv(r)'
<1>1. TInv /\ UNCHANGED <<chunk, index>> /\ collided \subseteq collided' /\ orphaned \subseteq orphaned'
  BY ResetIs DEF IInv
<1>2. Clean(r) /\ RecordInv(r) /\ r \notin collided'
  BY <1>1, CleanBefore DEF IInv, Clean
<1>3. CASE r \in Chunks
  <2>1. Source(r)' = Source(r)
    BY <1>1, <1>3, SourceIs
  <2>2. /\ RowsOf(r)' = RowsOf(r)
        /\ \A i : IsLast(r, i)' <=> IsLast(r, i)
        /\ \A i \in RowsOf(r) : /\ outbox'[i].payload_version = outbox[i].payload_version
                                /\ outbox'[i].payload = outbox[i].payload
                                /\ outbox'[i].status = outbox[i].status
    BY <1>1, <1>3, ResetChunk
  <2>3. RowsOf(r)' = {} => \A i \in DOMAIN outbox' : outbox'[i].record # r
    <3>1. SUFFICES ASSUME RowsOf(r)' = {}, NEW i \in DOMAIN outbox', outbox'[i].record = r
                   PROVE  FALSE
      OBVIOUS
    <3>2. outbox'[i].status = "deleted"
      BY <3>1 DEF RowsOf
    <3> QED
      BY <1>3, <3>1, <3>2, Disjoint DEF TInv
  <2>4. \A i : IsLast(r, i) => i \in RowsOf(r)
    BY DEF IsLast
  <2> QED
    BY <1>1, <1>2, <2>1, <2>2, <2>3, <2>4 DEF RecordInv
<1>4. CASE r \in Found
  <2>1. PICK n : /\ RowsOf(r)' = {n}
                 /\ outbox'[n].status = "pending" /\ outbox'[n].payload = NoText
    BY <1>1, <1>2, <1>4, ResetFound
  <2>2. Source(r)' = NoText
    BY <1>4, ResetIs, SourceIs DEF Found
  <2>3. n \in Nat
    <3>1. n \in DOMAIN outbox'
      BY <2>1 DEF RowsOf
    <3> QED
      BY <3>1, LenProperties DEF TInv, TypeOK
  <2>4. \A i, j \in RowsOf(r)' : ~(i < j)
    BY <2>1, <2>3
  <2>5. \A i : IsLast(r, i)' => i = n
    BY <2>1 DEF IsLast
  <2> QED
    BY <2>1, <2>2, <2>4, <2>5 DEF RecordInv
<1>5. CASE r \in Facts \ Found
  <2>1. /\ RowsOf(r) = {} /\ RowsOf(r)' = {} /\ fact'[r] = fact[r]
        /\ \A i \in DOMAIN outbox' : outbox'[i].record # r
    BY <1>5, ResetUnknown
  <2>2. Source(r)' = Source(r)
    BY <1>5, <2>1, SourceIs
  <2> QED
    BY <1>1, <1>2, <2>1, <2>2 DEF RecordInv, IsLast
<1> QED
  BY <1>3, <1>4, <1>5 DEF Records, Found

(* and what a worker owes to the rows it holds: a deleted row of a clean   *)
(* fact has the tombstone behind it.                                       *)
LEMMA ResetBatch ==
  ASSUME IInv, TInv', ResetCommit, NEW p \in Workers
  PROVE  BatchInv(p)'
<1>1. /\ TInv /\ BatchInv(p)
      /\ UNCHANGED <<chunk, index, worker>>
      /\ collided \subseteq collided' /\ orphaned \subseteq orphaned'
  BY ResetIs DEF IInv
<1>2. Position(p)' = Position(p)
  BY <1>1 DEF Position
<1>3. ASSUME NEW i \in worker[p].batch
      PROVE  /\ i \in DOMAIN outbox /\ outbox'[i].record = outbox[i].record
             /\ outbox'[i].payload = outbox[i].payload
             /\ outbox'[i].status \in {outbox[i].status, "deleted"}
  BY <1>1, ResetRows DEF TInv
<1>4. ASSUME NEW i \in worker[p].batch, NEW r, r = outbox[i].record, r \in Facts, Clean(r)'
      PROVE  Superseded(i)' /\ ~IsLast(r, i)'
  <2>1. i \in DOMAIN outbox /\ outbox'[i].record = r
    BY <1>3, <1>4
  <2>2. r \in Found
    BY <1>4, <2>1, ResetUnknown
  <2>3. r \notin collided'
    BY <1>4 DEF Clean
  <2>4. PICK n \in DOMAIN outbox' \ DOMAIN outbox : RowsOf(r)' = {n} /\ outbox'[n].status = "pending"
    BY <1>1, <2>2, <2>3, ResetFound
  <2>5. \A k : IsLast(r, k)' => k = n
    BY <2>4 DEF IsLast
  <2> QED
    BY <2>1, <2>4, <2>5 DEF Superseded
<1>5. ASSUME NEW i \in worker[p].batch, NEW r, r = outbox[i].record, r \in Chunks, Clean(r)'
      PROVE  /\ Clean(r)
             /\ outbox'[i].status = outbox[i].status
             /\ Superseded(i) => Superseded(i)'
             /\ IsLast(r, i)' => IsLast(r, i)
  <2>1. Clean(r) /\ i \in DOMAIN outbox /\ outbox'[i].record = r
    BY <1>1, <1>3, <1>5, CleanBefore
  <2>2. /\ \A k : IsLast(r, k)' <=> IsLast(r, k)
        /\ \A k \in RowsOf(r) : outbox'[k].status = outbox[k].status
    BY <1>1, <1>5, ResetChunk
  <2>3. outbox[i].status # "deleted" /\ i \in RowsOf(r)
    BY <1>1, <1>5, <2>1, Disjoint DEF TInv, RowsOf
  <2>4. \A k : IsLast(r, k) => k \in RowsOf(r)
    BY DEF IsLast
  <2>5. Superseded(i) => Superseded(i)'
    BY <1>5, <2>1, <2>2, <2>4 DEF Superseded
  <2> QED
    BY <2>1, <2>2, <2>3, <2>5
<1>6. ASSUME NEW i \in worker'[p].batch
      PROVE  /\ outbox'[i].status \in {"processing", "deleted"}
             /\ Clean(outbox[i].record)' =>
                  /\ (outbox[i].status = "deleted")' => Superseded(i)'
                  /\ (worker[p].point = "writing" /\ i = Position(p))' => Superseded(i)'
                  /\ (worker[p].point = "completing" /\ i = Position(p) /\ IsLast(outbox[i].record, i))' =>
                       index'[outbox'[i].record] = outbox'[i].payload
  <2>1. i \in worker[p].batch
    BY <1>1, <1>6
  <2>2. PICK r : r = outbox[i].record
    OBVIOUS
  <2>3. outbox'[i].record = r /\ outbox'[i].payload = outbox[i].payload
    BY <1>3, <2>1, <2>2
  <2>4. outbox'[i].status \in {"processing", "deleted"}
    BY <1>1, <1>3, <2>1 DEF BatchInv
  <2>5. ASSUME Clean(r)'
        PROVE  /\ outbox'[i].status = "deleted" => Superseded(i)'
               /\ worker[p].point = "writing" /\ i = Position(p) => Superseded(i)'
               /\ worker[p].point = "completing" /\ i = Position(p) /\ IsLast(r, i)' =>
                    index[r] = outbox[i].payload
    <3>1. r \in Facts \/ r \in Chunks
      BY <2>5 DEF Clean, Records
    <3>2. CASE r \in Facts
      BY <1>4, <2>1, <2>2, <2>5, <3>2
    <3>3. CASE r \in Chunks
      BY <1>1, <1>5, <2>1, <2>2, <2>5, <3>3 DEF BatchInv
    <3> QED
      BY <3>1, <3>2, <3>3
  <2> QED
    BY <1>1, <1>2, <2>3, <2>4, <2>5
<1> QED
  BY <1>6 DEF BatchInv

(* The commit of a reset keeps the invariant.                              *)
LEMMA ResetCommitKeeps ==
  ASSUME IInv, TInv', ResetCommit
  PROVE  IInv'
<1>1. /\ TInv
      /\ UNCHANGED <<documentVars, chunk, index, worker>>
      /\ collided \subseteq collided' /\ orphaned \subseteq orphaned'
      /\ orphaned' \subseteq orphaned \cup Facts
  BY ResetIs DEF IInv
<1>2. \A r \in Records : Clean(r)' => RecordInv(r)'
  BY ResetRecord
<1>3. ASSUME NEW r \in Chunks, Clean(r)'
      PROVE  ChunkInv(r)'
  <2>1. ChunkInv(r)
    BY <1>1, <1>3, CleanBefore DEF IInv
  <2>2. /\ RowsOf(r)' = RowsOf(r)
        /\ \A i : IsLast(r, i)' <=> IsLast(r, i)
        /\ \A i \in RowsOf(r) : /\ outbox'[i].payload_version = outbox[i].payload_version
                                /\ outbox'[i].status = outbox[i].status
    BY <1>1, ResetChunk
  <2>3. \A i : IsLast(r, i) => i \in RowsOf(r)
    BY DEF IsLast
  <2> QED
    BY <1>1, <2>1, <2>2, <2>3 DEF ChunkInv
<1>4. \A p \in Workers : BatchInv(p)'
  BY ResetBatch
<1>5. /\ document'.exists \/ \A r \in Chunks : chunk'[r] = NoChunk
      /\ document'.exists => orphaned' \cap Chunks = {}
  BY <1>1, Disjoint DEF IInv, documentVars
<1> QED
  BY <1>2, <1>3, <1>4, <1>5 DEF IInv

-----------------------------------------------------------------------------
(* The worker.                                                             *)

(* Steps that only change statuses keep RecordInv if a row that is         *)
(* completed is in the index,                                              *)
LEMMA RestatedRecord ==
  ASSUME TypeOK, Restated, NEW r, RecordInv(r), Source(r)' = Source(r),
         RowsOf(r) = {} => index'[r] = index[r],
         \A i : IsLast(r, i) /\ outbox'[i].status = "completed" => index'[r] = outbox[i].payload
  PROVE  RecordInv(r)'
<1>1. RowsOf(r)' = RowsOf(r) /\ \A i : IsLast(r, i)' <=> IsLast(r, i)
  BY RestatedKeeps
<1>2. \A i \in RowsOf(r) : /\ outbox'[i].payload_version = outbox[i].payload_version
                           /\ outbox'[i].payload = outbox[i].payload
  BY DEF RowsOf, Restated
<1>3. \A i : IsLast(r, i) => i \in RowsOf(r)
  BY DEF IsLast
<1>4. \A i, j \in RowsOf(r)' : i < j => outbox'[i].payload_version < outbox'[j].payload_version
  BY <1>1, <1>2 DEF RecordInv
<1>5. RowsOf(r)' = {} => /\ Source(r)' = NoText /\ index'[r] = NoText
                         /\ \A i \in DOMAIN outbox' : outbox'[i].record # r
  BY <1>1 DEF RecordInv, Restated
<1>6. \A i : IsLast(r, i)' => /\ outbox'[i].payload = Source(r)'
                              /\ outbox'[i].status = "completed" => index'[r] = outbox'[i].payload
  BY <1>1, <1>2, <1>3 DEF RecordInv
<1> QED
  BY <1>4, <1>5, <1>6 DEF RecordInv

(* ChunkInv if no row that is completed is reopened,                       *)
LEMMA RestatedChunk ==
  ASSUME TypeOK, Restated, NEW r \in Chunks, ChunkInv(r), chunk'[r] = chunk[r],
         \A i \in DOMAIN outbox : outbox[i].status = "completed" => outbox'[i].status = "completed"
  PROVE  ChunkInv(r)'
<1>1. RowsOf(r)' = RowsOf(r) /\ \A i : IsLast(r, i)' <=> IsLast(r, i)
  BY RestatedKeeps
<1>2. \A i : IsLast(r, i) => /\ outbox'[i].payload_version = outbox[i].payload_version
                             /\ outbox[i].status = "completed" => outbox'[i].status = "completed"
  BY DEF IsLast, RowsOf, Restated
<1> QED
  BY <1>1, <1>2 DEF ChunkInv

(* what supersedes a row if pending rows stay pending,                     *)
LEMMA RestatedSuperseded ==
  ASSUME Restated, NEW i \in DOMAIN outbox, Superseded(i),
         \A k \in DOMAIN outbox : k # i /\ outbox[k].status = "pending" => outbox'[k].status = "pending"
  PROVE  Superseded(i)'
<1>1. PICK r : r = outbox[i].record
  OBVIOUS
<1>2. outbox'[i].record = r
  BY <1>1 DEF Restated
<1>3. \A k : IsLast(r, k)' <=> IsLast(r, k)
  BY RestatedKeeps
<1>4. \A k : IsLast(r, k) => k \in DOMAIN outbox
  BY DEF IsLast, RowsOf
<1>5. \A k : IsLast(r, k) => k = i \/ outbox[k].status = "pending"
  BY <1>1 DEF Superseded
<1>6. \A k : IsLast(r, k)' => k = i \/ outbox'[k].status = "pending"
  BY <1>3, <1>4, <1>5
<1> QED
  BY <1>2, <1>6 DEF Superseded

(* and BatchInv of a worker that does not go on to write or to complete.   *)
LEMMA RestatedBatch ==
  ASSUME TInv, Restated, UNCHANGED historyVars, NEW p \in Workers, BatchInv(p),
         worker'[p].batch \subseteq worker[p].batch,
         \/ worker'[p].point \notin {"writing", "completing"}
         \/ worker'[p] = worker[p] /\ index' = index,
         \A j \in worker'[p].batch : outbox'[j].status = outbox[j].status,
         \A k \in DOMAIN outbox : outbox[k].status = "pending" => outbox'[k].status = "pending"
  PROVE  BatchInv(p)'
<1>1. worker[p].batch \subseteq DOMAIN outbox
  BY DEF TInv
<1>2. \A i \in worker'[p].batch :
        /\ outbox'[i].status = outbox[i].status
        /\ outbox'[i].record = outbox[i].record /\ outbox'[i].payload = outbox[i].payload
        /\ Superseded(i) => Superseded(i)'
        /\ IsLast(outbox[i].record, i)' <=> IsLast(outbox[i].record, i)
  <2>1. ASSUME NEW i \in worker'[p].batch
        PROVE  /\ outbox'[i].status = outbox[i].status
               /\ outbox'[i].record = outbox[i].record /\ outbox'[i].payload = outbox[i].payload
               /\ Superseded(i) => Superseded(i)'
               /\ IsLast(outbox[i].record, i)' <=> IsLast(outbox[i].record, i)
    <3>1. i \in DOMAIN outbox /\ outbox'[i].status = outbox[i].status
      BY <1>1, <2>1
    <3>2. PICK r : r = outbox[i].record
      OBVIOUS
    <3>3. outbox'[i].record = r /\ outbox'[i].payload = outbox[i].payload
      BY <3>1, <3>2 DEF Restated
    <3>4. IsLast(r, i)' <=> IsLast(r, i)
      BY RestatedKeeps
    <3>5. Superseded(i) => Superseded(i)'
      BY <3>1, RestatedSuperseded
    <3> QED
      BY <3>1, <3>2, <3>3, <3>4, <3>5
  <2> QED
    BY <2>1
<1>3. UNCHANGED <<collided, orphaned>>
  BY DEF historyVars
<1>4. worker'[p] = worker[p] => Position(p)' = Position(p)
  BY DEF Position
<1>5. ASSUME NEW i \in worker'[p].batch
      PROVE  /\ outbox'[i].status \in {"processing", "deleted"}
             /\ Clean(outbox[i].record)' =>
                  /\ (outbox[i].status = "deleted")' => Superseded(i)'
                  /\ (worker[p].point = "writing" /\ i = Position(p))' => Superseded(i)'
                  /\ (worker[p].point = "completing" /\ i = Position(p) /\ IsLast(outbox[i].record, i))' =>
                       index'[outbox'[i].record] = outbox'[i].payload
  <2>1. i \in worker[p].batch
    BY <1>5
  <2>2. PICK r : r = outbox[i].record
    OBVIOUS
  <2>3. /\ outbox'[i].status = outbox[i].status
        /\ outbox'[i].record = r /\ outbox'[i].payload = outbox[i].payload
        /\ Superseded(i) => Superseded(i)'
        /\ IsLast(r, i)' <=> IsLast(r, i)
    BY <1>2, <2>2
  <2>4. Clean(r)' <=> Clean(r)
    BY <1>3 DEF Clean
  <2>5. /\ outbox[i].status \in {"processing", "deleted"}
        /\ Clean(r) =>
             /\ outbox[i].status = "deleted" => Superseded(i)
             /\ worker[p].point = "writing" /\ i = Position(p) => Superseded(i)
             /\ worker[p].point = "completing" /\ i = Position(p) /\ IsLast(r, i) =>
                  index[r] = outbox[i].payload
    BY <2>1, <2>2 DEF BatchInv
  <2>6. CASE worker'[p].point \notin {"writing", "completing"}
    BY <2>3, <2>4, <2>5, <2>6
  <2>7. CASE worker'[p] = worker[p] /\ index' = index
    BY <1>4, <2>3, <2>4, <2>5, <2>7
  <2> QED
    BY <2>6, <2>7
<1> QED
  BY <1>5 DEF BatchInv

(* There is no other worker.                                               *)
LEMMA OnlyWorker ==
  ASSUME OneWorker, NEW p \in Workers
  PROVE  \A q \in Workers : q = p
BY DEF OneWorker

(* The steps of a worker leave the document alone: the parts of the        *)
(* invariant that they have to keep.                                       *)
LEMMA WorkerParts ==
  ASSUME IInv, TInv', UNCHANGED <<documentVars, historyVars>>,
         \A r \in Chunks : chunk'[r] = NoChunk <=> chunk[r] = NoChunk,
         \A r \in Records : Clean(r) => RecordInv(r)',
         \A r \in Chunks : Clean(r) => ChunkInv(r)',
         \A p \in Workers : BatchInv(p)'
  PROVE  IInv'
<1>1. UNCHANGED <<document, collided, orphaned>>
  BY DEF documentVars, historyVars
<1>2. \A r : Clean(r)' <=> Clean(r)
  BY <1>1 DEF Clean
<1> QED
  BY <1>1, <1>2 DEF IInv

(* claim_batch keeps the invariant: with one worker, nobody holds the      *)
(* rows that it claims.                                                    *)
LEMMA ClaimKeeps ==
  ASSUME IInv, TInv', OneWorker, NEW p \in Workers, claim_batch(p)
  PROVE  IInv'
<1>1. /\ TInv /\ TypeOK
      /\ \A r \in Records : Clean(r) => RecordInv(r)
      /\ \A r \in Chunks : Clean(r) => ChunkInv(r)
      /\ Chunks \subseteq Records
  BY DEF IInv, TInv, Records
<1>2. /\ Goes(p, "checking", Oldest)
      /\ Restated
      /\ \A j \in DOMAIN outbox :
           outbox'[j].status = IF j \in Oldest THEN "processing" ELSE outbox[j].status
  BY <1>1, ClaimGoes
<1>3. UNCHANGED <<sourceVars, index, historyVars, faults>>
  BY DEF claim_batch
<1>4. UNCHANGED <<documentVars, chunk, fact>>
  BY <1>3 DEF sourceVars
<1>5. \A r : Source(r)' = Source(r)
  BY <1>4 DEF Source
<1>6. \A i \in DOMAIN outbox : outbox'[i].status = "completed" <=> outbox[i].status = "completed"
  BY <1>1, <1>2, OldestIs DEF Claimable
<1>7. ASSUME NEW r \in Records, Clean(r)
      PROVE  RecordInv(r)'
  <2>1. \A i : IsLast(r, i) => i \in DOMAIN outbox
    BY DEF IsLast, RowsOf
  <2>2. \A i : IsLast(r, i) /\ outbox'[i].status = "completed" => index'[r] = outbox[i].payload
    BY <1>1, <1>3, <1>6, <1>7, <2>1 DEF RecordInv
  <2> QED
    BY <1>1, <1>2, <1>3, <1>5, <1>7, <2>2, RestatedRecord
<1>8. \A r \in Chunks : Clean(r) => ChunkInv(r)'
  BY <1>1, <1>2, <1>4, <1>6, RestatedChunk
<1>9. BatchInv(p)'
  <2>1. worker'[p].batch = Oldest /\ worker'[p].point = "checking"
    BY <1>2 DEF Goes
  <2>2. \A i \in Oldest : outbox'[i].status = "processing"
    BY <1>1, <1>2, OldestIs
  <2> QED
    BY <2>1, <2>2 DEF BatchInv
<1>10. \A q \in Workers : BatchInv(q)'
  BY <1>9, OnlyWorker
<1> QED
  BY <1>3, <1>4, <1>7, <1>8, <1>10, WorkerParts

(* What the comparison with the latest version says of a clean row.        *)
LEMMA LatestMeans ==
  ASSUME TypeOK, NEW i \in DOMAIN outbox, RecordInv(outbox[i].record), outbox[i].status # "deleted"
  PROVE  IF outbox[i].payload_version >= Latest(outbox[i].record)
         THEN Superseded(i) ELSE ~IsLast(outbox[i].record, i)
<1>1. PICK r : r = outbox[i].record
  OBVIOUS
<1>2. i \in RowsOf(r)
  BY <1>1 DEF RowsOf
<1>3. /\ Latest(r) \in Nat
      /\ \A j \in RowsOf(r) : outbox[j].payload_version <= Latest(r)
      /\ Latest(r) = 0 \/ \E j \in RowsOf(r) : outbox[j].payload_version = Latest(r)
  BY LatestIs
<1>4. /\ RowsOf(r) \subseteq Nat
      /\ \A j \in RowsOf(r) : outbox[j].payload_version \in Nat
  BY RowsAre DEF RowsOf
<1>5. \A j, k \in RowsOf(r) : j < k => outbox[j].payload_version < outbox[k].payload_version
  BY <1>1 DEF RecordInv
<1>6. ASSUME outbox[i].payload_version >= Latest(r), NEW k, IsLast(r, k)
      PROVE  k = i
  <2>1. k \in RowsOf(r) /\ i <= k
    BY <1>2, <1>6 DEF IsLast
  <2>2. ~(i < k)
    BY <1>2, <1>3, <1>4, <1>5, <1>6, <2>1
  <2> QED
    BY <1>2, <1>4, <2>1, <2>2
<1>7. ASSUME ~(outbox[i].payload_version >= Latest(r)), IsLast(r, i)
      PROVE  FALSE
  <2>1. outbox[i].payload_version < Latest(r)
    BY <1>2, <1>3, <1>4, <1>7
  <2>2. PICK j \in RowsOf(r) : outbox[j].payload_version = Latest(r)
    BY <1>2, <1>3, <1>4, <2>1
  <2>3. j <= i /\ j # i
    BY <1>7, <2>1, <2>2, <1>4 DEF IsLast
  <2>4. outbox[j].payload_version < outbox[i].payload_version
    BY <1>2, <1>4, <1>5, <2>3
  <2> QED
    BY <1>2, <1>3, <1>4, <2>1, <2>2, <2>4
<1> QED
  BY <1>1, <1>6, <1>7 DEF Superseded

(* is_latest keeps the invariant.                                          *)
LEMMA IsLatestKeeps ==
  ASSUME IInv, TInv', OneWorker, NEW p \in Workers, is_latest(p)
  PROVE  IInv'
<1>1. /\ TInv /\ TypeOK /\ BatchInv(p)
      /\ \A r \in Records : Clean(r) => RecordInv(r)
      /\ \A r \in Chunks : Clean(r) => ChunkInv(r)
      /\ Chunks \subseteq Records
  BY DEF IInv, TInv, Records
<1>2. /\ worker[p].point = "checking"
      /\ Goes(p, IF IsLatest(p) THEN "writing" ELSE "completing", worker[p].batch)
      /\ UNCHANGED <<sourceVars, outbox, index, historyVars, faults>>
  BY <1>1, IsLatestIs
<1>3. UNCHANGED <<documentVars, chunk, fact, collided, orphaned>>
  BY <1>2 DEF sourceVars, historyVars
<1>4. \A r : Source(r)' = Source(r)
  BY <1>3 DEF Source
<1>5. \A r \in Records : Clean(r) => RecordInv(r)'
  BY <1>1, <1>2, <1>4, SameRecord
<1>6. \A r \in Chunks : Clean(r) => ChunkInv(r)'
  BY <1>1, <1>2, <1>3, SameChunk
<1>7. /\ worker'[p].batch = worker[p].batch
      /\ worker'[p].point = IF IsLatest(p) THEN "writing" ELSE "completing"
      /\ Position(p)' = Position(p)
  BY <1>2 DEF Goes, Position
<1>8. ASSUME NEW i \in worker[p].batch
      PROVE  /\ outbox[i].status \in {"processing", "deleted"}
             /\ Clean(outbox[i].record) =>
                  /\ outbox[i].status = "deleted" => Superseded(i)
                  /\ IsLatest(p) /\ i = Position(p) => Superseded(i)
                  /\ ~IsLatest(p) /\ i = Position(p) /\ IsLast(outbox[i].record, i) => FALSE
  <2>1. /\ outbox[i].status \in {"processing", "deleted"}
        /\ Clean(outbox[i].record) /\ outbox[i].status = "deleted" => Superseded(i)
    BY <1>1 DEF BatchInv
  <2>2. i \in DOMAIN outbox
    BY <1>1 DEF TInv
  <2>3. ASSUME Clean(outbox[i].record), i = Position(p)
        PROVE  /\ IsLatest(p) => Superseded(i)
               /\ ~IsLatest(p) => ~IsLast(outbox[i].record, i)
    <3>1. CASE outbox[i].status = "deleted"
      BY <2>1, <2>3, <3>1 DEF IsLast, RowsOf
    <3>2. CASE outbox[i].status # "deleted"
      <4>1. RecordInv(outbox[i].record)
        BY <1>1, <2>3 DEF Clean
      <4>2. IsLatest(p) <=> outbox[i].payload_version >= Latest(outbox[i].record)
        BY <2>3 DEF IsLatest, Current
      <4> QED
        BY <1>1, <2>2, <3>2, <4>1, <4>2, LatestMeans
    <3> QED
      BY <3>1, <3>2
  <2> QED
    BY <2>1, <2>3
<1>9. \A r, i : IsLast(r, i)' <=> IsLast(r, i)
  BY <1>1, <1>2, SameRestated, RestatedKeeps
<1>10. \A i : Superseded(i)' <=> Superseded(i)
  BY <1>2, <1>9 DEF Superseded
<1>11. \A r : Clean(r)' <=> Clean(r)
  BY <1>3 DEF Clean
<1>12. BatchInv(p)'
  BY <1>2, <1>7, <1>8, <1>9, <1>10, <1>11 DEF BatchInv
<1>13. \A q \in Workers : BatchInv(q)'
  BY <1>12, OnlyWorker
<1> QED
  BY <1>2, <1>3, <1>5, <1>6, <1>13, WorkerParts

(* The write of a vector keeps RecordInv: the row in hand is superseded    *)
(* or the last.                                                            *)
LEMMA WrittenRecord ==
  ASSUME IInv, NEW p \in Workers, worker[p].point = "writing", Written(p),
         UNCHANGED <<outbox, chunk, fact>>, NEW r \in Records, Clean(r)
  PROVE  RecordInv(r)'
<1>1. TInv /\ TypeOK /\ BatchInv(p) /\ RecordInv(r)
  BY DEF IInv, TInv
<1> DEFINE i == Position(p)
<1>2. worker[p].point \in Holding
  BY DEF Holding
<1>3. i \in worker[p].batch /\ i \in DOMAIN outbox
  BY <1>1, <1>2, PositionIs
<1>4. index \in [Records -> Indexed] /\ index' = [index EXCEPT ![outbox[i].record] = outbox[i].payload]
  BY <1>1 DEF TypeOK, Written, Current
<1> HIDE DEF i
<1>5. Source(r)' = Source(r)
  BY DEF Source
<1>6. CASE outbox[i].record # r
  <2>1. index'[r] = index[r]
    BY <1>4, <1>6
  <2>2. \A k : IsLast(r, k) /\ outbox'[k].status = "completed" => index'[r] = outbox[k].payload
    BY <1>1, <2>1 DEF RecordInv
  <2> QED
    BY <1>1, <1>5, <2>1, <2>2, SameRestated, RestatedRecord
<1>7. CASE outbox[i].record = r
  <2>1. RowsOf(r) # {}
    BY <1>1, <1>3, <1>7 DEF RecordInv
  <2>2. Superseded(i) /\ outbox[i].status \in {"processing", "deleted"}
    BY <1>1, <1>3, <1>7 DEF BatchInv, i
  <2>3. \A k : IsLast(r, k) => outbox[k].status # "completed"
    BY <1>7, <2>2 DEF Superseded
  <2> QED
    BY <1>1, <1>5, <2>1, <2>3, SameRestated, RestatedRecord
<1> QED
  BY <1>6, <1>7

(* The write of a vector keeps the invariant.                              *)
LEMMA WriteVectorKeeps ==
  ASSUME IInv, TInv', OneWorker, NEW p \in Workers, WriteVector(p)
  PROVE  IInv'
<1>1. /\ TInv /\ TypeOK /\ BatchInv(p)
      /\ \A r \in Chunks : Clean(r) => ChunkInv(r)
      /\ Chunks \subseteq Records
  BY DEF IInv, TInv, Records
<1>2. /\ worker[p].point = "writing"
      /\ Written(p)
      /\ Goes(p, "completing", worker[p].batch)
      /\ UNCHANGED <<sourceVars, outbox, historyVars, faults>>
  BY <1>1, WriteVectorIs
<1>3. UNCHANGED <<documentVars, chunk, fact, collided, orphaned>>
  BY <1>2 DEF sourceVars, historyVars
<1>4. \A r \in Records : Clean(r) => RecordInv(r)'
  BY <1>2, <1>3, WrittenRecord
<1>5. \A r \in Chunks : Clean(r) => ChunkInv(r)'
  BY <1>1, <1>2, <1>3, SameChunk
<1>6. /\ worker'[p].batch = worker[p].batch /\ worker'[p].point = "completing"
      /\ Position(p)' = Position(p)
  BY <1>2 DEF Goes, Position
<1>7. \A r, i : IsLast(r, i)' <=> IsLast(r, i)
  BY <1>1, <1>2, SameRestated, RestatedKeeps
<1>8. \A i : Superseded(i)' <=> Superseded(i)
  BY <1>2, <1>7 DEF Superseded
<1>9. \A r : Clean(r)' <=> Clean(r)
  BY <1>3 DEF Clean
<1>10. Clean(outbox[Position(p)].record) =>
         index'[outbox[Position(p)].record] = outbox[Position(p)].payload
  <2>1. index \in [Records -> Indexed]
    BY <1>1 DEF TypeOK
  <2> QED
    BY <1>2, <2>1 DEF Written, Current, Clean
<1>11. BatchInv(p)'
  BY <1>1, <1>2, <1>6, <1>8, <1>9, <1>10 DEF BatchInv
<1>12. \A q \in Workers : BatchInv(q)'
  BY <1>11, OnlyWorker
<1> QED
  BY <1>2, <1>3, <1>4, <1>5, <1>12, WorkerParts

(* A failure of one item keeps the invariant, the vector written or not.   *)
LEMMA ItemFailsKeeps ==
  ASSUME IInv, TInv', OneWorker, NEW p \in Workers, ItemFails(p)
  PROVE  IInv'
<1>1. /\ TInv /\ TypeOK /\ BatchInv(p)
      /\ \A r \in Records : Clean(r) => RecordInv(r)
      /\ \A r \in Chunks : Clean(r) => ChunkInv(r)
      /\ Chunks \subseteq Records
  BY DEF IInv, TInv, Records
<1>2. /\ Goes(p, "retrying", worker[p].batch)
      /\ \/ UNCHANGED index
         \/ worker[p].point = "writing" /\ Written(p)
      /\ UNCHANGED <<sourceVars, outbox, historyVars>>
  BY <1>1, ItemFailsIs
<1>3. UNCHANGED <<documentVars, chunk, fact>>
  BY <1>2 DEF sourceVars
<1>4. \A r : Source(r)' = Source(r)
  BY <1>3 DEF Source
<1>5. \A r \in Records : Clean(r) => RecordInv(r)'
  BY <1>1, <1>2, <1>3, <1>4, WrittenRecord, SameRecord
<1>6. \A r \in Chunks : Clean(r) => ChunkInv(r)'
  BY <1>1, <1>2, <1>3, SameChunk
<1>7. worker'[p].batch = worker[p].batch /\ worker'[p].point \notin {"writing", "completing"}
  BY <1>2 DEF Goes
<1>8. BatchInv(p)'
  BY <1>1, <1>2, <1>7, SameRestated, RestatedBatch
<1>9. \A q \in Workers : BatchInv(q)'
  BY <1>8, OnlyWorker
<1> QED
  BY <1>2, <1>3, <1>5, <1>6, <1>9, WorkerParts

(* mark_completed makes a chunk "indexed" only if the row in hand is its   *)
(* last.                                                                   *)
LEMMA MarkedChunk ==
  ASSUME IInv, TInv', NEW p \in Workers, mark_completed(p), NEW c \in Chunks, Clean(c)
  PROVE  ChunkInv(c)' /\ (chunk'[c] = NoChunk <=> chunk[c] = NoChunk) /\ chunk'[c].text = chunk[c].text
<1>1. TInv /\ TypeOK /\ ChunkInv(c) /\ RecordInv(c)
  BY DEF IInv, TInv, Records
<1>2. /\ worker[p].point = "completing"
      /\ Restated
      /\ \/ Current(p).status = "deleted" /\ outbox' = outbox /\ chunk' = chunk
         \/ /\ Current(p).status # "deleted"
            /\ SetStatus(Position(p), "completed") /\ chunk' = Acknowledged(p)
  BY <1>1, MarkCompletedIs
<1>3. Position(p) \in DOMAIN outbox /\ "completed" \in RowStatuses
  BY <1>1, <1>2, PositionIs DEF Holding, RowStatuses
<1>4. \A i \in DOMAIN outbox : outbox[i].status = "completed" => outbox'[i].status = "completed"
  BY <1>1, <1>2, <1>3, StatusIs
<1>5. CASE chunk'[c] = chunk[c]
  BY <1>1, <1>2, <1>4, <1>5, RestatedChunk
<1>6. CASE chunk'[c] # chunk[c]
  <2> DEFINE i == Position(p)
  <2>1. /\ outbox[i].status # "deleted" /\ SetStatus(i, "completed") /\ chunk' = Acknowledged(p)
    BY <1>2, <1>6 DEF Current
  <2>2. /\ chunk'[c].text = chunk[c].text
        /\ c = outbox[i].record
        /\ chunk[c] # NoChunk
        /\ chunk[c].content_generation = outbox[i].payload_version
        /\ chunk'[c].content_generation = chunk[c].content_generation
        /\ chunk'[c].vector_status = "indexed"
    BY <1>1, <1>6, <2>1, AcknowledgedIs DEF Current
  <2> HIDE DEF i
  <2>3. chunk'[c] # NoChunk
    BY <2>2 DEF NoChunk
  <2>4. i \in DOMAIN outbox /\ i \in RowsOf(c) /\ outbox'[i].status = "completed"
    BY <1>1, <1>3, <2>1, <2>2, StatusIs DEF RowsOf, i
  <2>5. RowsOf(c)' = RowsOf(c) /\ \A k : IsLast(c, k)' <=> IsLast(c, k)
    BY <1>2, RestatedKeeps
  <2>6. ASSUME NEW k, IsLast(c, k)
        PROVE  outbox'[k].status = "completed"
    <3>1. k \in RowsOf(c) /\ i <= k /\ k \in DOMAIN outbox
      BY <2>4, <2>6 DEF IsLast, RowsOf
    <3>2. CASE chunk[c].vector_status = "indexed"
      BY <1>1, <1>4, <2>6, <3>1, <3>2 DEF ChunkInv
    <3>3. CASE chunk[c].vector_status # "indexed"
      <4>1. chunk[c].vector_status = "pending"
        <5>1. chunk[c].vector_status \in {"absent", "pending", "indexed"}
          BY <1>1 DEF TypeOK
        <5> QED
          BY <1>1, <2>2, <3>3, <5>1 DEF ChunkInv
      <4>2. outbox[k].payload_version = outbox[i].payload_version
        BY <1>1, <2>2, <2>6, <4>1 DEF ChunkInv
      <4>3. /\ i \in Nat /\ k \in Nat
            /\ outbox[i].payload_version \in Nat
        BY <1>1, <2>4, <3>1, RowsAre
      <4>4. ~(i < k)
        BY <1>1, <2>4, <3>1, <4>2, <4>3 DEF RecordInv
      <4>5. k = i
        BY <3>1, <4>3, <4>4
      <4> QED
        BY <2>4, <4>5
    <3> QED
      BY <3>2, <3>3
  <2>7. RowsOf(c)' # {}
    BY <2>4, <2>5
  <2>8. ChunkInv(c)'
    BY <2>2, <2>3, <2>5, <2>6, <2>7 DEF ChunkInv
  <2> QED
    BY <2>2, <2>3, <2>8
<1> QED
  BY <1>5, <1>6

(* mark_completed keeps the invariant.                                     *)
LEMMA MarkCompletedKeeps ==
  ASSUME IInv, TInv', OneWorker, NEW p \in Workers, mark_completed(p)
  PROVE  IInv'
<1>1. /\ TInv /\ TypeOK /\ BatchInv(p)
      /\ \A r \in Records : Clean(r) => RecordInv(r)
      /\ Chunks \subseteq Records
  BY DEF IInv, TInv, Records
<1>2. /\ worker[p].point = "completing" /\ worker[p].point \in Holding
      /\ \E point \in {"idle", "checking"} : Goes(p, point, worker[p].batch \ {Position(p)})
      /\ Restated
      /\ \/ Current(p).status = "deleted" /\ outbox' = outbox /\ chunk' = chunk
         \/ /\ Current(p).status # "deleted"
            /\ SetStatus(Position(p), "completed") /\ chunk' = Acknowledged(p)
      /\ UNCHANGED <<documentVars, fact, resetting, index, historyVars, faults>>
  BY <1>1, MarkCompletedIs DEF Holding
<1> DEFINE i == Position(p)
<1>3. i \in worker[p].batch /\ i \in DOMAIN outbox /\ "completed" \in RowStatuses
  BY <1>1, <1>2, PositionIs DEF RowStatuses
<1>4. /\ \A c \in Chunks : chunk'[c].text = chunk[c].text /\ (chunk'[c] = NoChunk <=> chunk[c] = NoChunk)
  <2>1. \A c \in Chunks : Acknowledged(p)[c].text = chunk[c].text
          /\ (Acknowledged(p)[c] # chunk[c] =>
                chunk[c] # NoChunk /\ Acknowledged(p)[c].vector_status = "indexed")
    BY <1>1, AcknowledgedIs
  <2> QED
    BY <1>2, <2>1 DEF NoChunk
<1>5. \A r \in Records : Source(r)' = Source(r)
  BY <1>2, <1>4, SourceIs DEF Records
<1>6. \/ outbox' = outbox
      \/ outbox[i].status # "deleted" /\ SetStatus(i, "completed")
  BY <1>2 DEF Current
<1>7. \A k \in DOMAIN outbox : k # i => outbox'[k].status = outbox[k].status
  BY <1>1, <1>3, <1>6, StatusIs
<1>8. ASSUME NEW r \in Records, Clean(r)
      PROVE  RecordInv(r)'
  <2>1. ASSUME NEW k, IsLast(r, k), outbox'[k].status = "completed"
        PROVE  index'[r] = outbox[k].payload
    <3>1. k \in DOMAIN outbox /\ outbox[k].record = r
      BY <2>1 DEF IsLast, RowsOf
    <3>2. CASE k # i
      BY <1>1, <1>2, <1>7, <1>8, <2>1, <3>1, <3>2 DEF RecordInv
    <3>3. CASE k = i
      BY <1>1, <1>2, <1>3, <1>8, <2>1, <3>1, <3>3 DEF BatchInv
    <3> QED
      BY <3>2, <3>3
  <2> QED
    BY <1>1, <1>2, <1>5, <1>8, <2>1, RestatedRecord
<1>9. \A c \in Chunks : Clean(c) => ChunkInv(c)'
  BY MarkedChunk
<1>10. BatchInv(p)'
  <2>1. /\ worker'[p].batch = worker[p].batch \ {i}
        /\ worker'[p].point \notin {"writing", "completing"}
    BY <1>2 DEF Goes
  <2>2. \A j \in worker'[p].batch : outbox'[j].status = outbox[j].status
    BY <1>1, <1>7, <2>1 DEF TInv
  <2>3. outbox[i].status \in {"processing", "deleted"}
    BY <1>1, <1>3 DEF BatchInv
  <2>4. \A k \in DOMAIN outbox : outbox[k].status = "pending" => outbox'[k].status = "pending"
    BY <1>7, <2>3
  <2>5. worker'[p].batch \subseteq worker[p].batch
    BY <2>1
  <2> QED
    BY <1>1, <1>2, <2>1, <2>2, <2>4, <2>5, RestatedBatch
<1>11. \A q \in Workers : BatchInv(q)'
  BY <1>10, OnlyWorker
<1> QED
  BY <1>2, <1>4, <1>8, <1>9, <1>11, WorkerParts

(* Steps that change statuses only, "completed" excepted, keep the         *)
(* invariant.                                                              *)
LEMMA StatusKeeps ==
  ASSUME IInv, TInv', Restated, UNCHANGED <<documentVars, chunk, fact, index, historyVars>>,
         \A i \in DOMAIN outbox : outbox'[i].status = "completed" <=> outbox[i].status = "completed",
         \A p \in Workers : BatchInv(p)'
  PROVE  IInv'
<1>1. /\ TypeOK
      /\ \A r \in Records : Clean(r) => RecordInv(r)
      /\ \A r \in Chunks : Clean(r) => ChunkInv(r)
  BY DEF IInv, TInv
<1>2. \A r : Source(r)' = Source(r)
  BY DEF Source
<1>3. ASSUME NEW r \in Records, Clean(r)
      PROVE  RecordInv(r)'
  <2>1. \A i : IsLast(r, i) => i \in DOMAIN outbox
    BY DEF IsLast, RowsOf
  <2>2. \A i : IsLast(r, i) /\ outbox'[i].status = "completed" => index'[r] = outbox[i].payload
    BY <1>1, <1>3, <2>1 DEF RecordInv
  <2> QED
    BY <1>1, <1>2, <1>3, <2>2, RestatedRecord
<1>4. \A r \in Chunks : Clean(r) => ChunkInv(r)'
  BY <1>1, RestatedChunk
<1> QED
  BY <1>3, <1>4, WorkerParts

(* mark_retry keeps the invariant.                                         *)
LEMMA MarkRetryKeeps ==
  ASSUME IInv, TInv', OneWorker, NEW p \in Workers, mark_retry(p)
  PROVE  IInv'
<1>1. TInv /\ TypeOK /\ BatchInv(p)
  BY DEF IInv, TInv
<1> DEFINE i == Position(p)
<1>2. /\ worker[p].point \in Holding
      /\ \E point \in {"idle", "checking"} : Goes(p, point, worker[p].batch \ {i})
      /\ Restated
      /\ \/ outbox' = outbox
         \/ outbox[i].status # "deleted" /\ SetStatus(i, "waiting")
      /\ UNCHANGED <<sourceVars, index, historyVars, faults>>
  BY <1>1, MarkRetryIs DEF Holding, Current
<1>3. i \in worker[p].batch /\ i \in DOMAIN outbox /\ "waiting" \in RowStatuses
  BY <1>1, <1>2, PositionIs DEF RowStatuses
<1> HIDE DEF i
<1>4. outbox[i].status \in {"processing", "deleted"}
  BY <1>1, <1>3 DEF BatchInv
<1>5. /\ \A k \in DOMAIN outbox : k # i => outbox'[k].status = outbox[k].status
      /\ outbox'[i].status \in {outbox[i].status, "waiting"}
  BY <1>1, <1>2, <1>3, StatusIs
<1>6. \A k \in DOMAIN outbox : /\ outbox'[k].status = "completed" <=> outbox[k].status = "completed"
                               /\ outbox[k].status = "pending" => outbox'[k].status = "pending"
  BY <1>4, <1>5
<1>7. BatchInv(p)'
  <2>1. /\ worker'[p].batch = worker[p].batch \ {i}
        /\ worker'[p].point \notin {"writing", "completing"}
    BY <1>2 DEF Goes
  <2>2. \A j \in worker'[p].batch : outbox'[j].status = outbox[j].status
    BY <1>1, <1>5, <2>1 DEF TInv
  <2>3. worker'[p].batch \subseteq worker[p].batch
    BY <2>1
  <2> QED
    BY <1>1, <1>2, <1>6, <2>1, <2>2, <2>3, RestatedBatch
<1>8. \A q \in Workers : BatchInv(q)'
  BY <1>7, OnlyWorker
<1> QED
  BY <1>2, <1>6, <1>8, StatusKeeps DEF sourceVars

(* A failure of the loop, a crash and a restart keep the invariant.        *)
LEMMA StopKeeps ==
  ASSUME IInv, TInv', OneWorker, NEW p \in Workers, LoopFails(p) \/ Crash(p) \/ Restart(p)
  PROVE  IInv'
<1>1. TInv /\ TypeOK /\ BatchInv(p)
  BY DEF IInv, TInv
<1>2. /\ \E point \in Resting : Goes(p, point, {})
      /\ UNCHANGED <<sourceVars, outbox, index, historyVars>>
  BY <1>1, StopIs
<1>3. worker'[p].batch = {}
  BY <1>2 DEF Goes
<1>4. \A q \in Workers : BatchInv(q)'
  BY <1>3, OnlyWorker DEF BatchInv
<1> QED
  BY <1>1, <1>2, <1>4, SameRestated, StatusKeeps DEF sourceVars

(* The passing of time keeps the invariant.                                *)
LEMMA TimeKeeps ==
  ASSUME IInv, TInv', OneWorker, NEW i \in DOMAIN outbox, Due(i) \/ LeaseExpires(i)
  PROVE  IInv'
<1>1. TInv /\ TypeOK /\ \A p \in Workers : BatchInv(p)
  BY DEF IInv, TInv
<1>2. /\ Restated
      /\ outbox[i].status \in {"waiting", "processing"}
      /\ outbox[i].status = "processing" => \E p \in Workers : i \notin worker[p].batch
      /\ \E status \in {"pending", "expired"} : SetStatus(i, status)
      /\ UNCHANGED <<sourceVars, index, worker, historyVars, faults>>
  BY <1>1, TimeIs
<1>3. {"pending", "expired"} \subseteq RowStatuses
  BY DEF RowStatuses
<1>4. /\ \A k \in DOMAIN outbox : k # i => outbox'[k].status = outbox[k].status
      /\ outbox'[i].status \in {"pending", "expired"}
  BY <1>1, <1>2, <1>3, StatusIs
<1>5. \A k \in DOMAIN outbox : /\ outbox'[k].status = "completed" <=> outbox[k].status = "completed"
                               /\ outbox[k].status = "pending" => outbox'[k].status = "pending"
  BY <1>2, <1>4
<1>6. ASSUME NEW p \in Workers
      PROVE  BatchInv(p)'
  <2>1. i \notin worker[p].batch
    BY <1>1, <1>2, OnlyWorker DEF BatchInv
  <2>2. \A j \in worker'[p].batch : outbox'[j].status = outbox[j].status
    BY <1>1, <1>2, <1>4, <2>1 DEF TInv
  <2> QED
    BY <1>1, <1>2, <1>5, <2>2, RestatedBatch
<1> QED
  BY <1>2, <1>5, <1>6, StatusKeeps DEF sourceVars

(* A stutter keeps the invariant.                                          *)
LEMMA StutterKeeps ==
  ASSUME IInv, TInv', UNCHANGED vars
  PROVE  IInv'
<1>1. /\ TypeOK
      /\ UNCHANGED <<documentVars, chunk, fact, index, historyVars, outbox, worker, collided, orphaned>>
  BY DEF IInv, TInv, vars, historyVars, documentVars
<1>2. \A p \in Workers : BatchInv(p)'
  BY <1>1, SameBatch
<1> QED
  BY <1>1, <1>2, SameRestated, StatusKeeps

-----------------------------------------------------------------------------
(* The invariant holds in all reachable states.                            *)

(* The invariant holds initially,                                          *)
LEMMA InitInv ==
  Init => IInv
<1> SUFFICES ASSUME Init PROVE IInv
  OBVIOUS
<1>1. TInv
  BY InitTyped
<1>2. DOMAIN outbox = {} /\ \A r : RowsOf(r) = {}
  BY DEF Init, RowsOf
<1>3. \A r \in Records : Source(r) = NoText /\ index[r] = NoText
  BY SourceIs, NoTextIs DEF Init, NoChunk, Records
<1>4. \A r \in Records : RecordInv(r)
  BY <1>2, <1>3 DEF RecordInv, IsLast
<1>5. \A r \in Chunks : chunk[r] = NoChunk /\ ChunkInv(r)
  BY <1>2 DEF Init, ChunkInv, IsLast, NoChunk
<1>6. \A p \in Workers : BatchInv(p)
  BY DEF Init, BatchInv, Rest
<1>7. document.exists /\ orphaned = {}
  BY DEF Init
<1> QED
  BY <1>1, <1>4, <1>5, <1>6, <1>7 DEF IInv

(* and every step keeps it.                                                *)
LEMMA StepKeeps ==
  ASSUME IInv, OneWorker, [Next]_vars
  PROVE  IInv'
<1>0. TInv'
  BY StepTyped DEF IInv
<1>1. ASSUME NEW drafts \in [Keys -> Indexed], NEW facts \in SUBSET Facts, Persist(drafts, facts)
      PROVE  IInv'
  BY <1>0, <1>1, PersistKeeps
<1>2. ASSUME BeginReplacement \/ BeginDelete \/ \E s \in replacements : RestoreReplacement(s)
      PROVE  IInv'
  BY <1>0, <1>2, DocumentKeeps
<1>3. ASSUME NEW s \in deletions, RemoveDocument(s) PROVE IInv'
  BY <1>0, <1>3, RemoveKeeps
<1>4. ASSUME NEW s \in deletions, NEW facts \in SUBSET Facts, PurgeDerivatives(s, facts) PROVE IInv'
  BY <1>0, <1>4, PurgeKeeps
<1>5. ASSUME NEW f \in Facts, ArchiveFact(f) \/ \E text \in Texts : UpsertFact(f, text) PROVE IInv'
  BY <1>0, <1>5, FactKeeps
<1>6. ASSUME ResetRead \/ ResetDelete \/ ResetCommit PROVE IInv'
  BY <1>0, <1>6, ResetBeginKeeps, ResetCommitKeeps
<1>7. ASSUME NEW p \in Workers, Work(p) \/ ItemFails(p) PROVE IInv'
  BY <1>0, <1>7, ClaimKeeps, IsLatestKeeps, WriteVectorKeeps, MarkCompletedKeeps, MarkRetryKeeps,
     ItemFailsKeeps DEF Work
<1>8. ASSUME NEW p \in Workers, LoopFails(p) \/ Crash(p) \/ Restart(p) PROVE IInv'
  BY <1>0, <1>8, StopKeeps
<1>9. ASSUME NEW i \in DOMAIN outbox, Due(i) \/ LeaseExpires(i) PROVE IInv'
  BY <1>0, <1>9, TimeKeeps
<1>10. ASSUME UNCHANGED vars PROVE IInv'
  BY <1>0, <1>10, StutterKeeps
<1> QED
  BY <1>1, <1>2, <1>3, <1>4, <1>5, <1>6, <1>7, <1>8, <1>9, <1>10 DEF Next

(* The invariant says that the index follows PostgreSQL,                   *)
LEMMA Converges ==
  ASSUME IInv
  PROVE  IndexConverges
<1>1. SUFFICES ASSUME NEW r \in Records \ (collided \cup orphaned), Finished(r)
               PROVE  index[r] = Source(r)
  BY DEF IndexConverges
<1>2. RecordInv(r) /\ TypeOK
  BY DEF IInv, TInv, Clean
<1>3. CASE RowsOf(r) = {}
  BY <1>2, <1>3 DEF RecordInv
<1>4. CASE RowsOf(r) # {}
  <2>1. PICK i \in RowsOf(r) : IsLast(r, i)
    BY <1>2, <1>4, LastExists
  <2>2. outbox[i].status = "completed"
    BY <1>1, <2>1 DEF Finished
  <2> QED
    BY <1>2, <2>1, <2>2 DEF RecordInv
<1> QED
  BY <1>3, <1>4

(* and that vector_status is true.                                         *)
LEMMA MarkedIsIndexed ==
  ASSUME IInv
  PROVE  SearchableChunkIndexed
<1>1. SUFFICES ASSUME NEW r \in Chunks \ collided, chunk[r].vector_status = "indexed"
               PROVE  index[r] = chunk[r].text
  BY DEF SearchableChunkIndexed
<1>2. chunk[r] # NoChunk
  BY <1>1 DEF NoChunk
<1>3. document.exists /\ orphaned \cap Chunks = {}
  BY <1>2 DEF IInv
<1>4. RecordInv(r) /\ ChunkInv(r) /\ TypeOK
  BY <1>3 DEF IInv, TInv, Clean, Records
<1>5. PICK i \in RowsOf(r) : IsLast(r, i)
  BY <1>1, <1>4, LastExists DEF ChunkInv
<1>6. outbox[i].status = "completed"
  BY <1>1, <1>4, <1>5 DEF ChunkInv
<1>7. index[r] = Source(r)
  BY <1>4, <1>5, <1>6 DEF RecordInv
<1> QED
  BY <1>7, SourceIs

(* With one worker, a record whose rows are all completed is in the index  *)
(* as it is in PostgreSQL: neither failed calls, writes of unknown         *)
(* outcome, crashes nor leases leave an older text (index_outbox.py:212).  *)
THEOREM IndexFollows ==
  ASSUME OneWorker
  PROVE  Spec => []IndexConverges
<1>1. IInv /\ [Next]_vars => IInv'
  BY StepKeeps
<1>2. IInv => IndexConverges
  BY Converges
<1> QED
  BY <1>1, <1>2, InitInv, PTL DEF Spec

(* With one worker, a chunk marked indexed is found under its present text *)
(* (index_outbox.py:235, retrieval_service.py:125).                        *)
THEOREM VectorStatusIsTrue ==
  ASSUME OneWorker
  PROVE  Spec => []SearchableChunkIndexed
<1>1. IInv /\ [Next]_vars => IInv'
  BY StepKeeps
<1>2. IInv => SearchableChunkIndexed
  BY MarkedIsIndexed
<1> QED
  BY <1>1, <1>2, InitInv, PTL DEF Spec
=============================================================================
