------------------------- MODULE FindingsStoreProofs -------------------------
(***************************************************************************)
(* Proofs about FindingsStore for any threads, store objects and findings. *)
(***************************************************************************)
EXTENDS FindingsStore, FiniteSetTheorems, WellFoundedInduction, TLAPS

-----------------------------------------------------------------------------
(* Facts about the operators the store is built from.                      *)

(* A set of fingerprints is finite and its count is a natural number.      *)
LEMMA CountType ==
    ASSUME NEW fps \in SUBSET Fingerprint
    PROVE  IsFiniteSet(fps) /\ Cardinality(fps) \in Nat
  BY FingerprintAssumption, FS_Subset, FS_CardinalityType

(* A non-empty set of naturals has a least element. *)
LEMMA LeastExists ==
    ASSUME NEW S, S \in SUBSET Nat, S # {}
    PROVE  \E m \in S : \A k \in S : m <= k
<1>1. PICK m \in S : \A k \in S : ~ (<<k, m>> \in OpToRel(<, Nat))
  BY NatLessThanWellFounded, WFMin
<1>2. ASSUME NEW k \in S PROVE m <= k
  <2>1. k \in Nat /\ m \in Nat
    OBVIOUS
  <2>2. ~(<<k, m>> \in {ss \in Nat \X Nat : ss[1] < ss[2]})
    BY <1>1 DEF OpToRel
  <2>3. ~(k < m)
    BY <2>1, <2>2
  <2> QED BY <2>1, <2>3
<1> QED BY <1>2

(* A non-empty set of positive ids up to n has a largest, which Newest is. *)
LEMMA NewestType ==
    ASSUME NEW n \in Nat, NEW S, S \in SUBSET (1..n), S # {}
    PROVE  Newest(S) \in S /\ \A k \in S : k <= Newest(S)
<1> DEFINE T == {n - i : i \in S}
<1>1. T \in SUBSET Nat /\ T # {}
  <2>1. ASSUME NEW i \in S PROVE n - i \in Nat
    OBVIOUS
  <2> QED BY <2>1
<1>2. \A i \in S : n - i \in T
  OBVIOUS
<1>3. PICK x \in T : \A y \in T : x <= y
  <2> HIDE DEF T
  <2> QED BY <1>1, LeastExists
<1>4. PICK m \in S : x = n - m
  OBVIOUS
<1>5. ASSUME NEW k \in S PROVE k <= m
  <2>1. n - m <= n - k
    BY <1>2, <1>3, <1>4
  <2>2. k \in 1..n /\ m \in 1..n
    OBVIOUS
  <2> QED BY <2>1, <2>2
<1>6. \E i \in S : \A j \in S : j <= i
  BY <1>5
<1> QED BY <1>6 DEF Newest

(* diff_latest's first SELECT finds nothing or two ids of the target.      *)
LEMMA LatestTwoType ==
    ASSUME NEW d \in TableType, NEW t
    PROVE  /\ LatestTwo(d, t) \in Seq(Nat)
           /\ LatestTwo(d, t) # <<>> => 
                /\ Len(LatestTwo(d, t)) = 2
                /\ LatestTwo(d, t)[1] \in ScanIds(d, t)
                /\ LatestTwo(d, t)[2] \in ScanIds(d, t)
                /\ LatestTwo(d, t)[2] < LatestTwo(d, t)[1]
                /\ \A id \in ScanIds(d, t) :
                      id <= LatestTwo(d, t)[2] \/ id = LatestTwo(d, t)[1]
<1> DEFINE n == Len(d.scans)
           ids == ScanIds(d, t)
           newer == Newest(ids)
           rest == ids \ {newer}
           older == Newest(rest)
<1>1. n \in Nat /\ ids \in SUBSET (1..n)
  BY DEF TableType, ScanIds
<1>2. CASE Cardinality(ids) < 2
  BY <1>2 DEF LatestTwo
<1>3. CASE ~(Cardinality(ids) < 2)
  <2>1. IsFiniteSet(ids) /\ Cardinality(ids) \in Nat
    <3> HIDE DEF ids, n
    <3>1. IsFiniteSet(1..n)
      BY <1>1, FS_Interval
    <3> QED BY <1>1, <3>1, FS_Subset, FS_CardinalityType
  <2>2. ids # {}
    BY <1>3, FS_EmptySet
  <2>3. newer \in ids /\ \A k \in ids : k <= newer
    BY <1>1, <2>2, NewestType
  <2>4. rest # {}
    <3>1. Cardinality(rest) = Cardinality(ids) - 1
      BY <2>1, <2>3, FS_RemoveElement
    <3> QED BY <1>3, <2>1, <3>1, FS_EmptySet
  <2>5. older \in rest /\ \A k \in rest : k <= older
    BY <1>1, <2>4, NewestType
  <2>6. LatestTwo(d, t) = <<newer, older>>
    BY <1>3 DEF LatestTwo
  <2>7. newer \in Nat /\ older \in Nat /\ older < newer
    BY <1>1, <2>3, <2>5
  <2> QED BY <2>3, <2>5, <2>6, <2>7
<1> QED BY <1>2, <1>3

(* The findings of a scan are fingerprints. *)
LEMMA FindingsOfType ==
    ASSUME NEW d \in TableType, NEW id
    PROVE  FindingsOf(d, id) \in SUBSET Fingerprint
  BY DEF FindingsOf, TableType

(* Each insert keeps the tables well-typed. *)
LEMMA InsertType ==
    ASSUME NEW d \in TableType, NEW r \in Request
    PROVE  /\ AddScan(d, r) \in TableType
           /\ [d EXCEPT !.audit_log = Append(@, AuditRow(r))] \in TableType
           /\ LastRowId(AddScan(d, r)) = Len(d.scans) + 1
<1>1. r.fps \in SUBSET Fingerprint /\ r.actor \in Actor /\ r.target \in Target
  BY DEF Request
<1>2. r.action \in {"record_scan", "log_action"}
  BY DEF Request
<1>3. Cardinality(r.fps) \in Nat
  BY <1>1, CountType
<1>4. ScanRow(r) \in [actor : Actor, target : Target, finding_count : Nat]
  BY <1>1, <1>3 DEF ScanRow
<1>5. AuditRow(r) \in [actor : Actor, action : {"record_scan", "log_action"}]
  BY <1>1, <1>2 DEF AuditRow
<1>6. AddScan(d, r) \in TableType
  <2>1. Append(d.scans, ScanRow(r)) \in Seq([actor : Actor, target : Target, finding_count : Nat])
    BY <1>4 DEF TableType
  <2> QED BY <2>1 DEF AddScan, TableType
<1>7. [d EXCEPT !.audit_log = Append(@, AuditRow(r))] \in TableType
  <2>1. Append(d.audit_log, AuditRow(r)) \in Seq([actor : Actor, action : {"record_scan", "log_action"}])
    BY <1>5 DEF TableType
  <2> QED BY <2>1 DEF TableType
<1>8. LastRowId(AddScan(d, r)) = Len(d.scans) + 1
  BY <1>4 DEF AddScan, TableType, LastRowId
<1> QED BY <1>6, <1>7, <1>8

(* What a reader's locals hold when it starts and as it goes on. *)
LEMMA QueryStart ==
    ASSUME NEW op \in {"none", "get_scan", "diff_latest"}, NEW arg \in Target \cup Nat,
           NEW seen \in SUBSET Nat
    PROVE  Ask(op, arg, seen) \in QueryType
<1>1. <<>> \in Seq(Nat) /\ <<>> \in Seq(SUBSET Fingerprint)
  OBVIOUS
<1> QED BY <1>1 DEF QueryType, Ask

LEMMA QueryUpdate ==
    ASSUME NEW q \in QueryType, NEW ids \in Seq(Nat), NEW fps \in SUBSET Fingerprint
    PROVE  /\ [q EXCEPT !.ids = ids] \in QueryType
           /\ [q EXCEPT !.rows = Append(@, fps)] \in QueryType
<1>1. Append(q.rows, fps) \in Seq(SUBSET Fingerprint)
  BY DEF QueryType
<1>2. [q EXCEPT !.ids = ids] \in QueryType
  BY DEF QueryType
<1>3. [q EXCEPT !.rows = Append(@, fps)] \in QueryType
  BY <1>1 DEF QueryType
<1> QED BY <1>2, <1>3

-----------------------------------------------------------------------------
(* Type correctness.                                                       *)

LEMMA InitType == Init => TypeOK
<1> SUFFICES ASSUME Init PROVE TypeOK
  OBVIOUS
<1>1. EmptyDb \in TableType
  BY DEF EmptyDb, TableType
<1>2. NoQuery \in QueryType
  BY DEF NoQuery, Ask, QueryType
<1> QED BY <1>1, <1>2 DEF Init, TypeOK, WriterPc, ReaderPc

(* A writer in a call has its arguments; only record_scan gets to the      *)
(* INSERT of a scan row.                                                   *)
Calls ==
    \A t \in Writer :
        /\ (pc[t] = "idle") <=> (asked[t] = NoRequest)
        /\ pc[t] = "insert" => asked[t].action = "record_scan"

TypeInv == TypeOK /\ Calls

LEMMA AskedType == TypeInv => \A t \in Writer : pc[t] # "idle" => asked[t] \in Request
  BY DEF TypeInv, TypeOK, Calls

(* The writer's steps keep the types. *)
LEMMA WriterType ==
    ASSUME TypeInv, NEW t \in Writer,
           WriterStep(t) \/ \E r \in Request : CallWrite(t, r)
    PROVE  TypeInv'
<1> USE DEF TypeInv, TypeOK, Calls, WriterPc, ReaderPc, tableVars, writerVars
<1> USE ThreadAssumption, NoRequestAssumption
<1>1. CASE \E r \in Request : CallWrite(t, r)
  BY <1>1 DEF CallWrite
<1>2. CASE AcquireLock(t)
  <2>1. HomeOf[t] \in Store
    OBVIOUS
  <2> QED BY <1>2, <2>1 DEF AcquireLock, FirstStatement
<1>3. CASE InsertScan(t)
  <2>1. asked[t] \in Request
    BY <1>3, AskedType DEF InsertScan
  <2>2. asked[t].fps \in SUBSET Fingerprint
    BY <2>1 DEF Request
  <2>3. work' \in TableType /\ LastRowId(work') \in Nat
    <3>1. Len(work.scans) + 1 \in Nat
      BY DEF TableType
    <3> QED BY <1>3, <2>1, <3>1, InsertType DEF InsertScan
  <2> QED BY <1>3, <2>2, <2>3 DEF InsertScan
<1>4. CASE InsertFinding(t)
  <2>1. work' \in TableType
    <3>1. PICK fp \in todo[t] :
             work' = [work EXCEPT !.findings = @ \cup {[scan_id |-> scanId[t], fingerprint |-> fp]}]
      BY <1>4 DEF InsertFinding
    <3>2. fp \in Fingerprint /\ scanId[t] \in Nat
      OBVIOUS
    <3>3. work.findings \cup {[scan_id |-> scanId[t], fingerprint |-> fp]}
             \in SUBSET [scan_id : Nat, fingerprint : Fingerprint]
      BY <3>2 DEF TableType
    <3> QED BY <3>1, <3>3 DEF TableType
  <2> QED BY <1>4, <2>1 DEF InsertFinding
<1>5. CASE InsertAudit(t)
  <2>1. asked[t] \in Request
    BY <1>5, AskedType DEF InsertAudit
  <2>2. work' \in TableType
    BY <1>5, <2>1, InsertType DEF InsertAudit, AddAudit
  <2> QED BY <1>5, <2>2 DEF InsertAudit, AddAudit
<1>6. CASE Commit(t)
  BY <1>6 DEF Commit, Leave
<1>7. CASE Rollback(t)
  BY <1>7 DEF Rollback, InBlock, DropTransaction, Leave
<1>8. CASE BusyTimeout(t)
  <2>1. InBlock(t)
    BY <1>8 DEF BusyTimeout, WaitsForWriter, WaitsForReader, InBlock
  <2> QED BY <1>8, <2>1 DEF BusyTimeout, InBlock, DropTransaction, Leave
<1>9. CASE Release(t)
  BY <1>9 DEF Release, Return, FreeLock
<1> QED BY <1>1, <1>2, <1>3, <1>4, <1>5, <1>6, <1>7, <1>8, <1>9 DEF WriterStep

(* The reader's steps and a crash keep the types. *)
LEMMA ReaderType ==
    ASSUME TypeInv, NEW t \in Reader,
           \/ ReaderStep(t)
           \/ \E id \in 1..MaxScans : CallGetScan(t, id)
           \/ \E target \in Target : CallDiffLatest(t, target)
    PROVE  TypeInv'
<1> USE DEF TypeInv, TypeOK, Calls, WriterPc, ReaderPc, tableVars, writerVars
<1> USE ThreadAssumption, BoundAssumption
<1>0. ASSUME query' \in [Reader -> QueryType], pc'[t] \in ReaderPc,
             pc' = [pc EXCEPT ![t] = pc'[t]],
             UNCHANGED <<tableVars, lock, writerVars, acked>>
      PROVE  TypeInv'
  BY <1>0
<1>1. query[t] \in QueryType
  OBVIOUS
<1>2. CASE \E id \in 1..MaxScans : CallGetScan(t, id)
  <2>1. PICK id \in 1..MaxScans : CallGetScan(t, id)
    BY <1>2
  <2>2. Ask("get_scan", id, acked) \in QueryType
    <3>1. id \in Target \cup Nat
      OBVIOUS
    <3> QED BY <3>1, QueryStart
  <2> QED BY <1>0, <2>1, <2>2 DEF CallGetScan
<1>3. CASE \E target \in Target : CallDiffLatest(t, target)
  <2>1. PICK target \in Target : CallDiffLatest(t, target)
    BY <1>3
  <2>2. Ask("diff_latest", target, acked) \in QueryType
    BY QueryStart
  <2> QED BY <1>0, <2>1, <2>2 DEF CallDiffLatest
<1>4. CASE GetScanRow(t)
  <2>1. CASE query[t].arg \in DOMAIN db.scans
    <3>1. query[t].arg \in Nat
      BY <2>1 DEF TableType
    <3>2. [query[t] EXCEPT !.ids = <<query[t].arg>>] \in QueryType
      <4>1. <<query[t].arg>> \in Seq(Nat)
        BY <3>1
      <4> QED BY <1>1, <4>1, QueryUpdate, FindingsOfType
    <3> QED BY <1>0, <1>4, <2>1, <3>2 DEF GetScanRow
  <2>2. CASE query[t].arg \notin DOMAIN db.scans
    BY <1>0, <1>4, <2>2 DEF GetScanRow
  <2> QED BY <2>1, <2>2
<1>5. CASE DiffIds(t)
  <2>1. LatestTwo(db, query[t].arg) \in Seq(Nat)
    BY LatestTwoType
  <2>2. [query[t] EXCEPT !.ids = LatestTwo(db, query[t].arg)] \in QueryType
    BY <1>1, <2>1, QueryUpdate, FindingsOfType
  <2> QED BY <1>0, <1>5, <2>2 DEF DiffIds
<1>6. CASE SelectFindings(t)
  <2> DEFINE id == query[t].ids[Len(query[t].rows) + 1]
  <2>1. FindingsOf(db, id) \in SUBSET Fingerprint
    BY FindingsOfType
  <2>2. <<>> \in Seq(Nat)
    OBVIOUS
  <2>3. [query[t] EXCEPT !.rows = Append(@, FindingsOf(db, id))] \in QueryType
    BY <1>1, <2>1, <2>2, QueryUpdate
  <2> HIDE DEF id
  <2> QED BY <1>0, <1>6, <2>3 DEF SelectFindings, id
<1>7. CASE ReturnRead(t)
  <2>1. NoQuery \in QueryType
    BY DEF NoQuery, Ask, QueryType
  <2> QED BY <1>0, <1>7, <2>1 DEF ReturnRead
<1> QED BY <1>2, <1>3, <1>4, <1>5, <1>6, <1>7 DEF ReaderStep

LEMMA CrashType == ASSUME TypeInv, NEW s \in Store, Crash(s) PROVE TypeInv'
<1>1. NoQuery \in QueryType
  BY DEF NoQuery, Ask, QueryType
<1> QED BY <1>1, ThreadAssumption DEF TypeInv, TypeOK, Calls, WriterPc, ReaderPc, Crash

LEMMA TypeStep == TypeInv /\ [Next]_vars => TypeInv'
<1> SUFFICES ASSUME TypeInv, [Next]_vars PROVE TypeInv'
  OBVIOUS
<1>1. CASE UNCHANGED vars
  BY <1>1 DEF vars, tableVars, writerVars, TypeInv, TypeOK, Calls
<1>2. CASE Next
  BY <1>2, WriterType, ReaderType, CrashType DEF Next
<1> QED BY <1>1, <1>2

(* In every reachable state the tables, the locks and the locals of all    *)
(* threads have their types.                                               *)
THEOREM TypeCorrect == Spec => []TypeOK
<1>1. Init => TypeInv
  <2>1. Init => Calls
    BY ThreadAssumption DEF Init, Calls
  <2> QED BY <2>1, InitType DEF TypeInv
<1>2. TypeInv => TypeOK
  BY DEF TypeInv
<1> QED BY <1>1, <1>2, TypeStep, PTL DEF Spec

-----------------------------------------------------------------------------
(* The inductive invariant.                                                *)

(* _lock is held exactly by the writer inside its with block. *)
Locking ==
    \A t \in Writer :
        (lock[HomeOf[t]] = t) <=> (pc[t] \in {"insert", "body", "commit", "release"})

(* SQLite's write lock is held exactly from the first INSERT to the end    *)
(* of the transaction; without a transaction nothing is uncommitted.       *)
Transaction ==
    /\ writer = NoThread => work = db
    /\ \A t \in Writer :
          /\ writer = t => pc[t] \in {"body", "commit"}
          /\ pc[t] = "commit" => writer = t
          /\ pc[t] = "body" => ((writer = t) <=> (asked[t].action = "record_scan"))
          /\ (writer # t \/ pc[t] = "commit") /\ pc[t] # "release" => todo[t] = {}

(* What the open transaction has added to the committed tables.            *)
NewFindings(t) ==
    {[scan_id |-> scanId[t], fingerprint |-> fp] : fp \in asked[t].fps \ todo[t]}

Image ==
    \A t \in Writer : writer = t =>
        /\ asked[t].action = "record_scan" =>
              /\ work.scans = Append(db.scans, ScanRow(asked[t]))
              /\ scanId[t] = Len(db.scans) + 1
        /\ asked[t].action # "record_scan" => work.scans = db.scans
        /\ todo[t] \subseteq asked[t].fps
        /\ work.findings = db.findings \cup NewFindings(t)
        /\ work.audit_log = IF pc[t] = "commit"
                            THEN Append(db.audit_log, AuditRow(asked[t])) ELSE db.audit_log

(* Ids that were returned are ids of stored scans. *)
AckedStored == acked \subseteq DOMAIN db.scans

IInv ==
    /\ TypeInv
    /\ Locking
    /\ Transaction
    /\ Image
    /\ AtomicVisibility
    /\ ReturnedIdIsOwn
    /\ AckedStored

(* What a step that publishes nothing must keep: the invariants on the     *)
(* committed tables follow from the tables being the same.                 *)
LEMMA DbUnchanged ==
    ASSUME IInv, UNCHANGED <<db, acked>>
    PROVE  AtomicVisibility' /\ AckedStored'
  BY DEF IInv, AtomicVisibility, AckedStored, Complete, FindingsOf

(* Readers touch nothing the invariant speaks of. *)
LEMMA ReaderInv ==
    ASSUME IInv, NEW t \in Reader, TypeInv',
           \E label, q : /\ pc' = [pc EXCEPT ![t] = label]
                        /\ query' = q,
           UNCHANGED <<tableVars, lock, writerVars, acked>>
    PROVE  IInv'
<1> USE DEF tableVars, writerVars
<1>1. \A w \in Writer : pc'[w] = pc[w]
  BY ThreadAssumption DEF IInv, TypeInv, TypeOK
<1>2. Locking'
  BY <1>1 DEF IInv, Locking
<1>3. Transaction'
  BY <1>1 DEF IInv, Transaction
<1>4. Image'
  BY <1>1 DEF IInv, Image, NewFindings
<1>5. ReturnedIdIsOwn'
  BY <1>1 DEF IInv, ReturnedIdIsOwn, FindingsOf
<1> QED BY <1>2, <1>3, <1>4, <1>5, DbUnchanged DEF IInv

(* Before its INSERTs a call changes nothing but its own locals. *)
LEMMA CallWriteInv ==
    ASSUME IInv, NEW t \in Writer, NEW r \in Request, CallWrite(t, r), TypeInv'
    PROVE  IInv'
<1> USE ThreadAssumption DEF CallWrite, tableVars, writerVars
<1>0. pc \in [Writer \cup Reader -> WriterPc \cup ReaderPc] /\ asked \in [Writer -> Request \cup {NoRequest}]
  BY DEF IInv, TypeInv, TypeOK
<1>1. writer # t
  BY DEF IInv, Transaction
<1>2. Locking'
  BY <1>0 DEF IInv, Locking
<1>3. Transaction'
  BY <1>0, <1>1 DEF IInv, Transaction
<1>4. Image'
  BY <1>0, <1>1 DEF IInv, Image, NewFindings
<1>5. ReturnedIdIsOwn'
  BY <1>0 DEF IInv, ReturnedIdIsOwn, FindingsOf
<1> QED BY <1>2, <1>3, <1>4, <1>5, DbUnchanged DEF IInv

LEMMA AcquireLockInv ==
    ASSUME IInv, NEW t \in Writer, AcquireLock(t), TypeInv'
    PROVE  IInv'
<1> USE ThreadAssumption DEF AcquireLock, tableVars, writerVars
<1>0. /\ pc \in [Writer \cup Reader -> WriterPc \cup ReaderPc]
      /\ lock \in [Store -> Writer \cup {NoThread}]
      /\ asked[t] \in Request /\ HomeOf[t] \in Store
  BY AskedType DEF IInv, TypeInv, TypeOK
<1>1. writer # t /\ todo[t] = {}
  BY DEF IInv, Transaction
<1>2. asked[t].action = "record_scan" \/ asked[t].action = "log_action"
  BY <1>0 DEF Request
<1>3. Locking'
  BY <1>0 DEF IInv, Locking, FirstStatement
<1>4. Transaction'
  BY <1>0, <1>1, <1>2 DEF IInv, Transaction, FirstStatement
<1>5. Image'
  BY <1>0, <1>1 DEF IInv, Image, NewFindings
<1>6. ReturnedIdIsOwn'
  BY <1>0 DEF IInv, ReturnedIdIsOwn, FindingsOf, FirstStatement
<1> QED BY <1>3, <1>4, <1>5, <1>6, DbUnchanged DEF IInv

(* The first INSERT: until then nothing was uncommitted. *)
LEMMA InsertScanInv ==
    ASSUME IInv, NEW t \in Writer, InsertScan(t), TypeInv'
    PROVE  IInv'
<1> USE ThreadAssumption DEF InsertScan
<1>0. /\ pc \in [Writer \cup Reader -> WriterPc \cup ReaderPc]
      /\ todo \in [Writer -> SUBSET Fingerprint] /\ scanId \in [Writer -> Nat]
      /\ asked[t] \in Request /\ asked[t].action = "record_scan"
      /\ db \in TableType
  BY AskedType DEF IInv, TypeInv, TypeOK, Calls
<1>1. writer = NoThread /\ work = db
  BY DEF IInv, Transaction, HasWriteLock
<1>2. Locking'
  BY <1>0 DEF IInv, Locking
<1>3. Transaction'
  BY <1>0, <1>1 DEF IInv, Transaction
<1>4. Image'
  <2>1. /\ work'.scans = Append(db.scans, ScanRow(asked[t]))
        /\ work'.findings = db.findings /\ work'.audit_log = db.audit_log
    BY <1>1, <1>0 DEF AddScan, TableType
  <2>2. scanId'[t] = Len(db.scans) + 1
    BY <1>0, <1>1, InsertType
  <2>3. todo'[t] = asked[t].fps /\ pc'[t] = "body"
    BY <1>0
  <2>4. NewFindings(t)' = {}
    BY <2>3 DEF NewFindings
  <2> QED BY <1>0, <2>1, <2>2, <2>3, <2>4 DEF Image
<1>5. ReturnedIdIsOwn'
  BY <1>0 DEF IInv, ReturnedIdIsOwn, FindingsOf
<1> QED BY <1>2, <1>3, <1>4, <1>5, DbUnchanged DEF IInv

(* One more finding row: it moves from todo into the transaction. *)
LEMMA InsertFindingInv ==
    ASSUME IInv, NEW t \in Writer, InsertFinding(t), TypeInv'
    PROVE  IInv'
<1> USE ThreadAssumption
<1>0. /\ todo \in [Writer -> SUBSET Fingerprint]
      /\ db \in TableType /\ work \in TableType
  BY DEF IInv, TypeInv, TypeOK
<1>1. PICK fp \in todo[t] :
         /\ work' = [work EXCEPT !.findings = @ \cup {[scan_id |-> scanId[t], fingerprint |-> fp]}]
         /\ todo' = [todo EXCEPT ![t] = @ \ {fp}]
  BY DEF InsertFinding
<1>2. pc[t] = "body" /\ UNCHANGED <<db, writer, lock, pc, asked, scanId, outcome, query, acked>>
  BY DEF InsertFinding
<1>3. writer = t
  BY <1>1, <1>2 DEF IInv, Transaction
<1>4. Locking'
  BY <1>2 DEF IInv, Locking
<1>5. Transaction'
  BY <1>0, <1>1, <1>2, <1>3 DEF IInv, Transaction
<1>6. Image'
  <2>1. /\ work'.scans = work.scans /\ work'.audit_log = work.audit_log
        /\ work'.findings = work.findings \cup {[scan_id |-> scanId[t], fingerprint |-> fp]}
    BY <1>0, <1>1 DEF TableType
  <2>2. todo'[t] = todo[t] \ {fp} /\ todo[t] \subseteq asked[t].fps
    BY <1>0, <1>1, <1>3 DEF IInv, Image
  <2>3. NewFindings(t)' = NewFindings(t) \cup {[scan_id |-> scanId[t], fingerprint |-> fp]}
    BY <1>1, <1>2, <2>2 DEF NewFindings
  <2>4. work'.findings = db.findings \cup NewFindings(t)'
    BY <1>3, <2>1, <2>3 DEF IInv, Image
  <2> QED BY <1>2, <1>3, <2>1, <2>2, <2>4 DEF IInv, Image
<1>7. ReturnedIdIsOwn'
  BY <1>2 DEF IInv, ReturnedIdIsOwn, FindingsOf
<1> QED BY <1>2, <1>4, <1>5, <1>6, <1>7, DbUnchanged DEF IInv

(* The audit entry, for log_action the first INSERT. *)
LEMMA InsertAuditInv ==
    ASSUME IInv, NEW t \in Writer, InsertAudit(t), TypeInv'
    PROVE  IInv'
<1> USE ThreadAssumption DEF InsertAudit, AddAudit, writerVars
<1>0. /\ pc \in [Writer \cup Reader -> WriterPc \cup ReaderPc]
      /\ asked[t] \in Request /\ db \in TableType /\ work \in TableType
  BY AskedType DEF IInv, TypeInv, TypeOK
<1>1. \/ writer = t /\ asked[t].action = "record_scan"
      \/ writer = NoThread /\ work = db /\ asked[t].action = "log_action"
  BY <1>0 DEF IInv, Transaction, HasWriteLock, Request
<1>2. Locking'
  BY <1>0 DEF IInv, Locking
<1>3. Transaction'
  BY <1>0, <1>1 DEF IInv, Transaction
<1>4. Image'
  <2>1. /\ work'.scans = work.scans /\ work'.findings = work.findings
        /\ work'.audit_log = Append(work.audit_log, AuditRow(asked[t]))
        /\ pc'[t] = "commit"
    BY <1>0 DEF TableType
  <2>2. NewFindings(t)' = NewFindings(t)
    BY DEF NewFindings
  <2>3. work.audit_log = db.audit_log /\ todo[t] \subseteq asked[t].fps
    BY <1>1 DEF IInv, Image
  <2>4. work.findings = db.findings \cup NewFindings(t)
    <3>1. CASE writer = t
      BY <3>1 DEF IInv, Image
    <3>2. CASE asked[t].action = "log_action" /\ work = db
      <4>1. asked[t].fps = {}
        BY <1>0, <3>2 DEF Request
      <4> QED BY <3>2, <4>1 DEF NewFindings
    <3> QED BY <1>1, <3>1, <3>2
  <2> QED BY <1>1, <2>1, <2>2, <2>3, <2>4 DEF IInv, Image
<1>5. ReturnedIdIsOwn'
  BY <1>0 DEF IInv, ReturnedIdIsOwn, FindingsOf
<1> QED BY <1>2, <1>3, <1>4, <1>5, DbUnchanged DEF IInv

(* What a commit publishes: its own row and findings, and nothing of the   *)
(* scans that were there.                                                  *)
LEMMA Published ==
    ASSUME IInv, NEW t \in Writer, Commit(t)
    PROVE  /\ asked[t] \in Request
           /\ db'.audit_log = Append(db.audit_log, AuditRow(asked[t]))
           /\ \A id \in DOMAIN db.scans : FindingsOf(db', id) = FindingsOf(db, id)
           /\ asked[t].action = "log_action" =>
                 db'.scans = db.scans /\ db'.findings = db.findings
           /\ asked[t].action = "record_scan" =>
                 /\ scanId[t] = Len(db.scans) + 1
                 /\ db'.scans = Append(db.scans, ScanRow(asked[t]))
                 /\ FindingsOf(db', scanId[t]) = asked[t].fps
                 /\ \A f \in db'.findings : f \in db.findings \/ f.scan_id = scanId[t]
<1>0. /\ asked[t] \in Request /\ db \in TableType /\ Len(db.scans) \in Nat
      /\ DOMAIN db.scans = 1..Len(db.scans)
  <2>1. asked[t] \in Request /\ db \in TableType
    BY AskedType DEF Commit, IInv, TypeInv, TypeOK
  <2> QED BY <2>1 DEF TableType
<1>1. db' = work /\ pc[t] = "commit" /\ writer = t /\ todo[t] = {}
  BY DEF Commit, Leave, IInv, Transaction
<1>2. /\ db'.audit_log = Append(db.audit_log, AuditRow(asked[t]))
      /\ db'.findings = db.findings \cup NewFindings(t)
      /\ asked[t].action # "record_scan" => db'.scans = db.scans
      /\ asked[t].action = "record_scan" =>
            /\ db'.scans = Append(db.scans, ScanRow(asked[t]))
            /\ scanId[t] = Len(db.scans) + 1
  BY <1>1 DEF IInv, Image
<1>3. NewFindings(t) = {[scan_id |-> scanId[t], fingerprint |-> fp] : fp \in asked[t].fps}
  BY <1>1 DEF NewFindings
<1>4. \A f \in db.findings : f.scan_id \in DOMAIN db.scans
  BY DEF IInv, AtomicVisibility
<1>5. CASE asked[t].action = "record_scan"
  <2>1. scanId[t] \notin DOMAIN db.scans
    BY <1>0, <1>2, <1>5
  <2>2. \A f \in db'.findings : f \in db.findings \/ f.scan_id = scanId[t]
    BY <1>2, <1>3
  <2>3. ASSUME NEW id \in DOMAIN db.scans
        PROVE  FindingsOf(db', id) = FindingsOf(db, id)
    <3>1. {g \in db'.findings : g.scan_id = id} = {g \in db.findings : g.scan_id = id}
      BY <1>2, <2>1, <2>2
    <3> QED BY <3>1 DEF FindingsOf
  <2>4. FindingsOf(db', scanId[t]) = asked[t].fps
    <3>1. {g \in db'.findings : g.scan_id = scanId[t]} = NewFindings(t)
      BY <1>2, <1>3, <1>4, <2>1
    <3> DEFINE Row(fp) == [scan_id |-> scanId[t], fingerprint |-> fp]
    <3>2. \A fp : Row(fp).fingerprint = fp
      OBVIOUS
    <3> HIDE DEF Row
    <3>3. {f.fingerprint : f \in {Row(fp) : fp \in asked[t].fps}} = asked[t].fps
      BY <3>2
    <3>4. NewFindings(t) = {Row(fp) : fp \in asked[t].fps}
      BY <1>3 DEF Row
    <3> QED BY <3>1, <3>3, <3>4 DEF FindingsOf
  <2> QED BY <1>0, <1>2, <1>5, <2>2, <2>3, <2>4
<1>6. CASE asked[t].action = "log_action"
  <2>1. asked[t].fps = {}
    BY <1>0, <1>6 DEF Request
  <2>2. db'.findings = db.findings
    BY <1>2, <1>3, <2>1
  <2> QED BY <1>0, <1>2, <1>6, <2>2 DEF FindingsOf
<1> QED BY <1>0, <1>5, <1>6 DEF Request

LEMMA CommitInv ==
    ASSUME IInv, NEW t \in Writer, Commit(t), TypeInv'
    PROVE  IInv'
<1> USE ThreadAssumption DEF Commit, Leave
<1>0. /\ pc \in [Writer \cup Reader -> WriterPc \cup ReaderPc]
      /\ outcome \in [Writer -> {"none", "ok", "failed", "busy"}]
      /\ asked[t] \in Request /\ db \in TableType /\ db' \in TableType
      /\ DOMAIN db.scans = 1..Len(db.scans) /\ Len(db.scans) \in Nat
  <2>1. db \in TableType
    BY DEF IInv, TypeInv, TypeOK
  <2>2. DOMAIN db.scans = 1..Len(db.scans) /\ Len(db.scans) \in Nat
    BY <2>1 DEF TableType
  <2> QED BY <2>1, <2>2, AskedType DEF IInv, TypeInv, TypeOK
<1>1. writer = t /\ todo[t] = {}
  BY DEF IInv, Transaction
<1>2. /\ DOMAIN db.scans \subseteq DOMAIN db'.scans
      /\ \A id \in DOMAIN db.scans : db'.scans[id] = db.scans[id]
      /\ asked[t].action = "record_scan" =>
            /\ DOMAIN db'.scans = DOMAIN db.scans \cup {scanId[t]}
            /\ db'.scans[scanId[t]] = ScanRow(asked[t])
  <2>1. CASE asked[t].action = "record_scan"
    <3>1. db'.scans = Append(db.scans, ScanRow(asked[t])) /\ scanId[t] = Len(db.scans) + 1
      BY <2>1, Published
    <3>2. ScanRow(asked[t]) \in [actor : Actor, target : Target, finding_count : Nat]
      <4>1. asked[t].fps \in SUBSET Fingerprint /\ asked[t].actor \in Actor /\ asked[t].target \in Target
        BY <1>0 DEF Request
      <4> QED BY <4>1, CountType DEF ScanRow
    <3>3. db.scans \in Seq([actor : Actor, target : Target, finding_count : Nat])
      BY <1>0 DEF TableType
    <3>4. Len(db'.scans) = Len(db.scans) + 1 /\ DOMAIN db'.scans = 1..(Len(db.scans) + 1)
      BY <3>1, <3>2, <3>3
    <3>5. \A id \in 1..Len(db.scans) : db'.scans[id] = db.scans[id]
      BY <3>1, <3>2, <3>3
    <3>6. db'.scans[Len(db.scans) + 1] = ScanRow(asked[t])
      BY <3>1, <3>2, <3>3
    <3> QED BY <1>0, <3>1, <3>4, <3>5, <3>6
  <2>2. CASE asked[t].action = "log_action"
    BY <2>2, Published
  <2> QED BY <1>0, <2>1, <2>2 DEF Request
<1>3. Locking'
  BY <1>0 DEF IInv, Locking
<1>4. Transaction'
  BY <1>0, <1>1 DEF IInv, Transaction
<1>5. Image'
  BY <1>1 DEF Image
<1>6. AtomicVisibility'
  <2>1. ASSUME NEW id \in DOMAIN db.scans PROVE Complete(db', id)
    BY <1>2, Published DEF IInv, AtomicVisibility, Complete
  <2>2. asked[t].action = "record_scan" => Complete(db', scanId[t])
    <3>1. ASSUME asked[t].action = "record_scan"
          PROVE  db'.scans[scanId[t]] = ScanRow(asked[t]) /\ FindingsOf(db', scanId[t]) = asked[t].fps
      BY <1>2, <3>1, Published
    <3>2. ScanRow(asked[t]).finding_count = Cardinality(asked[t].fps)
      BY DEF ScanRow
    <3> HIDE DEF Commit, Leave
    <3> QED BY <3>1, <3>2 DEF Complete
  <2>3. \A id \in DOMAIN db'.scans : Complete(db', id)
    BY <1>0, <1>2, <2>1, <2>2, Published DEF Request
  <2>4. \A f \in db.findings : f.scan_id \in DOMAIN db'.scans
    BY <1>2 DEF IInv, AtomicVisibility
  <2>5. \A f \in db'.findings : f.scan_id \in DOMAIN db'.scans
    BY <1>0, <1>2, <2>4, Published DEF Request
  <2> QED BY <2>3, <2>5 DEF AtomicVisibility
<1>7. ReturnedIdIsOwn'
  <2>1. ASSUME NEW w \in Writer, w # t,
               pc[w] = "release" /\ outcome[w] = "ok" /\ asked[w].action = "record_scan"
        PROVE  /\ scanId[w] \in DOMAIN db'.scans
               /\ db'.scans[scanId[w]] = ScanRow(asked[w])
               /\ FindingsOf(db', scanId[w]) = asked[w].fps
    <3>1. /\ scanId[w] \in DOMAIN db.scans
          /\ db.scans[scanId[w]] = ScanRow(asked[w])
          /\ FindingsOf(db, scanId[w]) = asked[w].fps
      BY <2>1 DEF IInv, ReturnedIdIsOwn
    <3> QED BY <3>1, <1>2, Published
  <2>2. asked[t].action = "record_scan" =>
           /\ scanId[t] \in DOMAIN db'.scans
           /\ db'.scans[scanId[t]] = ScanRow(asked[t])
           /\ FindingsOf(db', scanId[t]) = asked[t].fps
    BY <1>2, Published
  <2>3. UNCHANGED <<asked, scanId>>
    OBVIOUS
  <2>4. \A w \in Writer : w # t => pc'[w] = pc[w] /\ outcome'[w] = outcome[w]
    BY <1>0
  <2> HIDE DEF Commit, Leave
  <2> QED BY <2>1, <2>2, <2>3, <2>4 DEF ReturnedIdIsOwn
<1>8. AckedStored'
  BY <1>2 DEF IInv, AckedStored
<1> QED BY <1>3, <1>4, <1>5, <1>6, <1>7, <1>8 DEF IInv

(* An exception in the block: what was uncommitted is gone. *)
LEMMA LeaveInv ==
    ASSUME IInv, NEW t \in Writer, NEW how \in {"failed", "busy"}, TypeInv',
           InBlock(t), DropTransaction(t), Leave(t, how)
    PROVE  IInv'
<1> USE ThreadAssumption DEF Leave, InBlock
<1>0. /\ pc \in [Writer \cup Reader -> WriterPc \cup ReaderPc]
      /\ outcome \in [Writer -> {"none", "ok", "failed", "busy"}]
      /\ writer \in Writer \cup {NoThread}
  BY DEF IInv, TypeInv, TypeOK
<1>1. /\ writer = t => work' = db /\ writer' = NoThread
      /\ writer # t => UNCHANGED <<work, writer>>
      /\ UNCHANGED <<db, lock, asked, todo, scanId, query, acked>>
  BY DEF DropTransaction
<1>2. Locking'
  BY <1>0, <1>1 DEF IInv, Locking
<1>3. Transaction'
  BY <1>0, <1>1 DEF IInv, Transaction
<1>4. Image'
  BY <1>0, <1>1 DEF IInv, Image, NewFindings
<1>5. ReturnedIdIsOwn'
  BY <1>0, <1>1 DEF IInv, ReturnedIdIsOwn, FindingsOf
<1> QED BY <1>1, <1>2, <1>3, <1>4, <1>5, DbUnchanged DEF IInv

LEMMA RollbackInv ==
    ASSUME IInv, NEW t \in Writer, Rollback(t), TypeInv'
    PROVE  IInv'
  BY LeaveInv DEF Rollback

(* A writer that waited too long gives up as after any other exception.    *)
LEMMA BusyTimeoutInv ==
    ASSUME IInv, NEW t \in Writer, BusyTimeout(t), TypeInv'
    PROVE  IInv'
<1>1. InBlock(t)
  BY DEF BusyTimeout, WaitsForWriter, WaitsForReader, InBlock
<1> QED BY <1>1, LeaveInv DEF BusyTimeout

(* The call returns: the id it hands out is that of a stored scan. *)
LEMMA ReleaseInv ==
    ASSUME IInv, NEW t \in Writer, Release(t), TypeInv'
    PROVE  IInv'
<1> USE ThreadAssumption DEF Release, Return, FreeLock, tableVars
<1>0. /\ pc \in [Writer \cup Reader -> WriterPc \cup ReaderPc]
      /\ outcome \in [Writer -> {"none", "ok", "failed", "busy"}]
      /\ lock \in [Store -> Writer \cup {NoThread}]
      /\ asked \in [Writer -> Request \cup {NoRequest}]
      /\ todo \in [Writer -> SUBSET Fingerprint] /\ scanId \in [Writer -> Nat]
      /\ HomeOf[t] \in Store
  BY DEF IInv, TypeInv, TypeOK
<1>1. writer # t /\ lock[HomeOf[t]] = t
  BY DEF IInv, Transaction, Locking
<1>2. Locking'
  BY <1>0, <1>1 DEF IInv, Locking
<1>3. Transaction'
  BY <1>0, <1>1 DEF IInv, Transaction
<1>4. Image'
  BY <1>0, <1>1 DEF IInv, Image, NewFindings
<1>5. ReturnedIdIsOwn'
  BY <1>0 DEF IInv, ReturnedIdIsOwn, FindingsOf
<1>6. AtomicVisibility'
  BY DEF IInv, AtomicVisibility, Complete, FindingsOf
<1>7. AckedStored'
  BY DEF IInv, AckedStored, ReturnedIdIsOwn
<1> QED BY <1>2, <1>3, <1>4, <1>5, <1>6, <1>7 DEF IInv

(* A crash: as a rollback, for every thread of the store object at once. *)
LEMMA CrashInv ==
    ASSUME IInv, NEW s \in Store, Crash(s), TypeInv'
    PROVE  IInv'
<1> USE ThreadAssumption
<1>0. /\ lock \in [Store -> Writer \cup {NoThread}]
      /\ writer \in Writer \cup {NoThread}
  BY DEF IInv, TypeInv, TypeOK
<1>1. UNCHANGED <<db, acked>> /\ lock' = [lock EXCEPT ![s] = NoThread]
  BY DEF Crash
<1>2. ASSUME NEW t \in Writer, HomeOf[t] = s
      PROVE  pc'[t] = "idle" /\ asked'[t] = NoRequest /\ todo'[t] = {} /\ outcome'[t] = "none"
  BY <1>2 DEF Crash
<1>3. ASSUME NEW t \in Writer, HomeOf[t] # s
      PROVE  /\ pc'[t] = pc[t] /\ asked'[t] = asked[t] /\ todo'[t] = todo[t]
             /\ scanId'[t] = scanId[t] /\ outcome'[t] = outcome[t]
  BY <1>3 DEF Crash
<1>4. /\ (writer' = writer /\ work' = work) \/ (writer' = NoThread /\ work' = db)
      /\ writer' \in Writer => HomeOf[writer'] # s
  <2>1. CASE writer \in Writer /\ HomeOf[writer] = s
    BY <2>1 DEF Crash
  <2>2. CASE ~(writer \in Writer /\ HomeOf[writer] = s)
    <3>1. ~(writer \in Writer \cup Reader /\ HomeOf[writer] = s) \/ writer = NoThread
      BY <1>0, <2>2
    <3> QED BY <1>0, <2>2, <3>1 DEF Crash
  <2> QED BY <2>1, <2>2
<1>5. Locking'
  <2>1. ASSUME NEW t \in Writer
        PROVE  lock'[HomeOf[t]] = t <=> pc'[t] \in {"insert", "body", "commit", "release"}
    <3>1. HomeOf[t] \in Store
      OBVIOUS
    <3> QED BY <1>0, <1>1, <1>2, <1>3, <3>1 DEF IInv, Locking
  <2> QED BY <2>1 DEF Locking
<1>6. Transaction'
  <2>1. (writer' = NoThread) => (work' = db')
    BY <1>0, <1>1, <1>4 DEF IInv, Transaction
  <2>2. ASSUME NEW t \in Writer
        PROVE  /\ writer' = t => pc'[t] \in {"body", "commit"}
               /\ pc'[t] = "commit" => writer' = t
               /\ pc'[t] = "body" => ((writer' = t) <=> (asked'[t].action = "record_scan"))
               /\ (writer' # t \/ pc'[t] = "commit") /\ pc'[t] # "release" => todo'[t] = {}
    <3>1. CASE HomeOf[t] = s
      BY <1>2, <1>4, <3>1
    <3>2. CASE HomeOf[t] # s
      <4>1. (writer' = t) <=> (writer = t)
        BY <1>0, <3>2 DEF Crash
      <4> QED BY <1>3, <3>2, <4>1 DEF IInv, Transaction
    <3> QED BY <3>1, <3>2
  <2> QED BY <2>1, <2>2 DEF Transaction
<1>7. Image'
  <2>1. ASSUME NEW t \in Writer, writer' = t
        PROVE  /\ HomeOf[t] # s /\ writer = t /\ work' = work
               /\ NewFindings(t)' = NewFindings(t)
    <3>1. HomeOf[t] # s /\ writer = t /\ work' = work
      BY <1>4, <2>1
    <3> QED BY <1>3, <3>1 DEF NewFindings
  <2>2. \A t \in Writer : writer' = t =>
           /\ pc'[t] = pc[t] /\ asked'[t] = asked[t] /\ todo'[t] = todo[t] /\ scanId'[t] = scanId[t]
    BY <1>3, <2>1
  <2> QED BY <1>1, <2>1, <2>2 DEF IInv, Image
<1>8. ReturnedIdIsOwn'
  <2>1. ASSUME NEW t \in Writer,
               pc'[t] = "release" /\ outcome'[t] = "ok" /\ asked'[t].action = "record_scan"
        PROVE  /\ scanId'[t] \in DOMAIN db'.scans
               /\ db'.scans[scanId'[t]] = ScanRow(asked'[t])
               /\ FindingsOf(db', scanId'[t]) = asked'[t].fps
    <3>1. HomeOf[t] # s
      BY <1>2, <2>1
    <3> QED BY <1>1, <1>3, <2>1, <3>1 DEF IInv, ReturnedIdIsOwn
  <2> QED BY <2>1 DEF ReturnedIdIsOwn, FindingsOf
<1> QED BY <1>1, <1>5, <1>6, <1>7, <1>8, DbUnchanged DEF IInv

LEMMA InvInit == Init => IInv
<1> SUFFICES ASSUME Init PROVE IInv
  OBVIOUS
<1> USE ThreadAssumption DEF Init
<1>1. TypeInv
  BY InitType DEF TypeInv, Calls
<1>2. Locking
  BY DEF Locking
<1>3. Transaction /\ Image
  BY DEF Transaction, Image
<1>4. AtomicVisibility /\ AckedStored
  BY DEF AtomicVisibility, AckedStored, EmptyDb
<1>5. ReturnedIdIsOwn
  BY DEF ReturnedIdIsOwn
<1> QED BY <1>1, <1>2, <1>3, <1>4, <1>5 DEF IInv

LEMMA InvStep == IInv /\ [Next]_vars => IInv'
<1> SUFFICES ASSUME IInv, [Next]_vars PROVE IInv'
  OBVIOUS
<1>0. TypeInv'
  BY TypeStep DEF IInv
<1>1. CASE UNCHANGED vars
  <2>1. UNCHANGED <<db, work, writer, lock, pc, asked, todo, scanId, outcome, query, acked>>
    BY <1>1 DEF vars, tableVars, writerVars
  <2>2. Locking' /\ Transaction'
    BY <2>1 DEF IInv, Locking, Transaction
  <2>3. Image'
    BY <2>1 DEF IInv, Image, NewFindings
  <2>4. ReturnedIdIsOwn'
    BY <2>1 DEF IInv, ReturnedIdIsOwn, FindingsOf
  <2> QED BY <1>0, <2>1, <2>2, <2>3, <2>4, DbUnchanged DEF IInv
<1>2. CASE \E t \in Writer : WriterStep(t) \/ \E r \in Request : CallWrite(t, r)
  BY <1>0, <1>2, CallWriteInv, AcquireLockInv, InsertScanInv, InsertFindingInv, InsertAuditInv,
     CommitInv, RollbackInv, BusyTimeoutInv, ReleaseInv DEF WriterStep
<1>3. ASSUME NEW t \in Reader,
             \/ ReaderStep(t)
             \/ \E id \in 1..MaxScans : CallGetScan(t, id)
             \/ \E target \in Target : CallDiffLatest(t, target)
      PROVE  IInv'
  <2>1. /\ \E label, q : pc' = [pc EXCEPT ![t] = label] /\ query' = q
        /\ UNCHANGED <<tableVars, lock, writerVars, acked>>
    <3>1. CASE ReaderStep(t)
      BY <3>1 DEF ReaderStep, GetScanRow, DiffIds, SelectFindings, ReturnRead
    <3> QED BY <1>3, <3>1 DEF CallGetScan, CallDiffLatest
  <2> QED BY <1>0, <2>1, ReaderInv
<1>4. CASE \E s \in Store : Crash(s)
  BY <1>0, <1>4, CrashInv
<1> QED BY <1>1, <1>2, <1>3, <1>4 DEF Next

LEMMA Invariant == Spec => []IInv
  BY InvInit, InvStep, PTL DEF Spec

-----------------------------------------------------------------------------
(* The safety properties, for any number of threads, store objects,        *)
(* fingerprints and stored scans.                                          *)

(* A scan is only ever visible with all its findings, and no finding       *)
(* without its scan, whatever fails or crashes in record_scan.             *)
THEOREM VisibleWhole == Spec => []AtomicVisibility
<1>1. IInv => AtomicVisibility
  BY DEF IInv
<1> QED BY <1>1, Invariant, PTL

(* record_scan returns the id of the scan its caller submitted.            *)
THEOREM IdIsOwn == Spec => []ReturnedIdIsOwn
<1>1. IInv => ReturnedIdIsOwn
  BY DEF IInv
<1> QED BY <1>1, Invariant, PTL

(* A scan whose id has been returned stays stored, and whole.              *)
THEOREM Durable == Spec => []AckedIsDurable
<1>1. IInv => AckedIsDurable
  BY DEF IInv, AckedStored, AtomicVisibility, AckedIsDurable
<1> QED BY <1>1, Invariant, PTL

(* In SQLite a writer never has to wait for a writer of its own store      *)
(* object: whoever holds SQLite's write lock holds the _lock of its object *)
(* too, and a writer inside its with block holds its own object's.         *)
THEOREM SiblingsNeverCollide == Spec => []NoSiblingHoldsWriteLock
<1>1. IInv => NoSiblingHoldsWriteLock
  <2> SUFFICES ASSUME IInv, NEW t \in Writer, InBlock(t), ~HasWriteLock(t)
               PROVE  HomeOf[writer] # HomeOf[t]
    BY DEF NoSiblingHoldsWriteLock
  <2>1. writer \in Writer /\ writer # t
    BY DEF IInv, TypeInv, TypeOK, HasWriteLock
  <2>2. lock[HomeOf[t]] = t
    BY DEF IInv, Locking, InBlock
  <2>3. lock[HomeOf[writer]] = writer
    <3>1. pc[writer] \in {"body", "commit"}
      BY <2>1 DEF IInv, Transaction
    <3> QED BY <2>1, <3>1 DEF IInv, Locking
  <2> QED BY <2>1, <2>2, <2>3
<1> QED BY <1>1, Invariant, PTL
=============================================================================
