--------------------------- MODULE FindingsStore ---------------------------
(***************************************************************************)
(* store.py: the SQLite file behind FindingsStore, the threads that write  *)
(* to it through record_scan and log_action, and the threads that read it  *)
(* with get_scan and diff_latest.                                          *)
(*                                                                         *)
(* Every operation opens its own connection.  A writer first takes _lock,  *)
(* the lock of its FindingsStore object; its first INSERT then takes       *)
(* SQLite's write lock and opens the transaction that the end of the with  *)
(* block commits or, after an exception, rolls back.  Readers take no lock *)
(* and each SELECT is a snapshot of its own.  Several store objects (one   *)
(* per process, say) may share the file: SQLite then makes the writers of  *)
(* different objects wait, and gives up on one that waits too long.  Where *)
(* the file system refuses the WAL a commit also waits for the SELECTs     *)
(* that are under way, those of its own object's readers included.         *)
(***************************************************************************)
EXTENDS Naturals, Sequences, FiniteSets, SequencesExt

CONSTANTS
    Writer,        \* threads that call record_scan and log_action
    Reader,        \* threads that call get_scan and diff_latest
    Store,         \* the FindingsStore objects on this database file
    HomeOf,        \* the store object (and so the process) of each thread
    Wal,           \* the file system supports the write-ahead log
    Actor, Target, Fingerprint,
    NoThread,      \* holder of a free lock
    NoRequest,     \* what an idle writer was asked to write
    MaxScans,      \* bound: no record_scan starts once this many are stored
    MaxLog         \* bound: no write starts once the audit log is this long

ASSUME ThreadAssumption ==
    /\ Writer \cap Reader = {}
    /\ NoThread \notin Writer
    /\ HomeOf \in [Writer \cup Reader -> Store]

ASSUME WalAssumption == Wal \in BOOLEAN

ASSUME FingerprintAssumption == IsFiniteSet(Fingerprint)

ASSUME BoundAssumption == MaxScans \in Nat /\ MaxLog \in Nat

(* The arguments of a write: for record_scan what ScanResult.to_dict gives *)
(* (fingerprints are distinct after dedup); for log_action just an entry.  *)
Request ==
    [action : {"record_scan"}, actor : Actor, target : Target, fps : SUBSET Fingerprint]
    \cup [action : {"log_action"}, actor : Actor, target : Target, fps : {{}}]

ASSUME NoRequestAssumption == NoRequest \notin Request

VARIABLES
    db,        \* the committed tables
    work,      \* the tables as the open transaction sees them (db if none)
    writer,    \* the thread whose connection holds SQLite's write lock
    lock,      \* lock[s]: the thread that holds _lock of store object s
    pc,        \* the next step of each thread
    asked,     \* the arguments of each writer's call
    todo,      \* the findings record_scan's loop has still to insert
    scanId,    \* record_scan's scan_id (cur.lastrowid), 0 before the INSERT
    outcome,   \* how the with block ended: "none", "ok", "failed", "busy"
    query,     \* each reader's call: its argument and what it has read
    acked      \* ghost: ids that record_scan has returned to some caller

tableVars  == <<db, work, writer>>
writerVars == <<asked, todo, scanId, outcome>>
vars == <<tableVars, lock, pc, writerVars, query, acked>>

(* A read that starts: ghost "seen" is what had been acknowledged by then. *)
Ask(op, arg, seen) == [op |-> op, arg |-> arg, seen |-> seen, ids |-> <<>>, rows |-> <<>>]
NoQuery == Ask("none", 0, {})

EmptyDb == [scans |-> <<>>, findings |-> {}, audit_log |-> <<>>]

(* SELECT ... FROM findings WHERE scan_id = id: the fingerprints of a scan. *)
FindingsOf(d, id) == {f.fingerprint : f \in {g \in d.findings : g.scan_id = id}}

(* The ids of a target's scans; ORDER BY id DESC LIMIT 2 of them. *)
ScanIds(d, t) == {i \in DOMAIN d.scans : d.scans[i].target = t}
Newest(S) == CHOOSE i \in S : \A j \in S : j <= i

(* Seeded fault: the order of the SELECT is ascending. *)
LatestTwoAscending(d, t) ==
    LET newer == CHOOSE i \in ScanIds(d, t) : \A j \in ScanIds(d, t) : i <= j
        older == CHOOSE i \in ScanIds(d, t) \ {newer} : \A j \in ScanIds(d, t) \ {newer} : i <= j
    IN  IF Cardinality(ScanIds(d, t)) < 2 THEN <<>> ELSE <<newer, older>>

LatestTwo(d, t) ==
    LET newer == Newest(ScanIds(d, t))
        older == Newest(ScanIds(d, t) \ {newer})
    IN  IF Cardinality(ScanIds(d, t)) < 2 THEN <<>> ELSE <<newer, older>>

Init ==
    /\ db = EmptyDb /\ work = EmptyDb /\ writer = NoThread
    /\ lock = [s \in Store |-> NoThread]
    /\ pc = [t \in Writer \cup Reader |-> "idle"]
    /\ asked = [t \in Writer |-> NoRequest]
    /\ todo = [t \in Writer |-> {}]
    /\ scanId = [t \in Writer |-> 0]
    /\ outcome = [t \in Writer |-> "none"]
    /\ query = [t \in Reader |-> NoQuery]
    /\ acked = {}

-----------------------------------------------------------------------------
(* Writers.                                                                *)

CallWrite(t, r) ==
    /\ pc[t] = "idle"
    /\ Len(db.audit_log) < MaxLog
    /\ r.action = "record_scan" => Len(db.scans) < MaxScans
    /\ pc' = [pc EXCEPT ![t] = "lock"]
    /\ asked' = [asked EXCEPT ![t] = r]
    /\ UNCHANGED <<tableVars, lock, todo, scanId, outcome, query, acked>>

(* with self._lock: log_action has nothing to insert before its audit row. *)
FirstStatement(t) == IF asked[t].action = "record_scan" THEN "insert" ELSE "body"

(* Seeded fault: the writes of one store object are not serialised. *)
AcquireNoLock(t) ==
    /\ pc[t] = "lock"
    /\ pc' = [pc EXCEPT ![t] = FirstStatement(t)]
    /\ UNCHANGED <<tableVars, lock, writerVars, query, acked>>

AcquireLock(t) ==
    /\ pc[t] = "lock"
    /\ lock[HomeOf[t]] = NoThread
    /\ lock' = [lock EXCEPT ![HomeOf[t]] = t]
    /\ pc' = [pc EXCEPT ![t] = FirstStatement(t)]
    /\ UNCHANGED <<tableVars, writerVars, query, acked>>

(* The first INSERT of a connection: begin the transaction, or wait. *)
HasWriteLock(t) == writer \in {NoThread, t}

ScanRow(r) == [actor |-> r.actor, target |-> r.target, finding_count |-> Cardinality(r.fps)]

(* Seeded fault: the target's latest scan is overwritten. *)
AddScanUpsert(d, r) ==
    IF ScanIds(d, r.target) = {} THEN [d EXCEPT !.scans = Append(@, ScanRow(r))]
    ELSE [d EXCEPT !.scans[Newest(ScanIds(d, r.target))] = ScanRow(r)]

AddScan(d, r) == [d EXCEPT !.scans = Append(@, ScanRow(r))]

(* Seeded fault: the id is read off before the row is there. *)
LastRowIdStale(d) == Len(d.scans) - 1

(* cur.lastrowid: ids are handed out in order and never reused. *)
LastRowId(d) == Len(d.scans)

InsertScan(t) ==
    /\ pc[t] = "insert"
    /\ HasWriteLock(t)
    /\ writer' = t
    /\ work' = AddScan(work, asked[t])
    /\ scanId' = [scanId EXCEPT ![t] = LastRowId(work')]
    /\ todo' = [todo EXCEPT ![t] = asked[t].fps]
    /\ pc' = [pc EXCEPT ![t] = "body"]
    /\ UNCHANGED <<db, lock, asked, outcome, query, acked>>

InsertFinding(t) ==
    /\ pc[t] = "body"
    /\ \E fp \in todo[t] :
          /\ work' = [work EXCEPT !.findings =
                         @ \cup {[scan_id |-> scanId[t], fingerprint |-> fp]}]
          /\ todo' = [todo EXCEPT ![t] = @ \ {fp}]
    /\ UNCHANGED <<db, writer, lock, pc, asked, scanId, outcome, query, acked>>

(* Seeded fault: two arguments of the INSERT change places. *)
AuditRowSwapped(r) == [actor |-> r.action, action |-> r.actor]

AuditRow(r) == [actor |-> r.actor, action |-> r.action]

AddAudit(t) ==
    /\ HasWriteLock(t)
    /\ writer' = t
    /\ work' = [work EXCEPT !.audit_log = Append(@, AuditRow(asked[t]))]
    /\ pc' = [pc EXCEPT ![t] = "commit"]
    /\ UNCHANGED <<db, lock, writerVars, query, acked>>

(* Seeded fault: the loop over the findings may end early. *)
InsertAuditEarly(t) == pc[t] = "body" /\ AddAudit(t)

InsertAudit(t) == pc[t] = "body" /\ todo[t] = {} /\ AddAudit(t)

(* The end of the with block on the connection; _lock is still held. *)
Leave(t, how) ==
    /\ outcome' = [outcome EXCEPT ![t] = how]
    /\ pc' = [pc EXCEPT ![t] = "release"]
    /\ UNCHANGED <<lock, asked, todo, scanId, query, acked>>

Commit(t) ==
    /\ pc[t] = "commit"
    /\ db' = work
    /\ writer' = NoThread
    /\ Leave(t, "ok")
    /\ UNCHANGED work

DropTransaction(t) ==
    /\ UNCHANGED db
    /\ IF writer = t THEN work' = db /\ writer' = NoThread ELSE UNCHANGED <<work, writer>>

InBlock(t) == pc[t] \in {"insert", "body", "commit"}

(* Seeded faults: what was inserted so far is committed; so is the audit   *)
(* entry alone; the exception is swallowed and the id returned.            *)
RollbackCommits(t) ==
    InBlock(t) /\ writer = t /\ db' = work /\ writer' = NoThread /\ Leave(t, "failed") /\ UNCHANGED work
RollbackKeepsAudit(t) ==
    LET kept == [db EXCEPT !.audit_log = work.audit_log]
    IN  InBlock(t) /\ writer = t /\ db' = kept /\ work' = kept /\ writer' = NoThread /\ Leave(t, "failed")
RollbackSwallowed(t) == InBlock(t) /\ DropTransaction(t) /\ Leave(t, "ok")

(* Leaving the block by an exception: a statement or the commit failed. *)
Rollback(t) == InBlock(t) /\ DropTransaction(t) /\ Leave(t, "failed")

(* The two waits of a writer: its first INSERT needs SQLite's write lock;  *)
(* under the rollback journal, to which _connect falls back, its commit    *)
(* needs every SELECT of whatever thread to be over.                       *)
WaitsForWriter(t) ==
    /\ pc[t] = "insert" \/ (pc[t] = "body" /\ todo[t] = {})
    /\ ~HasWriteLock(t)

WaitsForReader(t) ==
    /\ ~Wal /\ pc[t] = "commit"
    /\ \E u \in Reader : pc[u] \in {"row", "ids", "findings"}

(* A wait outlasted the timeout of _connect: "database is locked".         *)
BusyTimeout(t) ==
    /\ WaitsForWriter(t) \/ WaitsForReader(t)
    /\ DropTransaction(t)
    /\ Leave(t, "busy")

(* Return scan_id or raise. *)
Return(t) ==
    /\ pc[t] = "release"
    /\ acked' = IF outcome[t] = "ok" /\ asked[t].action = "record_scan"
                THEN acked \cup {scanId[t]} ELSE acked
    /\ pc' = [pc EXCEPT ![t] = "idle"]
    /\ asked' = [asked EXCEPT ![t] = NoRequest]
    /\ todo' = [todo EXCEPT ![t] = {}]
    /\ scanId' = [scanId EXCEPT ![t] = 0]
    /\ outcome' = [outcome EXCEPT ![t] = "none"]
    /\ UNCHANGED <<tableVars, query>>

FreeLock(t) == lock' = [lock EXCEPT ![HomeOf[t]] = NoThread]

(* Seeded fault: an exception skips the release of the lock. *)
ReleaseOnSuccess(t) ==
    Return(t) /\ IF outcome[t] = "ok" THEN FreeLock(t) ELSE UNCHANGED lock

(* Leaving "with self._lock". *)
Release(t) == Return(t) /\ FreeLock(t)

WriterStep(t) ==
    \/ AcquireLock(t) \/ InsertScan(t) \/ InsertFinding(t) \/ InsertAudit(t)
    \/ Commit(t) \/ Rollback(t) \/ BusyTimeout(t) \/ Release(t)

-----------------------------------------------------------------------------
(* Readers: one action per SELECT.                                         *)

CallGetScan(t, id) ==
    /\ pc[t] = "idle"
    /\ query' = [query EXCEPT ![t] = Ask("get_scan", id, acked)]
    /\ pc' = [pc EXCEPT ![t] = "row"]
    /\ UNCHANGED <<tableVars, lock, writerVars, acked>>

GetScanRow(t) ==
    /\ pc[t] = "row"
    /\ IF query[t].arg \in DOMAIN db.scans
       THEN /\ query' = [query EXCEPT ![t].ids = <<query[t].arg>>]
            /\ pc' = [pc EXCEPT ![t] = "findings"]
       ELSE /\ pc' = [pc EXCEPT ![t] = "done"]
            /\ UNCHANGED query
    /\ UNCHANGED <<tableVars, lock, writerVars, acked>>

CallDiffLatest(t, target) ==
    /\ pc[t] = "idle"
    /\ query' = [query EXCEPT ![t] = Ask("diff_latest", target, acked)]
    /\ pc' = [pc EXCEPT ![t] = "ids"]
    /\ UNCHANGED <<tableVars, lock, writerVars, acked>>

DiffIds(t) ==
    /\ pc[t] = "ids"
    /\ query' = [query EXCEPT ![t].ids = LatestTwo(db, query[t].arg)]
    /\ pc' = [pc EXCEPT ![t] = IF LatestTwo(db, query[t].arg) = <<>> THEN "done" ELSE "findings"]
    /\ UNCHANGED <<tableVars, lock, writerVars, acked>>

(* The findings of the next id: get_scan's one, diff_latest's newer, older. *)
SelectFindings(t) ==
    LET id == query[t].ids[Len(query[t].rows) + 1]
    IN  /\ pc[t] = "findings"
        /\ query' = [query EXCEPT ![t].rows = Append(@, FindingsOf(db, id))]
        /\ pc' = [pc EXCEPT ![t] = IF Len(query'[t].rows) = Len(query[t].ids)
                                   THEN "done" ELSE "findings"]
        /\ UNCHANGED <<tableVars, lock, writerVars, acked>>

ReturnRead(t) ==
    /\ pc[t] = "done"
    /\ query' = [query EXCEPT ![t] = NoQuery]
    /\ pc' = [pc EXCEPT ![t] = "idle"]
    /\ UNCHANGED <<tableVars, lock, writerVars, acked>>

ReaderStep(t) ==
    GetScanRow(t) \/ DiffIds(t) \/ SelectFindings(t) \/ ReturnRead(t)

-----------------------------------------------------------------------------
(* The process of store object s is killed and started again: its threads  *)
(* and its _lock are gone, SQLite drops its open transaction, and the      *)
(* CREATE ... IF NOT EXISTS of _init_schema leaves the tables as they are. *)
Crash(s) ==
    LET Lost == {t \in Writer \cup Reader : HomeOf[t] = s}
        Reset(f, T, v) == [t \in T |-> IF t \in Lost THEN v ELSE f[t]]
    IN  /\ IF writer \in Lost THEN work' = db /\ writer' = NoThread
                              ELSE UNCHANGED <<work, writer>>
        /\ lock' = [lock EXCEPT ![s] = NoThread]
        /\ pc' = Reset(pc, Writer \cup Reader, "idle")
        /\ asked' = Reset(asked, Writer, NoRequest)
        /\ todo' = Reset(todo, Writer, {})
        /\ scanId' = Reset(scanId, Writer, 0)
        /\ outcome' = Reset(outcome, Writer, "none")
        /\ query' = Reset(query, Reader, NoQuery)
        /\ UNCHANGED <<db, acked>>

Next ==
    \/ \E t \in Writer : WriterStep(t) \/ \E r \in Request : CallWrite(t, r)
    \/ \E t \in Reader :
          \/ ReaderStep(t)
          \/ \E id \in 1..MaxScans : CallGetScan(t, id)
          \/ \E target \in Target : CallDiffLatest(t, target)
    \/ \E s \in Store : Crash(s)

(* A started call keeps running; Python's lock gives no thread a turn.     *)
Fairness ==
    /\ \A t \in Writer : WF_vars(WriterStep(t))
    /\ \A t \in Reader : WF_vars(ReaderStep(t))

Spec == Init /\ [][Next]_vars
FairSpec == Spec /\ Fairness

-----------------------------------------------------------------------------
TableType ==
    [scans : Seq([actor : Actor, target : Target, finding_count : Nat]),
     findings : SUBSET [scan_id : Nat, fingerprint : Fingerprint],
     audit_log : Seq([actor : Actor, action : {"record_scan", "log_action"}])]

QueryType ==
    [op : {"none", "get_scan", "diff_latest"}, arg : Target \cup Nat,
     seen : SUBSET Nat, ids : Seq(Nat), rows : Seq(SUBSET Fingerprint)]

WriterPc == {"idle", "lock", "insert", "body", "commit", "release"}
ReaderPc == {"idle", "row", "ids", "findings", "done"}

(* The types of the tables, of the locks and of every thread's locals. *)
TypeOK ==
    /\ db \in TableType /\ work \in TableType
    /\ writer \in Writer \cup {NoThread}
    /\ lock \in [Store -> Writer \cup {NoThread}]
    /\ pc \in [Writer \cup Reader -> WriterPc \cup ReaderPc]
    /\ \A t \in Writer : pc[t] \in WriterPc
    /\ \A t \in Reader : pc[t] \in ReaderPc
    /\ asked \in [Writer -> Request \cup {NoRequest}]
    /\ todo \in [Writer -> SUBSET Fingerprint]
    /\ scanId \in [Writer -> Nat]
    /\ outcome \in [Writer -> {"none", "ok", "failed", "busy"}]
    /\ query \in [Reader -> QueryType]
    /\ acked \subseteq Nat

-----------------------------------------------------------------------------
(* Safety.                                                                 *)

Complete(d, id) == Cardinality(FindingsOf(d, id)) = d.scans[id].finding_count

(* A scan is visible with all the findings its header counts, and no       *)
(* finding row is visible without its scan: the with block of record_scan  *)
(* (store.py:102-138) publishes header and findings together although it   *)
(* inserts them one by one, whatever fails or crashes between two inserts. *)
AtomicVisibility ==
    /\ \A id \in DOMAIN db.scans : Complete(db, id)
    /\ \A f \in db.findings : f.scan_id \in DOMAIN db.scans

(* Every stored scan has its own record_scan entry in the audit log, in    *)
(* the same order and by the same actor, and no such entry exists for a    *)
(* scan that was not stored (_audit runs inside record_scan's transaction, *)
(* store.py:135).                                                          *)
AuditMatchesScans ==
    \E entry \in [DOMAIN db.scans -> DOMAIN db.audit_log] :
        /\ {entry[i] : i \in DOMAIN db.scans}
             = {k \in DOMAIN db.audit_log : db.audit_log[k].action = "record_scan"}
        /\ \A i, j \in DOMAIN db.scans : i < j => entry[i] < entry[j]
        /\ \A i \in DOMAIN db.scans : db.audit_log[entry[i]].actor = db.scans[i].actor

(* The id record_scan is about to return names the very scan its caller    *)
(* submitted, findings included, although other writers inserted rows      *)
(* before, between and after (cur.lastrowid, store.py:123).                *)
ReturnedIdIsOwn ==
    \A t \in Writer :
        (pc[t] = "release" /\ outcome[t] = "ok" /\ asked[t].action = "record_scan") =>
            /\ scanId[t] \in DOMAIN db.scans
            /\ db.scans[scanId[t]] = ScanRow(asked[t])
            /\ FindingsOf(db, scanId[t]) = asked[t].fps

(* Once record_scan has returned an id the scan stays stored, and whole,   *)
(* through later rollbacks, busy timeouts and crashes of any store.        *)
AckedIsDurable == \A id \in acked : id \in DOMAIN db.scans /\ Complete(db, id)

(* get_scan, two SELECTs with writers in between, returns all the findings *)
(* of the scan, and finds every scan whose id was returned before the call *)
(* (store.py:152-163; app.py:264-269 turns None into a 404).               *)
GetScanIsComplete ==
    \A t \in Reader :
        LET q == query[t]
        IN  (pc[t] = "done" /\ q.op = "get_scan") =>
              /\ q.arg \in q.seen => q.ids # <<>>
              /\ q.ids # <<>> => Cardinality(q.rows[1]) = db.scans[q.arg].finding_count

(* diff_latest, three SELECTs with writers in between, compares the whole  *)
(* finding sets of two neighbouring scans of the target, the newer of them *)
(* no older than any scan of the target recorded before the call; with two *)
(* such scans it never answers "nothing to compare" (store.py:179-209).    *)
DiffIsFresh ==
    \A t \in Reader :
        LET q == query[t]
            seen == q.seen \cap ScanIds(db, q.arg)
        IN  (pc[t] = "done" /\ q.op = "diff_latest") =>
              /\ q.ids = <<>> => Cardinality(seen) < 2
              /\ q.ids # <<>> =>
                    /\ q.ids[2] < q.ids[1]
                    /\ ScanIds(db, q.arg) \cap (q.ids[2]..q.ids[1]) = {q.ids[1], q.ids[2]}
                    /\ \A id \in seen : id <= q.ids[1]
                    /\ \A k \in 1..2 :
                          Cardinality(q.rows[k]) = db.scans[q.ids[k]].finding_count

(* A writer inside "with self._lock" (store.py:102, 145) never finds       *)
(* SQLite's write lock with another thread of its own store object,        *)
(* whatever failed, timed out or was killed before.  So two writes of one  *)
(* service process never wait for each other in SQLite, nor run into its   *)
(* 30 seconds (store.py:83): "database is locked" is the doing of another  *)
(* process or, where the WAL is refused (store.py:88), of a reader, which  *)
(* takes no _lock (INSTALL.md:157 knows the message on a network share).   *)
NoSiblingHoldsWriteLock ==
    \A t \in Writer : (InBlock(t) /\ ~HasWriteLock(t)) => HomeOf[writer] # HomeOf[t]

(* The tables are append-only: no step takes away or changes a scan row,   *)
(* an audit entry or a finding, nor gives a stored scan another finding    *)
(* (the module has no UPDATE and no DELETE; "Append-only audit_log",       *)
(* store.py:11).                                                           *)
TablesGrow ==
    /\ IsPrefix(db.scans, db'.scans)
    /\ IsPrefix(db.audit_log, db'.audit_log)
    /\ \A id \in DOMAIN db.scans : FindingsOf(db', id) = FindingsOf(db, id)

AppendOnly == [][TablesGrow]_vars

-----------------------------------------------------------------------------
(* Liveness.                                                               *)

(* Whatever fails in the with block, the thread that holds _lock lets it   *)
(* go: a failed or timed-out write never blocks the store for good.        *)
LockIsReleased ==
    \A s \in Store, t \in Writer : (lock[s] = t) ~> (lock[s] # t)

-----------------------------------------------------------------------------
(* The store implements the abstract ledger: the tables stand for the      *)
(* recorded scans and the trail, and the commit is where a write lands.    *)

CallPhase(t) ==
    CASE pc[t] = "idle"    -> "idle"
      [] pc[t] = "release" -> IF outcome[t] = "ok" THEN "ok" ELSE "error"
      [] OTHER             -> "pending"

StoredScan(d, id) ==
    [actor |-> d.scans[id].actor, target |-> d.scans[id].target,
     finding_count |-> d.scans[id].finding_count, fps |-> FindingsOf(d, id)]

Ledger == INSTANCE ScanLedger WITH
    Caller <- Writer,
    ledger <- [id \in DOMAIN db.scans |-> StoredScan(db, id)],
    trail  <- db.audit_log,
    phase  <- [t \in Writer |-> CallPhase(t)],
    asked  <- asked

(* Every behaviour of the store is one of the ledger: each write lands     *)
(* whole or not at all, with its audit entry, and "ok" is only returned    *)
(* for a write that landed.                                                *)
ImplementsLedger == Ledger!Spec
=============================================================================
