----------------------- MODULE FindingsStoreRefinement -----------------------
(***************************************************************************)
(* FindingsStore only ever appends, keeps its audit log in step with its   *)
(* scans, shows a reader whole scans, and implements ScanLedger: proofs    *)
(* for any threads, store objects and findings.                            *)
(***************************************************************************)
EXTENDS FindingsStoreProofs

ScanRows == [actor : Actor, target : Target, finding_count : Nat]
AuditRows == [actor : Actor, action : {"record_scan", "log_action"}]

(* A sequence is a prefix of itself and of itself with one more element.   *)
LEMMA PrefixOfAppend ==
    ASSUME NEW S, NEW s \in Seq(S), NEW e \in S
    PROVE  /\ IsPrefix(s, s) /\ IsPrefix(s, Append(s, e))
           /\ DOMAIN s = 1..Len(s) /\ DOMAIN Append(s, e) = 1..(Len(s) + 1)
           /\ \A i \in 1..Len(s) : Append(s, e)[i] = s[i]
           /\ Append(s, e)[Len(s) + 1] = e
<1>1. Len(s) \in Nat /\ Append(s, e) \in Seq(S) /\ Len(Append(s, e)) = Len(s) + 1
  OBVIOUS
<1>2. \A i \in 1..Len(s) : Append(s, e)[i] = s[i]
  OBVIOUS
<1>3. SubSeq(s, 1, Len(s)) = SubSeq(Append(s, e), 1, Len(s))
  <2>1. \A i \in 1..Len(s) : SubSeq(s, 1, Len(s))[i] = s[i]
    BY <1>1
  <2>2. \A i \in 1..Len(s) : SubSeq(Append(s, e), 1, Len(s))[i] = Append(s, e)[i]
    BY <1>1
  <2>3. /\ SubSeq(s, 1, Len(s)) \in Seq(S) /\ Len(SubSeq(s, 1, Len(s))) = Len(s)
        /\ SubSeq(Append(s, e), 1, Len(s)) \in Seq(S)
        /\ Len(SubSeq(Append(s, e), 1, Len(s))) = Len(s)
    BY <1>1
  <2> QED BY <1>1, <1>2, <2>1, <2>2, <2>3
<1>4. IsPrefix(s, s) /\ IsPrefix(s, Append(s, e))
  BY <1>1, <1>3 DEF IsPrefix
<1> QED BY <1>1, <1>2, <1>4

(* The rows a request writes are rows of their tables. *)
LEMMA RowType ==
    ASSUME NEW r \in Request
    PROVE  ScanRow(r) \in ScanRows /\ AuditRow(r) \in AuditRows
<1>1. r.fps \in SUBSET Fingerprint /\ r.actor \in Actor /\ r.target \in Target
      /\ r.action \in {"record_scan", "log_action"}
  BY DEF Request
<1> QED BY <1>1, CountType DEF ScanRow, AuditRow, ScanRows, AuditRows

LEMMA TablesType ==
    ASSUME IInv
    PROVE  db.scans \in Seq(ScanRows) /\ db.audit_log \in Seq(AuditRows) /\ Len(db.scans) \in Nat
  BY DEF IInv, TypeInv, TypeOK, TableType, ScanRows, AuditRows

-----------------------------------------------------------------------------
(* Append-only tables.                                                     *)

(* Only a commit changes the committed tables. *)
LEMMA OnlyCommitPublishes ==
    ASSUME [Next]_vars
    PROVE  UNCHANGED db \/ \E t \in Writer : Commit(t)
  BY DEF Next, WriterStep, ReaderStep, CallWrite, AcquireLock, InsertScan, InsertFinding,
         InsertAudit, AddAudit, Rollback, DropTransaction, BusyTimeout, Release, Return,
         CallGetScan, GetScanRow, CallDiffLatest, DiffIds, SelectFindings, ReturnRead, Crash,
         vars, tableVars

LEMMA GrowStep == IInv /\ [Next]_vars => [TablesGrow]_vars
<1> SUFFICES ASSUME IInv, [Next]_vars PROVE TablesGrow
  OBVIOUS
<1>1. CASE UNCHANGED db
  <2>1. IsPrefix(db.scans, db.scans) /\ IsPrefix(db.audit_log, db.audit_log)
    BY TablesType DEF IsPrefix
  <2> QED BY <1>1, <2>1 DEF TablesGrow, FindingsOf
<1>2. ASSUME NEW t \in Writer, Commit(t) PROVE TablesGrow
  <2>1. asked[t] \in Request /\ ScanRow(asked[t]) \in ScanRows /\ AuditRow(asked[t]) \in AuditRows
    BY <1>2, Published, RowType
  <2>2. IsPrefix(db.audit_log, db'.audit_log)
    <3>1. IsPrefix(db.audit_log, Append(db.audit_log, AuditRow(asked[t])))
      BY <2>1, TablesType, PrefixOfAppend
    <3> QED BY <1>2, <3>1, Published
  <2>3. IsPrefix(db.scans, db'.scans)
    <3>1. CASE asked[t].action = "record_scan"
      <4>1. IsPrefix(db.scans, Append(db.scans, ScanRow(asked[t])))
        BY <2>1, TablesType, PrefixOfAppend
      <4> QED BY <1>2, <3>1, <4>1, Published
    <3>2. CASE asked[t].action = "log_action"
      BY <1>2, <3>2, Published, TablesType DEF IsPrefix
    <3> QED BY <2>1, <3>1, <3>2 DEF Request
  <2> QED BY <1>2, <2>2, <2>3, Published DEF TablesGrow
<1> QED BY <1>1, <1>2, OnlyCommitPublishes

(* No step, crashes included, takes away or changes a committed scan, an   *)
(* audit entry or the findings of a stored scan.                           *)
THEOREM NothingIsTakenBack == Spec => AppendOnly
  BY Invariant, GrowStep, PTL DEF Spec, AppendOnly

-----------------------------------------------------------------------------
(* The audit log.                                                          *)

LEMMA AuditStep == IInv /\ AuditMatchesScans /\ [Next]_vars => AuditMatchesScans'
<1> SUFFICES ASSUME IInv, AuditMatchesScans, [Next]_vars PROVE AuditMatchesScans'
  OBVIOUS
<1>1. CASE UNCHANGED db
  BY <1>1 DEF AuditMatchesScans
<1>2. ASSUME NEW t \in Writer, Commit(t) PROVE AuditMatchesScans'
  <2> DEFINE n == Len(db.scans)
             m == Len(db.audit_log)
             r == asked[t]
             IsScanEntry(log, k) == log[k].action = "record_scan"
  <2>1. /\ r \in Request /\ ScanRow(r) \in ScanRows /\ AuditRow(r) \in AuditRows
        /\ n \in Nat /\ m \in Nat /\ DOMAIN db.scans = 1..n /\ DOMAIN db.audit_log = 1..m
    BY <1>2, Published, RowType, TablesType
  <2>2. PICK entry \in [1..n -> 1..m] :
          /\ {entry[i] : i \in 1..n} = {k \in 1..m : IsScanEntry(db.audit_log, k)}
          /\ \A i, j \in 1..n : i < j => entry[i] < entry[j]
          /\ \A i \in 1..n : db.audit_log[entry[i]].actor = db.scans[i].actor
    BY <2>1 DEF AuditMatchesScans
  <2>3. /\ DOMAIN db'.audit_log = 1..(m + 1)
        /\ \A k \in 1..m : db'.audit_log[k] = db.audit_log[k]
        /\ db'.audit_log[m + 1] = AuditRow(r)
    <3>1. db'.audit_log = Append(db.audit_log, AuditRow(r))
      BY <1>2, Published
    <3> QED BY <2>1, <3>1, TablesType, PrefixOfAppend
  <2>4. CASE r.action = "record_scan"
    <3>1. /\ DOMAIN db'.scans = 1..(n + 1)
          /\ \A i \in 1..n : db'.scans[i] = db.scans[i]
          /\ db'.scans[n + 1] = ScanRow(r)
      <4>1. db'.scans = Append(db.scans, ScanRow(r))
        BY <1>2, <2>4, Published
      <4> QED BY <2>1, <4>1, TablesType, PrefixOfAppend
    <3> DEFINE longer == [i \in 1..(n + 1) |-> IF i <= n THEN entry[i] ELSE m + 1]
    <3>2. /\ IsScanEntry(db'.audit_log, m + 1)
          /\ db'.audit_log[m + 1].actor = db'.scans[n + 1].actor
      BY <2>3, <2>4, <3>1 DEF AuditRow, ScanRow
    <3> HIDE DEF n, m, r
    <3>3. /\ longer \in [1..(n + 1) -> 1..(m + 1)]
          /\ longer[n + 1] = m + 1 /\ \A i \in 1..n : longer[i] = entry[i]
      BY <2>1, <2>2
    <3> HIDE DEF longer
    <3>4. {longer[i] : i \in 1..(n + 1)} = {k \in 1..(m + 1) : IsScanEntry(db'.audit_log, k)}
      <4>1. {longer[i] : i \in 1..(n + 1)} = {entry[i] : i \in 1..n} \cup {m + 1}
        <5>1. 1..(n + 1) = (1..n) \cup {n + 1}
          BY <2>1
        <5> QED BY <3>3, <5>1
      <4>2. {k \in 1..(m + 1) : IsScanEntry(db'.audit_log, k)}
              = {k \in 1..m : IsScanEntry(db.audit_log, k)} \cup {m + 1}
        <5>1. 1..(m + 1) = (1..m) \cup {m + 1}
          BY <2>1
        <5> QED BY <2>3, <3>2, <5>1
      <4> QED BY <2>2, <4>1, <4>2
    <3>5. \A i, j \in 1..(n + 1) : i < j => longer[i] < longer[j]
      <4>1. \A i \in 1..n : longer[i] = entry[i] /\ entry[i] \in 1..m /\ entry[i] < m + 1
        BY <2>1, <3>3
      <4>2. ASSUME NEW i \in 1..(n + 1), NEW j \in 1..(n + 1), i < j PROVE longer[i] < longer[j]
        <5>1. i \in 1..n /\ (j \in 1..n \/ j = n + 1)
          BY <2>1, <4>2
        <5> QED BY <2>2, <3>3, <4>1, <4>2, <5>1
      <4> QED BY <4>2
    <3>6. \A i \in 1..(n + 1) : db'.audit_log[longer[i]].actor = db'.scans[i].actor
      <4>1. ASSUME NEW i \in 1..n PROVE db'.audit_log[longer[i]].actor = db'.scans[i].actor
        <5>1. entry[i] \in 1..m /\ longer[i] = entry[i]
          BY <2>2, <3>3
        <5> QED BY <2>2, <2>3, <3>1, <5>1
      <4>2. ASSUME NEW i \in 1..(n + 1) PROVE i \in 1..n \/ i = n + 1
        BY <2>1
      <4> QED BY <3>2, <3>3, <4>1, <4>2
    <3>7. DOMAIN db'.scans = 1..(n + 1) /\ DOMAIN db'.audit_log = 1..(m + 1)
      BY <2>3, <3>1
    <3> QED BY <3>3, <3>4, <3>5, <3>6, <3>7 DEF AuditMatchesScans
  <2>5. CASE r.action = "log_action"
    <3>1. db'.scans = db.scans
      BY <1>2, <2>5, Published
    <3>2. ~IsScanEntry(db'.audit_log, m + 1)
      BY <2>3, <2>5 DEF AuditRow
    <3> HIDE DEF n, m, r
    <3>3. {k \in 1..(m + 1) : IsScanEntry(db'.audit_log, k)}
            = {k \in 1..m : IsScanEntry(db.audit_log, k)}
      <4>1. 1..(m + 1) = (1..m) \cup {m + 1}
        BY <2>1
      <4> QED BY <2>3, <3>2, <4>1
    <3>4. entry \in [1..n -> 1..(m + 1)]
      BY <2>1, <2>2
    <3>5. \A i \in 1..n : db'.audit_log[entry[i]].actor = db'.scans[i].actor
      BY <2>2, <2>3, <3>1
    <3> QED BY <2>1, <2>2, <2>3, <3>1, <3>3, <3>4, <3>5 DEF AuditMatchesScans
  <2> QED BY <2>1, <2>4, <2>5 DEF Request
<1> QED BY <1>1, <1>2, OnlyCommitPublishes

(* The audit log holds one entry for each stored scan and none for a scan  *)
(* that was rolled back, in the order of the scans and by their actors.    *)
THEOREM AuditInStep == Spec => []AuditMatchesScans
<1>1. Init => AuditMatchesScans
  <2> SUFFICES ASSUME Init PROVE AuditMatchesScans
    OBVIOUS
  <2>1. db.scans = <<>> /\ db.audit_log = <<>>
    BY DEF Init, EmptyDb
  <2>2. DOMAIN db.scans = {} /\ DOMAIN db.audit_log = {}
    BY <2>1
  <2>3. [i \in {} |-> 0] \in [DOMAIN db.scans -> DOMAIN db.audit_log]
    BY <2>2
  <2> QED BY <2>2, <2>3 DEF AuditMatchesScans
<1> QED BY <1>1, AuditStep, Invariant, PTL DEF Spec

-----------------------------------------------------------------------------
(* Readers.                                                                *)

(* Two ids that diff_latest compares: neighbours among the target's scans  *)
(* in the tables d, none of the scans seen before the call being newer.    *)
Neighbours(d, q) ==
    /\ Len(q.ids) = 2
    /\ q.ids[2] < q.ids[1]
    /\ ScanIds(d, q.arg) \cap (q.ids[2]..q.ids[1]) = {q.ids[1], q.ids[2]}
    /\ \A id \in q.seen \cap ScanIds(d, q.arg) : id <= q.ids[1]

(* What the first SELECT of a call has settled.                            *)
Settled(d, q) ==
    /\ q.op = "get_scan" =>
          \/ q.ids = <<>> /\ q.arg \notin q.seen
          \/ q.ids = <<q.arg>> /\ q.arg \in DOMAIN d.scans
    /\ q.op = "diff_latest" =>
          IF q.ids = <<>> THEN Cardinality(q.seen \cap ScanIds(d, q.arg)) < 2
                          ELSE Neighbours(d, q)

(* A call q at step label, over the tables d: it started with scans that   *)
(* are stored, and what it has read so far is still what the tables hold.  *)
Reading(d, q, label) ==
    /\ q.seen \subseteq DOMAIN d.scans
    /\ label = "row" => q.op = "get_scan"
    /\ label = "ids" => q.op = "diff_latest"
    /\ label \in {"row", "ids"} => q.ids = <<>> /\ q.rows = <<>>
    /\ label \in {"findings", "done"} => Settled(d, q)
    /\ label = "findings" => Len(q.rows) < Len(q.ids)
    /\ label = "done" => Len(q.rows) = Len(q.ids)
    /\ \A k \in DOMAIN q.ids : q.ids[k] \in DOMAIN d.scans
    /\ \A k \in DOMAIN q.rows : k \in DOMAIN q.ids /\ q.rows[k] = FindingsOf(d, q.ids[k])

Reads == \A t \in Reader : Reading(db, query[t], pc[t])

(* The tables e hold what d holds, unchanged, and more. *)
Extends(d, e) ==
    /\ DOMAIN d.scans \subseteq DOMAIN e.scans
    /\ \A id \in DOMAIN d.scans :
          e.scans[id] = d.scans[id] /\ FindingsOf(e, id) = FindingsOf(d, id)

LEMMA ExtendsScanIds ==
    ASSUME NEW d \in TableType, NEW e \in TableType, Extends(d, e), NEW t
    PROVE  ScanIds(e, t) \cap DOMAIN d.scans = ScanIds(d, t)
  BY DEF Extends, ScanIds

(* Writers do not disturb a call. *)
LEMMA ReadingLasts ==
    ASSUME NEW d \in TableType, NEW e \in TableType, Extends(d, e),
           NEW q \in QueryType, NEW label, Reading(d, q, label)
    PROVE  Reading(e, q, label)
<1>1. q.seen \subseteq DOMAIN d.scans /\ q.ids \in Seq(Nat) /\ q.rows \in Seq(SUBSET Fingerprint)
  BY DEF Reading, QueryType
<1>2. ScanIds(e, q.arg) \cap DOMAIN d.scans = ScanIds(d, q.arg)
  BY ExtendsScanIds
<1>3. q.seen \cap ScanIds(e, q.arg) = q.seen \cap ScanIds(d, q.arg)
  BY <1>1, <1>2
<1>4. ASSUME Neighbours(d, q) PROVE Neighbours(e, q)
  <2>1. q.ids[1] \in DOMAIN d.scans /\ DOMAIN d.scans = 1..Len(d.scans) /\ Len(d.scans) \in Nat
    BY <1>4 DEF Neighbours, ScanIds, TableType
  <2>2. q.ids[2] \in DOMAIN d.scans
    BY <1>4 DEF Neighbours, ScanIds
  <2>3. q.ids[2]..q.ids[1] \subseteq DOMAIN d.scans
    BY <2>1, <2>2
  <2>4. ScanIds(e, q.arg) \cap (q.ids[2]..q.ids[1]) = ScanIds(d, q.arg) \cap (q.ids[2]..q.ids[1])
    BY <1>2, <2>3
  <2> QED BY <1>3, <1>4, <2>4 DEF Neighbours
<1>5. ASSUME Settled(d, q) PROVE Settled(e, q)
  BY <1>3, <1>4, <1>5 DEF Settled, Extends
<1> QED BY <1>5 DEF Reading, Extends

(* The first SELECT of get_scan. *)
LEMMA RowRead ==
    ASSUME NEW d \in TableType, NEW q \in QueryType, Reading(d, q, "row")
    PROVE  /\ q.arg \in DOMAIN d.scans => Reading(d, [q EXCEPT !.ids = <<q.arg>>], "findings")
           /\ q.arg \notin DOMAIN d.scans => Reading(d, q, "done")
<1>1. q.seen \subseteq DOMAIN d.scans /\ q.op = "get_scan" /\ q.ids = <<>> /\ q.rows = <<>>
  BY DEF Reading
<1>2. ASSUME q.arg \notin DOMAIN d.scans PROVE Reading(d, q, "done")
  BY <1>1, <1>2 DEF Reading, Settled
<1>3. ASSUME q.arg \in DOMAIN d.scans PROVE Reading(d, [q EXCEPT !.ids = <<q.arg>>], "findings")
  <2> DEFINE p == [q EXCEPT !.ids = <<q.arg>>]
  <2>1. /\ p.op = q.op /\ p.arg = q.arg /\ p.seen = q.seen /\ p.rows = q.rows
        /\ p.ids = <<q.arg>>
    BY DEF QueryType
  <2> HIDE DEF p
  <2>2. Len(p.rows) = 0 /\ Len(p.ids) = 1 /\ DOMAIN p.rows = {} /\ DOMAIN p.ids = {1} /\ p.ids[1] = q.arg
    BY <1>1, <2>1
  <2>3. Settled(d, p)
    BY <1>1, <1>3, <2>1 DEF Settled
  <2>4. Reading(d, p, "findings")
    BY <1>1, <1>3, <2>1, <2>2, <2>3 DEF Reading
  <2> QED BY <2>4 DEF p
<1> QED BY <1>2, <1>3

(* The first SELECT of diff_latest. *)
LEMMA IdsRead ==
    ASSUME NEW d \in TableType, NEW q \in QueryType, Reading(d, q, "ids")
    PROVE  Reading(d, [q EXCEPT !.ids = LatestTwo(d, q.arg)],
                   IF LatestTwo(d, q.arg) = <<>> THEN "done" ELSE "findings")
<1> DEFINE found == LatestTwo(d, q.arg)
           stored == ScanIds(d, q.arg)
           p == [q EXCEPT !.ids = found]
<1>1. q.seen \subseteq DOMAIN d.scans /\ q.op = "diff_latest" /\ q.ids = <<>> /\ q.rows = <<>>
  BY DEF Reading
<1>2. /\ p.op = q.op /\ p.arg = q.arg /\ p.seen = q.seen /\ p.rows = q.rows
      /\ p.ids = found /\ found \in Seq(Nat)
  BY LatestTwoType DEF QueryType
<1>3. stored \in SUBSET DOMAIN d.scans
  BY DEF ScanIds
<1> HIDE DEF p
<1>4. CASE found = <<>>
  <2>1. Cardinality(stored) < 2
    BY <1>4 DEF LatestTwo
  <2>2. IsFiniteSet(stored)
    <3>1. DOMAIN d.scans = 1..Len(d.scans) /\ Len(d.scans) \in Nat
      BY DEF TableType
    <3> HIDE DEF stored
    <3>2. IsFiniteSet(1..Len(d.scans))
      BY <3>1, FS_Interval
    <3> QED BY <1>3, <3>1, <3>2, FS_Subset
  <2>3. Cardinality(q.seen \cap stored) < 2
    <3> HIDE DEF stored
    <3>1. q.seen \cap stored \in SUBSET stored
      OBVIOUS
    <3>2. Cardinality(q.seen \cap stored) <= Cardinality(stored)
      BY <2>2, <3>1, FS_Subset
    <3>3. Cardinality(q.seen \cap stored) \in Nat /\ Cardinality(stored) \in Nat
      BY <2>2, <3>1, FS_Subset, FS_CardinalityType
    <3> QED BY <2>1, <3>2, <3>3
  <2>4. Settled(d, p)
    BY <1>1, <1>2, <1>4, <2>3 DEF Settled
  <2>5. Len(p.rows) = 0 /\ Len(p.ids) = 0 /\ DOMAIN p.rows = {} /\ DOMAIN p.ids = {}
    BY <1>1, <1>2, <1>4
  <2>6. Reading(d, p, "done")
    BY <1>1, <1>2, <2>4, <2>5 DEF Reading
  <2> QED BY <1>4, <2>6 DEF p
<1>5. CASE found # <<>>
  <2>1. /\ Len(found) = 2 /\ found[1] \in stored /\ found[2] \in stored /\ found[2] < found[1]
        /\ \A id \in stored : id <= found[2] \/ id = found[1]
    BY <1>5, LatestTwoType
  <2>2. DOMAIN found = {1, 2} /\ found[1] \in Nat /\ found[2] \in Nat /\ stored \in SUBSET Nat
    BY <1>2, <1>3, <2>1 DEF TableType
  <2> HIDE DEF stored, found
  <2>3. stored \cap (found[2]..found[1]) = {found[1], found[2]}
    BY <2>1, <2>2
  <2>4. \A id \in stored : id <= found[1]
    BY <2>1, <2>2
  <2>5. Neighbours(d, p)
    BY <1>2, <2>1, <2>3, <2>4 DEF Neighbours, stored
  <2>6. Settled(d, p)
    BY <1>1, <1>2, <1>5, <2>5 DEF Settled
  <2>7. Len(p.rows) = 0 /\ Len(p.ids) = 2 /\ DOMAIN p.rows = {}
    BY <1>1, <1>2, <2>1
  <2>8. \A k \in DOMAIN p.ids : p.ids[k] \in DOMAIN d.scans
    BY <1>2, <1>3, <2>1, <2>2
  <2>9. Reading(d, p, "findings")
    BY <1>1, <1>2, <2>6, <2>7, <2>8 DEF Reading
  <2> QED BY <1>5, <2>9 DEF p, found
<1> QED BY <1>4, <1>5

(* The SELECT of one id's findings. *)
LEMMA FindingsRead ==
    ASSUME NEW d \in TableType, NEW q \in QueryType, Reading(d, q, "findings")
    PROVE  LET p == [q EXCEPT !.rows = Append(@, FindingsOf(d, q.ids[Len(q.rows) + 1]))]
           IN  Reading(d, p, IF Len(p.rows) = Len(q.ids) THEN "done" ELSE "findings")
<1> DEFINE n == Len(q.rows)
           fps == FindingsOf(d, q.ids[n + 1])
           p == [q EXCEPT !.rows = Append(@, fps)]
<1>1. q.rows \in Seq(SUBSET Fingerprint) /\ n \in Nat /\ fps \in SUBSET Fingerprint
      /\ q.ids \in Seq(Nat) /\ Len(q.ids) \in Nat /\ n < Len(q.ids)
  BY FindingsOfType DEF QueryType, Reading
<1>2. /\ p.op = q.op /\ p.arg = q.arg /\ p.seen = q.seen /\ p.ids = q.ids
      /\ p.rows = Append(q.rows, fps)
  BY DEF QueryType
<1> HIDE DEF p, fps
<1>3. /\ DOMAIN p.rows = 1..(n + 1) /\ Len(p.rows) = n + 1
      /\ \A k \in 1..n : p.rows[k] = q.rows[k]
      /\ p.rows[n + 1] = fps
  BY <1>1, <1>2, PrefixOfAppend
<1>4. \A k \in DOMAIN p.rows : k \in DOMAIN p.ids /\ p.rows[k] = FindingsOf(d, p.ids[k])
  <2>1. DOMAIN q.rows = 1..n /\ DOMAIN q.ids = 1..Len(q.ids)
    BY <1>1
  <2>2. n + 1 \in DOMAIN p.ids /\ p.rows[n + 1] = FindingsOf(d, p.ids[n + 1])
    BY <1>1, <1>2, <1>3, <2>1 DEF fps
  <2>3. ASSUME NEW k \in 1..n PROVE k \in DOMAIN p.ids /\ p.rows[k] = FindingsOf(d, p.ids[k])
    BY <1>2, <1>3, <2>1 DEF Reading
  <2> HIDE DEF n
  <2>4. \A k \in 1..(n + 1) : k \in 1..n \/ k = n + 1
    BY <1>1
  <2> QED BY <1>3, <2>2, <2>3, <2>4
<1>5. Settled(d, p)
  BY <1>2 DEF Reading, Settled, Neighbours
<1>6. ASSUME NEW label \in {"done", "findings"},
             label = "done" => n + 1 = Len(q.ids), label = "findings" => n + 1 < Len(q.ids)
      PROVE  Reading(d, p, label)
  <2>1. q.seen \subseteq DOMAIN d.scans /\ \A k \in DOMAIN q.ids : q.ids[k] \in DOMAIN d.scans
    BY DEF Reading
  <2> QED BY <1>2, <1>3, <1>4, <1>5, <1>6, <2>1 DEF Reading
<1>7. n + 1 # Len(q.ids) => n + 1 < Len(q.ids)
  BY <1>1
<1> QED BY <1>3, <1>6, <1>7 DEF p, fps

LEMMA DbExtends ==
    ASSUME IInv, [Next]_vars
    PROVE  Extends(db, db')
<1>1. CASE UNCHANGED db
  BY <1>1 DEF Extends, FindingsOf
<1>2. ASSUME NEW t \in Writer, Commit(t) PROVE Extends(db, db')
  <2>1. asked[t] \in Request /\ ScanRow(asked[t]) \in ScanRows
    BY <1>2, Published, RowType
  <2>2. \/ db'.scans = db.scans
        \/ db'.scans = Append(db.scans, ScanRow(asked[t]))
    BY <1>2, <2>1, Published DEF Request
  <2>3. /\ DOMAIN db.scans \subseteq DOMAIN db'.scans
        /\ \A id \in DOMAIN db.scans : db'.scans[id] = db.scans[id]
    <3>1. CASE db'.scans = Append(db.scans, ScanRow(asked[t]))
      <4>1. /\ DOMAIN db.scans = 1..Len(db.scans) /\ Len(db.scans) \in Nat
            /\ DOMAIN db'.scans = 1..(Len(db.scans) + 1)
            /\ \A id \in 1..Len(db.scans) : db'.scans[id] = db.scans[id]
        BY <2>1, <3>1, TablesType, PrefixOfAppend
      <4> QED BY <4>1
    <3> QED BY <2>2, <3>1
  <2> QED BY <1>2, <2>3, Published DEF Extends
<1> QED BY <1>1, <1>2, OnlyCommitPublishes

LEMMA ReaderMoves ==
    ASSUME IInv, Reads, NEW t \in Reader,
           \/ ReaderStep(t)
           \/ \E id \in 1..MaxScans : CallGetScan(t, id)
           \/ \E target \in Target : CallDiffLatest(t, target)
    PROVE  Reads'
<1>1. /\ db \in TableType /\ query \in [Reader -> QueryType] /\ acked \subseteq DOMAIN db.scans
      /\ pc \in [Writer \cup Reader -> WriterPc \cup ReaderPc]
  BY DEF IInv, TypeInv, TypeOK, AckedStored
<1>2. Reading(db, query[t], pc[t]) /\ query[t] \in QueryType
  BY <1>1 DEF Reads
<1>3. ASSUME NEW q, NEW label, query' = [query EXCEPT ![t] = q], pc' = [pc EXCEPT ![t] = label],
             Reading(db, q, label), UNCHANGED db
      PROVE  Reads'
  <2>1. ASSUME NEW u \in Reader PROVE Reading(db, query'[u], pc'[u])
    <3>1. CASE u = t
      BY <1>1, <1>3, <3>1
    <3>2. CASE u # t
      BY <1>1, <1>3, <3>2 DEF Reads
    <3> QED BY <3>1, <3>2
  <2> QED BY <1>3, <2>1 DEF Reads
<1>4. ASSUME NEW op, NEW arg, NEW label, label = "row" => op = "get_scan",
             label = "ids" => op = "diff_latest", label \notin {"findings", "done"}
      PROVE  Reading(db, Ask(op, arg, acked), label)
  BY <1>1, <1>4 DEF Reading, Ask
<1>5. CASE \E id \in 1..MaxScans : CallGetScan(t, id)
  <2>1. PICK id \in 1..MaxScans : CallGetScan(t, id)
    BY <1>5
  <2>2. Reading(db, Ask("get_scan", id, acked), "row")
    BY <1>4
  <2> QED BY <1>3, <2>1, <2>2 DEF CallGetScan, tableVars
<1>6. CASE \E target \in Target : CallDiffLatest(t, target)
  <2>1. PICK target \in Target : CallDiffLatest(t, target)
    BY <1>6
  <2>2. Reading(db, Ask("diff_latest", target, acked), "ids")
    BY <1>4
  <2> QED BY <1>3, <2>1, <2>2 DEF CallDiffLatest, tableVars
<1>7. CASE GetScanRow(t)
  <2> DEFINE q == query[t]
  <2>1. Reading(db, q, "row") /\ UNCHANGED db
    BY <1>2, <1>7 DEF GetScanRow, tableVars
  <2>2. CASE q.arg \in DOMAIN db.scans
    <3>1. Reading(db, [q EXCEPT !.ids = <<q.arg>>], "findings")
      BY <1>1, <1>2, <2>1, <2>2, RowRead
    <3>2. /\ query' = [query EXCEPT ![t] = [q EXCEPT !.ids = <<q.arg>>]]
          /\ pc' = [pc EXCEPT ![t] = "findings"]
      BY <1>1, <1>7, <2>2 DEF GetScanRow
    <3> QED BY <1>3, <2>1, <3>1, <3>2
  <2>3. CASE q.arg \notin DOMAIN db.scans
    <3>1. Reading(db, q, "done")
      BY <1>1, <1>2, <2>1, <2>3, RowRead
    <3>2. query' = [query EXCEPT ![t] = q] /\ pc' = [pc EXCEPT ![t] = "done"]
      BY <1>1, <1>7, <2>3 DEF GetScanRow
    <3> QED BY <1>3, <2>1, <3>1, <3>2
  <2> QED BY <2>2, <2>3
<1>8. CASE DiffIds(t)
  <2> DEFINE q == query[t]
             label == IF LatestTwo(db, q.arg) = <<>> THEN "done" ELSE "findings"
  <2>1. Reading(db, q, "ids") /\ UNCHANGED db
    BY <1>2, <1>8 DEF DiffIds, tableVars
  <2>2. Reading(db, [q EXCEPT !.ids = LatestTwo(db, q.arg)], label)
    BY <1>1, <1>2, <2>1, IdsRead
  <2>3. /\ query' = [query EXCEPT ![t] = [q EXCEPT !.ids = LatestTwo(db, q.arg)]]
        /\ pc' = [pc EXCEPT ![t] = label]
    BY <1>1, <1>8 DEF DiffIds
  <2> HIDE DEF q, label
  <2> QED BY <1>3, <2>1, <2>2, <2>3
<1>9. CASE SelectFindings(t)
  <2> DEFINE q == query[t]
             p == [q EXCEPT !.rows = Append(@, FindingsOf(db, q.ids[Len(q.rows) + 1]))]
             label == IF Len(p.rows) = Len(q.ids) THEN "done" ELSE "findings"
  <2>1. Reading(db, q, "findings") /\ UNCHANGED db
    BY <1>2, <1>9 DEF SelectFindings, tableVars
  <2>2. Reading(db, p, label)
    BY <1>1, <1>2, <2>1, FindingsRead
  <2>3. query' = [query EXCEPT ![t] = p] /\ query'[t] = p
    BY <1>1, <1>9 DEF SelectFindings
  <2>4. pc' = [pc EXCEPT ![t] = label]
    <3>1. pc' = [pc EXCEPT ![t] = IF Len(query'[t].rows) = Len(q.ids) THEN "done" ELSE "findings"]
      BY <1>9 DEF SelectFindings
    <3> HIDE DEF p
    <3> QED BY <2>3, <3>1
  <2> HIDE DEF q, p, label
  <2> QED BY <1>3, <2>1, <2>2, <2>3, <2>4
<1>10. CASE ReturnRead(t)
  <2>1. Reading(db, NoQuery, "idle")
    BY DEF Reading, NoQuery, Ask
  <2> QED BY <1>3, <1>10, <2>1 DEF ReturnRead, tableVars
<1> QED BY <1>5, <1>6, <1>7, <1>8, <1>9, <1>10 DEF ReaderStep

LEMMA ReadsStep == IInv /\ Reads /\ [Next]_vars => Reads'
<1> SUFFICES ASSUME IInv, Reads, [Next]_vars PROVE Reads'
  OBVIOUS
<1>1. db \in TableType /\ db' \in TableType /\ query \in [Reader -> QueryType]
      /\ pc \in [Writer \cup Reader -> WriterPc \cup ReaderPc]
  BY InvStep DEF IInv, TypeInv, TypeOK
<1>2. ASSUME \A u \in Reader : \/ query'[u] = query[u] /\ pc'[u] = pc[u]
                               \/ query'[u] = NoQuery /\ pc'[u] = "idle"
      PROVE  Reads'
  <2>1. ASSUME NEW u \in Reader PROVE Reading(db', query'[u], pc'[u])
    <3>1. CASE query'[u] = query[u] /\ pc'[u] = pc[u]
      <4>1. Reading(db, query[u], pc[u]) /\ query[u] \in QueryType
        BY <1>1 DEF Reads
      <4>2. Reading(db', query[u], pc[u])
        BY <1>1, <4>1, DbExtends, ReadingLasts
      <4> QED BY <3>1, <4>2
    <3>2. CASE query'[u] = NoQuery /\ pc'[u] = "idle"
      BY <3>2 DEF Reading, NoQuery, Ask
    <3> QED BY <1>2, <3>1, <3>2
  <2> QED BY <2>1 DEF Reads
<1>3. CASE UNCHANGED vars
  BY <1>2, <1>3 DEF vars
<1>4. ASSUME NEW t \in Writer, WriterStep(t) \/ \E r \in Request : CallWrite(t, r)
      PROVE  Reads'
  <2>1. query' = query /\ \E label : pc' = [pc EXCEPT ![t] = label]
    BY <1>4, <1>1 DEF WriterStep, CallWrite, AcquireLock, InsertScan, InsertFinding, InsertAudit, AddAudit,
              Commit, Rollback, BusyTimeout, DropTransaction, Leave, Release, Return
  <2>2. \A u \in Reader : pc'[u] = pc[u]
    <3>1. \A u \in Reader : u # t /\ u \in Writer \cup Reader
      BY ThreadAssumption
    <3> QED BY <1>1, <2>1, <3>1
  <2> QED BY <1>2, <2>1, <2>2
<1>5. ASSUME NEW s \in Store, Crash(s) PROVE Reads'
  BY <1>2, <1>5 DEF Crash
<1> QED BY <1>3, <1>4, <1>5, ReaderMoves DEF Next

LEMMA ReadsInvariant == Spec => []Reads
<1>1. Init => Reads
  BY DEF Init, EmptyDb, Reads, Reading, NoQuery, Ask
<1> QED BY <1>1, ReadsStep, Invariant, PTL DEF Spec

(* Each of the finding sets a call has read is whole.                      *)
LEMMA RowsWhole ==
    ASSUME IInv, Reads, NEW t \in Reader, NEW k \in DOMAIN query[t].rows
    PROVE  Cardinality(query[t].rows[k]) = db.scans[query[t].ids[k]].finding_count
  BY DEF IInv, AtomicVisibility, Complete, Reads, Reading

(* get_scan returns every finding of a scan, and misses no scan whose id   *)
(* was returned before the call, whatever writers do between its SELECTs.  *)
THEOREM GetScanWhole == Spec => []GetScanIsComplete
<1>1. IInv /\ Reads => GetScanIsComplete
  <2> SUFFICES ASSUME IInv, Reads, NEW t \in Reader, pc[t] = "done", query[t].op = "get_scan"
               PROVE  /\ query[t].arg \in query[t].seen => query[t].ids # <<>>
                      /\ query[t].ids # <<>> =>
                            Cardinality(query[t].rows[1]) = db.scans[query[t].arg].finding_count
    BY DEF GetScanIsComplete
  <2>1. /\ query[t].ids = <<>> => query[t].arg \notin query[t].seen
        /\ query[t].ids # <<>> => query[t].ids = <<query[t].arg>>
        /\ Len(query[t].rows) = Len(query[t].ids)
        /\ query[t].rows \in Seq(SUBSET Fingerprint)
    <3>1. Settled(db, query[t]) /\ Len(query[t].rows) = Len(query[t].ids)
      BY DEF Reads, Reading
    <3>2. query[t].rows \in Seq(SUBSET Fingerprint)
      BY DEF IInv, TypeInv, TypeOK, QueryType
    <3>3. \/ query[t].ids = <<>> /\ query[t].arg \notin query[t].seen
          \/ query[t].ids = <<query[t].arg>>
      BY <3>1 DEF Settled
    <3>4. <<query[t].arg>> # <<>>
      OBVIOUS
    <3> QED BY <3>1, <3>2, <3>3, <3>4
  <2>2. ASSUME query[t].ids # <<>>
        PROVE  1 \in DOMAIN query[t].rows /\ query[t].ids[1] = query[t].arg
    <3> DEFINE ids == query[t].ids
               rows == query[t].rows
    <3>1. ids = <<query[t].arg>> /\ Len(rows) = Len(ids) /\ rows \in Seq(SUBSET Fingerprint)
      BY <2>1, <2>2
    <3> HIDE DEF ids, rows
    <3>2. Len(ids) = 1 /\ ids[1] = query[t].arg
      BY <3>1
    <3>3. 1 \in DOMAIN rows
      BY <3>1, <3>2
    <3> QED BY <3>2, <3>3 DEF ids, rows
  <2> QED BY <2>1, <2>2, RowsWhole
<1> QED BY <1>1, Invariant, ReadsInvariant, PTL

(* diff_latest compares two whole, neighbouring scans of the target, none  *)
(* recorded before the call being newer, whatever writers do between its   *)
(* three SELECTs.                                                          *)
THEOREM DiffFresh == Spec => []DiffIsFresh
<1>1. IInv /\ Reads => DiffIsFresh
  <2> SUFFICES ASSUME IInv, Reads, NEW t \in Reader, pc[t] = "done", query[t].op = "diff_latest"
               PROVE  LET q == query[t]
                          seen == q.seen \cap ScanIds(db, q.arg)
                      IN  /\ q.ids = <<>> => Cardinality(seen) < 2
                          /\ q.ids # <<>> =>
                                /\ q.ids[2] < q.ids[1]
                                /\ ScanIds(db, q.arg) \cap (q.ids[2]..q.ids[1]) = {q.ids[1], q.ids[2]}
                                /\ \A id \in seen : id <= q.ids[1]
                                /\ \A k \in 1..2 :
                                      Cardinality(q.rows[k]) = db.scans[q.ids[k]].finding_count
    BY DEF DiffIsFresh
  <2>1. /\ Settled(db, query[t])
        /\ Len(query[t].rows) = Len(query[t].ids)
        /\ query[t].rows \in Seq(SUBSET Fingerprint)
    BY DEF IInv, TypeInv, TypeOK, QueryType, Reads, Reading
  <2>2. query[t].ids # <<>> => Neighbours(db, query[t]) /\ DOMAIN query[t].rows = 1..2
    BY <2>1 DEF Settled, Neighbours
  <2> QED BY <2>1, <2>2, RowsWhole DEF Settled, Neighbours
<1> QED BY <1>1, Invariant, ReadsInvariant, PTL

-----------------------------------------------------------------------------
(* Refinement.                                                             *)

AbstractLedger(d) == [id \in DOMAIN d.scans |-> StoredScan(d, id)]

(* A writer's call is idle, pending or answered in both modules alike. *)
LEMMA PhaseOf ==
    ASSUME NEW t \in Writer
    PROVE  /\ pc[t] = "idle" => CallPhase(t) = "idle"
           /\ pc[t] \in {"lock", "insert", "body", "commit"} => CallPhase(t) = "pending"
           /\ pc[t] = "release" => CallPhase(t) = IF outcome[t] = "ok" THEN "ok" ELSE "error"
  BY DEF CallPhase

(* Steps that neither publish, nor start or end a call, are stutters. *)
LEMMA Stutters ==
    ASSUME UNCHANGED <<db, asked>>, \A t \in Writer : CallPhase(t)' = CallPhase(t)
    PROVE  UNCHANGED Ledger!vars
<1>1. [id \in DOMAIN db.scans |-> StoredScan(db, id)]'
        = [id \in DOMAIN db.scans |-> StoredScan(db, id)]
  BY DEF StoredScan, FindingsOf
<1>2. [t \in Writer |-> CallPhase(t)]' = [t \in Writer |-> CallPhase(t)]
  <2>1. [t \in Writer |-> CallPhase(t)]' = [t \in Writer |-> CallPhase(t)']
    OBVIOUS
  <2> QED BY <2>1
<1> QED BY <1>1, <1>2 DEF Ledger!vars

LEMMA RefineInit == Init => Ledger!Init
<1> SUFFICES ASSUME Init PROVE Ledger!Init
  OBVIOUS
<1>1. [id \in DOMAIN db.scans |-> StoredScan(db, id)] = <<>> /\ db.audit_log = <<>>
  BY DEF Init, EmptyDb
<1>2. [t \in Writer |-> CallPhase(t)] = [t \in Writer |-> "idle"]
  BY PhaseOf DEF Init
<1> QED BY <1>1, <1>2 DEF Init, Ledger!Init

(* The steps of a call that only its own transaction sees. *)
LEMMA InnerStep ==
    ASSUME IInv, NEW t \in Writer,
           AcquireLock(t) \/ InsertScan(t) \/ InsertFinding(t) \/ InsertAudit(t)
    PROVE  UNCHANGED Ledger!vars
<1>1. pc \in [Writer \cup Reader -> WriterPc \cup ReaderPc] /\ asked \in [Writer -> Request \cup {NoRequest}]
  BY DEF IInv, TypeInv, TypeOK
<1>2. UNCHANGED <<db, asked, outcome>>
  BY DEF AcquireLock, InsertScan, InsertFinding, InsertAudit, AddAudit, tableVars, writerVars
<1>3. /\ pc[t] \in {"lock", "insert", "body", "commit"}
      /\ pc'[t] \in {"lock", "insert", "body", "commit"}
      /\ \A u \in Writer \ {t} : pc'[u] = pc[u]
  BY <1>1 DEF AcquireLock, FirstStatement, InsertScan, InsertFinding, InsertAudit, AddAudit
<1>4. \A u \in Writer : CallPhase(u)' = CallPhase(u)
  BY <1>2, <1>3 DEF CallPhase
<1> QED BY <1>2, <1>4, Stutters

(* One call moves to another phase and no other does. *)
LEMMA PhaseStep ==
    ASSUME NEW t \in Writer, NEW phase,
           CallPhase(t)' = phase,
           \A u \in Writer \ {t} : pc'[u] = pc[u] /\ outcome'[u] = outcome[u]
    PROVE  [u \in Writer |-> CallPhase(u)]' = [[u \in Writer |-> CallPhase(u)] EXCEPT ![t] = phase]
<1>1. \A u \in Writer \ {t} : CallPhase(u)' = CallPhase(u)
  BY DEF CallPhase
<1>2. [u \in Writer |-> CallPhase(u)]' = [u \in Writer |-> CallPhase(u)']
  OBVIOUS
<1> QED BY <1>1, <1>2

(* A call starts, fails or returns: Submit, Refuse, Reply. *)
LEMMA OuterStep ==
    ASSUME IInv, NEW t \in Writer,
           \/ \E r \in Request : CallWrite(t, r)
           \/ Rollback(t) \/ BusyTimeout(t) \/ Release(t)
    PROVE  Ledger!Next
<1> DEFINE phases == [u \in Writer |-> CallPhase(u)]
<1>0. /\ pc \in [Writer \cup Reader -> WriterPc \cup ReaderPc]
      /\ outcome \in [Writer -> {"none", "ok", "failed", "busy"}]
  BY DEF IInv, TypeInv, TypeOK
<1>1. UNCHANGED db
  BY DEF CallWrite, Rollback, DropTransaction, BusyTimeout, Release, Return, tableVars
<1>2. UNCHANGED <<[id \in DOMAIN db.scans |-> StoredScan(db, id)], db.audit_log>>
  BY <1>1 DEF StoredScan, FindingsOf
<1>3. CASE \E r \in Request : CallWrite(t, r)
  <2>1. PICK r \in Request : CallWrite(t, r)
    BY <1>3
  <2>2. CallPhase(t) = "idle" /\ CallPhase(t)' = "pending"
    BY <1>0, <2>1 DEF CallWrite, CallPhase
  <2>3. phases' = [phases EXCEPT ![t] = "pending"]
    <3>1. \A u \in Writer \ {t} : pc'[u] = pc[u] /\ outcome'[u] = outcome[u]
      BY <1>0, <2>1 DEF CallWrite, writerVars
    <3> QED BY <2>2, <3>1, PhaseStep
  <2>4. Ledger!Submit(t, r)
    BY <1>2, <2>1, <2>2, <2>3 DEF Ledger!Submit, CallWrite
  <2> QED BY <2>4 DEF Ledger!Next
<1>4. CASE Rollback(t) \/ BusyTimeout(t)
  <2>0. InBlock(t)
    BY <1>4 DEF Rollback, BusyTimeout, WaitsForWriter, WaitsForReader, InBlock
  <2>1. CallPhase(t) = "pending" /\ CallPhase(t)' = "error"
    BY <1>0, <1>4, <2>0 DEF Rollback, InBlock, BusyTimeout, Leave, CallPhase
  <2>2. phases' = [phases EXCEPT ![t] = "error"]
    <3>1. \A u \in Writer \ {t} : pc'[u] = pc[u] /\ outcome'[u] = outcome[u]
      BY <1>0, <1>4 DEF Rollback, BusyTimeout, Leave
    <3> QED BY <2>1, <3>1, PhaseStep
  <2>3. UNCHANGED asked
    BY <1>4 DEF Rollback, BusyTimeout, Leave
  <2>4. Ledger!Refuse(t)
    BY <1>2, <2>1, <2>2, <2>3 DEF Ledger!Refuse
  <2> QED BY <2>4 DEF Ledger!Next
<1>5. CASE Release(t)
  <2>1. CallPhase(t) \in {"ok", "error"} /\ CallPhase(t)' = "idle"
    BY <1>0, <1>5 DEF Release, Return, CallPhase
  <2>2. phases' = [phases EXCEPT ![t] = "idle"]
    <3>1. \A u \in Writer \ {t} : pc'[u] = pc[u] /\ outcome'[u] = outcome[u]
      BY <1>0, <1>5 DEF Release, Return
    <3> QED BY <2>1, <3>1, PhaseStep
  <2>3. Ledger!Reply(t)
    BY <1>2, <1>5, <2>1, <2>2 DEF Ledger!Reply, Release, Return
  <2> QED BY <2>3 DEF Ledger!Next
<1> QED BY <1>3, <1>4, <1>5

(* The commit is where a write lands. *)
LEMMA LandStep ==
    ASSUME IInv, NEW t \in Writer, Commit(t)
    PROVE  Ledger!Land(t)
<1> DEFINE phases == [u \in Writer |-> CallPhase(u)]
           n == Len(db.scans)
           r == asked[t]
           Rows(d) == [id \in DOMAIN d.scans |-> StoredScan(d, id)]
<1>0. /\ pc \in [Writer \cup Reader -> WriterPc \cup ReaderPc]
      /\ outcome \in [Writer -> {"none", "ok", "failed", "busy"}]
      /\ r \in Request /\ n \in Nat /\ db.scans \in Seq(ScanRows)
  BY TablesType, AskedType DEF IInv, TypeInv, TypeOK, Commit
<1>1. CallPhase(t) = "pending" /\ CallPhase(t)' = "ok" /\ UNCHANGED asked
  BY <1>0 DEF Commit, Leave, CallPhase
<1>2. phases' = [phases EXCEPT ![t] = "ok"]
  <2>1. \A u \in Writer \ {t} : pc'[u] = pc[u] /\ outcome'[u] = outcome[u]
    BY <1>0 DEF Commit, Leave
  <2> QED BY <1>1, <2>1, PhaseStep
<1>3. db'.audit_log = Append(db.audit_log, Ledger!TrailOf(r))
  BY Published DEF AuditRow, Ledger!TrailOf
<1>4. DOMAIN db.scans = 1..n
  BY <1>0
<1>5. Rows(db') = IF Ledger!IsScan(r) THEN Append(Rows(db), Ledger!EntryOf(r)) ELSE Rows(db)
  <2>1. CASE r.action = "record_scan"
    <3>1. db'.scans = Append(db.scans, ScanRow(r)) /\ scanId[t] = n + 1
      BY <2>1, Published
    <3>2. /\ DOMAIN db'.scans = 1..(n + 1)
          /\ \A id \in 1..n : db'.scans[id] = db.scans[id]
          /\ db'.scans[n + 1] = ScanRow(r)
      <4>1. ScanRow(r) \in ScanRows
        BY <1>0, RowType
      <4> QED BY <1>0, <3>1, <4>1, PrefixOfAppend
    <3>3. \A id \in 1..n : StoredScan(db', id) = StoredScan(db, id)
      BY <1>4, <3>2, Published DEF StoredScan
    <3>4. StoredScan(db', n + 1) = Ledger!EntryOf(r)
      <4>1. FindingsOf(db', n + 1) = r.fps
        BY <2>1, <3>1, Published
      <4>2. /\ db'.scans[n + 1].actor = r.actor /\ db'.scans[n + 1].target = r.target
            /\ db'.scans[n + 1].finding_count = Cardinality(r.fps)
        BY <3>2 DEF ScanRow
      <4> HIDE DEF n, r
      <4>3. Cardinality(r.fps) = Ledger!Cardinality(r.fps)
        BY DEF Cardinality, Ledger!Cardinality
      <4> QED BY <4>1, <4>2, <4>3 DEF StoredScan, Ledger!EntryOf
    <3>5. Append(Rows(db), Ledger!EntryOf(r))
            = [id \in 1..(n + 1) |-> IF id <= n THEN StoredScan(db, id) ELSE Ledger!EntryOf(r)]
      <4> DEFINE E == {StoredScan(db, id) : id \in 1..n} \cup {Ledger!EntryOf(r)}
      <4>1. Rows(db) = [id \in 1..n |-> StoredScan(db, id)]
        BY <1>4
      <4>2. Rows(db) \in [1..n -> E]
        BY <4>1
      <4>3. Rows(db) \in Seq(E) /\ Len(Rows(db)) = n
        <5> HIDE DEF E, Rows, n
        <5> QED BY <1>0, <4>2
      <4>4. Ledger!EntryOf(r) \in E /\ \A id \in 1..n : Rows(db)[id] = StoredScan(db, id)
        BY <4>1
      <4> HIDE DEF E, Rows, n, r
      <4>5. /\ DOMAIN Append(Rows(db), Ledger!EntryOf(r)) = 1..(n + 1)
            /\ \A id \in 1..n : Append(Rows(db), Ledger!EntryOf(r))[id] = Rows(db)[id]
            /\ Append(Rows(db), Ledger!EntryOf(r))[n + 1] = Ledger!EntryOf(r)
        BY <4>3, <4>4, PrefixOfAppend
      <4>6. Append(Rows(db), Ledger!EntryOf(r)) \in Seq(E)
        BY <4>3, <4>4
      <4> DEFINE A == Append(Rows(db), Ledger!EntryOf(r))
      <4>7. A = [id \in 1..(n + 1) |-> A[id]]
        <5>1. A \in Seq(E) /\ DOMAIN A = 1..(n + 1)
          BY <4>5, <4>6
        <5> HIDE DEF A
        <5> QED BY <5>1
      <4>8. ASSUME NEW id \in 1..(n + 1)
            PROVE  A[id] = IF id <= n THEN StoredScan(db, id) ELSE Ledger!EntryOf(r)
        BY <1>0, <4>4, <4>5
      <4> HIDE DEF A
      <4>9. A = [id \in 1..(n + 1) |-> IF id <= n THEN StoredScan(db, id) ELSE Ledger!EntryOf(r)]
        BY <4>7, <4>8
      <4> QED BY <4>9 DEF A
    <3> QED BY <1>0, <2>1, <3>2, <3>3, <3>4, <3>5 DEF Ledger!IsScan
  <2>2. CASE r.action = "log_action"
    <3>1. db'.scans = db.scans /\ db'.findings = db.findings
      BY <2>2, Published
    <3> QED BY <2>2, <3>1 DEF StoredScan, FindingsOf, Ledger!IsScan
  <2> QED BY <1>0, <2>1, <2>2 DEF Request
<1> QED BY <1>1, <1>2, <1>3, <1>5 DEF Ledger!Land

LEMMA ReaderStutters ==
    ASSUME IInv, NEW t \in Reader,
           \/ ReaderStep(t)
           \/ \E id \in 1..MaxScans : CallGetScan(t, id)
           \/ \E target \in Target : CallDiffLatest(t, target)
    PROVE  UNCHANGED Ledger!vars
<1>1. /\ UNCHANGED <<db, asked, outcome>>
      /\ \E label : pc' = [pc EXCEPT ![t] = label]
  <2>1. CASE ReaderStep(t)
    BY <2>1 DEF ReaderStep, GetScanRow, DiffIds, SelectFindings, ReturnRead, tableVars, writerVars
  <2>2. CASE ~ReaderStep(t)
    BY <2>2 DEF CallGetScan, CallDiffLatest, tableVars, writerVars
  <2> QED BY <2>1, <2>2
<1>2. \A u \in Writer : pc'[u] = pc[u]
  BY <1>1, ThreadAssumption DEF IInv, TypeInv, TypeOK
<1>3. \A u \in Writer : CallPhase(u)' = CallPhase(u)
  BY <1>1, <1>2 DEF CallPhase
<1> QED BY <1>1, <1>3, Stutters

LEMMA CrashRefines ==
    ASSUME IInv, NEW s \in Store, Crash(s)
    PROVE  Ledger!Next
<1> DEFINE C == {t \in Writer : HomeOf[t] = s}
           phases == [t \in Writer |-> CallPhase(t)]
<1>1. UNCHANGED db
  BY DEF Crash
<1>2. UNCHANGED <<[id \in DOMAIN db.scans |-> StoredScan(db, id)], db.audit_log>>
  BY <1>1 DEF StoredScan, FindingsOf
<1>3. asked' = [t \in Writer |-> IF t \in C THEN NoRequest ELSE asked[t]]
  BY DEF Crash
<1>4. \A t \in C : CallPhase(t)' = "idle"
  BY DEF Crash, CallPhase
<1>5. \A t \in Writer \ C : CallPhase(t)' = CallPhase(t)
  <2>1. \A t \in Writer \ C : pc'[t] = pc[t] /\ outcome'[t] = outcome[t]
    BY DEF Crash
  <2> QED BY <2>1 DEF CallPhase
<1>6. phases' = [t \in Writer |-> IF t \in C THEN "idle" ELSE phases[t]]
  <2>1. phases' = [t \in Writer |-> CallPhase(t)']
    OBVIOUS
  <2> QED BY <1>4, <1>5, <2>1
<1>7. Ledger!Crash(C)
  BY <1>2, <1>3, <1>6 DEF Ledger!Crash
<1>8. C \in SUBSET Writer
  OBVIOUS
<1> QED BY <1>7, <1>8 DEF Ledger!Next

LEMMA RefineStep == IInv /\ [Next]_vars => [Ledger!Next]_(Ledger!vars)
<1> SUFFICES ASSUME IInv, [Next]_vars PROVE Ledger!Next \/ UNCHANGED Ledger!vars
  OBVIOUS
<1>1. CASE UNCHANGED vars
  <2>1. UNCHANGED <<db, asked, pc, outcome>>
    BY <1>1 DEF vars, tableVars, writerVars
  <2>2. \A u \in Writer : CallPhase(u)' = CallPhase(u)
    BY <2>1 DEF CallPhase
  <2> QED BY <2>1, <2>2, Stutters
<1>2. ASSUME NEW t \in Writer, WriterStep(t) \/ \E r \in Request : CallWrite(t, r)
      PROVE  Ledger!Next \/ UNCHANGED Ledger!vars
  <2>1. CASE Commit(t)
    BY <2>1, LandStep DEF Ledger!Next
  <2>2. CASE AcquireLock(t) \/ InsertScan(t) \/ InsertFinding(t) \/ InsertAudit(t)
    BY <2>2, InnerStep
  <2>3. CASE \/ \E r \in Request : CallWrite(t, r)
             \/ Rollback(t) \/ BusyTimeout(t) \/ Release(t)
    BY <2>3, OuterStep
  <2> QED BY <1>2, <2>1, <2>2, <2>3 DEF WriterStep
<1>3. CASE \E s \in Store : Crash(s)
  BY <1>3, CrashRefines
<1> QED BY <1>1, <1>2, <1>3, ReaderStutters DEF Next

(* The store implements the ledger: to its callers record_scan and         *)
(* log_action take effect in one step at the commit, or not at all.        *)
THEOREM StoreRefinesLedger == Spec => ImplementsLedger
  BY RefineInit, RefineStep, Invariant, PTL DEF Spec, ImplementsLedger, Ledger!Spec
=============================================================================
