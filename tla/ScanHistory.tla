---------------------------- MODULE ScanHistory ----------------------------
(***************************************************************************)
(* A policy's life between scans: its author adds and removes statements,  *)
(* each audit analyses what is there (analyzer.py, providers.py), stores   *)
(* the result, and diff_latest compares the last two.  Concurrency is in   *)
(* FindingsStore and AuditService; here one scan is one step.              *)
(***************************************************************************)
EXTENDS IamEngine, SequencesExt

CONSTANTS
    Offered,       \* the entries an author may put under "Statement"
    MaxLength,     \* bound: statements in a policy
    MaxEdits,      \* bound: edits between two scans, none before the first
    MaxScans       \* bound: scans in all, and no edit after the last

ASSUME OfferedAssumption ==
    /\ Offered \subseteq Statement \cup {NotAnObject}
    /\ \A s \in Offered : s # NotAnObject => IsFiniteSet(s.actions)

ASSUME BoundAssumption == MaxLength \in Nat /\ MaxEdits \in Nat /\ MaxScans \in Nat

VARIABLES
    policy,        \* the policy document as it stands
    scans,         \* the target's stored scans, with what was scanned
    edits          \* ghost: what has been done to the policy since the last scan

vars == <<policy, scans, edits>>

Policy == UNION {[1..n -> Offered] : n \in 0..MaxLength}

Init ==
    /\ policy \in Policy
    /\ scans = <<>>
    /\ edits = <<>>

Edit(op, s, changed) ==
    /\ Len(edits) < MaxEdits /\ Len(scans) \in 1..(MaxScans - 1)
    /\ policy' = changed
    /\ edits' = Append(edits, [op |-> op, statement |-> s])
    /\ UNCHANGED scans

AddStatement(i, s) == Len(policy) < MaxLength /\ Edit("add", s, InsertAt(policy, i, s))

RemoveStatement(i) == Edit("remove", policy[i], RemoveAt(policy, i))

(* analyze and record_scan; edits is what happened since the scan before.  *)
Scan ==
    /\ Len(scans) < MaxScans
    /\ scans' = Append(scans, [artifact |-> policy, edits |-> edits,
                               result |-> ToDict(AnalyzeIamPolicy(policy))])
    /\ edits' = <<>>
    /\ UNCHANGED policy

Next ==
    \/ \E i \in 1..(Len(policy) + 1), s \in Offered : AddStatement(i, s)
    \/ \E i \in DOMAIN policy : RemoveStatement(i)
    \/ Scan

Spec == Init /\ [][Next]_vars

-----------------------------------------------------------------------------
Newer == scans[Len(scans)]
Older == scans[Len(scans) - 1]
LatestDiff == Diff(Older.result.findings, Newer.result.findings)

Rule ==
    Primitive \cup {"WILDCARD_ACTION_ALL", "WILDCARD_ACTION_SERVICE", "WILDCARD_RESOURCE",
                    "NOTACTION_ALLOW", "WILDCARD_PRINCIPAL", "ASSUMEROLE_NO_CONDITION",
                    "PASSROLE_WILDCARD", "ADMIN_EQUIVALENT", "DATA_EXFIL_CAPABLE"}

FindingType ==
    [rule : Rule, severity : Severity,
     location : [sid : Sid \cup {NoSid, CrossStatement}, pos : Nat],
     evidence : SUBSET (Pattern \cup Needed)]

ResultOK(r) ==
    /\ r.highest_severity \in Severity
    /\ r.severity_counts \in [Severity -> Nat]
    /\ r.finding_count \in Nat
    /\ \A f \in r.findings : f \in FindingType

(* The types of the policy, the stored results and the edits. *)
TypeOK ==
    /\ policy \in Seq(Statement \cup {NotAnObject})
    /\ \A k \in DOMAIN scans : ResultOK(scans[k].result)
    /\ edits \in Seq([op : {"add", "remove"}, statement : Statement \cup {NotAnObject}])

(* The header of a scan agrees with its rows: highest_severity, which is   *)
(* taken over all findings, is that of the worst row that dedup has kept,  *)
(* the counts add up to the rows, and no two rows share a fingerprint      *)
(* (findings.py:115-139).                                                  *)
SeveritiesAgree ==
    \A k \in DOMAIN scans :
        LET r == scans[k].result
        IN  /\ r.findings # {} => r.severity_counts[r.highest_severity] > 0
            /\ \A f \in r.findings : Rank[f.severity] <= Rank[r.highest_severity]
            /\ Cardinality(Fingerprints(r.findings)) = r.finding_count
            /\ r.severity_counts["CRITICAL"] + r.severity_counts["HIGH"] + r.severity_counts["MEDIUM"]
                 + r.severity_counts["LOW"] + r.severity_counts["INFO"] = r.finding_count

(* What a policy grants, from its statements alone: an action is granted   *)
(* when an Allow statement has a pattern for it.                           *)
Granted(p, n) ==
    \E i \in DOMAIN p : Allows(p[i]) /\ \E a \in p[i].actions : n \in Covers[a]

(* A policy that grants every action of an escalation path, spread over    *)
(* its statements or not, is never reported below CRITICAL: the            *)
(* suppression under a global wildcard (iam_engine.py:261-270) hides the   *)
(* path's own finding but not its severity.                                *)
EscalationIsCritical ==
    \A k \in DOMAIN scans :
        (\E q \in Primitive : \A n \in Needs[q] : Granted(scans[k].artifact, n))
            => scans[k].result.highest_severity = "CRITICAL"

OwnSids(p) ==
    /\ \A i \in DOMAIN p : p[i] # NotAnObject /\ p[i].sid # NoSid
    /\ \A i, j \in DOMAIN p : p[i].sid = p[j].sid => i = j

Comparable == Len(scans) >= 2 /\ OwnSids(Older.artifact) /\ OwnSids(Newer.artifact)

(* diff_latest does not blame bystanders: when every statement has its own *)
(* Sid, a finding is fixed or new only at a statement that was added or    *)
(* removed since the older scan, or for the policy as a whole              *)
(* (findings.py:84-87, store.py:200-209).                                  *)
DiffIsLocal ==
    Comparable =>
        \A f \in LatestDiff.fixed \cup LatestDiff.new :
            \/ f.location = Cross
            \/ \E k \in DOMAIN Newer.edits : f.location.sid = Newer.edits[k].statement.sid

(* Removing statements brings no new finding, except what the engine had   *)
(* left out on purpose: what a global wildcard suppressed, and the data    *)
(* action that comes after the first one found (iam_engine.py:264, 310).   *)
NewNeedsAGrant ==
    (Comparable /\ \A k \in DOMAIN Newer.edits : Newer.edits[k].op = "remove") =>
        \A f \in LatestDiff.new :
            /\ f.location = Cross
            /\ \/ \E i \in DOMAIN Older.artifact :
                     Allows(Older.artifact[i]) /\ Global \in Older.artifact[i].actions
               \/ f.rule = "DATA_EXFIL_CAPABLE"

SeverityOf(p) == Rank[HighestSeverity(AnalyzeIamPolicy(p))]

(* Adding a statement, an Allow of anything or a Deny, never makes the     *)
(* policy look better than it did, although a global wildcard removes      *)
(* findings (iam_engine.py:261-270).                                       *)
GrantNeverLowersSeverity ==
    [][ (\E i \in 1..(Len(policy) + 1), s \in Offered : AddStatement(i, s))
            => SeverityOf(policy) <= SeverityOf(policy') ]_vars
=============================================================================
