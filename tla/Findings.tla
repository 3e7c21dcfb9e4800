------------------------------ MODULE Findings ------------------------------
(***************************************************************************)
(* findings.py: what every rule engine emits, how a scan drops duplicates, *)
(* and how two scans are compared (the last lines of store.py's            *)
(* diff_latest).  A scan's findings are a set here: the list of the code   *)
(* holds a finding twice only when all that is compared is equal.          *)
(***************************************************************************)
EXTENDS Naturals, FiniteSets

Rank == [CRITICAL |-> 4, HIGH |-> 3, MEDIUM |-> 2, LOW |-> 1, INFO |-> 0]
Severity == DOMAIN Rank

(* What is compared of a finding; its evidence is what the text quotes.    *)
Finding(rule, severity, location, evidence) ==
    [rule |-> rule, severity |-> severity, location |-> location, evidence |-> evidence]

When(condition, finding) == IF condition THEN {finding} ELSE {}

(* The domain is "iam" for every engine of the program. *)
Fingerprint(f) == <<f.rule, f.location, f.evidence>>
Fingerprints(F) == {Fingerprint(f) : f \in F}

(* Seeded fault: the findings are sorted the other way round. *)
DedupedAscending(F) ==
    {f \in F : \A g \in F : Fingerprint(g) = Fingerprint(f) => Rank[f.severity] <= Rank[g.severity]}

(* Sorted by severity, the highest first, and then the first of each       *)
(* fingerprint.                                                            *)
Deduped(F) ==
    {f \in F : \A g \in F : Fingerprint(g) = Fingerprint(f) => Rank[g.severity] <= Rank[f.severity]}

(* Over all findings, duplicates included. *)
HighestSeverity(F) ==
    IF F = {} THEN "INFO"
    ELSE (CHOOSE f \in F : \A g \in F : Rank[g.severity] <= Rank[f.severity]).severity

SeverityCounts(F) ==
    [s \in Severity |-> Cardinality({f \in Deduped(F) : f.severity = s})]

(* ScanResult.to_dict: what is stored and answered. *)
ToDict(F) ==
    [highest_severity |-> HighestSeverity(F),
     severity_counts  |-> SeverityCounts(F),
     finding_count    |-> Cardinality(Deduped(F)),
     findings         |-> Deduped(F)]

(* diff_latest's answer: rows of the older and of the newer scan.          *)
Diff(older, newer) ==
    [fixed      |-> {f \in older : Fingerprint(f) \notin Fingerprints(newer)},
     new        |-> {f \in newer : Fingerprint(f) \notin Fingerprints(older)},
     persistent |-> {f \in newer : Fingerprint(f) \in Fingerprints(older)}]
=============================================================================
