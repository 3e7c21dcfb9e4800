------------------------- MODULE ScanHistoryProofs -------------------------
(***************************************************************************)
(* What the AWS engine, to_dict and diff_latest promise, for every rule    *)
(* table, every pattern language, policies of any length and any number of *)
(* edits: a granted escalation path is CRITICAL, one statement more never  *)
(* lowers the severity, a header agrees with its rows, and a diff blames   *)
(* no bystander and finds nothing new where statements were only removed.  *)
(***************************************************************************)
EXTENDS ScanHistory, WellFoundedInduction, SequenceTheorems, FiniteSetTheorems, TLAPS

(* What stands under "Statement"; a document lists finitely many actions. *)
Entry == {s \in Statement \cup {NotAnObject} : s # NotAnObject => IsFiniteSet(s.actions)}

Graded(F) == \A f \in F : f.severity \in Severity

LEMMA RankType == \A s \in Severity : Rank[s] \in 0..4 /\ (Rank[s] = 4 <=> s = "CRITICAL")
BY DEF Rank, Severity

LEMMA LeastNatural ==
    ASSUME NEW S \in SUBSET Nat, S # {}
    PROVE  \E n \in S : \A m \in S : n <= m
<1>1. \E n \in S : \A m \in S : ~(<<m, n>> \in OpToRel(<, Nat))
    BY NatLessThanWellFounded, WFMin
<1>2. PICK n \in S : \A m \in S : ~(<<m, n>> \in OpToRel(<, Nat))
    BY <1>1
<1>3. \A m \in S : ~(m < n)
    BY <1>2 DEF OpToRel
<1> QED BY <1>3

(* A worst finding exists, so HighestSeverity is the severity of one. *)
LEMMA WorstExists ==
    ASSUME NEW F, Graded(F), F # {}
    PROVE  \E f \in F : HighestSeverity(F) = f.severity /\ \A g \in F : Rank[g.severity] <= Rank[f.severity]
<1> DEFINE short == {4 - Rank[f.severity] : f \in F}
<1>1. \A f \in F : Rank[f.severity] \in 0..4
    BY RankType DEF Graded
<1>2. short \in SUBSET Nat /\ short # {}
    BY <1>1
<1>3. PICK n \in short : \A m \in short : n <= m
    BY <1>2, LeastNatural
<1>4. PICK f \in F : n = 4 - Rank[f.severity]
    BY <1>3
<1>5. \A g \in F : Rank[g.severity] <= Rank[f.severity]
    BY <1>1, <1>3, <1>4
<1> QED BY <1>5 DEF HighestSeverity

LEMMA HighestIsGraded ==
    ASSUME NEW F, Graded(F)
    PROVE  HighestSeverity(F) \in Severity /\ \A g \in F : Rank[g.severity] <= Rank[HighestSeverity(F)]
<1>1. CASE F = {}
    BY <1>1 DEF HighestSeverity, Severity, Rank
<1>2. CASE F # {}
    BY <1>2, WorstExists DEF Graded
<1> QED BY <1>1, <1>2

(* Findings with a worse or equal one in another scan. *)
LEMMA Domination ==
    ASSUME NEW F, NEW G, Graded(F), Graded(G),
           \A f \in F : \E g \in G : Rank[f.severity] <= Rank[g.severity]
    PROVE  Rank[HighestSeverity(F)] <= Rank[HighestSeverity(G)]
<1>1. HighestSeverity(G) \in Severity /\ \A g \in G : Rank[g.severity] <= Rank[HighestSeverity(G)]
    BY HighestIsGraded
<1>2. Rank[HighestSeverity(G)] \in 0..4 /\ \A f \in F \cup G : Rank[f.severity] \in 0..4
    BY <1>1, RankType DEF Graded
<1>3. CASE F = {}
    <2>1. HighestSeverity(F) = "INFO" /\ Rank["INFO"] = 0
        BY <1>3 DEF HighestSeverity, Rank
    <2> QED BY <2>1, <1>2
<1>4. CASE F # {}
    <2>1. PICK f \in F : HighestSeverity(F) = f.severity
        BY <1>4, WorstExists
    <2>2. PICK g \in G : Rank[f.severity] <= Rank[g.severity]
        OBVIOUS
    <2> QED BY <2>1, <2>2, <1>1, <1>2
<1> QED BY <1>3, <1>4

LEMMA CriticalIsHighest ==
    ASSUME NEW F, Graded(F), \E f \in F : f.severity = "CRITICAL"
    PROVE  HighestSeverity(F) = "CRITICAL"
<1>1. HighestSeverity(F) \in Severity /\ \A g \in F : Rank[g.severity] <= Rank[HighestSeverity(F)]
    BY HighestIsGraded
<1>2. Rank["CRITICAL"] = 4
    BY DEF Rank
<1> QED BY <1>1, <1>2, RankType

-----------------------------------------------------------------------------
(* The engine.                                                             *)

LEMMA FindingHasSeverity ==
    ASSUME NEW rule, NEW severity, NEW at, NEW evidence
    PROVE  Finding(rule, severity, at, evidence).severity = severity
BY DEF Finding

LEMMA NamesAreSeverities == {"CRITICAL", "HIGH", "MEDIUM"} \subseteq Severity
BY DEF Severity, Rank

(* The rules about one statement, one by one. *)
LEMMA StatementRules ==
    ASSUME NEW s, NEW i, NEW f
    PROVE  f \in StatementFindings(s, i) <=>
              \/ Global \in s.actions /\ f = Finding("WILDCARD_ACTION_ALL", "CRITICAL", Location(s, i), {})
              \/ \E p \in s.actions \cap ServiceWildcard :
                    f = Finding("WILDCARD_ACTION_SERVICE",
                                IF p \in AdminService THEN "CRITICAL" ELSE "HIGH", Location(s, i), {p})
              \/ /\ s.anyResource /\ s.actions # {} /\ Global \notin s.actions
                 /\ f = Finding("WILDCARD_RESOURCE", "HIGH", Location(s, i), {})
              \/ s.notActions # {} /\ f = Finding("NOTACTION_ALLOW", "HIGH", Location(s, i), s.notActions)
              \/ /\ s.anyPrincipal
                 /\ f = Finding("WILDCARD_PRINCIPAL", IF s.condition THEN "MEDIUM" ELSE "CRITICAL",
                                Location(s, i), {})
              \/ /\ ActionMatches(s.actions, AssumeRole) /\ ~s.condition
                 /\ f = Finding("ASSUMEROLE_NO_CONDITION", "MEDIUM", Location(s, i), {})
              \/ /\ ActionMatches(s.actions, PassRole) /\ s.anyResource
                 /\ f = Finding("PASSROLE_WILDCARD", "HIGH", Location(s, i), {})
BY DEF StatementFindings, When

(* A finding about a statement is one of three severities, and its rule    *)
(* fires for the statement wherever it stands.                             *)
LEMMA FiresAnywhere ==
    ASSUME NEW s, NEW i, NEW f \in StatementFindings(s, i)
    PROVE  \E rule, severity, evidence :
              /\ severity \in Severity
              /\ f = Finding(rule, severity, Location(s, i), evidence)
              /\ \A k : Finding(rule, severity, Location(s, k), evidence) \in StatementFindings(s, k)
<1> DEFINE Fires(rule, severity, evidence) ==
               \A k : Finding(rule, severity, Location(s, k), evidence) \in StatementFindings(s, k)
           principal == IF s.condition THEN "MEDIUM" ELSE "CRITICAL"
           service(p) == IF p \in AdminService THEN "CRITICAL" ELSE "HIGH"
<1>1. ASSUME NEW p \in s.actions \cap ServiceWildcard,
             f = Finding("WILDCARD_ACTION_SERVICE", service(p), Location(s, i), {p})
      PROVE  Fires("WILDCARD_ACTION_SERVICE", service(p), {p})
    BY <1>1, StatementRules
<1>2. ASSUME Global \in s.actions, f = Finding("WILDCARD_ACTION_ALL", "CRITICAL", Location(s, i), {})
      PROVE  Fires("WILDCARD_ACTION_ALL", "CRITICAL", {})
    BY <1>2, StatementRules
<1>3. ASSUME s.anyResource /\ s.actions # {} /\ Global \notin s.actions, f = Finding("WILDCARD_RESOURCE", "HIGH", Location(s, i), {})
      PROVE  Fires("WILDCARD_RESOURCE", "HIGH", {})
    BY <1>3, StatementRules
<1>4. ASSUME s.notActions # {}, f = Finding("NOTACTION_ALLOW", "HIGH", Location(s, i), s.notActions)
      PROVE  Fires("NOTACTION_ALLOW", "HIGH", s.notActions)
    BY <1>4, StatementRules
<1>5. ASSUME s.anyPrincipal, f = Finding("WILDCARD_PRINCIPAL", principal, Location(s, i), {})
      PROVE  Fires("WILDCARD_PRINCIPAL", principal, {})
    BY <1>5, StatementRules
<1>6. ASSUME ActionMatches(s.actions, AssumeRole) /\ ~s.condition, f = Finding("ASSUMEROLE_NO_CONDITION", "MEDIUM", Location(s, i), {})
      PROVE  Fires("ASSUMEROLE_NO_CONDITION", "MEDIUM", {})
    BY <1>6, StatementRules
<1>7. ASSUME ActionMatches(s.actions, PassRole) /\ s.anyResource, f = Finding("PASSROLE_WILDCARD", "HIGH", Location(s, i), {})
      PROVE  Fires("PASSROLE_WILDCARD", "HIGH", {})
    BY <1>7, StatementRules
<1>8. {"CRITICAL", "HIGH", "MEDIUM", principal} \subseteq Severity /\ \A p : service(p) \in Severity
    BY NamesAreSeverities
<1>9. \/ Global \in s.actions /\ f = Finding("WILDCARD_ACTION_ALL", "CRITICAL", Location(s, i), {})
      \/ \E p \in s.actions \cap ServiceWildcard :
            f = Finding("WILDCARD_ACTION_SERVICE", service(p), Location(s, i), {p})
      \/ /\ s.anyResource /\ s.actions # {} /\ Global \notin s.actions
         /\ f = Finding("WILDCARD_RESOURCE", "HIGH", Location(s, i), {})
      \/ s.notActions # {} /\ f = Finding("NOTACTION_ALLOW", "HIGH", Location(s, i), s.notActions)
      \/ s.anyPrincipal /\ f = Finding("WILDCARD_PRINCIPAL", principal, Location(s, i), {})
      \/ /\ ActionMatches(s.actions, AssumeRole) /\ ~s.condition
         /\ f = Finding("ASSUMEROLE_NO_CONDITION", "MEDIUM", Location(s, i), {})
      \/ /\ ActionMatches(s.actions, PassRole) /\ s.anyResource
         /\ f = Finding("PASSROLE_WILDCARD", "HIGH", Location(s, i), {})
    BY StatementRules, Zenon
<1> HIDE DEF Fires, principal, service
<1> SUFFICES \E rule, severity, evidence :
               /\ severity \in Severity
               /\ f = Finding(rule, severity, Location(s, i), evidence)
               /\ Fires(rule, severity, evidence)
    BY DEF Fires
<1> QED BY <1>1, <1>2, <1>3, <1>4, <1>5, <1>6, <1>7, <1>8, <1>9

LEMMA StatementsAreGraded ==
    ASSUME NEW s, NEW i
    PROVE  Graded(StatementFindings(s, i))
<1> SUFFICES ASSUME NEW f \in StatementFindings(s, i)
             PROVE  f.severity \in Severity
    BY DEF Graded
<1>1. PICK rule, severity, evidence :
          severity \in Severity /\ f = Finding(rule, severity, Location(s, i), evidence)
    BY FiresAnywhere
<1> QED BY <1>1, FindingHasSeverity

LEMMA FiresElsewhere ==
    ASSUME NEW s, NEW i, NEW k, NEW f \in StatementFindings(s, i)
    PROVE  \E g \in StatementFindings(s, k) : g.severity = f.severity
<1>1. PICK rule, severity, evidence :
          /\ f = Finding(rule, severity, Location(s, i), evidence)
          /\ Finding(rule, severity, Location(s, k), evidence) \in StatementFindings(s, k)
    BY FiresAnywhere
<1> QED BY <1>1, FindingHasSeverity

LEMMA CrossIsGraded ==
    ASSUME NEW p
    PROVE  Graded(CrossFindings(p))
<1> DEFINE patterns == AllowedPatterns(p)
           paths == {q \in Primitive : \A n \in Needs[q] : ActionMatches(patterns, n)}
           admin == {n \in FullAdmin : ActionMatches(patterns, n)}
           exfil == IF \E i \in DOMAIN p : Allows(p[i]) /\ p[i].anyResource
                    THEN FirstExfil(patterns) ELSE {}
<1>1. CASE Suppressed(patterns)
    <2>1. CrossFindings(p) = {}
        BY <1>1, Zenon DEF CrossFindings
    <2> QED BY <2>1 DEF Graded
<1>2. CASE ~Suppressed(patterns)
    <2>1. CrossFindings(p) = {Finding(q, "CRITICAL", Cross, Needs[q]) : q \in paths}
                             \cup {Finding("ADMIN_EQUIVALENT", "CRITICAL", Cross, {n}) : n \in admin}
                             \cup {Finding("DATA_EXFIL_CAPABLE", "HIGH", Cross, {n}) : n \in exfil}
        BY <1>2 DEF CrossFindings
    <2> HIDE DEF paths, admin, exfil
    <2>2. /\ Graded({Finding(q, "CRITICAL", Cross, Needs[q]) : q \in paths})
          /\ Graded({Finding("ADMIN_EQUIVALENT", "CRITICAL", Cross, {n}) : n \in admin})
          /\ Graded({Finding("DATA_EXFIL_CAPABLE", "HIGH", Cross, {n}) : n \in exfil})
        <3>1. \A q : /\ Finding(q, "CRITICAL", Cross, Needs[q]).severity \in Severity
                     /\ Finding("ADMIN_EQUIVALENT", "CRITICAL", Cross, {q}).severity \in Severity
                     /\ Finding("DATA_EXFIL_CAPABLE", "HIGH", Cross, {q}).severity \in Severity
            BY FindingHasSeverity, NamesAreSeverities
        <3> QED BY <3>1, Zenon DEF Graded
    <2> QED BY <2>1, <2>2 DEF Graded
<1> QED BY <1>1, <1>2

LEMMA InAnalysis ==
    ASSUME NEW p, p # <<>>, NEW f
    PROVE  f \in AnalyzeIamPolicy(p) <=>
              \/ \E i \in DOMAIN p : Allows(p[i]) /\ f \in StatementFindings(p[i], i)
              \/ f \in CrossFindings(p)
<1> DEFINE allowed == {j \in DOMAIN p : Allows(p[j])}
           perStatement == UNION {StatementFindings(p[i], i) : i \in allowed}
<1>1. AnalyzeIamPolicy(p) = perStatement \cup CrossFindings(p)
    BY p # <<>> DEF AnalyzeIamPolicy
<1>2. f \in perStatement <=> \E i \in allowed : f \in StatementFindings(p[i], i)
    BY Zenon
<1>3. f \in perStatement <=> \E i \in DOMAIN p : Allows(p[i]) /\ f \in StatementFindings(p[i], i)
    BY <1>2, Zenon
<1> HIDE DEF perStatement
<1> QED BY <1>1, <1>3

LEMMA AnalysisIsGraded ==
    ASSUME NEW p
    PROVE  Graded(AnalyzeIamPolicy(p))
<1>1. CASE p = <<>>
    <2>1. AnalyzeIamPolicy(p) = {}
        BY <1>1, Zenon DEF AnalyzeIamPolicy
    <2> QED BY <2>1 DEF Graded
<1>2. CASE p # <<>>
    BY <1>2, InAnalysis, StatementsAreGraded, CrossIsGraded, Zenon DEF Graded
<1> QED BY <1>1, <1>2

LEMMA GrantedIsMatched ==
    ASSUME NEW p, NEW n
    PROVE  Granted(p, n) <=> ActionMatches(AllowedPatterns(p), n)
BY DEF Granted, ActionMatches, AllowedPatterns

(* A global wildcard in an Allow statement is a finding of its own. *)
LEMMA SuppressionIsCritical ==
    ASSUME NEW p \in Seq(Entry), Suppressed(AllowedPatterns(p))
    PROVE  \E f \in AnalyzeIamPolicy(p) : f.severity = "CRITICAL"
<1>1. PICK i \in DOMAIN p : Allows(p[i]) /\ Global \in p[i].actions
    BY DEF Suppressed, AllowedPatterns
<1>2. p # <<>>
    BY <1>1
<1> DEFINE f == Finding("WILDCARD_ACTION_ALL", "CRITICAL", Location(p[i], i), {})
<1>3. f \in StatementFindings(p[i], i)
    BY <1>1 DEF StatementFindings, When
<1>4. f \in AnalyzeIamPolicy(p)
    BY <1>1, <1>2, <1>3 DEF AnalyzeIamPolicy
<1> QED BY <1>4 DEF Finding

LEMMA PathIsCritical ==
    ASSUME NEW p \in Seq(Entry), NEW q \in Primitive, \A n \in Needs[q] : Granted(p, n),
           p # <<>>
    PROVE  HighestSeverity(AnalyzeIamPolicy(p)) = "CRITICAL"
<1>1. CASE Suppressed(AllowedPatterns(p))
    BY <1>1, SuppressionIsCritical, AnalysisIsGraded, CriticalIsHighest
<1>2. CASE ~Suppressed(AllowedPatterns(p))
    <2>1. Finding(q, "CRITICAL", Cross, Needs[q]) \in CrossFindings(p)
        <3>1. q \in {r \in Primitive : \A n \in Needs[r] : ActionMatches(AllowedPatterns(p), n)}
            BY GrantedIsMatched, Zenon
        <3> QED BY <3>1, <1>2, Zenon DEF CrossFindings
    <2>2. Finding(q, "CRITICAL", Cross, Needs[q]) \in AnalyzeIamPolicy(p)
        BY <2>1, InAnalysis, Zenon
    <2>3. Finding(q, "CRITICAL", Cross, Needs[q]).severity = "CRITICAL"
        BY DEF Finding
    <2>4. \E f \in AnalyzeIamPolicy(p) : f.severity = "CRITICAL"
        BY <2>2, <2>3
    <2>5. Graded(AnalyzeIamPolicy(p))
        BY AnalysisIsGraded
    <2> QED BY <2>4, <2>5, CriticalIsHighest
<1> QED BY <1>1, <1>2

-----------------------------------------------------------------------------
(* One statement more.                                                     *)

(* InsertAt and RemoveAt, entry by entry. *)
LEMMA InsertedAt ==
    ASSUME NEW p \in Seq(Entry), NEW i \in 1..(Len(p) + 1), NEW s \in Entry
    PROVE  /\ InsertAt(p, i, s) \in Seq(Entry)
           /\ DOMAIN InsertAt(p, i, s) = 1..(Len(p) + 1)
           /\ \A j \in 1..(Len(p) + 1) :
                InsertAt(p, i, s)[j] = IF j < i THEN p[j] ELSE IF j = i THEN s ELSE p[j - 1]
<1> DEFINE front == SubSeq(p, 1, i - 1)
           back == SubSeq(p, i, Len(p))
           mid == front \o <<s>>
           merged == mid \o back
<1>1. front \in Seq(Entry) /\ Len(front) = i - 1 /\ \A j \in 1..(i - 1) : front[j] = p[j]
    <2>1. i - 1 \in Int /\ \A j \in 1..(i - 1) : p[j] \in Entry
        OBVIOUS
    <2> QED BY <2>1, SubSeqProperties
<1>2. back \in Seq(Entry) /\ Len(back) = Len(p) - i + 1
      /\ \A j \in 1..(Len(p) - i + 1) : back[j] = p[i + j - 1]
    <2>1. \A j \in i..Len(p) : p[j] \in Entry
        OBVIOUS
    <2> QED BY <2>1, SubSeqProperties
<1> HIDE DEF front, back
<1>3. mid \in Seq(Entry) /\ Len(mid) = i /\ mid[i] = s /\ \A j \in 1..(i - 1) : mid[j] = p[j]
    <2>1. <<s>> \in Seq(Entry) /\ Len(<<s>>) = 1 /\ <<s>>[1] = s
        OBVIOUS
    <2> QED BY <1>1, <2>1, ConcatProperties
<1> HIDE DEF mid
<1>4. merged \in Seq(Entry) /\ DOMAIN merged = 1..(Len(p) + 1)
      /\ \A j \in 1..(Len(p) + 1) : merged[j] = IF j <= i THEN mid[j] ELSE back[j - i]
    <2>1. merged \in Seq(Entry) /\ Len(merged) = Len(mid) + Len(back)
          /\ \A j \in 1..(Len(mid) + Len(back)) :
                 merged[j] = IF j <= Len(mid) THEN mid[j] ELSE back[j - Len(mid)]
        BY <1>2, <1>3, ConcatProperties
    <2>2. Len(mid) + Len(back) = Len(p) + 1
        BY <1>2, <1>3
    <2> HIDE DEF merged
    <2> QED BY <1>3, <2>1, <2>2
<1> HIDE DEF merged
<1>5. ASSUME NEW j \in 1..(Len(p) + 1)
      PROVE  merged[j] = IF j < i THEN p[j] ELSE IF j = i THEN s ELSE p[j - 1]
    <2>1. CASE j <= i
        BY <2>1, <1>3, <1>4
    <2>2. CASE j > i
        <3>1. j - i \in 1..(Len(p) - i + 1) /\ i + (j - i) - 1 = j - 1
            BY <2>2
        <3>2. merged[j] = p[j - 1]
            BY <2>2, <3>1, <1>2, <1>4
        <3> QED BY <2>2, <3>2
    <2> QED BY <2>1, <2>2
<1>6. InsertAt(p, i, s) = merged
    BY DEF InsertAt, front, back, mid, merged
<1> QED BY <1>4, <1>5, <1>6

LEMMA RemovedAt ==
    ASSUME NEW p \in Seq(Entry), NEW i \in DOMAIN p
    PROVE  /\ RemoveAt(p, i) \in Seq(Entry)
           /\ DOMAIN RemoveAt(p, i) = 1..(Len(p) - 1)
           /\ \A j \in 1..(Len(p) - 1) : RemoveAt(p, i)[j] = IF j < i THEN p[j] ELSE p[j + 1]
<1> DEFINE front == SubSeq(p, 1, i - 1)
           back == SubSeq(p, i + 1, Len(p))
           left == front \o back
<1>1. i \in 1..Len(p) /\ DOMAIN p = 1..Len(p) /\ Len(p) \in Nat
    OBVIOUS
<1>2. front \in Seq(Entry) /\ Len(front) = i - 1 /\ \A j \in 1..(i - 1) : front[j] = p[j]
    <2>1. i - 1 \in Int /\ \A j \in 1..(i - 1) : p[j] \in Entry
        BY <1>1
    <2> QED BY <1>1, <2>1, SubSeqProperties
<1>3. back \in Seq(Entry) /\ Len(back) = Len(p) - i
      /\ \A j \in 1..(Len(p) - i) : back[j] = p[i + j]
    <2>1. i + 1 \in Int /\ i + 1 <= Len(p) + 1 /\ \A j \in (i + 1)..Len(p) : p[j] \in Entry
        BY <1>1
    <2>2. back \in Seq(Entry) /\ Len(back) = Len(p) - (i + 1) + 1
          /\ \A j \in 1..(Len(p) - (i + 1) + 1) : back[j] = p[i + 1 + j - 1]
        BY <1>1, <2>1, SubSeqProperties
    <2> HIDE DEF back
    <2>3. i \in Int /\ Len(p) \in Int /\ Len(p) - (i + 1) + 1 = Len(p) - i
        BY <1>1
    <2>4. ASSUME NEW j \in 1..(Len(p) - i) PROVE back[j] = p[i + j]
        <3>1. i + 1 + j - 1 = i + j
            BY <2>3
        <3> QED BY <2>2, <2>3, <3>1
    <2> QED BY <2>2, <2>3, <2>4
<1> HIDE DEF front, back
<1>4. left \in Seq(Entry) /\ DOMAIN left = 1..(Len(p) - 1)
      /\ \A j \in 1..(Len(p) - 1) : left[j] = IF j <= i - 1 THEN front[j] ELSE back[j - (i - 1)]
    <2>1. left \in Seq(Entry) /\ Len(left) = Len(front) + Len(back)
          /\ \A j \in 1..(Len(front) + Len(back)) :
                 left[j] = IF j <= Len(front) THEN front[j] ELSE back[j - Len(front)]
        BY <1>2, <1>3, ConcatProperties
    <2>2. Len(front) + Len(back) = Len(p) - 1
        BY <1>1, <1>2, <1>3
    <2> HIDE DEF left
    <2> QED BY <1>2, <2>1, <2>2
<1> HIDE DEF left
<1>5. ASSUME NEW j \in 1..(Len(p) - 1)
      PROVE  left[j] = IF j < i THEN p[j] ELSE p[j + 1]
    <2>1. CASE j < i
        BY <2>1, <1>1, <1>2, <1>4
    <2>2. CASE j >= i
        <3>1. j - (i - 1) \in 1..(Len(p) - i) /\ i + (j - (i - 1)) = j + 1 /\ ~(j <= i - 1) /\ ~(j < i)
            BY <2>2, <1>1
        <3>2. left[j] = back[j - (i - 1)]
            BY <3>1, <1>4
        <3>3. back[j - (i - 1)] = p[i + (j - (i - 1))]
            BY <3>1, <1>3
        <3> QED BY <3>1, <3>2, <3>3
    <2> QED BY <2>1, <2>2, <1>1
<1>6. RemoveAt(p, i) = left
    BY DEF RemoveAt, front, back, left
<1> QED BY <1>4, <1>5, <1>6

(* InsertAt moves entries and loses none. *)
LEMMA InsertKeeps ==
    ASSUME NEW p \in Seq(Entry), NEW i \in 1..(Len(p) + 1), NEW s \in Entry
    PROVE  /\ InsertAt(p, i, s) \in Seq(Entry)
           /\ ToSet(InsertAt(p, i, s)) = ToSet(p) \cup {s}
           /\ \A j \in DOMAIN p : \E k \in DOMAIN InsertAt(p, i, s) : InsertAt(p, i, s)[k] = p[j]
<1> DEFINE more == InsertAt(p, i, s)
<1>1. more \in Seq(Entry) /\ DOMAIN more = 1..(Len(p) + 1)
      /\ \A j \in 1..(Len(p) + 1) : more[j] = IF j < i THEN p[j] ELSE IF j = i THEN s ELSE p[j - 1]
    BY InsertedAt
<1>2. DOMAIN p = 1..Len(p) /\ Len(p) \in Nat
    OBVIOUS
<1> HIDE DEF more
<1>3. ASSUME NEW j \in 1..Len(p) PROVE \E k \in 1..(Len(p) + 1) : more[k] = p[j]
    <2>1. CASE j < i
        BY <2>1, <1>1, <1>2
    <2>2. CASE j >= i
        <3>1. j + 1 \in 1..(Len(p) + 1) /\ ~(j + 1 < i) /\ j + 1 # i /\ j + 1 - 1 = j
            BY <2>2, <1>2
        <3>2. more[j + 1] = p[j + 1 - 1]
            BY <3>1, <1>1
        <3> QED BY <3>1, <3>2
    <2> QED BY <2>1, <2>2, <1>2
<1>4. ASSUME NEW j \in 1..(Len(p) + 1), j # i PROVE \E k \in 1..Len(p) : more[j] = p[k]
    <2>1. CASE j < i
        BY <2>1, <1>1, <1>2
    <2>2. CASE j > i
        <3>1. j - 1 \in 1..Len(p) /\ ~(j < i)
            BY <2>2, <1>2
        <3> QED BY <3>1, <1>1, <1>4
    <2> QED BY <1>4, <2>1, <2>2, <1>2
<1>5. more[i] = s /\ i \in DOMAIN more /\ DOMAIN more = 1..(Len(p) + 1)
    BY <1>1
<1>6. ToSet(more) \subseteq ToSet(p) \cup {s}
    BY <1>2, <1>4, <1>5 DEF ToSet
<1>7. ToSet(p) \subseteq ToSet(more) /\ s \in ToSet(more)
    BY <1>2, <1>3, <1>5 DEF ToSet
<1>8. ToSet(more) = ToSet(p) \cup {s} /\ \A j \in DOMAIN p : \E k \in DOMAIN more : more[k] = p[j]
    BY <1>1, <1>2, <1>3, <1>6, <1>7
<1>9. more \in Seq(Entry)
    BY <1>1
<1> QED BY <1>8, <1>9 DEF more

LEMMA RemoveKeeps ==
    ASSUME NEW p \in Seq(Entry), NEW i \in DOMAIN p
    PROVE  /\ RemoveAt(p, i) \in Seq(Entry)
           /\ ToSet(RemoveAt(p, i)) \subseteq ToSet(p)
           /\ ToSet(p) \subseteq ToSet(RemoveAt(p, i)) \cup {p[i]}
<1> DEFINE left == RemoveAt(p, i)
<1>1. i \in 1..Len(p) /\ DOMAIN p = 1..Len(p) /\ Len(p) \in Nat
    OBVIOUS
<1>2. left \in Seq(Entry) /\ DOMAIN left = 1..(Len(p) - 1)
      /\ \A j \in 1..(Len(p) - 1) : left[j] = IF j < i THEN p[j] ELSE p[j + 1]
    BY RemovedAt
<1> HIDE DEF left
<1>3. ToSet(left) \subseteq ToSet(p)
    <2> SUFFICES ASSUME NEW j \in 1..(Len(p) - 1) PROVE \E k \in 1..Len(p) : left[j] = p[k]
        BY <1>1, <1>2 DEF ToSet
    <2>1. j \in 1..Len(p) /\ j + 1 \in 1..Len(p)
        BY <1>1
    <2>2. left[j] = p[j] \/ left[j] = p[j + 1]
        BY <1>2
    <2> QED BY <2>1, <2>2
<1>4. ToSet(p) \subseteq ToSet(left) \cup {p[i]}
    <2>0. DOMAIN left = 1..(Len(p) - 1) /\ DOMAIN p = 1..Len(p)
        BY <1>1, <1>2
    <2> SUFFICES ASSUME NEW j \in 1..Len(p), j # i PROVE \E k \in 1..(Len(p) - 1) : left[k] = p[j]
        BY <2>0 DEF ToSet
    <2>1. CASE j < i
        BY <2>1, <1>1, <1>2
    <2>2. CASE j > i
        <3>1. j - 1 \in 1..(Len(p) - 1) /\ ~(j - 1 < i) /\ j - 1 + 1 = j
            BY <2>2, <1>1
        <3> QED BY <3>1, <1>2
    <2> QED BY <2>1, <2>2, <1>1
<1> QED BY <1>2, <1>3, <1>4 DEF left

(* The first data action that is granted, if there is one.                 *)
LEMMA ExfilSurvives ==
    ASSUME NEW P, NEW Q, P \subseteq Q, FirstExfil(P) # {}
    PROVE  FirstExfil(Q) # {}
<1> DEFINE hits(S) == {k \in DOMAIN Exfil : ActionMatches(S, Exfil[k])}
<1>1. PICK k \in hits(P) : TRUE
    BY DEF FirstExfil
<1>2. hits(Q) \in SUBSET Nat /\ k \in hits(Q)
    BY <1>1, RuleAssumption DEF ActionMatches
<1>3. PICK n \in hits(Q) : \A m \in hits(Q) : n <= m
    BY <1>2, LeastNatural
<1>4. Exfil[n] \in FirstExfil(Q)
    BY <1>3 DEF FirstExfil
<1> QED BY <1>4

(* The rules about the whole policy, one by one. *)
LEMMA CrossRules ==
    ASSUME NEW p, ~Suppressed(AllowedPatterns(p)), NEW f
    PROVE  f \in CrossFindings(p) <=>
              \/ \E q \in Primitive : /\ \A n \in Needs[q] : ActionMatches(AllowedPatterns(p), n)
                                     /\ f = Finding(q, "CRITICAL", Cross, Needs[q])
              \/ \E n \in FullAdmin : /\ ActionMatches(AllowedPatterns(p), n)
                                     /\ f = Finding("ADMIN_EQUIVALENT", "CRITICAL", Cross, {n})
              \/ /\ \E i \in DOMAIN p : Allows(p[i]) /\ p[i].anyResource
                 /\ \E n \in FirstExfil(AllowedPatterns(p)) :
                      f = Finding("DATA_EXFIL_CAPABLE", "HIGH", Cross, {n})
BY Zenon DEF CrossFindings

Includes(r, p) == \A j \in DOMAIN p : \E k \in DOMAIN r : r[k] = p[j]

(* A finding about the whole policy stays, or gives way to a CRITICAL one. *)
LEMMA CrossSurvives ==
    ASSUME NEW p, NEW r, Includes(r, p), ~Suppressed(AllowedPatterns(r)),
           NEW f \in CrossFindings(p)
    PROVE  \E g \in CrossFindings(r) : g.severity = f.severity
<1> DEFINE P == AllowedPatterns(p)
           R == AllowedPatterns(r)
<1>1. P \subseteq R
    BY DEF Includes, AllowedPatterns
<1>2. ~Suppressed(P)
    BY <1>1 DEF Suppressed
<1>3. \A n : ActionMatches(P, n) => ActionMatches(R, n)
    BY <1>1 DEF ActionMatches
<1> HIDE DEF P, R
<1>4. CASE \E q \in Primitive : /\ \A n \in Needs[q] : ActionMatches(P, n)
                                /\ f = Finding(q, "CRITICAL", Cross, Needs[q])
    <2>1. f \in CrossFindings(r)
        BY <1>3, <1>4, CrossRules DEF R
    <2> QED BY <2>1
<1>5. CASE \E n \in FullAdmin : /\ ActionMatches(P, n)
                                /\ f = Finding("ADMIN_EQUIVALENT", "CRITICAL", Cross, {n})
    <2>1. f \in CrossFindings(r)
        BY <1>3, <1>5, CrossRules DEF R
    <2> QED BY <2>1
<1>6. CASE /\ \E i \in DOMAIN p : Allows(p[i]) /\ p[i].anyResource
           /\ \E n \in FirstExfil(P) : f = Finding("DATA_EXFIL_CAPABLE", "HIGH", Cross, {n})
    <2>1. PICK n \in FirstExfil(R) : TRUE
        BY <1>1, <1>6, ExfilSurvives
    <2>2. \E i \in DOMAIN r : Allows(r[i]) /\ r[i].anyResource
        BY <1>6 DEF Includes
    <2>3. Finding("DATA_EXFIL_CAPABLE", "HIGH", Cross, {n}) \in CrossFindings(r)
        BY <2>1, <2>2, CrossRules DEF R
    <2> QED BY <1>6, <2>3, FindingHasSeverity
<1> QED BY <1>2, <1>4, <1>5, <1>6, CrossRules DEF P

(* More statements, no lower severity. *)
LEMMA MoreIsNoBetter ==
    ASSUME NEW p \in Seq(Entry), NEW r \in Seq(Entry), Includes(r, p)
    PROVE  SeverityOf(p) <= SeverityOf(r)
<1>1. Graded(AnalyzeIamPolicy(p)) /\ Graded(AnalyzeIamPolicy(r))
    BY AnalysisIsGraded
<1>2. ASSUME NEW f \in AnalyzeIamPolicy(p)
      PROVE  \E g \in AnalyzeIamPolicy(r) : Rank[f.severity] <= Rank[g.severity]
    <2>1. f.severity \in Severity /\ Rank[f.severity] \in 0..4
        BY <1>1, RankType DEF Graded
    <2>2. p # <<>>
        BY DEF AnalyzeIamPolicy
    <2>3. r # <<>>
        BY <2>2 DEF Includes
    <2>4. CASE Suppressed(AllowedPatterns(r))
        <3>1. PICK g \in AnalyzeIamPolicy(r) : g.severity = "CRITICAL"
            BY <2>4, SuppressionIsCritical
        <3>2. Rank["CRITICAL"] = 4
            BY DEF Rank
        <3> QED BY <2>1, <3>1, <3>2
    <2>5. CASE ~Suppressed(AllowedPatterns(r))
        <3>1. CASE f \in CrossFindings(p)
            <4>1. PICK g \in CrossFindings(r) : g.severity = f.severity
                BY <2>5, <3>1, CrossSurvives
            <4>2. g \in AnalyzeIamPolicy(r)
                BY <2>3, <4>1, InAnalysis
            <4> QED BY <2>1, <4>1, <4>2
        <3>2. CASE \E j \in DOMAIN p : Allows(p[j]) /\ f \in StatementFindings(p[j], j)
            <4>1. PICK j \in DOMAIN p : Allows(p[j]) /\ f \in StatementFindings(p[j], j)
                BY <3>2
            <4>2. PICK k \in DOMAIN r : r[k] = p[j]
                BY <4>1 DEF Includes
            <4>3. PICK g \in StatementFindings(p[j], k) : g.severity = f.severity
                BY <4>1, FiresElsewhere
            <4>4. g \in AnalyzeIamPolicy(r)
                BY <2>3, <4>1, <4>2, <4>3, InAnalysis
            <4> QED BY <2>1, <4>3, <4>4
        <3> QED BY <2>2, <3>1, <3>2, InAnalysis
    <2> QED BY <2>4, <2>5
<1> QED BY <1>1, <1>2, Domination DEF SeverityOf

-----------------------------------------------------------------------------
(* The history.                                                            *)

Done == [op : {"add", "remove"}, statement : Entry]

Scanned == {[artifact |-> p, edits |-> e, result |-> ToDict(AnalyzeIamPolicy(p))]
               : p \in Seq(Entry), e \in Seq(Done)}

(* The inductive invariant: a stored result is the analysis of its artifact. *)
HistoryOK ==
    /\ policy \in Seq(Entry)
    /\ edits \in Seq(Done)
    /\ scans \in Seq(Scanned)

LEMMA InitHistory == Init => HistoryOK
<1> SUFFICES ASSUME Init PROVE HistoryOK
    OBVIOUS
<1>1. policy \in Seq(Entry)
    <2>1. PICK n \in 0..MaxLength : policy \in [1..n -> Offered]
        BY DEF Init, Policy
    <2>2. policy \in Seq(Offered)
        BY <2>1, BoundAssumption
    <2> QED BY <2>2, OfferedAssumption DEF Entry
<1> QED BY <1>1 DEF Init, HistoryOK

LEMMA NextHistory == HistoryOK /\ [Next]_vars => HistoryOK'
<1> SUFFICES ASSUME HistoryOK, [Next]_vars PROVE HistoryOK'
    OBVIOUS
<1>1. ASSUME NEW i \in 1..(Len(policy) + 1), NEW s \in Offered, AddStatement(i, s)
      PROVE  HistoryOK'
    <2>1. s \in Entry
        BY OfferedAssumption DEF Entry
    <2>2. policy' \in Seq(Entry)
        BY <1>1, <2>1, InsertKeeps DEF HistoryOK, AddStatement, Edit
    <2>3. edits' \in Seq(Done)
        BY <1>1, <2>1 DEF HistoryOK, AddStatement, Edit, Done
    <2> QED BY <1>1, <2>2, <2>3 DEF HistoryOK, AddStatement, Edit
<1>2. ASSUME NEW i \in DOMAIN policy, RemoveStatement(i)
      PROVE  HistoryOK'
    <2>1. policy' \in Seq(Entry)
        BY <1>2, RemoveKeeps DEF HistoryOK, RemoveStatement, Edit
    <2>2. edits' \in Seq(Done)
        BY <1>2 DEF HistoryOK, RemoveStatement, Edit, Done
    <2> QED BY <1>2, <2>1, <2>2 DEF HistoryOK, RemoveStatement, Edit
<1>3. CASE Scan
    <2> DEFINE made == [artifact |-> policy, edits |-> edits, result |-> ToDict(AnalyzeIamPolicy(policy))]
    <2>1. made \in Scanned
        BY DEF HistoryOK, Scanned
    <2>2. scans' = Append(scans, made) /\ edits' = <<>> /\ policy' = policy
        BY <1>3 DEF Scan
    <2> HIDE DEF made
    <2> QED BY <2>1, <2>2 DEF HistoryOK
<1>4. CASE UNCHANGED vars
    BY <1>4 DEF vars, HistoryOK
<1> QED BY <1>1, <1>2, <1>3, <1>4 DEF Next

(* A stored result stays the analysis of the artifact that was scanned.    *)
THEOREM HistoryIsKept == Spec => []HistoryOK
BY InitHistory, NextHistory, PTL DEF Spec

(* However an escalation path is spread over a policy, every stored scan   *)
(* of the policy says CRITICAL (iam_engine.py:261-281).                    *)
THEOREM PathsAreCritical == Spec => []EscalationIsCritical
<1>1. HistoryOK => EscalationIsCritical
    <2> SUFFICES ASSUME HistoryOK, NEW k \in DOMAIN scans,
                        NEW q \in Primitive, \A n \in Needs[q] : Granted(scans[k].artifact, n)
                 PROVE  scans[k].result.highest_severity = "CRITICAL"
        BY DEF EscalationIsCritical
    <2>1. scans[k] \in Scanned
        BY DEF HistoryOK
    <2>2. PICK p \in Seq(Entry), e \in Seq(Done) :
              scans[k] = [artifact |-> p, edits |-> e, result |-> ToDict(AnalyzeIamPolicy(p))]
        BY <2>1 DEF Scanned
    <2>3. scans[k].artifact = p /\ scans[k].result.highest_severity = HighestSeverity(AnalyzeIamPolicy(p))
        BY <2>2 DEF ToDict
    <2>4. p # <<>>
        <3>1. PICK n \in Needs[q] : TRUE
            BY RuleAssumption
        <3>2. \E i \in DOMAIN p : Allows(p[i])
            BY <2>3 DEF Granted
        <3> QED BY <3>2
    <2> QED BY <2>3, <2>4, PathIsCritical
<1> QED BY <1>1, HistoryIsKept, PTL

(* A statement more, whatever it says, never lowers the highest severity.  *)
THEOREM MoreStatementsAreNoBetter == Spec => GrantNeverLowersSeverity
<1>1. HistoryOK /\ [Next]_vars =>
          [(\E i \in 1..(Len(policy) + 1), s \in Offered : AddStatement(i, s))
               => SeverityOf(policy) <= SeverityOf(policy')]_vars
    <2> SUFFICES ASSUME HistoryOK, NEW i \in 1..(Len(policy) + 1), NEW s \in Offered, AddStatement(i, s)
                 PROVE  SeverityOf(policy) <= SeverityOf(policy')
        OBVIOUS
    <2>1. policy \in Seq(Entry) /\ s \in Entry /\ policy' = InsertAt(policy, i, s)
        BY OfferedAssumption DEF HistoryOK, Entry, AddStatement, Edit
    <2>2. policy' \in Seq(Entry) /\ Includes(policy', policy)
        BY <2>1, InsertKeeps DEF Includes
    <2> QED BY <2>1, <2>2, MoreIsNoBetter
<1> QED BY <1>1, HistoryIsKept, PTL DEF Spec, GrantNeverLowersSeverity

-----------------------------------------------------------------------------
(* The header of a result and its rows.                                    *)

(* What a function makes of finitely many values is finitely many. *)
LEMMA RangeIsFinite ==
    ASSUME NEW S, IsFiniteSet(S), NEW T, NEW g, g \in [S -> T], T = {g[x] : x \in S}
    PROVE  IsFiniteSet(T)
<1>1. g \in Surjection(S, T)
    BY DEF Surjection
<1> QED BY <1>1, FS_Surjection

LEMMA WhenIsFinite ==
    ASSUME NEW c, NEW f
    PROVE  IsFiniteSet(When(c, f))
<1>1. When(c, f) = {} \/ When(c, f) = {f}
    BY Zenon DEF When
<1>2. IsFiniteSet({}) /\ IsFiniteSet({f})
    BY FS_EmptySet, FS_Singleton
<1> QED BY <1>1, <1>2, Zenon

LEMMA UnionIsFinite ==
    ASSUME NEW S, NEW T, IsFiniteSet(S), IsFiniteSet(T)
    PROVE  IsFiniteSet(S \cup T)
BY FS_Union

LEMMA StatementIsFinite ==
    ASSUME NEW s, IsFiniteSet(s.actions), NEW i
    PROVE  IsFiniteSet(StatementFindings(s, i))
<1> DEFINE at == Location(s, i)
           all == Global \in s.actions
           wild == s.actions \cap ServiceWildcard
           rule(p) == Finding("WILDCARD_ACTION_SERVICE",
                              IF p \in AdminService THEN "CRITICAL" ELSE "HIGH", at, {p})
           service == {rule(p) : p \in wild}
<1>1. IsFiniteSet(service)
    <2> DEFINE g == [p \in wild |-> rule(p)]
    <2>1. IsFiniteSet(wild)
        BY FS_Intersection
    <2> HIDE DEF wild, rule
    <2>2. g \in [wild -> service] /\ service = {g[p] : p \in wild}
        OBVIOUS
    <2> HIDE DEF g, service
    <2> QED BY <2>1, <2>2, RangeIsFinite
<1> DEFINE A == When(all, Finding("WILDCARD_ACTION_ALL", "CRITICAL", at, {}))
           C == When(s.anyResource /\ s.actions # {} /\ ~all,
                  Finding("WILDCARD_RESOURCE", "HIGH", at, {}))
           D == When(s.notActions # {}, Finding("NOTACTION_ALLOW", "HIGH", at, s.notActions))
           E == When(s.anyPrincipal,
                  Finding("WILDCARD_PRINCIPAL", IF s.condition THEN "MEDIUM" ELSE "CRITICAL", at, {}))
           F == When(ActionMatches(s.actions, AssumeRole) /\ ~s.condition,
                  Finding("ASSUMEROLE_NO_CONDITION", "MEDIUM", at, {}))
           G == When(ActionMatches(s.actions, PassRole) /\ s.anyResource,
                  Finding("PASSROLE_WILDCARD", "HIGH", at, {}))
<1>2. StatementFindings(s, i) = A \cup service \cup C \cup D \cup E \cup F \cup G
    BY Zenon DEF StatementFindings
<1>3. /\ IsFiniteSet(A) /\ IsFiniteSet(C) /\ IsFiniteSet(D)
      /\ IsFiniteSet(E) /\ IsFiniteSet(F) /\ IsFiniteSet(G)
    BY WhenIsFinite, Zenon
<1> HIDE DEF A, C, D, E, F, G, service
<1> QED BY <1>1, <1>2, <1>3, UnionIsFinite

LEMMA CrossIsFinite ==
    ASSUME NEW p
    PROVE  IsFiniteSet(CrossFindings(p))
<1> DEFINE patterns == AllowedPatterns(p)
           paths == {q \in Primitive : \A n \in Needs[q] : ActionMatches(patterns, n)}
           admin == {n \in FullAdmin : ActionMatches(patterns, n)}
           exfil == IF \E i \in DOMAIN p : Allows(p[i]) /\ p[i].anyResource
                    THEN FirstExfil(patterns) ELSE {}
           A == {Finding(q, "CRITICAL", Cross, Needs[q]) : q \in paths}
           B == {Finding("ADMIN_EQUIVALENT", "CRITICAL", Cross, {n}) : n \in admin}
           C == {Finding("DATA_EXFIL_CAPABLE", "HIGH", Cross, {n}) : n \in exfil}
<1>1. CASE Suppressed(patterns)
    <2>1. CrossFindings(p) = {}
        BY <1>1, Zenon DEF CrossFindings
    <2> QED BY <2>1, FS_EmptySet
<1>2. CASE ~Suppressed(patterns)
    <2>1. CrossFindings(p) = A \cup B \cup C
        BY <1>2 DEF CrossFindings
    <2>2. IsFiniteSet(paths) /\ IsFiniteSet(admin)
        BY TableAssumption, FS_Subset
    <2>3. IsFiniteSet(exfil)
        <3>1. exfil = {} \/ \E n : exfil = {n}
            <4>1. ASSUME NEW n \in exfil, NEW m \in exfil PROVE n = m
                <5> DEFINE hits == {k \in DOMAIN Exfil : ActionMatches(patterns, Exfil[k])}
                <5>1. PICK j \in hits : n = Exfil[j] /\ \A i \in hits : j <= i
                    BY <4>1 DEF FirstExfil
                <5>2. PICK k \in hits : m = Exfil[k] /\ \A i \in hits : k <= i
                    BY <4>1 DEF FirstExfil
                <5>3. j \in Nat /\ k \in Nat /\ j <= k /\ k <= j
                    BY <5>1, <5>2, RuleAssumption
                <5> QED BY <5>1, <5>2, <5>3
            <4> HIDE DEF exfil
            <4> QED BY <4>1
        <3> HIDE DEF exfil
        <3> QED BY <3>1, FS_EmptySet, FS_Singleton
    <2>4. IsFiniteSet(A)
        <3> DEFINE g == [q \in paths |-> Finding(q, "CRITICAL", Cross, Needs[q])]
        <3> HIDE DEF paths
        <3>1. g \in [paths -> A] /\ A = {g[q] : q \in paths}
            OBVIOUS
        <3> HIDE DEF g, A
        <3> QED BY <2>2, <3>1, RangeIsFinite
    <2>5. IsFiniteSet(B)
        <3> DEFINE g == [n \in admin |-> Finding("ADMIN_EQUIVALENT", "CRITICAL", Cross, {n})]
        <3> HIDE DEF admin
        <3>1. g \in [admin -> B] /\ B = {g[n] : n \in admin}
            OBVIOUS
        <3> HIDE DEF g, B
        <3> QED BY <2>2, <3>1, RangeIsFinite
    <2>6. IsFiniteSet(C)
        <3> DEFINE g == [n \in exfil |-> Finding("DATA_EXFIL_CAPABLE", "HIGH", Cross, {n})]
        <3> HIDE DEF exfil
        <3>1. g \in [exfil -> C] /\ C = {g[n] : n \in exfil}
            OBVIOUS
        <3> HIDE DEF g, C
        <3> QED BY <2>3, <3>1, RangeIsFinite
    <2> HIDE DEF A, B, C
    <2> QED BY <2>1, <2>4, <2>5, <2>6, UnionIsFinite
<1> QED BY <1>1, <1>2

(* A policy has finitely many findings. *)
LEMMA AnalysisIsFinite ==
    ASSUME NEW p \in Seq(Entry)
    PROVE  IsFiniteSet(AnalyzeIamPolicy(p))
<1> DEFINE allowed == {j \in DOMAIN p : Allows(p[j])}
           each == {StatementFindings(p[i], i) : i \in allowed}
<1>1. IsFiniteSet(allowed)
    <2>1. IsFiniteSet(1..Len(p)) /\ DOMAIN p = 1..Len(p)
        BY FS_Interval
    <2> QED BY <2>1, FS_Subset
<1>2. IsFiniteSet(each)
    <2> DEFINE g == [i \in allowed |-> StatementFindings(p[i], i)]
    <2> HIDE DEF allowed
    <2>1. g \in [allowed -> each] /\ each = {g[i] : i \in allowed}
        OBVIOUS
    <2> HIDE DEF g, each
    <2> QED BY <1>1, <2>1, RangeIsFinite
<1>3. \A F \in each : IsFiniteSet(F)
    <2>1. ASSUME NEW i \in allowed PROVE IsFiniteSet(StatementFindings(p[i], i))
        <3>1. p[i] \in Entry /\ p[i] # NotAnObject
            BY DEF Allows
        <3>2. IsFiniteSet(p[i].actions)
            BY <3>1 DEF Entry
        <3> QED BY <3>2, StatementIsFinite
    <2> HIDE DEF allowed
    <2> QED BY <2>1
<1>4. AnalyzeIamPolicy(p) = {} \/ AnalyzeIamPolicy(p) = (UNION each) \cup CrossFindings(p)
    BY Zenon DEF AnalyzeIamPolicy
<1> HIDE DEF each
<1>5. IsFiniteSet(UNION each)
    BY <1>2, <1>3, FS_UNION
<1> QED BY <1>4, <1>5, CrossIsFinite, UnionIsFinite, FS_EmptySet

(* Every finding is of the type. *)
LEMMA StatementIsTyped ==
    ASSUME NEW s \in Statement, NEW i \in Nat
    PROVE  \A f \in StatementFindings(s, i) : f \in FindingType
<1> DEFINE at == Location(s, i)
           Evidence == SUBSET (Pattern \cup Needed)
<1>1. at \in [sid : Sid \cup {NoSid, CrossStatement}, pos : Nat]
    BY DEF Location, Located, Statement
<1>2. ASSUME NEW rule \in Rule, NEW severity \in Severity, NEW evidence \in Evidence
      PROVE  Finding(rule, severity, at, evidence) \in FindingType
    BY <1>1, <1>2 DEF Finding, FindingType
<1>3. /\ "CRITICAL" \in Severity /\ "HIGH" \in Severity /\ "MEDIUM" \in Severity
      /\ {} \in Evidence /\ s.notActions \in Evidence
      /\ \A p \in s.actions : {p} \in Evidence
    BY NamesAreSeverities DEF Statement
<1>4. /\ "WILDCARD_ACTION_ALL" \in Rule /\ "WILDCARD_ACTION_SERVICE" \in Rule
      /\ "WILDCARD_RESOURCE" \in Rule /\ "NOTACTION_ALLOW" \in Rule /\ "WILDCARD_PRINCIPAL" \in Rule
      /\ "ASSUMEROLE_NO_CONDITION" \in Rule /\ "PASSROLE_WILDCARD" \in Rule
    BY DEF Rule
<1> HIDE DEF at, Evidence
<1>5. /\ Finding("WILDCARD_ACTION_ALL", "CRITICAL", at, {}) \in FindingType
      /\ \A p \in s.actions : /\ Finding("WILDCARD_ACTION_SERVICE", "CRITICAL", at, {p}) \in FindingType
                             /\ Finding("WILDCARD_ACTION_SERVICE", "HIGH", at, {p}) \in FindingType
      /\ Finding("WILDCARD_RESOURCE", "HIGH", at, {}) \in FindingType
      /\ Finding("NOTACTION_ALLOW", "HIGH", at, s.notActions) \in FindingType
      /\ Finding("WILDCARD_PRINCIPAL", "MEDIUM", at, {}) \in FindingType
      /\ Finding("WILDCARD_PRINCIPAL", "CRITICAL", at, {}) \in FindingType
      /\ Finding("ASSUMEROLE_NO_CONDITION", "MEDIUM", at, {}) \in FindingType
      /\ Finding("PASSROLE_WILDCARD", "HIGH", at, {}) \in FindingType
    BY <1>2, <1>3, <1>4
<1> SUFFICES ASSUME NEW f \in StatementFindings(s, i) PROVE f \in FindingType
    OBVIOUS
<1> DEFINE principal == IF s.condition THEN "MEDIUM" ELSE "CRITICAL"
           service(p) == IF p \in AdminService THEN "CRITICAL" ELSE "HIGH"
<1>6. /\ Finding("WILDCARD_PRINCIPAL", principal, at, {}) \in FindingType
      /\ \A p \in s.actions : Finding("WILDCARD_ACTION_SERVICE", service(p), at, {p}) \in FindingType
    BY <1>5
<1>7. \/ f = Finding("WILDCARD_ACTION_ALL", "CRITICAL", at, {})
      \/ \E p \in s.actions : f = Finding("WILDCARD_ACTION_SERVICE", service(p), at, {p})
      \/ f = Finding("WILDCARD_RESOURCE", "HIGH", at, {})
      \/ f = Finding("NOTACTION_ALLOW", "HIGH", at, s.notActions)
      \/ f = Finding("WILDCARD_PRINCIPAL", principal, at, {})
      \/ f = Finding("ASSUMEROLE_NO_CONDITION", "MEDIUM", at, {})
      \/ f = Finding("PASSROLE_WILDCARD", "HIGH", at, {})
    BY StatementRules, Zenon DEF at
<1> HIDE DEF principal, service
<1> QED BY <1>5, <1>6, <1>7

LEMMA CrossIsTyped ==
    ASSUME NEW p
    PROVE  \A f \in CrossFindings(p) : f \in FindingType
<1> DEFINE Evidence == SUBSET (Pattern \cup Needed)
<1>1. Cross \in [sid : Sid \cup {NoSid, CrossStatement}, pos : Nat]
    BY DEF Cross, Located
<1>2. ASSUME NEW rule \in Rule, NEW severity \in Severity, NEW evidence \in Evidence
      PROVE  Finding(rule, severity, Cross, evidence) \in FindingType
    BY <1>1, <1>2 DEF Finding, FindingType
<1>3. /\ "CRITICAL" \in Severity /\ "HIGH" \in Severity
      /\ \A n \in Needed : {n} \in Evidence
      /\ \A q \in Primitive : q \in Rule /\ Needs[q] \in Evidence
      /\ FullAdmin \subseteq Needed
    BY NamesAreSeverities, RuleAssumption DEF Rule
<1>4. "ADMIN_EQUIVALENT" \in Rule /\ "DATA_EXFIL_CAPABLE" \in Rule
    BY DEF Rule
<1>5. \A P : FirstExfil(P) \subseteq Needed
    BY RuleAssumption DEF FirstExfil
<1> HIDE DEF Evidence
<1>6. /\ \A q \in Primitive : Finding(q, "CRITICAL", Cross, Needs[q]) \in FindingType
      /\ \A n \in Needed : /\ Finding("ADMIN_EQUIVALENT", "CRITICAL", Cross, {n}) \in FindingType
                           /\ Finding("DATA_EXFIL_CAPABLE", "HIGH", Cross, {n}) \in FindingType
    BY <1>2, <1>3, <1>4
<1>7. CASE Suppressed(AllowedPatterns(p))
    BY <1>7, Zenon DEF CrossFindings
<1>8. CASE ~Suppressed(AllowedPatterns(p))
    <2> SUFFICES ASSUME NEW f \in CrossFindings(p) PROVE f \in FindingType
        OBVIOUS
    <2>1. \/ \E q \in Primitive : f = Finding(q, "CRITICAL", Cross, Needs[q])
          \/ \E n \in FullAdmin : f = Finding("ADMIN_EQUIVALENT", "CRITICAL", Cross, {n})
          \/ \E n \in FirstExfil(AllowedPatterns(p)) : f = Finding("DATA_EXFIL_CAPABLE", "HIGH", Cross, {n})
        BY <1>8, CrossRules
    <2> QED BY <2>1, <1>3, <1>5, <1>6, Zenon
<1> QED BY <1>7, <1>8

LEMMA AnalysisIsTyped ==
    ASSUME NEW p \in Seq(Entry)
    PROVE  \A f \in AnalyzeIamPolicy(p) : f \in FindingType
<1>1. ASSUME NEW i \in DOMAIN p, Allows(p[i])
      PROVE  \A f \in StatementFindings(p[i], i) : f \in FindingType
    <2>1. p[i] \in Statement /\ i \in Nat
        BY <1>1 DEF Allows, Entry
    <2> QED BY <2>1, StatementIsTyped
<1>2. CASE p = <<>>
    BY <1>2, Zenon DEF AnalyzeIamPolicy
<1>3. CASE p # <<>>
    BY <1>1, <1>3, CrossIsTyped, InAnalysis
<1> QED BY <1>2, <1>3

LEMMA FiveSeverities ==
    /\ Severity = {"CRITICAL", "HIGH", "MEDIUM", "LOW", "INFO"}
    /\ \A s, t \in Severity : Rank[s] = Rank[t] => s = t
BY DEF Severity, Rank

LEMMA DisjointUnion ==
    ASSUME NEW S, NEW T, IsFiniteSet(S), IsFiniteSet(T), S \cap T = {}
    PROVE  IsFiniteSet(S \cup T) /\ Cardinality(S \cup T) = Cardinality(S) + Cardinality(T)
BY FS_Union, FS_EmptySet, FS_CardinalityType

(* Rows by severity add up to the rows. *)
LEMMA CountsAddUp ==
    ASSUME NEW D, IsFiniteSet(D), Graded(D)
    PROVE  LET Count(s) == Cardinality({f \in D : f.severity = s})
           IN  /\ \A s \in Severity : Count(s) \in Nat
               /\ Count("CRITICAL") + Count("HIGH") + Count("MEDIUM") + Count("LOW") + Count("INFO")
                    = Cardinality(D)
<1> DEFINE Of(s) == {f \in D : f.severity = s}
           AB == Of("CRITICAL") \cup Of("HIGH")
           ABC == AB \cup Of("MEDIUM")
           ABCD == ABC \cup Of("LOW")
<1>1. \A s : IsFiniteSet(Of(s)) /\ Cardinality(Of(s)) \in Nat
    BY FS_Subset, FS_CardinalityType
<1>2. /\ Of("CRITICAL") \cap Of("HIGH") = {}
      /\ AB \cap Of("MEDIUM") = {}
      /\ ABC \cap Of("LOW") = {}
      /\ ABCD \cap Of("INFO") = {}
    OBVIOUS
<1>3. D = ABCD \cup Of("INFO")
    BY FiveSeverities DEF Graded
<1> HIDE DEF Of
<1>4. IsFiniteSet(AB) /\ Cardinality(AB) = Cardinality(Of("CRITICAL")) + Cardinality(Of("HIGH"))
    BY <1>1, <1>2, DisjointUnion
<1> HIDE DEF AB
<1>5. IsFiniteSet(ABC) /\ Cardinality(ABC) = Cardinality(AB) + Cardinality(Of("MEDIUM"))
    BY <1>1, <1>2, <1>4, DisjointUnion
<1> HIDE DEF ABC
<1>6. IsFiniteSet(ABCD) /\ Cardinality(ABCD) = Cardinality(ABC) + Cardinality(Of("LOW"))
    BY <1>1, <1>2, <1>5, DisjointUnion
<1> HIDE DEF ABCD
<1>7. Cardinality(D) = Cardinality(ABCD) + Cardinality(Of("INFO"))
    BY <1>1, <1>2, <1>3, <1>6, DisjointUnion
<1>8. Cardinality(D) = Cardinality(Of("CRITICAL")) + Cardinality(Of("HIGH"))
                       + Cardinality(Of("MEDIUM")) + Cardinality(Of("LOW")) + Cardinality(Of("INFO"))
    BY <1>1, <1>4, <1>5, <1>6, <1>7
<1> QED BY <1>1, <1>8, Zenon DEF Of

(* A finding of each fingerprint, a worst one of them, is kept. *)
LEMMA DedupKeepsWorst ==
    ASSUME NEW F, Graded(F), NEW f \in F
    PROVE  \E g \in Deduped(F) : Fingerprint(g) = Fingerprint(f) /\ Rank[f.severity] <= Rank[g.severity]
<1> DEFINE same == {g \in F : Fingerprint(g) = Fingerprint(f)}
<1>1. Graded(same) /\ same # {}
    BY DEF Graded
<1>2. PICK g \in same : \A h \in same : Rank[h.severity] <= Rank[g.severity]
    BY <1>1, WorstExists
<1>3. g \in Deduped(F)
    BY <1>2 DEF Deduped
<1> QED BY <1>2, <1>3

(* What to_dict says of the rows, for any list of findings.                *)
LEMMA HeaderAgrees ==
    ASSUME NEW F, IsFiniteSet(F), \A f \in F : f \in FindingType, NEW r, r = ToDict(F)
    PROVE  /\ r.highest_severity \in Severity
           /\ r.severity_counts \in [Severity -> Nat]
           /\ r.finding_count \in Nat
           /\ \A f \in r.findings : f \in FindingType
           /\ r.findings # {} => r.severity_counts[r.highest_severity] > 0
           /\ \A f \in r.findings : Rank[f.severity] <= Rank[r.highest_severity]
           /\ Cardinality(Fingerprints(r.findings)) = r.finding_count
           /\ r.severity_counts["CRITICAL"] + r.severity_counts["HIGH"] + r.severity_counts["MEDIUM"]
                + r.severity_counts["LOW"] + r.severity_counts["INFO"] = r.finding_count
<1> DEFINE D == Deduped(F)
           Count(s) == Cardinality({f \in D : f.severity = s})
           top == HighestSeverity(F)
<1>1. /\ r.highest_severity = top /\ r.finding_count = Cardinality(D) /\ r.findings = D
      /\ r.severity_counts = [s \in Severity |-> Count(s)]
    BY DEF ToDict, SeverityCounts
<1>2. Graded(F) /\ D \subseteq F
    BY DEF Graded, FindingType, Deduped
<1>3. IsFiniteSet(D) /\ Cardinality(D) \in Nat
    BY <1>2, FS_Subset, FS_CardinalityType
<1>4. Graded(D)
    BY <1>2 DEF Graded
<1>5. top \in Severity /\ \A f \in D : Rank[f.severity] <= Rank[top]
    BY <1>2, HighestIsGraded
<1>6. /\ \A s \in Severity : Count(s) \in Nat
      /\ Count("CRITICAL") + Count("HIGH") + Count("MEDIUM") + Count("LOW") + Count("INFO")
           = Cardinality(D)
    BY <1>3, <1>4, CountsAddUp
<1>7. ASSUME D # {} PROVE Count(top) > 0
    <2>1. PICK f \in F : top = f.severity /\ \A g \in F : Rank[g.severity] <= Rank[f.severity]
        BY <1>2, <1>7, WorstExists
    <2>2. f \in D
        BY <2>1 DEF Deduped
    <2> DEFINE worst == {g \in D : g.severity = top}
    <2>3. IsFiniteSet(worst) /\ worst # {}
        BY <1>3, <2>1, <2>2, FS_Subset
    <2>4. Cardinality(worst) \in Nat /\ Cardinality(worst) # 0
        BY <2>3, FS_EmptySet, FS_CardinalityType
    <2> QED BY <2>4
<1>8. Cardinality(Fingerprints(D)) = Cardinality(D)
    <2> DEFINE print == [f \in D |-> Fingerprint(f)]
    <2>1. ASSUME NEW f \in D, NEW g \in D, Fingerprint(f) = Fingerprint(g)
          PROVE  f = g
        <3>1. Rank[f.severity] <= Rank[g.severity] /\ Rank[g.severity] <= Rank[f.severity]
            BY <2>1 DEF Deduped
        <3>2. f \in FindingType /\ g \in FindingType
            BY <1>2
        <3>3. f.severity \in Severity /\ g.severity \in Severity
            BY <3>2 DEF FindingType
        <3>4. f.severity = g.severity
            <4>1. Rank[f.severity] \in 0..4 /\ Rank[g.severity] \in 0..4
                BY <3>3, RankType
            <4>2. Rank[f.severity] = Rank[g.severity]
                BY <3>1, <4>1
            <4> QED BY <3>3, <4>2, FiveSeverities
        <3>5. f.rule = g.rule /\ f.location = g.location /\ f.evidence = g.evidence
            BY <2>1 DEF Fingerprint
        <3> QED BY <3>2, <3>4, <3>5 DEF FindingType
    <2>2. print \in Bijection(D, Fingerprints(D))
        <3>1. print \in [D -> Fingerprints(D)]
            BY DEF Fingerprints
        <3>2. \A t \in Fingerprints(D) : \E f \in D : print[f] = t
            BY DEF Fingerprints
        <3>3. \A f, g \in D : print[f] = print[g] => f = g
            BY <2>1
        <3> HIDE DEF print, D
        <3> QED BY <3>1, <3>2, <3>3 DEF Bijection, Injection, Surjection, IsInjective
    <2> HIDE DEF print, D
    <2>3. ExistsBijection(D, Fingerprints(D))
        BY <2>2 DEF ExistsBijection
    <2> QED BY <1>3, <2>3, FS_Bijection
<1> HIDE DEF D, Count, top
<1>9. \A f \in D : f \in FindingType
    BY <1>2
<1>10. r.severity_counts \in [Severity -> Nat] /\ (D # {} => r.severity_counts[top] > 0)
    BY <1>1, <1>5, <1>6, <1>7
<1>11. \A s \in Severity : r.severity_counts[s] = Count(s)
    BY <1>1
<1> QED BY <1>1, <1>3, <1>5, <1>6, <1>8, <1>9, <1>10, <1>11, FiveSeverities

(* A stored result is of the type, and its header agrees with its rows. *)
LEMMA StoredAgrees ==
    ASSUME HistoryOK, NEW k \in DOMAIN scans
    PROVE  \E p \in Seq(Entry), e \in Seq(Done) :
              /\ scans[k] = [artifact |-> p, edits |-> e, result |-> ToDict(AnalyzeIamPolicy(p))]
              /\ IsFiniteSet(AnalyzeIamPolicy(p))
              /\ \A f \in AnalyzeIamPolicy(p) : f \in FindingType
<1>1. scans[k] \in Scanned
    BY DEF HistoryOK
<1>2. PICK p \in Seq(Entry), e \in Seq(Done) :
          scans[k] = [artifact |-> p, edits |-> e, result |-> ToDict(AnalyzeIamPolicy(p))]
    BY <1>1 DEF Scanned
<1> QED BY <1>2, AnalysisIsFinite, AnalysisIsTyped

(* The types of ScanHistory. *)
THEOREM TypesAreKept == Spec => []TypeOK
<1>1. HistoryOK => TypeOK
    <2> SUFFICES ASSUME HistoryOK PROVE TypeOK
        OBVIOUS
    <2>1. ASSUME NEW k \in DOMAIN scans PROVE ResultOK(scans[k].result)
        <3>1. PICK p \in Seq(Entry), e \in Seq(Done) :
                 /\ scans[k] = [artifact |-> p, edits |-> e, result |-> ToDict(AnalyzeIamPolicy(p))]
                 /\ IsFiniteSet(AnalyzeIamPolicy(p))
                 /\ \A f \in AnalyzeIamPolicy(p) : f \in FindingType
            BY StoredAgrees
        <3>2. scans[k].result = ToDict(AnalyzeIamPolicy(p))
            BY <3>1
        <3> QED BY <3>1, <3>2, HeaderAgrees DEF ResultOK
    <2>2. Entry \subseteq Statement \cup {NotAnObject}
        BY DEF Entry
    <2>3. policy \in Seq(Statement \cup {NotAnObject})
        BY <2>2 DEF HistoryOK
    <2>4. edits \in Seq([op : {"add", "remove"}, statement : Statement \cup {NotAnObject}])
        <3> DEFINE Wide == [op : {"add", "remove"}, statement : Statement \cup {NotAnObject}]
        <3>1. Done \subseteq Wide
            BY <2>2 DEF Done
        <3>2. edits \in Seq(Done)
            BY DEF HistoryOK
        <3> HIDE DEF Done, Wide
        <3>3. edits \in Seq(Wide)
            BY <3>1, <3>2
        <3> QED BY <3>3 DEF Wide
    <2> QED BY <2>1, <2>3, <2>4 DEF TypeOK
<1> QED BY <1>1, HistoryIsKept, PTL

(* The header of every stored scan agrees with its rows, however many      *)
(* duplicates dedup has dropped (findings.py:115-139).                     *)
THEOREM HeadersAgree == Spec => []SeveritiesAgree
<1>1. HistoryOK => SeveritiesAgree
    <2> SUFFICES ASSUME HistoryOK PROVE SeveritiesAgree
        OBVIOUS
    <2>1. ASSUME NEW k \in DOMAIN scans
          PROVE  LET r == scans[k].result
                 IN  /\ r.findings # {} => r.severity_counts[r.highest_severity] > 0
                     /\ \A f \in r.findings : Rank[f.severity] <= Rank[r.highest_severity]
                     /\ Cardinality(Fingerprints(r.findings)) = r.finding_count
                     /\ r.severity_counts["CRITICAL"] + r.severity_counts["HIGH"] + r.severity_counts["MEDIUM"]
                          + r.severity_counts["LOW"] + r.severity_counts["INFO"] = r.finding_count
        <3>1. PICK p \in Seq(Entry), e \in Seq(Done) :
                 /\ scans[k] = [artifact |-> p, edits |-> e, result |-> ToDict(AnalyzeIamPolicy(p))]
                 /\ IsFiniteSet(AnalyzeIamPolicy(p))
                 /\ \A f \in AnalyzeIamPolicy(p) : f \in FindingType
            BY StoredAgrees
        <3> DEFINE r == scans[k].result
        <3>2. r = ToDict(AnalyzeIamPolicy(p))
            BY <3>1
        <3> HIDE DEF r
        <3> SUFFICES
               /\ r.findings # {} => r.severity_counts[r.highest_severity] > 0
               /\ \A f \in r.findings : Rank[f.severity] <= Rank[r.highest_severity]
               /\ Cardinality(Fingerprints(r.findings)) = r.finding_count
               /\ r.severity_counts["CRITICAL"] + r.severity_counts["HIGH"] + r.severity_counts["MEDIUM"]
                    + r.severity_counts["LOW"] + r.severity_counts["INFO"] = r.finding_count
            BY Zenon DEF r
        <3> QED BY <3>1, <3>2, HeaderAgrees
    <2> QED BY <2>1, Zenon DEF SeveritiesAgree
<1> QED BY <1>1, HistoryIsKept, PTL

-----------------------------------------------------------------------------
(* Two scans and the edits between them.                                   *)

Edited(es) == {es[k].statement : k \in DOMAIN es}

(* The edits es account for what differs between p and, later, r. *)
Accounted(p, es, r) ==
    /\ ToSet(p) \subseteq ToSet(r) \cup Edited(es)
    /\ ToSet(r) \subseteq ToSet(p) \cup Edited(es)
    /\ (\A k \in DOMAIN es : es[k].op = "remove") => ToSet(r) \subseteq ToSet(p)

EditsOK ==
    /\ scans # <<>> => Accounted(scans[Len(scans)].artifact, edits, policy)
    /\ \A k \in 2..Len(scans) : Accounted(scans[k - 1].artifact, scans[k].edits, scans[k].artifact)

(* One edit more is accounted for. *)
LEMMA AccountedStep ==
    ASSUME NEW p, NEW es \in Seq(Done), NEW r, NEW q, Accounted(p, es, r),
           NEW op, NEW s, [op |-> op, statement |-> s] \in Done,
           ToSet(q) \subseteq ToSet(r) \cup {s},
           ToSet(r) \subseteq ToSet(q) \cup {s},
           op = "remove" => ToSet(q) \subseteq ToSet(r)
    PROVE  Accounted(p, Append(es, [op |-> op, statement |-> s]), q)
<1> DEFINE e == [op |-> op, statement |-> s]
           more == Append(es, e)
<1>1. e.op = op /\ e.statement = s
    OBVIOUS
<1> HIDE DEF e
<1>2. /\ DOMAIN more = 1..(Len(es) + 1) /\ DOMAIN es = 1..Len(es)
      /\ \A k \in 1..Len(es) : more[k] = es[k]
      /\ more[Len(es) + 1] = e
    BY DEF e
<1> HIDE DEF more
<1>3. Edited(es) \cup {s} \subseteq Edited(more)
    BY <1>1, <1>2 DEF Edited
<1>4. (\A k \in DOMAIN more : more[k].op = "remove")
          => op = "remove" /\ \A k \in DOMAIN es : es[k].op = "remove"
    BY <1>1, <1>2
<1>5. Accounted(p, more, q)
    BY <1>3, <1>4 DEF Accounted
<1> QED BY <1>5 DEF more, e

LEMMA NextEdits == HistoryOK /\ EditsOK /\ [Next]_vars => EditsOK'
<1> SUFFICES ASSUME HistoryOK, EditsOK, [Next]_vars PROVE EditsOK'
    OBVIOUS
<1>1. ASSUME NEW op, NEW s, NEW changed, Edit(op, s, changed), [op |-> op, statement |-> s] \in Done,
             ToSet(changed) \subseteq ToSet(policy) \cup {s},
             ToSet(policy) \subseteq ToSet(changed) \cup {s},
             op = "remove" => ToSet(changed) \subseteq ToSet(policy)
      PROVE  EditsOK'
    <2>1. /\ scans # <<>> /\ scans' = scans /\ policy' = changed
          /\ edits' = Append(edits, [op |-> op, statement |-> s])
        BY <1>1 DEF Edit
    <2> DEFINE last == scans[Len(scans)].artifact
    <2>2. Accounted(last, edits, policy) /\ edits \in Seq(Done)
        BY <2>1 DEF EditsOK, HistoryOK
    <2> HIDE DEF last
    <2>3. Accounted(last, Append(edits, [op |-> op, statement |-> s]), changed)
        BY <1>1, <2>2, AccountedStep
    <2> QED BY <2>1, <2>3 DEF EditsOK, last
<1>2. ASSUME NEW i \in 1..(Len(policy) + 1), NEW s \in Offered, AddStatement(i, s)
      PROVE  EditsOK'
    <2>1. s \in Entry /\ policy \in Seq(Entry)
        BY OfferedAssumption DEF Entry, HistoryOK
    <2>2. ToSet(InsertAt(policy, i, s)) = ToSet(policy) \cup {s}
        BY <2>1, InsertKeeps
    <2>3. [op |-> "add", statement |-> s] \in Done
        BY <2>1 DEF Done
    <2>4. Edit("add", s, InsertAt(policy, i, s))
        BY <1>2 DEF AddStatement
    <2> QED BY <2>2, <2>3, <2>4, <1>1
<1>3. ASSUME NEW i \in DOMAIN policy, RemoveStatement(i)
      PROVE  EditsOK'
    <2>1. policy \in Seq(Entry) /\ policy[i] \in Entry
        BY DEF HistoryOK
    <2>2. /\ ToSet(RemoveAt(policy, i)) \subseteq ToSet(policy)
          /\ ToSet(policy) \subseteq ToSet(RemoveAt(policy, i)) \cup {policy[i]}
        BY <2>1, RemoveKeeps
    <2>3. [op |-> "remove", statement |-> policy[i]] \in Done
        BY <2>1 DEF Done
    <2>4. Edit("remove", policy[i], RemoveAt(policy, i))
        BY <1>3 DEF RemoveStatement
    <2> QED BY <2>2, <2>3, <2>4, <1>1
<1>4. CASE Scan
    <2> DEFINE made == [artifact |-> policy, edits |-> edits, result |-> ToDict(AnalyzeIamPolicy(policy))]
    <2>1. scans' = Append(scans, made) /\ edits' = <<>> /\ policy' = policy
        BY <1>4 DEF Scan
    <2>2. made.artifact = policy /\ made.edits = edits
        OBVIOUS
    <2> HIDE DEF made
    <2>3. scans \in Seq(Scanned)
        BY DEF HistoryOK
    <2>4. /\ Len(scans') = Len(scans) + 1 /\ Len(scans) \in Nat
          /\ scans'[Len(scans) + 1] = made
          /\ \A k \in 1..Len(scans) : scans'[k] = scans[k]
        BY <2>1, <2>3
    <2>5. Accounted(policy, <<>>, policy)
        BY DEF Accounted
    <2>6. ASSUME NEW k \in 2..(Len(scans) + 1)
          PROVE  Accounted(scans'[k - 1].artifact, scans'[k].edits, scans'[k].artifact)
        <3>1. CASE k = Len(scans) + 1
            <4>1. scans'[k] = made /\ scans'[k - 1] = scans[Len(scans)] /\ scans # <<>>
                BY <3>1, <2>4
            <4> QED BY <4>1, <2>2 DEF EditsOK
        <3>2. CASE k \in 2..Len(scans)
            <4>1. k \in 1..Len(scans) /\ k - 1 \in 1..Len(scans)
                BY <3>2, <2>4
            <4>2. scans'[k] = scans[k] /\ scans'[k - 1] = scans[k - 1]
                BY <4>1, <2>4
            <4> QED BY <3>2, <4>2 DEF EditsOK
        <3> QED BY <3>1, <3>2, <2>4
    <2>7. Accounted(scans'[Len(scans')].artifact, edits', policy')
        BY <2>1, <2>2, <2>4, <2>5
    <2> QED BY <2>4, <2>6, <2>7 DEF EditsOK
<1>5. CASE UNCHANGED vars
    BY <1>5 DEF vars, EditsOK
<1> QED BY <1>2, <1>3, <1>4, <1>5 DEF Next

(* The stored edits account for what differs between two scans.            *)
THEOREM EditsAreAccounted == Spec => []EditsOK
<1>1. Init => EditsOK
    <2> SUFFICES ASSUME Init PROVE EditsOK
        OBVIOUS
    <2>1. scans = <<>> /\ Len(scans) = 0
        BY DEF Init
    <2> QED BY <2>1 DEF EditsOK
<1> QED BY <1>1, NextEdits, HistoryIsKept, PTL DEF Spec

(* A finding about a statement with a Sid is found wherever it stands. *)
LEMMA StaysWithStatement ==
    ASSUME NEW s, s.sid # NoSid, NEW i, NEW k, NEW f \in StatementFindings(s, i)
    PROVE  f \in StatementFindings(s, k) /\ f.location.sid = s.sid
<1>1. PICK rule, severity, evidence :
          /\ f = Finding(rule, severity, Location(s, i), evidence)
          /\ Finding(rule, severity, Location(s, k), evidence) \in StatementFindings(s, k)
    BY FiresAnywhere
<1>2. Location(s, i) = Location(s, k) /\ Location(s, i).sid = s.sid
    BY DEF Location, Located
<1>3. f.location = Location(s, i)
    BY <1>1 DEF Finding
<1> QED BY <1>1, <1>2, <1>3

(* A finding that another policy lacks is about the whole policy or about  *)
(* a statement that the other policy lacks.                                *)
LEMMA LostFindings ==
    ASSUME NEW p, OwnSids(p), NEW r, NEW f \in AnalyzeIamPolicy(p), f \notin AnalyzeIamPolicy(r)
    PROVE  \/ f \in CrossFindings(p)
           \/ \E i \in DOMAIN p : p[i] \notin ToSet(r) /\ f.location.sid = p[i].sid
<1>1. p # <<>>
    BY Zenon DEF AnalyzeIamPolicy
<1>2. ASSUME NEW i \in DOMAIN p, Allows(p[i]), f \in StatementFindings(p[i], i)
      PROVE  p[i] \notin ToSet(r) /\ f.location.sid = p[i].sid
    <2>1. p[i].sid # NoSid
        BY DEF OwnSids
    <2>2. ASSUME NEW k \in DOMAIN r, r[k] = p[i] PROVE FALSE
        <3>1. f \in StatementFindings(r[k], k)
            BY <1>2, <2>1, <2>2, StaysWithStatement
        <3>2. r # <<>>
            BY <2>2
        <3>3. f \in AnalyzeIamPolicy(r)
            BY <1>2, <2>2, <3>1, <3>2, InAnalysis
        <3> QED BY <3>3
    <2>3. f.location.sid = p[i].sid
        BY <1>2, <2>1, StaysWithStatement
    <2> QED BY <2>2, <2>3 DEF ToSet
<1> QED BY <1>1, <1>2, InAnalysis

LEMMA CrossAreCross ==
    ASSUME NEW p, NEW f \in CrossFindings(p)
    PROVE  f.location = Cross
<1>1. ~Suppressed(AllowedPatterns(p))
    BY Zenon DEF CrossFindings
<1>2. \A rule, severity, evidence : Finding(rule, severity, Cross, evidence).location = Cross
    BY DEF Finding
<1>3. \/ \E q \in Primitive : f = Finding(q, "CRITICAL", Cross, Needs[q])
      \/ \E n \in FullAdmin : f = Finding("ADMIN_EQUIVALENT", "CRITICAL", Cross, {n})
      \/ \E n \in FirstExfil(AllowedPatterns(p)) : f = Finding("DATA_EXFIL_CAPABLE", "HIGH", Cross, {n})
    BY <1>1, CrossRules
<1> QED BY <1>2, <1>3, Zenon

(* What diff_latest calls fixed, or new, is no finding of the other scan. *)
LEMMA DiffIsOfFindings ==
    ASSUME NEW F, NEW G, Graded(F), Graded(G)
    PROVE  /\ \A f \in Diff(Deduped(F), Deduped(G)).fixed : f \in F /\ f \notin G
           /\ \A f \in Diff(Deduped(F), Deduped(G)).new : f \in G /\ f \notin F
<1>1. Deduped(F) \subseteq F /\ Deduped(G) \subseteq G
    BY DEF Deduped
<1>2. /\ \A f \in F : Fingerprint(f) \in Fingerprints(Deduped(F))
      /\ \A f \in G : Fingerprint(f) \in Fingerprints(Deduped(G))
    <2>1. /\ \A f \in F : \E g \in Deduped(F) : Fingerprint(g) = Fingerprint(f)
          /\ \A f \in G : \E g \in Deduped(G) : Fingerprint(g) = Fingerprint(f)
        BY DedupKeepsWorst
    <2> QED BY <2>1, Zenon DEF Fingerprints
<1>3. /\ Diff(Deduped(F), Deduped(G)).fixed
           = {f \in Deduped(F) : Fingerprint(f) \notin Fingerprints(Deduped(G))}
      /\ Diff(Deduped(F), Deduped(G)).new
           = {f \in Deduped(G) : Fingerprint(f) \notin Fingerprints(Deduped(F))}
    BY DEF Diff
<1> QED BY <1>1, <1>2, <1>3

(* The last two scans, as policies, edits and findings. *)
LEMMA LastTwo ==
    ASSUME HistoryOK, EditsOK, Comparable
    PROVE  /\ Accounted(Older.artifact, Newer.edits, Newer.artifact)
           /\ OwnSids(Older.artifact) /\ OwnSids(Newer.artifact)
           /\ Older.artifact \in Seq(Entry) /\ Newer.artifact \in Seq(Entry)
           /\ \A f \in LatestDiff.fixed : /\ f \in AnalyzeIamPolicy(Older.artifact)
                                         /\ f \notin AnalyzeIamPolicy(Newer.artifact)
           /\ \A f \in LatestDiff.new : /\ f \in AnalyzeIamPolicy(Newer.artifact)
                                       /\ f \notin AnalyzeIamPolicy(Older.artifact)
<1>1. Len(scans) \in 2..Len(scans) /\ Len(scans) \in 1..Len(scans) /\ Len(scans) - 1 \in 1..Len(scans)
    BY DEF Comparable, HistoryOK
<1>2. Older \in Scanned /\ Newer \in Scanned
    BY <1>1 DEF HistoryOK, Older, Newer
<1>3. \A x \in Scanned : x.artifact \in Seq(Entry) /\ x.result.findings = Deduped(AnalyzeIamPolicy(x.artifact))
    BY DEF Scanned, ToDict
<1>4. LatestDiff = Diff(Deduped(AnalyzeIamPolicy(Older.artifact)), Deduped(AnalyzeIamPolicy(Newer.artifact)))
    BY <1>2, <1>3 DEF LatestDiff
<1>5. Graded(AnalyzeIamPolicy(Older.artifact)) /\ Graded(AnalyzeIamPolicy(Newer.artifact))
    BY AnalysisIsGraded
<1>6. Accounted(Older.artifact, Newer.edits, Newer.artifact)
    BY <1>1 DEF EditsOK, Older, Newer
<1>7. OwnSids(Older.artifact) /\ OwnSids(Newer.artifact)
    BY DEF Comparable
<1>8. /\ \A f \in LatestDiff.fixed : /\ f \in AnalyzeIamPolicy(Older.artifact)
                                    /\ f \notin AnalyzeIamPolicy(Newer.artifact)
      /\ \A f \in LatestDiff.new : /\ f \in AnalyzeIamPolicy(Newer.artifact)
                                  /\ f \notin AnalyzeIamPolicy(Older.artifact)
    BY <1>4, <1>5, DiffIsOfFindings
<1>9. Older.artifact \in Seq(Entry) /\ Newer.artifact \in Seq(Entry)
    BY <1>2, <1>3
<1> QED BY <1>6, <1>7, <1>8, <1>9

(* diff_latest blames no bystander, however long the policies and however  *)
(* many edits lie between two scans (findings.py:84-87, store.py:200-209). *)
THEOREM BystandersStay == Spec => []DiffIsLocal
<1>1. HistoryOK /\ EditsOK => DiffIsLocal
    <2> SUFFICES ASSUME HistoryOK, EditsOK, Comparable,
                        NEW f \in LatestDiff.fixed \cup LatestDiff.new, f.location # Cross
                 PROVE  \E k \in DOMAIN Newer.edits : f.location.sid = Newer.edits[k].statement.sid
        BY DEF DiffIsLocal
    <2> DEFINE p == Older.artifact
               r == Newer.artifact
               es == Newer.edits
    <2>1. /\ Accounted(p, es, r) /\ OwnSids(p) /\ OwnSids(r)
          /\ \/ f \in AnalyzeIamPolicy(p) /\ f \notin AnalyzeIamPolicy(r)
             \/ f \in AnalyzeIamPolicy(r) /\ f \notin AnalyzeIamPolicy(p)
        BY LastTwo
    <2> HIDE DEF p, r, es
    <2>2. PICK s : f.location.sid = s.sid /\ s \in (ToSet(p) \ ToSet(r)) \cup (ToSet(r) \ ToSet(p))
        <3>1. f \notin CrossFindings(p) /\ f \notin CrossFindings(r)
            BY CrossAreCross
        <3>2. CASE f \in AnalyzeIamPolicy(p) /\ f \notin AnalyzeIamPolicy(r)
            <4>1. PICK i \in DOMAIN p : p[i] \notin ToSet(r) /\ f.location.sid = p[i].sid
                BY <2>1, <3>1, <3>2, LostFindings
            <4> QED BY <4>1 DEF ToSet
        <3>3. CASE f \in AnalyzeIamPolicy(r) /\ f \notin AnalyzeIamPolicy(p)
            <4>1. PICK i \in DOMAIN r : r[i] \notin ToSet(p) /\ f.location.sid = r[i].sid
                BY <2>1, <3>1, <3>3, LostFindings
            <4> QED BY <4>1 DEF ToSet
        <3> QED BY <2>1, <3>2, <3>3
    <2>3. s \in Edited(es)
        BY <2>1, <2>2 DEF Accounted
    <2>4. \E k \in DOMAIN es : f.location.sid = es[k].statement.sid
        BY <2>2, <2>3 DEF Edited
    <2> QED BY <2>4 DEF es
<1> QED BY <1>1, HistoryIsKept, EditsAreAccounted, PTL

(* Removing statements brings nothing new but what the engine had held     *)
(* back (iam_engine.py:264, 310).                                          *)
THEOREM RemovalsBringNothing == Spec => []NewNeedsAGrant
<1>1. HistoryOK /\ EditsOK => NewNeedsAGrant
    <2> SUFFICES ASSUME HistoryOK, EditsOK, Comparable,
                        \A k \in DOMAIN Newer.edits : Newer.edits[k].op = "remove",
                        NEW f \in LatestDiff.new
                 PROVE  /\ f.location = Cross
                        /\ \/ \E i \in DOMAIN Older.artifact :
                                 Allows(Older.artifact[i]) /\ Global \in Older.artifact[i].actions
                           \/ f.rule = "DATA_EXFIL_CAPABLE"
        BY DEF NewNeedsAGrant
    <2> DEFINE p == Older.artifact
               r == Newer.artifact
               P == AllowedPatterns(p)
               R == AllowedPatterns(r)
    <2>1. /\ ToSet(r) \subseteq ToSet(p) /\ OwnSids(r) /\ r \in Seq(Entry)
          /\ f \in AnalyzeIamPolicy(r) /\ f \notin AnalyzeIamPolicy(p)
        BY LastTwo DEF Accounted
    <2> HIDE DEF p, r
    <2>2. f \in CrossFindings(r)
        <3>1. \A i \in DOMAIN r : r[i] \in ToSet(p)
            BY <2>1 DEF ToSet
        <3> QED BY <2>1, <3>1, LostFindings
    <2>3. f.location = Cross
        BY <2>2, CrossAreCross
    <2>4. Includes(p, r)
        BY <2>1 DEF ToSet, Includes
    <2>5. R \subseteq P
        BY <2>4 DEF Includes, AllowedPatterns
    <2>6. \A n : ActionMatches(R, n) => ActionMatches(P, n)
        BY <2>5 DEF ActionMatches
    <2>7. CASE Suppressed(P)
        <3>1. PICK i \in DOMAIN p : Allows(p[i]) /\ Global \in p[i].actions
            BY <2>7 DEF Suppressed, AllowedPatterns
        <3> QED BY <2>3, <3>1 DEF p
    <2>8. CASE ~Suppressed(P)
        <3>1. ~Suppressed(R)
            BY <2>5, <2>8 DEF Suppressed
        <3>2. p # <<>>
            <4>1. r # <<>>
                BY <2>1, Zenon DEF AnalyzeIamPolicy
            <4>2. 1 \in DOMAIN r
                BY <2>1, <4>1
            <4>3. \E k \in DOMAIN p : p[k] = r[1]
                BY <2>4, <4>2 DEF Includes
            <4> QED BY <4>3
        <3>3. f \notin CrossFindings(p)
            BY <2>1, <3>2, InAnalysis
        <3> HIDE DEF P, R
        <3>4. ~(\E q \in Primitive : /\ \A n \in Needs[q] : ActionMatches(R, n)
                                    /\ f = Finding(q, "CRITICAL", Cross, Needs[q]))
            BY <2>6, <2>8, <3>3, CrossRules DEF P
        <3>5. ~(\E n \in FullAdmin : /\ ActionMatches(R, n)
                                    /\ f = Finding("ADMIN_EQUIVALENT", "CRITICAL", Cross, {n}))
            BY <2>6, <2>8, <3>3, CrossRules DEF P
        <3>6. \E n : f = Finding("DATA_EXFIL_CAPABLE", "HIGH", Cross, {n})
            BY <2>2, <3>1, <3>4, <3>5, CrossRules DEF R
        <3>7. f.rule = "DATA_EXFIL_CAPABLE"
            BY <3>6 DEF Finding
        <3> QED BY <2>3, <3>7
    <2> QED BY <2>7, <2>8
<1> QED BY <1>1, HistoryIsKept, EditsAreAccounted, PTL
=============================================================================
