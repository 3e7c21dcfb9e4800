-------------------------- MODULE GuardrailProofs --------------------------
(***************************************************************************)
(* What the CI gate promises for every checkout, plan and command line:    *)
(* its three outputs agree, and a build that passes is clean.  The program *)
(* walks a list that grows under way, twice; what it has collected in the  *)
(* end is described without it, as Final, and every output as a function   *)
(* of Final.                                                               *)
(***************************************************************************)
EXTENDS Guardrail, WellFoundedInduction, SequenceTheorems, TLAPS

LEMMA LeastNatural ==
    ASSUME NEW S \in SUBSET Nat, S # {}
    PROVE  \E n \in S : \A m \in S : n <= m
<1>1. \E n \in S : \A m \in S : ~(<<m, n>> \in OpToRel(<, Nat))
    BY NatLessThanWellFounded, WFMin
<1>2. PICK n \in S : \A m \in S : ~(<<m, n>> \in OpToRel(<, Nat))
    BY <1>1
<1>3. \A m \in S : ~(m < n)
    BY <1>2 DEF OpToRel
<1> QED BY <1>3

(* FlattenSeq of sequences is a sequence: the function it is made with     *)
(* exists, for a least index without one leads to a contradiction.         *)
LEMMA FlattenIsSeq ==
    ASSUME NEW S, NEW s \in Seq(Seq(S))
    PROVE  FlattenSeq(s) \in Seq(S)
<1> DEFINE N == Len(s)
           made(f) == [i \in 1..N |-> IF i = 1 THEN s[i] ELSE f[i - 1] \o s[i]]
           flatten == CHOOSE f : f = made(f)
           steps(f, n) == \A i \in 1..n : f[i] = IF i = 1 THEN s[i] ELSE f[i - 1] \o s[i]
           P(n) == \E f \in [1..n -> Seq(S)] : steps(f, n)
<1>1. CASE N = 0
    <2>1. s = <<>>
        BY <1>1
    <2> QED BY <1>1, <2>1 DEF FlattenSeq
<1>2. CASE N # 0
    <2>1. N \in Nat /\ N >= 1 /\ \A i \in 1..N : s[i] \in Seq(S)
        BY <1>2
    <2> HIDE DEF N
    <2>2. \A n \in 1..N : P(n)
        <3> DEFINE bad == {n \in 1..N : ~P(n)}
        <3> SUFFICES ASSUME bad # {} PROVE FALSE
            OBVIOUS
        <3>1. bad \in SUBSET Nat
            BY <2>1
        <3>2. PICK n \in bad : \A m \in bad : n <= m
            BY <3>1, LeastNatural
        <3>3. n \in 1..N /\ ~P(n)
            BY <3>2
        <3>4. n # 1
            <4> DEFINE f == [i \in 1..1 |-> s[1]]
            <4>1. f \in [1..1 -> Seq(S)] /\ steps(f, 1)
                BY <2>1
            <4>2. P(1)
                BY <4>1
            <4> QED BY <3>3, <4>2
        <3>5. n - 1 \in 1..N /\ n \in Nat
            BY <2>1, <3>3, <3>4
        <3>6. P(n - 1)
            <4> HIDE DEF P
            <4> QED BY <3>2, <3>5
        <3>7. PICK f \in [1..(n - 1) -> Seq(S)] : steps(f, n - 1)
            BY <3>6
        <3> DEFINE last == f[n - 1] \o s[n]
                   g == [i \in 1..n |-> IF i < n THEN f[i] ELSE last]
        <3>8. last \in Seq(S)
            BY <2>1, <3>3, <3>5, <3>7
        <3> HIDE DEF last
        <3>9. \A i \in 1..n : i = n \/ (i \in 1..(n - 1) /\ i < n)
            BY <3>5
        <3>10. g \in [1..n -> Seq(S)]
            <4>1. \A i \in 1..n : (IF i < n THEN f[i] ELSE last) \in Seq(S)
                BY <3>7, <3>8, <3>9
            <4> QED BY <4>1
        <3>11. /\ g[n] = last
               /\ \A i \in 1..(n - 1) : g[i] = f[i]
            BY <3>5
        <3> HIDE DEF g
        <3>12. steps(g, n)
            <4> SUFFICES ASSUME NEW i \in 1..n
                         PROVE  g[i] = IF i = 1 THEN s[i] ELSE g[i - 1] \o s[i]
                OBVIOUS
            <4>1. CASE i = n
                <5>1. i # 1 /\ g[i] = last
                    BY <3>4, <3>11, <4>1
                <5>2. n - 1 \in 1..(n - 1)
                    BY <3>5
                <5>3. g[n - 1] = f[n - 1]
                    BY <5>2, <3>11
                <5> QED BY <4>1, <5>1, <5>3 DEF last
            <4>2. CASE i \in 1..(n - 1)
                <5>1. i = 1 \/ i - 1 \in 1..(n - 1)
                    BY <4>2
                <5> QED BY <3>7, <3>11, <4>2, <5>1
            <4> QED BY <3>9, <4>1, <4>2
        <3> QED BY <3>3, <3>10, <3>12
    <2>3. \E f : f = made(f)
        <3>1. P(N)
            <4>1. N \in 1..N
                BY <2>1
            <4> HIDE DEF P
            <4> QED BY <4>1, <2>2
        <3>2. PICK f \in [1..N -> Seq(S)] : steps(f, N)
            BY <3>1
        <3>3. f = [i \in 1..N |-> f[i]] /\ \A i \in 1..N : made(f)[i] = f[i]
            BY <3>2
        <3>4. made(f) = [i \in 1..N |-> made(f)[i]]
            OBVIOUS
        <3>5. f = made(f)
            <4> HIDE DEF made
            <4> QED BY <3>3, <3>4
        <3> QED BY <3>5
    <2>4. flatten = made(flatten)
        <3> HIDE DEF made
        <3> QED BY <2>3
    <2> HIDE DEF flatten
    <2>5. \A i \in 1..N : flatten[i] = IF i = 1 THEN s[i] ELSE flatten[i - 1] \o s[i]
        BY <2>4
    <2>6. \A n \in 1..N : flatten[n] \in Seq(S)
        <3> DEFINE bad == {n \in 1..N : flatten[n] \notin Seq(S)}
        <3> SUFFICES ASSUME bad # {} PROVE FALSE
            OBVIOUS
        <3>1. bad \in SUBSET Nat
            BY <2>1
        <3>2. PICK n \in bad : \A m \in bad : n <= m
            BY <3>1, LeastNatural
        <3>3. n \in 1..N /\ flatten[n] \notin Seq(S)
            BY <3>2
        <3>4. n # 1
            BY <2>1, <2>5, <3>3
        <3>5. n - 1 \in 1..N /\ n \in Nat
            BY <2>1, <3>3, <3>4
        <3>6. flatten[n - 1] \in Seq(S) /\ s[n] \in Seq(S)
            BY <2>1, <3>2, <3>3, <3>5
        <3>7. flatten[n] = flatten[n - 1] \o s[n]
            BY <2>5, <3>3, <3>4
        <3> QED BY <3>3, <3>6, <3>7
    <2>7. FlattenSeq(s) = flatten[N]
        BY <1>2 DEF FlattenSeq, flatten, N
    <2> QED BY <2>1, <2>6, <2>7
<1> QED BY <1>1, <1>2

-----------------------------------------------------------------------------
(* Every engine gives its findings a severity, whatever it is given.       *)

Graded(F) == \A f \in F : f.severity \in Severity

LEMMA RankType == \A s \in Severity : Rank[s] \in 0..4
BY DEF Rank, Severity

LEMMA FindingHasSeverity ==
    ASSUME NEW rule, NEW severity, NEW at, NEW evidence
    PROVE  Finding(rule, severity, at, evidence).severity = severity
BY DEF Finding

LEMMA FindingIsGraded ==
    \A severity \in Severity : \A rule, at, evidence :
        Finding(rule, severity, at, evidence).severity \in Severity
BY FindingHasSeverity

LEMMA NamesAreSeverities == "CRITICAL" \in Severity /\ "HIGH" \in Severity /\ "MEDIUM" \in Severity
BY DEF Severity, Rank

LEMMA UnionIsGraded ==
    ASSUME NEW F, NEW G, Graded(F), Graded(G)
    PROVE  Graded(F \cup G)
BY DEF Graded

LEMMA WhenIsGraded ==
    ASSUME NEW c, NEW rule, NEW severity \in Severity, NEW at, NEW evidence
    PROVE  Graded(When(c, Finding(rule, severity, at, evidence)))
<1>1. \A f \in When(c, Finding(rule, severity, at, evidence)) : f = Finding(rule, severity, at, evidence)
    BY DEF When
<1> QED BY <1>1, FindingHasSeverity DEF Graded

LEMMA AzureIsGraded ==
    ASSUME NEW role
    PROVE  Graded(AnalyzeAzureRole(role))
<1> DEFINE blocks == UNION {BlockFindings(b, role.name) : b \in Objects(role)}
<1>1. ASSUME NEW b, NEW at PROVE Graded(BlockFindings(b, at))
    <2> DEFINE A == When(AllActions \in b.actions, Finding("AZ.WILDCARD_ACTION_ALL", "CRITICAL", at, {}))
               B == When(AllActions \in b.dataActions,
                         Finding("AZ.WILDCARD_DATAACTION_ALL", "HIGH", at, {}))
               C == When(AllActions \in b.actions /\ b.notActions # {},
                         Finding("AZ.NOTACTIONS_TRAP", "HIGH", at, b.notActions))
    <2>1. BlockFindings(b, at) = A \cup B \cup C
        BY Zenon DEF BlockFindings
    <2>2. Graded(A) /\ Graded(B) /\ Graded(C)
        BY WhenIsGraded, NamesAreSeverities, Zenon
    <2> HIDE DEF A, B, C
    <2> QED BY <2>1, <2>2, UnionIsGraded
<1>2. Graded(blocks)
    BY <1>1, Zenon DEF Graded
<1>3. Graded(EscalationFindings(role))
    BY FindingIsGraded, NamesAreSeverities, Zenon DEF Graded, EscalationFindings
<1>4. Graded(ScopeFindings(role))
    BY FindingIsGraded, NamesAreSeverities, Zenon DEF Graded, ScopeFindings
<1> HIDE DEF blocks
<1>5. Graded(blocks \cup EscalationFindings(role) \cup ScopeFindings(role))
    BY <1>2, <1>3, <1>4, UnionIsGraded
<1>6. Graded({})
    BY DEF Graded
<1>7. \/ AnalyzeAzureRole(role) = {}
      \/ AnalyzeAzureRole(role) = blocks \cup EscalationFindings(role) \cup ScopeFindings(role)
    BY Zenon DEF AnalyzeAzureRole, blocks
<1> QED BY <1>5, <1>6, <1>7

(* The findings about one binding: its members, and its role. *)
LEMMA BindingIsGraded ==
    ASSUME NEW b
    PROVE  Graded(PublicFindings(b)) /\ Graded(RoleFindings(b))
<1>1. Graded(PublicFindings(b))
    <2>1. ASSUME NEW f \in PublicFindings(b) PROVE f.severity \in Severity
        <3>1. f.severity = IF b.condition THEN "HIGH" ELSE "CRITICAL"
            BY DEF PublicFindings, Finding
        <3> QED BY <3>1, NamesAreSeverities
    <2> QED BY <2>1 DEF Graded
<1>2. Graded(RoleFindings(b))
    <2>1. CASE b.role = Owner
        <3>1. RoleFindings(b) = {Finding("GCP.PRIMITIVE_ROLE", "CRITICAL", b.role, {b.role})}
            BY <2>1, GcpAssumption DEF RoleFindings
        <3> QED BY <3>1, FindingHasSeverity, NamesAreSeverities DEF Graded
    <2>2. CASE b.role = Editor
        <3>1. RoleFindings(b) = {Finding("GCP.PRIMITIVE_ROLE", "HIGH", b.role, {b.role})}
            BY <2>2, GcpAssumption DEF RoleFindings
        <3> QED BY <3>1, FindingHasSeverity, NamesAreSeverities DEF Graded
    <2>3. CASE b.role # Owner /\ b.role # Editor
        <3>1. RoleFindings(b) = When(b.role \in EscalationRole,
                                     Finding("GCP.ESC_ROLE", "CRITICAL", b.role, {b.role}))
            BY <2>3 DEF RoleFindings
        <3> QED BY <3>1, WhenIsGraded, NamesAreSeverities
    <2> QED BY <2>1, <2>2, <2>3
<1> QED BY <1>1, <1>2

LEMMA GcpIsGraded ==
    ASSUME NEW bindings, NEW included
    PROVE  Graded(AnalyzeGcpPolicy(bindings, included))
<1>1. Graded(PermissionFindings(included))
    BY FindingIsGraded, NamesAreSeverities, Zenon DEF Graded, PermissionFindings
<1>2. Graded(UNION {PublicFindings(b) \cup RoleFindings(b) : b \in bindings \ {NotABinding}})
    BY BindingIsGraded, UnionIsGraded, Zenon DEF Graded
<1> QED BY <1>1, <1>2, UnionIsGraded, Zenon DEF AnalyzeGcpPolicy

LEMMA StatementsAreGraded ==
    ASSUME NEW s, NEW i
    PROVE  Graded(StatementFindings(s, i))
<1> DEFINE at == Location(s, i)
           all == Global \in s.actions
           A == When(all, Finding("WILDCARD_ACTION_ALL", "CRITICAL", at, {}))
           B == {Finding("WILDCARD_ACTION_SERVICE",
                         IF p \in AdminService THEN "CRITICAL" ELSE "HIGH", at, {p})
                   : p \in s.actions \cap ServiceWildcard}
           C == When(s.anyResource /\ s.actions # {} /\ ~all,
                     Finding("WILDCARD_RESOURCE", "HIGH", at, {}))
           D == When(s.notActions # {}, Finding("NOTACTION_ALLOW", "HIGH", at, s.notActions))
           E == When(s.anyPrincipal,
                     Finding("WILDCARD_PRINCIPAL", IF s.condition THEN "MEDIUM" ELSE "CRITICAL", at, {}))
           F == When(ActionMatches(s.actions, AssumeRole) /\ ~s.condition,
                     Finding("ASSUMEROLE_NO_CONDITION", "MEDIUM", at, {}))
           G == When(ActionMatches(s.actions, PassRole) /\ s.anyResource,
                     Finding("PASSROLE_WILDCARD", "HIGH", at, {}))
<1>1. StatementFindings(s, i) = A \cup B \cup C \cup D \cup E \cup F \cup G
    BY Zenon DEF StatementFindings
<1>2. /\ (IF s.condition THEN "MEDIUM" ELSE "CRITICAL") \in Severity
      /\ \A p : (IF p \in AdminService THEN "CRITICAL" ELSE "HIGH") \in Severity
    BY NamesAreSeverities
<1>3. /\ Graded(A) /\ Graded(C) /\ Graded(D)
      /\ Graded(E) /\ Graded(F) /\ Graded(G)
    BY <1>2, WhenIsGraded, NamesAreSeverities, Zenon
<1>4. Graded(B)
    BY <1>2, FindingIsGraded, Zenon DEF Graded
<1> HIDE DEF A, B, C, D, E, F, G
<1> QED BY <1>1, <1>3, <1>4, UnionIsGraded

LEMMA CrossIsGraded ==
    ASSUME NEW p
    PROVE  Graded(CrossFindings(p))
<1>1. Graded({})
    BY DEF Graded
<1> DEFINE patterns == AllowedPatterns(p)
           A == {Finding(q, "CRITICAL", Cross, Needs[q])
                   : q \in {r \in Primitive : \A n \in Needs[r] : ActionMatches(patterns, n)}}
           B == {Finding("ADMIN_EQUIVALENT", "CRITICAL", Cross, {n})
                   : n \in {m \in FullAdmin : ActionMatches(patterns, m)}}
           C == {Finding("DATA_EXFIL_CAPABLE", "HIGH", Cross, {n})
                   : n \in IF \E i \in DOMAIN p : Allows(p[i]) /\ p[i].anyResource
                           THEN FirstExfil(patterns) ELSE {}}
<1>2. CrossFindings(p) = {} \/ CrossFindings(p) = A \cup B \cup C
    BY Zenon DEF CrossFindings
<1>3. Graded(A) /\ Graded(B) /\ Graded(C)
    BY FindingIsGraded, NamesAreSeverities, Zenon DEF Graded
<1> HIDE DEF A, B, C
<1> QED BY <1>1, <1>2, <1>3, UnionIsGraded

LEMMA AwsIsGraded ==
    ASSUME NEW p
    PROVE  Graded(AnalyzeIamPolicy(p))
<1> DEFINE each == UNION {StatementFindings(p[i], i) : i \in {j \in DOMAIN p : Allows(p[j])}}
<1>1. Graded({}) /\ Graded(each)
    BY StatementsAreGraded, Zenon DEF Graded
<1>2. AnalyzeIamPolicy(p) = {} \/ AnalyzeIamPolicy(p) = each \cup CrossFindings(p)
    BY Zenon DEF AnalyzeIamPolicy
<1> HIDE DEF each
<1> QED BY <1>1, <1>2, CrossIsGraded, UnionIsGraded

LEMMA AnalysisIsGraded ==
    ASSUME NEW doc, NEW provider
    PROVE  Graded(AnalyzePolicy(doc, provider))
<1>1. \/ AnalyzePolicy(doc, provider) = AnalyzeAzureRole(RoleOf(doc))
      \/ AnalyzePolicy(doc, provider)
           = AnalyzeGcpPolicy(Get(doc, "bindings", {}), Get(doc, "includedPermissions", {}))
      \/ AnalyzePolicy(doc, provider) = AnalyzeIamPolicy(Get(doc, "Statement", <<>>))
    BY DEF AnalyzePolicy
<1> QED BY <1>1, AzureIsGraded, GcpIsGraded, AwsIsGraded

-----------------------------------------------------------------------------
(* Plans.                                                                  *)

PlanOf(j) == j.tfplan \notin {NoArgument, Missing, Malformed}

KnownType == AwsType \cup GrantType \cup {"azurerm_role_definition", "google_project_iam_custom_role"}

(* The branches of the extractor exclude each other. *)
LEMMA ExtractByType ==
    ASSUME NEW r
    PROVE  /\ r.type \in PolicyType =>
                Extract(r) = [provider |-> "aws", policies |-> LoadJsonPolicy(r.values, "policy")]
           /\ r.type = "aws_iam_role" =>
                Extract(r) = [provider |-> "aws", policies |-> LoadJsonPolicy(r.values, "assume_role_policy")]
           /\ r.type = "azurerm_role_definition" =>
                Extract(r) = [provider |-> "azure", policies |-> AzurePolicy(r.values)]
           /\ r.type = "google_project_iam_custom_role" =>
                Extract(r) = [provider |-> "gcp", policies |-> CustomRole(r.values)]
           /\ r.type \in GrantType => Extract(r) = [provider |-> "gcp", policies |-> Grant(r.values)]
           /\ r.type \notin KnownType => Extract(r) = [provider |-> "none", policies |-> {}]
<1>1. r.type \in PolicyType =>
        Extract(r) = [provider |-> "aws", policies |-> LoadJsonPolicy(r.values, "policy")]
    BY GrantTypeAssumption DEF Extract, PolicyType, AwsType
<1>2. r.type = "aws_iam_role" =>
        Extract(r) = [provider |-> "aws", policies |-> LoadJsonPolicy(r.values, "assume_role_policy")]
    BY GrantTypeAssumption DEF Extract, PolicyType, AwsType
<1>3. r.type = "azurerm_role_definition" =>
        Extract(r) = [provider |-> "azure", policies |-> AzurePolicy(r.values)]
    BY GrantTypeAssumption DEF Extract, PolicyType, AwsType
<1>4. r.type = "google_project_iam_custom_role" =>
        Extract(r) = [provider |-> "gcp", policies |-> CustomRole(r.values)]
    BY GrantTypeAssumption DEF Extract, PolicyType, AwsType
<1>5. r.type \in GrantType => Extract(r) = [provider |-> "gcp", policies |-> Grant(r.values)]
    BY GrantTypeAssumption DEF Extract, PolicyType, AwsType
<1>6. r.type \notin KnownType => Extract(r) = [provider |-> "none", policies |-> {}]
    BY DEF Extract, KnownType, AwsType
<1> QED BY <1>1, <1>2, <1>3, <1>4, <1>5, <1>6

(* What is extracted for a resource is detected as of its provider, unless *)
(* it is an AWS policy with a key of another cloud.                        *)
LEMMA ExtractedIsDetected ==
    ASSUME NEW j \in Jobs, PlanOf(j), NEW r \in Resources(j.tfplan), NEW doc \in Extract(r).policies
    PROVE  /\ Extract(r).provider \in {"aws", "azure", "gcp"}
           /\ \/ DetectProvider(doc) = Extract(r).provider
              \/ Extract(r).provider = "aws" /\ HasForeignKey(doc)
<1>1. doc # NotAnObject
    BY PlanAssumption DEF PlanOf
<1>2. CASE r.type \in AwsType
    <2>1. Extract(r).provider = "aws"
        BY <1>2, ExtractByType DEF AwsType
    <2>2. CASE ~HasForeignKey(doc)
        <3>1. ~LooksLikeGcp(doc)
            BY <2>2 DEF HasForeignKey, LooksLikeGcp
        <3>2. ~LooksLikeAzure(doc)
            BY <2>2 DEF HasForeignKey, LooksLikeAzure, Properties, Get
        <3> QED BY <1>1, <2>1, <3>1, <3>2 DEF DetectProvider
    <2> QED BY <2>1, <2>2
<1>3. CASE r.type = "azurerm_role_definition"
    <2>1. Extract(r) = [provider |-> "azure", policies |-> AzurePolicy(r.values)]
        BY <1>3, ExtractByType
    <2>2. PICK perms \in {Get(r.values, "permissions", {})} \ {{}} :
              doc = [properties |-> [roleName         |-> Get(r.values, "name", "tf-role"),
                                     permissions      |-> perms \ {NotABlock},
                                     assignableScopes |-> Get(r.values, "assignable_scopes", {})]]
        BY <2>1 DEF AzurePolicy
    <2>3. ~LooksLikeGcp(doc)
        BY <2>2 DEF LooksLikeGcp
    <2>4. LooksLikeAzure(doc)
        <3>1. /\ "permissions" \in DOMAIN Properties(doc) /\ "assignableScopes" \in DOMAIN Properties(doc)
              /\ Properties(doc).permissions = perms \ {NotABlock}
            BY <2>2 DEF Properties, Get
        <3>2. Properties(doc).permissions # Unusable
            <4>1. perms \ {NotABlock} # Unusable
                BY <1>3, PlanAssumption DEF PlanOf
            <4> QED BY <3>1, <4>1
        <3> QED BY <3>1, <3>2 DEF LooksLikeAzure, MentionsAzure
    <2> QED BY <1>1, <2>1, <2>3, <2>4 DEF DetectProvider
<1>4. CASE r.type = "google_project_iam_custom_role"
    <2>1. Extract(r) = [provider |-> "gcp", policies |-> CustomRole(r.values)]
        BY <1>4, ExtractByType
    <2>2. LooksLikeGcp(doc)
        BY <2>1 DEF CustomRole, LooksLikeGcp
    <2> QED BY <1>1, <2>1, <2>2 DEF DetectProvider
<1>5. CASE r.type \in GrantType
    <2>1. Extract(r) = [provider |-> "gcp", policies |-> Grant(r.values)]
        BY <1>5, ExtractByType
    <2>2. LooksLikeGcp(doc)
        BY <2>1 DEF Grant, LooksLikeGcp
    <2> QED BY <1>1, <2>1, <2>2 DEF DetectProvider
<1>6. CASE r.type \notin KnownType
    BY <1>6, ExtractByType
<1> QED BY <1>2, <1>3, <1>4, <1>5, <1>6 DEF KnownType

(* What the extractor and the judge of its work have in common. *)
Covered(r, f) ==
    \E got \in Extract(r).policies : \E g \in AnalyzePolicy(got, Extract(r).provider) :
        Rank[f.severity] <= Rank[g.severity]

LEMMA SameIsCovered ==
    ASSUME NEW r, NEW got \in Extract(r).policies, NEW f \in AnalyzePolicy(got, Extract(r).provider)
    PROVE  Covered(r, f)
<1>1. f.severity \in Severity
    BY AnalysisIsGraded DEF Graded
<1>2. Rank[f.severity] <= Rank[f.severity]
    BY <1>1, RankType
<1> QED BY <1>2 DEF Covered

LEMMA AwsIsCovered ==
    ASSUME NEW r, r.type \in AwsType, NEW d \in Deployed(r), NEW f \in AnalyzePolicy(d.policy, d.provider)
    PROVE  Covered(r, f)
<1> DEFINE attribute == IF r.type = "aws_iam_role" THEN "assume_role_policy" ELSE "policy"
<1>1. PICK key \in {attribute} \cap DOMAIN r.values :
          r.values[key] # Broken /\ d = [provider |-> "aws", policy |-> r.values[key]]
    <2>1. Deployed(r) = {[provider |-> "aws", policy |-> r.values[key]]
                            : key \in {k \in {attribute} \cap DOMAIN r.values : r.values[k] # Broken}}
        <3>1. r.type \notin GrantType \cup {"azurerm_role_definition", "google_project_iam_custom_role"}
            BY GrantTypeAssumption DEF AwsType, PolicyType
        <3> QED BY <3>1 DEF Deployed
    <2> HIDE DEF attribute
    <2> QED BY <2>1
<1>2. Extract(r) = [provider |-> "aws", policies |-> LoadJsonPolicy(r.values, attribute)]
    BY ExtractByType DEF AwsType, PolicyType
<1> HIDE DEF attribute
<1>3. d.policy \in Extract(r).policies /\ d.provider = Extract(r).provider
    BY <1>1, <1>2 DEF LoadJsonPolicy
<1> QED BY <1>3, SameIsCovered

(* The role that was extracted, under properties, and the role as listed   *)
(* are one to the engine.                                                  *)
LEMMA AzureIsCovered ==
    ASSUME NEW r, r.type = "azurerm_role_definition", NEW d \in Deployed(r),
           NEW f \in AnalyzePolicy(d.policy, d.provider)
    PROVE  Covered(r, f)
<1> DEFINE n == Get(r.values, "name", "tf-role")
           perms == Get(r.values, "permissions", {})
           s == Get(r.values, "assignable_scopes", {})
           flat == [roleName |-> n, permissions |-> perms \ {NotABlock}, assignableScopes |-> s]
           got == [properties |-> flat]
           role == [name |-> n, permissions |-> perms \ {NotABlock}, scopes |-> s]
<1>1. d = [provider |-> "azure", policy |-> flat]
    BY GrantTypeAssumption DEF Deployed, AwsType, PolicyType
<1>2. Extract(r) = [provider |-> "azure", policies |-> AzurePolicy(r.values)]
    BY ExtractByType
<1>3. perms # {} => got \in Extract(r).policies
    <2>1. AzurePolicy(r.values) =
            {[properties |-> [roleName |-> n, permissions |-> p \ {NotABlock}, assignableScopes |-> s]]
                : p \in {perms} \ {{}}}
        BY DEF AzurePolicy
    <2> HIDE DEF n, perms, s
    <2>2. perms # {} => got \in AzurePolicy(r.values)
        BY <2>1
    <2> QED BY <1>2, <2>2
<1> HIDE DEF n, perms, s
<1>4. RoleOf(flat) = role /\ RoleOf(got) = role
    <2>1. Properties(flat) = flat /\ Properties(got) = flat
        BY DEF Properties, Get
    <2>2. /\ \A x : Get(flat, "roleName", x) = n
          /\ Get(flat, "permissions", {}) = perms \ {NotABlock}
          /\ Get(flat, "assignableScopes", {}) = s
        BY DEF Get
    <2> HIDE DEF flat, got
    <2> QED BY <2>1, <2>2 DEF RoleOf
<1> HIDE DEF flat, got, role
<1>5. AnalyzePolicy(d.policy, d.provider) = AnalyzeAzureRole(role)
    BY <1>1, <1>4 DEF AnalyzePolicy, Resolved
<1>6. AnalyzePolicy(got, Extract(r).provider) = AnalyzeAzureRole(role)
    BY <1>2, <1>4 DEF AnalyzePolicy, Resolved
<1>7. perms # {}
    <2>1. perms = {} => role.permissions = {}
        BY DEF role
    <2>2. role.permissions = {} => AnalyzeAzureRole(role) = {}
        BY DEF AnalyzeAzureRole
    <2> QED BY <1>5, <2>1, <2>2
<1> QED BY <1>3, <1>5, <1>6, <1>7, SameIsCovered

LEMMA CustomRoleIsCovered ==
    ASSUME NEW r, r.type = "google_project_iam_custom_role", NEW d \in Deployed(r),
           NEW f \in AnalyzePolicy(d.policy, d.provider)
    PROVE  Covered(r, f)
<1> DEFINE perms == Get(r.values, "permissions", {})
           got == [includedPermissions |-> perms]
<1>1. d = [provider |-> "gcp", policy |-> got]
    BY GrantTypeAssumption DEF Deployed, AwsType, PolicyType
<1>2. Extract(r) = [provider |-> "gcp", policies |-> CustomRole(r.values)]
    BY ExtractByType
<1>3. perms # {} => got \in Extract(r).policies
    BY <1>2 DEF CustomRole
<1> HIDE DEF perms
<1>4. perms # {}
    <2>1. Get(got, "bindings", {}) = {} /\ Get(got, "includedPermissions", {}) = perms
        BY DEF Get
    <2> HIDE DEF got
    <2>2. AnalyzePolicy(d.policy, d.provider) = AnalyzeGcpPolicy({}, perms)
        BY <1>1, <2>1 DEF AnalyzePolicy, Resolved
    <2>3. AnalyzeGcpPolicy({}, {}) = {}
        BY DEF AnalyzeGcpPolicy, PermissionFindings
    <2> QED BY <2>2, <2>3
<1> HIDE DEF got
<1>5. d.policy = got /\ d.provider = Extract(r).provider
    BY <1>1, <1>2
<1> QED BY <1>3, <1>4, <1>5, SameIsCovered

(* The grant without its condition is judged no milder than the one with   *)
(* it.                                                                     *)
LEMMA GrantIsCovered ==
    ASSUME NEW j \in Jobs, PlanOf(j), NEW r \in Resources(j.tfplan), r.type \in GrantType,
           NEW d \in Deployed(r), NEW f \in AnalyzePolicy(d.policy, d.provider)
    PROVE  Covered(r, f)
<1> DEFINE v == r.values
           members == MembersOf(v)
           live == [role |-> v["role"], members |-> members, condition |-> Get(v, "condition", FALSE)]
           bare == [role |-> v["role"], members |-> members, condition |-> FALSE]
           got == [bindings |-> {bare}]
<1>1. /\ Get(v, "role", Owner) \in GcpRole
      /\ Get(v, "members", {}) \cup Get(v, "member", {}) \subseteq Member
      /\ {} \in {Get(v, "members", {}), Get(v, "member", {})}
      /\ Get(v, "condition", FALSE) \in BOOLEAN
    BY PlanAssumption DEF PlanOf
<1>2. members = Get(v, "members", {}) \cup Get(v, "member", {})
    <2>1. CASE Get(v, "members", {}) # {}
        <3>1. Get(v, "members", {}) = v.members
            BY <2>1 DEF Get
        <3> QED BY <1>1, <2>1, <3>1 DEF MembersOf
    <2>2. CASE Get(v, "members", {}) = {}
        BY <2>2 DEF MembersOf
    <2> QED BY <2>1, <2>2
<1>3. "role" \in DOMAIN v /\ d = [provider |-> "gcp", policy |-> [bindings |-> {live}]]
    <2>1. Deployed(r) = {[provider |-> "gcp",
                          policy   |-> [bindings |-> {[role      |-> v[key],
                                                       members   |-> Get(v, "members", {}) \cup Get(v, "member", {}),
                                                       condition |-> Get(v, "condition", FALSE)]}]]
                            : key \in {"role"} \cap DOMAIN v}
        BY GrantTypeAssumption DEF Deployed
    <2>2. PICK key \in {"role"} \cap DOMAIN v :
              d = [provider |-> "gcp",
                   policy   |-> [bindings |-> {[role      |-> v[key],
                                                members   |-> Get(v, "members", {}) \cup Get(v, "member", {}),
                                                condition |-> Get(v, "condition", FALSE)]}]]
        BY <2>1
    <2>3. key = "role" /\ "role" \in DOMAIN v
        OBVIOUS
    <2> HIDE DEF v, members
    <2> QED BY <1>2, <2>2, <2>3
<1>4. Extract(r) = [provider |-> "gcp", policies |-> Grant(v)]
    BY ExtractByType
<1>5. got \in Extract(r).policies
    <2> HIDE DEF members
    <2>1. got \in Grant(v)
        BY <1>3 DEF Grant, members
    <2> QED BY <1>4, <2>1
<1>6. live \in Binding /\ bare \in Binding
    <2>1. v["role"] \in GcpRole
        BY <1>1, <1>3 DEF Get
    <2> HIDE DEF v, members
    <2> QED BY <1>1, <1>2, <2>1 DEF Binding
<1>7. live # NotABinding /\ bare # NotABinding
    BY <1>6, BindingAssumption
<1>8. live.role = bare.role /\ live.members = bare.members /\ ~bare.condition
    OBVIOUS
<1> HIDE DEF v, members, live, bare
<1>9. \A b : b # NotABinding => AnalyzePolicy([bindings |-> {b}], "gcp") = PublicFindings(b) \cup RoleFindings(b)
    <2> TAKE b
    <2> HAVE b # NotABinding
    <2> DEFINE doc == [bindings |-> {b}]
    <2>1. Get(doc, "bindings", {}) = {b} /\ Get(doc, "includedPermissions", {}) = {}
        BY DEF Get
    <2> HIDE DEF doc
    <2>2. AnalyzePolicy(doc, "gcp") = AnalyzeGcpPolicy({b}, {})
        BY <2>1 DEF AnalyzePolicy, Resolved
    <2>3. {b} \ {NotABinding} = {b}
        OBVIOUS
    <2>4. PermissionFindings({}) = {}
        BY DEF PermissionFindings
    <2>5. UNION {PublicFindings(c) \cup RoleFindings(c) : c \in {b}} = PublicFindings(b) \cup RoleFindings(b)
        OBVIOUS
    <2> QED BY <2>2, <2>3, <2>4, <2>5 DEF AnalyzeGcpPolicy, doc
<1>10. f \in PublicFindings(live) \cup RoleFindings(live)
    BY <1>3, <1>7, <1>9
<1>11. \E g \in PublicFindings(bare) \cup RoleFindings(bare) : Rank[f.severity] <= Rank[g.severity]
    <2>1. CASE f \in RoleFindings(live)
        <3>1. f \in RoleFindings(bare)
            BY <1>8, <2>1 DEF RoleFindings
        <3>2. f.severity \in Severity
            BY <3>1, BindingIsGraded DEF Graded
        <3> QED BY <3>1, <3>2, RankType
    <2>2. CASE f \in PublicFindings(live)
        <3>1. PICK m \in live.members \cap PublicMember :
                  f = Finding("GCP.PUBLIC_MEMBER", IF live.condition THEN "HIGH" ELSE "CRITICAL",
                              live.role, {live.role, m})
            BY <2>2 DEF PublicFindings
        <3> DEFINE g == Finding("GCP.PUBLIC_MEMBER", "CRITICAL", bare.role, {bare.role, m})
        <3>2. g \in PublicFindings(bare)
            BY <1>8, <3>1 DEF PublicFindings
        <3>3. f.severity \in {"HIGH", "CRITICAL"} /\ g.severity = "CRITICAL"
            BY <3>1 DEF Finding
        <3>4. Rank[f.severity] <= Rank[g.severity]
            BY <3>3 DEF Rank
        <3> QED BY <3>2, <3>4
    <2> QED BY <1>10, <2>1, <2>2
<1>12. AnalyzePolicy(got, Extract(r).provider) = PublicFindings(bare) \cup RoleFindings(bare)
    BY <1>4, <1>7, <1>9
<1> HIDE DEF got
<1> QED BY <1>5, <1>11, <1>12 DEF Covered

(* Each finding about what a resource will have in the cloud is no worse   *)
(* than one about what was extracted for it.                               *)
LEMMA DeployedIsCovered ==
    ASSUME NEW j \in Jobs, PlanOf(j), NEW r \in Resources(j.tfplan), NEW d \in Deployed(r),
           NEW f \in AnalyzePolicy(d.policy, d.provider)
    PROVE  Covered(r, f)
<1>1. CASE r.type \notin KnownType
    BY <1>1 DEF Deployed, KnownType
<1> QED BY <1>1, AwsIsCovered, AzureIsCovered, CustomRoleIsCovered, GrantIsCovered DEF KnownType

-----------------------------------------------------------------------------
(* What a run collects, without the order it walks in.                     *)

Startable ==
    /\ job.tfplan \notin {Missing, Malformed}
    /\ job.patterns # <<>> \/ job.tfplan # NoArgument

Closed(T) == \A d \in T : IsDirectory(d) => ToSet(Content[d].below) \subseteq T

Reach == {p \in Path : \A T \in SUBSET Path : Named \subseteq T /\ Closed(T) => p \in T}

PlanItems == IF job.tfplan = NoArgument THEN {} ELSE ExtractPolicies(job.tfplan)

Final == PlanItems \cup UNION {Loaded(p) : p \in Reach}

FinalResults == UNION {Deduped(AnalyzePolicy(i.policy, i.provider)) : i \in Final}

Readable == \A i \in Final : ~Raises(i.policy, i.provider)

Fails == \E f \in FinalResults : Blocks(f)

(* T are the paths taken so far; the rest of the way is in the queue. *)
Walking(T) ==
    /\ T \subseteq Reach
    /\ queue \in Seq(Reach)
    /\ Named \subseteq T \cup ToSet(queue)
    /\ \A d \in T : IsDirectory(d) => ToSet(Content[d].below) \subseteq T \cup ToSet(queue)
    /\ items = PlanItems \cup UNION {Loaded(p) : p \in T}

LEMMA DirectoryBelow ==
    ASSUME NEW d, IsDirectory(d)
    PROVE  Content[d].below \in Seq(Path) /\ Loaded(d) = {}
<1>1. Content[d] \in Entry /\ Content[d].kind = "directory"
    BY ContentAssumption DEF IsDirectory
<1>2. Content[d] \in [kind : {"directory"}, below : Seq(Path)]
    BY <1>1 DEF Entry
<1> QED BY <1>1, <1>2 DEF Loaded

LEMMA NamedArePaths ==
    ASSUME job \in Jobs
    PROVE  /\ FlattenSeq(job.patterns) \in Seq(Path) /\ Named \subseteq Path
           /\ FlattenSeq(job.patterns) \in Seq(Reach)
<1>1. FlattenSeq(job.patterns) \in Seq(Path)
    BY JobAssumption, FlattenIsSeq
<1>2. Named \subseteq Path
    BY <1>1 DEF Named, ToSet
<1>3. Named \subseteq Reach
    BY <1>2 DEF Reach
<1>4. \A k \in DOMAIN FlattenSeq(job.patterns) : FlattenSeq(job.patterns)[k] \in Reach
    BY <1>3 DEF Named, ToSet
<1> QED BY <1>1, <1>2, <1>4

LEMMA ReachIsClosed == Closed(Reach) /\ Reach \subseteq Path
<1>1. ASSUME NEW d \in Reach, IsDirectory(d), NEW p \in ToSet(Content[d].below)
      PROVE  p \in Reach
    <2>1. p \in Path
        BY <1>1, DirectoryBelow DEF ToSet
    <2>2. ASSUME NEW T \in SUBSET Path, Named \subseteq T, Closed(T) PROVE p \in T
        <3>1. d \in T
            BY <2>2 DEF Reach
        <3> QED BY <1>1, <2>2, <3>1 DEF Closed
    <2> QED BY <2>1, <2>2 DEF Reach
<1>2. Closed(Reach)
    BY <1>1 DEF Closed
<1> QED BY <1>2 DEF Reach

(* An empty queue means that everything in reach was taken. *)
LEMMA WalkIsOver ==
    ASSUME NEW T \in SUBSET Path, Walking(T), queue = <<>>
    PROVE  items = Final
<1>1. ToSet(queue) = {}
    BY DEF ToSet
<1>2. Named \subseteq T /\ Closed(T)
    BY <1>1 DEF Walking, Closed
<1>3. Reach \subseteq T
    BY <1>2 DEF Reach
<1>4. T = Reach
    BY <1>3 DEF Walking
<1> QED BY <1>4 DEF Walking, Final

LEMMA HeadAndTail ==
    ASSUME NEW S, NEW q \in Seq(S), q # <<>>
    PROVE  /\ Head(q) \in S /\ Tail(q) \in Seq(S)
           /\ ToSet(q) = {Head(q)} \cup ToSet(Tail(q))
<1>1. /\ Tail(q) \in Seq(S) /\ Len(q) \in Nat /\ Len(q) > 0 /\ Len(Tail(q)) = Len(q) - 1
      /\ \A k \in 1..Len(Tail(q)) : Tail(q)[k] = q[k + 1]
      /\ Head(q) = q[1] /\ q[1] \in S
    BY HeadTailProperties
<1>2. DOMAIN q = 1..Len(q) /\ DOMAIN Tail(q) = 1..(Len(q) - 1)
    BY <1>1
<1>3. ASSUME NEW k \in 1..Len(q) PROVE k = 1 \/ (k - 1 \in 1..(Len(q) - 1) /\ q[k] = Tail(q)[k - 1])
    <2>1. CASE k # 1
        <3>1. k - 1 \in 1..(Len(q) - 1) /\ k - 1 + 1 = k
            BY <1>1, <2>1
        <3>2. Tail(q)[k - 1] = q[k - 1 + 1]
            BY <1>1, <3>1
        <3> QED BY <3>1, <3>2
    <2> QED BY <2>1
<1>4. ToSet(q) \subseteq {Head(q)} \cup ToSet(Tail(q))
    <2> SUFFICES ASSUME NEW k \in 1..Len(q) PROVE q[k] \in {Head(q)} \cup ToSet(Tail(q))
        BY <1>2 DEF ToSet
    <2>1. CASE k = 1
        BY <1>1, <2>1
    <2>2. CASE k - 1 \in 1..(Len(q) - 1) /\ q[k] = Tail(q)[k - 1]
        BY <1>2, <2>2 DEF ToSet
    <2> QED BY <1>3, <2>1, <2>2
<1>5. Head(q) \in ToSet(q)
    BY <1>1, <1>2 DEF ToSet
<1>6. ToSet(Tail(q)) \subseteq ToSet(q)
    <2> SUFFICES ASSUME NEW k \in 1..(Len(q) - 1) PROVE Tail(q)[k] \in ToSet(q)
        BY <1>2 DEF ToSet
    <2>1. k + 1 \in 1..Len(q) /\ Tail(q)[k] = q[k + 1]
        BY <1>1
    <2> QED BY <1>2, <2>1 DEF ToSet
<1> QED BY <1>1, <1>4, <1>5, <1>6

LEMMA ConcatEntries ==
    ASSUME NEW S, NEW q \in Seq(S), NEW b \in Seq(S)
    PROVE  q \o b \in Seq(S) /\ ToSet(q \o b) = ToSet(q) \cup ToSet(b)
<1> DEFINE c == q \o b
<1>1. /\ c \in Seq(S) /\ Len(c) = Len(q) + Len(b)
      /\ \A k \in 1..(Len(q) + Len(b)) : c[k] = IF k <= Len(q) THEN q[k] ELSE b[k - Len(q)]
    BY ConcatProperties
<1>2. /\ DOMAIN c = 1..(Len(q) + Len(b)) /\ DOMAIN q = 1..Len(q) /\ DOMAIN b = 1..Len(b)
      /\ Len(q) \in Nat /\ Len(b) \in Nat
    BY <1>1
<1> HIDE DEF c
<1>3. ASSUME NEW k \in 1..(Len(q) + Len(b)) PROVE c[k] \in ToSet(q) \cup ToSet(b)
    <2>1. CASE k <= Len(q)
        <3>1. k \in 1..Len(q) /\ c[k] = q[k]
            BY <1>1, <1>2, <2>1
        <3> QED BY <1>2, <3>1 DEF ToSet
    <2>2. CASE ~(k <= Len(q))
        <3>1. k - Len(q) \in 1..Len(b) /\ c[k] = b[k - Len(q)]
            BY <1>1, <1>2, <2>2
        <3> QED BY <1>2, <3>1 DEF ToSet
    <2> QED BY <2>1, <2>2
<1>4. ASSUME NEW k \in 1..Len(q) PROVE q[k] \in ToSet(c)
    <2>1. k \in 1..(Len(q) + Len(b)) /\ c[k] = q[k]
        BY <1>1, <1>2
    <2> QED BY <1>2, <2>1 DEF ToSet
<1>5. ASSUME NEW k \in 1..Len(b) PROVE b[k] \in ToSet(c)
    <2>1. /\ k + Len(q) \in 1..(Len(q) + Len(b)) /\ ~(k + Len(q) <= Len(q))
          /\ k + Len(q) - Len(q) = k
        BY <1>2
    <2>2. c[k + Len(q)] = b[k + Len(q) - Len(q)]
        BY <1>1, <2>1
    <2> QED BY <1>2, <2>1, <2>2 DEF ToSet
<1>6. ToSet(c) \subseteq ToSet(q) \cup ToSet(b)
    BY <1>2, <1>3 DEF ToSet
<1>7. ToSet(q) \subseteq ToSet(c) /\ ToSet(b) \subseteq ToSet(c)
    BY <1>2, <1>4, <1>5 DEF ToSet
<1>8. c \in Seq(S)
    BY <1>1
<1> QED BY <1>6, <1>7, <1>8 DEF c

(* The worst rank, compared with the threshold. *)
LEMMA BlockingMeansFails ==
    ASSUME job \in Jobs, items = Final
    PROVE  Results = FinalResults /\ Graded(Results) /\ (Blocking <=> Fails)
<1>1. Results = FinalResults
    BY DEF Results, FinalResults
<1>2. Graded(Results)
    <2>1. ASSUME NEW i \in items, NEW f \in Deduped(AnalyzePolicy(i.policy, i.provider))
          PROVE  f.severity \in Severity
        BY AnalysisIsGraded DEF Deduped, Graded
    <2> QED BY <2>1 DEF Results, Graded
<1> DEFINE ranks == {-1} \cup {Rank[f.severity] : f \in Results}
           short == {4 - x : x \in ranks}
<1>3. ranks \subseteq -1..4
    BY <1>2, RankType DEF Graded
<1>4. \E x \in ranks : \A y \in ranks : x >= y
    <2>1. short \in SUBSET Nat /\ short # {}
        BY <1>3
    <2>2. PICK n \in short : \A m \in short : n <= m
        BY <2>1, LeastNatural
    <2>3. PICK x \in ranks : n = 4 - x
        BY <2>2
    <2>4. ASSUME NEW y \in ranks PROVE x >= y
        <3>1. 4 - y \in short /\ y \in Int /\ x \in Int
            BY <1>3
        <3> HIDE DEF short
        <3>2. n <= 4 - y
            BY <2>2, <3>1
        <3> QED BY <2>3, <3>1, <3>2
    <2> QED BY <2>4
<1>5. Worst \in ranks /\ \A y \in ranks : Worst >= y
    <2>1. Worst = CHOOSE x \in ranks : \A y \in ranks : x >= y
        BY DEF Worst, Max
    <2> HIDE DEF ranks
    <2> QED BY <1>4, <2>1
<1>6. Rank[job.fail_on] \in 0..4
    BY JobAssumption, RankType
<1>7. Blocking <=> \E f \in Results : Rank[f.severity] >= Rank[job.fail_on]
    <2>1. CASE Blocking
        <3>1. Worst # -1 /\ Worst >= Rank[job.fail_on]
            BY <1>6, <2>1 DEF Blocking
        <3>2. PICK f \in Results : Worst = Rank[f.severity]
            BY <1>5, <3>1
        <3> QED BY <2>1, <3>1, <3>2
    <2>2. ASSUME NEW f \in Results, Rank[f.severity] >= Rank[job.fail_on] PROVE Blocking
        <3>1. Worst >= Rank[f.severity] /\ Rank[f.severity] \in Int /\ Worst \in Int
            BY <1>3, <1>5
        <3> QED BY <1>6, <2>2, <3>1 DEF Blocking
    <2> QED BY <2>1, <2>2
<1> QED BY <1>1, <1>2, <1>7 DEF Fails, Blocks

-----------------------------------------------------------------------------
(* The inductive invariant.                                                *)

(* Which run of the two it is. *)
Shape ==
    /\ code \in Seq(0..2)
    /\ run = "sarif" => code = <<>> /\ pc # "done" /\ sarif = NoOutput /\ comment = "none"
    /\ run = "comment" => Len(code) = IF pc = "done" THEN 2 ELSE 1

(* What has been collected. *)
Gathered ==
    /\ pc \in {"start", "done"} => queue = <<>> /\ items = {}
    /\ pc = "collect" => Startable /\ \E T \in SUBSET Path : Walking(T)
    /\ pc \in {"report", "print"} => Startable /\ Readable /\ items = Final

(* What the outputs say is the verdict on Final; the first exit code is    *)
(* the verdict too, or tells that there is none.                           *)
Told ==
    /\ code # <<>> => IF Startable /\ Readable THEN code[1] = IF Fails THEN 1 ELSE 0
                      ELSE code[1] # 0
    /\ sarif # NoOutput => /\ code # <<>> /\ Startable /\ Readable
                           /\ sarif = {f.severity : f \in FinalResults}
    /\ comment # "none" => /\ code # <<>> /\ Startable /\ Readable
                           /\ comment = IF Fails THEN "FAILED" ELSE "PASSED"

LEMMA JobLasts ==
    ASSUME job' = job
    PROVE  /\ Startable' = Startable /\ Reach' = Reach /\ PlanItems' = PlanItems /\ Named' = Named
           /\ \A p : Loaded(p)' = Loaded(p)
           /\ Final' = Final /\ FinalResults' = FinalResults
           /\ Readable' = Readable /\ Fails' = Fails
<1>1. Startable' = Startable /\ Named' = Named /\ PlanItems' = PlanItems
    BY DEF Startable, Named, PlanItems
<1>2. Reach' = Reach
    BY <1>1 DEF Reach
<1>3. \A p : Loaded(p)' = Loaded(p)
    BY DEF Loaded
<1>4. Final' = Final
    BY <1>1, <1>2, <1>3 DEF Final
<1>5. FinalResults' = FinalResults /\ Readable' = Readable
    BY <1>4 DEF FinalResults, Readable
<1>6. Fails' = Fails
    BY <1>5 DEF Fails, Blocks
<1> QED BY <1>1, <1>2, <1>3, <1>4, <1>5, <1>6

GateOK == TypeOK /\ Shape /\ Gathered /\ Told

LEMMA FinalIsGraded == Graded(FinalResults)
<1>1. ASSUME NEW i \in Final, NEW f \in Deduped(AnalyzePolicy(i.policy, i.provider))
      PROVE  f.severity \in Severity
    BY AnalysisIsGraded DEF Deduped, Graded
<1> QED BY <1>1 DEF FinalResults, Graded

(* The items of a run, from the plan or from a path. *)
LEMMA ItemsAreTyped ==
    ASSUME job \in Jobs, Startable
    PROVE  /\ \A i \in PlanItems : /\ i.provider \in {"auto", "aws", "azure", "gcp"}
                                   /\ \/ DetectProvider(i.policy) = i.provider
                                      \/ i.provider = "aws" /\ HasForeignKey(i.policy)
           /\ \A p \in Path : \A i \in Loaded(p) : /\ i.provider \in {"auto", "aws", "azure", "gcp"}
                                                  /\ i.address \in Path
<1>1. ASSUME NEW i \in PlanItems
      PROVE  /\ i.provider \in {"auto", "aws", "azure", "gcp"}
             /\ \/ DetectProvider(i.policy) = i.provider
                \/ i.provider = "aws" /\ HasForeignKey(i.policy)
    <2>1. PlanOf(job) /\ i \in ExtractPolicies(job.tfplan)
        BY <1>1 DEF PlanItems, PlanOf, Startable
    <2>2. PICK r \in Resources(job.tfplan) : \E doc \in Extract(r).policies :
              i = [address |-> r.address, provider |-> Extract(r).provider, policy |-> doc]
        BY <2>1 DEF ExtractPolicies
    <2>3. PICK doc \in Extract(r).policies :
              i = [address |-> r.address, provider |-> Extract(r).provider, policy |-> doc]
        BY <2>2
    <2>4. i.provider = Extract(r).provider /\ i.policy = doc
        BY <2>3
    <2>5. /\ Extract(r).provider \in {"aws", "azure", "gcp"}
          /\ \/ DetectProvider(doc) = Extract(r).provider
             \/ Extract(r).provider = "aws" /\ HasForeignKey(doc)
        BY <2>1, ExtractedIsDetected
    <2> QED BY <2>4, <2>5
<1>2. ASSUME NEW p \in Path, NEW i \in Loaded(p)
      PROVE  i.provider \in {"auto", "aws", "azure", "gcp"} /\ i.address \in Path
    <2>1. i.provider = job.provider /\ i.address = p
        BY <1>2 DEF Loaded
    <2> QED BY <2>1, JobAssumption
<1> QED BY <1>1, <1>2

LEMMA WalkIsTyped ==
    ASSUME job \in Jobs, Startable, NEW T \in SUBSET Path, Walking(T)
    PROVE  queue \in Seq(Path) /\ \A i \in items : i.provider \in {"auto", "aws", "azure", "gcp"}
<1>1. queue \in Seq(Path)
    BY ReachIsClosed DEF Walking
<1>2. ASSUME NEW i \in items PROVE i.provider \in {"auto", "aws", "azure", "gcp"}
    BY ItemsAreTyped DEF Walking
<1> QED BY <1>1, <1>2

LEMMA InitGate == Init => GateOK
<1> SUFFICES ASSUME Init PROVE GateOK
    OBVIOUS
<1>1. TypeOK
    BY DEF Init, TypeOK
<1>2. Shape /\ Gathered /\ Told
    BY DEF Init, Shape, Gathered, Told
<1> QED BY <1>1, <1>2 DEF GateOK

(* A run that ends, for whatever reason. *)
LEMMA ExitStep ==
    ASSUME GateOK, pc # "done", NEW c \in 0..2, Exit(c), comment' = comment,
           run = "sarif" => IF Startable /\ Readable THEN c = IF Fails THEN 1 ELSE 0 ELSE c # 0,
           \/ sarif' = sarif
           \/ /\ run = "sarif" /\ Startable /\ Readable
              /\ sarif' = {f.severity : f \in FinalResults}
    PROVE  GateOK'
<1>1. /\ job' = job /\ queue' = <<>> /\ items' = {} /\ code' = Append(code, c)
      /\ run \in {"sarif", "comment"} /\ code \in Seq(0..2)
      /\ run' = "comment" /\ pc' = IF run = "sarif" THEN "start" ELSE "done"
    BY DEF Exit, GateOK, TypeOK, Shape
<1>2. /\ code' \in Seq(0..2) /\ code' # <<>>
      /\ run = "sarif" => code'[1] = c /\ Len(code') = 1
      /\ run = "comment" => code # <<>> /\ code'[1] = code[1] /\ Len(code') = 2
    BY <1>1 DEF GateOK, Shape
<1>3. Startable' = Startable /\ Readable' = Readable /\ FinalResults' = FinalResults /\ Fails' = Fails
    BY <1>1, JobLasts
<1>4. Shape'
    BY <1>1, <1>2 DEF Shape
<1>5. Gathered'
    BY <1>1 DEF Gathered
<1>6. Told'
    <2>1. code'[1] = c \/ (run = "comment" /\ code'[1] = code[1] /\ code # <<>>)
        BY <1>1, <1>2
    <2>2. IF Startable /\ Readable THEN code'[1] = IF Fails THEN 1 ELSE 0 ELSE code'[1] # 0
        BY <1>1, <1>2 DEF GateOK, Told
    <2>3. sarif' # NoOutput => Startable /\ Readable /\ sarif' = {f.severity : f \in FinalResults}
        BY DEF GateOK, Told
    <2>4. comment' # "none" => /\ Startable /\ Readable
                               /\ comment' = IF Fails THEN "FAILED" ELSE "PASSED"
        BY DEF GateOK, Told
    <2> QED BY <1>2, <1>3, <2>2, <2>3, <2>4 DEF Told
<1>7. TypeOK'
    <2>1. {f.severity : f \in FinalResults} \subseteq Severity
        BY FinalIsGraded DEF Graded
    <2>2. sarif' = NoOutput \/ sarif' \subseteq Severity
        BY <2>1 DEF GateOK, TypeOK
    <2>3. job' \in Jobs /\ run' \in {"sarif", "comment"} /\ comment' \in {"none", "PASSED", "FAILED"}
          /\ pc' \in {"start", "collect", "report", "print", "done"} /\ queue' \in Seq(Path)
        BY <1>1 DEF GateOK, TypeOK
    <2>4. Len(code') <= 2 /\ \A k \in DOMAIN code' : code'[k] \in 0..2
        BY <1>1, <1>2
    <2> QED BY <1>1, <2>2, <2>3, <2>4 DEF TypeOK
<1> QED BY <1>4, <1>5, <1>6, <1>7 DEF GateOK

(* Start, unless the command line or the plan ends the run. *)
LEMMA StartGoesOn ==
    ASSUME GateOK, pc = "start", Startable,
           Collect(IF job.tfplan = NoArgument THEN {} ELSE ExtractPolicies(job.tfplan)),
           queue' = FlattenSeq(job.patterns), Proceed("collect"), sarif' = sarif, comment' = comment
    PROVE  GateOK'
<1>1. /\ job' = job /\ run' = run /\ code' = code /\ pc' = "collect"
      /\ job \in Jobs /\ items = {}
    BY DEF Proceed, GateOK, TypeOK, Gathered
<1>2. items' = PlanItems
    BY <1>1 DEF Collect, PlanItems
<1>3. /\ Startable' = Startable /\ Readable' = Readable /\ FinalResults' = FinalResults /\ Fails' = Fails
      /\ Reach' = Reach /\ PlanItems' = PlanItems /\ Named' = Named
    BY <1>1, JobLasts
<1>4. Walking({})'
    <2>1. queue' \in Seq(Reach)
        BY <1>1, NamedArePaths
    <2>2. Named = ToSet(queue')
        BY DEF Named
    <2> QED BY <1>2, <1>3, <2>1, <2>2 DEF Walking
<1>5. Shape'
    BY <1>1 DEF GateOK, Shape
<1>6. Gathered'
    <2>1. \E T \in SUBSET Path : Walking(T)'
        <3> WITNESS {} \in SUBSET Path
        <3> QED BY <1>4
    <2> QED BY <1>1, <1>3, <2>1 DEF Gathered
<1>7. Told'
    BY <1>1, <1>3 DEF GateOK, Told
<1>8. TypeOK'
    <2>1. queue' \in Seq(Path)
        BY <1>1, NamedArePaths
    <2>2. \A i \in items' : i.provider \in {"auto", "aws", "azure", "gcp"}
        BY <1>1, <1>2, ItemsAreTyped
    <2> QED BY <1>1, <2>1, <2>2 DEF GateOK, TypeOK
<1> QED BY <1>5, <1>6, <1>7, <1>8 DEF GateOK

LEMMA StepStart ==
    ASSUME GateOK, Start
    PROVE  GateOK'
<1>1. pc = "start" /\ sarif' = sarif /\ comment' = comment /\ job \in Jobs
    BY DEF Start, GateOK, TypeOK
<1>2. CASE job.patterns = <<>> /\ job.tfplan = NoArgument /\ Exit(2)
    <2>1. ~Startable
        BY <1>2 DEF Startable
    <2> QED BY <1>1, <1>2, <2>1, ExitStep
<1>3. CASE job.tfplan = Missing /\ Exit(2)
    <2>1. ~Startable
        BY <1>3 DEF Startable
    <2> QED BY <1>1, <1>3, <2>1, ExitStep
<1>4. CASE job.tfplan = Malformed /\ Exit(1)
    <2>1. ~Startable
        BY <1>4 DEF Startable
    <2> QED BY <1>1, <1>4, <2>1, ExitStep
<1>5. CASE /\ job.tfplan \notin {Missing, Malformed}
           /\ job.patterns # <<>> \/ job.tfplan # NoArgument
           /\ Collect(IF job.tfplan = NoArgument THEN {} ELSE ExtractPolicies(job.tfplan))
           /\ queue' = FlattenSeq(job.patterns)
           /\ Proceed("collect")
    <2>1. Startable
        BY <1>5 DEF Startable
    <2> QED BY <1>1, <1>5, <2>1, StartGoesOn
<1> QED BY <1>2, <1>3, <1>4, <1>5, Zenon DEF Start

(* A path is taken: what was in the queue is there still, or taken now.    *)
LEMMA StepTakePath ==
    ASSUME GateOK, TakePath
    PROVE  GateOK'
<1>1. /\ job' = job /\ run' = run /\ code' = code /\ pc' = "collect" /\ pc = "collect"
      /\ sarif' = sarif /\ comment' = comment /\ queue # <<>> /\ job \in Jobs /\ Startable
    BY DEF TakePath, Proceed, GateOK, TypeOK, Gathered
<1>2. PICK T \in SUBSET Path : Walking(T)
    BY <1>1 DEF GateOK, Gathered
<1>3. /\ Startable' = Startable /\ Readable' = Readable /\ FinalResults' = FinalResults /\ Fails' = Fails
      /\ Reach' = Reach /\ PlanItems' = PlanItems /\ Named' = Named
      /\ \A x : Loaded(x)' = Loaded(x)
    BY <1>1, JobLasts
<1>4. queue \in Seq(Reach)
    BY <1>2 DEF Walking
<1>5. PICK p \in Reach : /\ p = Head(queue) /\ Tail(queue) \in Seq(Reach)
                        /\ ToSet(queue) = {p} \cup ToSet(Tail(queue))
    BY <1>1, <1>4, HeadAndTail
<1>6. Reach \subseteq Path
    BY ReachIsClosed
<1> DEFINE U == T \cup {p}
<1>7. U \in SUBSET Path
    BY <1>5, <1>6
<1>8. /\ queue' \in Seq(Reach)
      /\ ToSet(Tail(queue)) \subseteq ToSet(queue')
      /\ IsDirectory(p) => ToSet(Content[p].below) \subseteq ToSet(queue')
      /\ items' = items \cup Loaded(p)
    <2>1. CASE IsDirectory(p)
        <3>1. queue' = Tail(queue) \o Content[p].below /\ items' = items
            BY <1>5, <2>1 DEF TakePath, Expand
        <3>2. Content[p].below \in Seq(Path) /\ Loaded(p) = {}
            BY <2>1, DirectoryBelow
        <3>3. ToSet(Content[p].below) \subseteq Reach
            BY <1>5, <2>1, ReachIsClosed DEF Closed
        <3>4. Content[p].below \in Seq(Reach)
            <4>1. \A k \in DOMAIN Content[p].below : Content[p].below[k] \in Reach
                BY <3>3 DEF ToSet
            <4> QED BY <3>2, <4>1
        <3>5. /\ Tail(queue) \o Content[p].below \in Seq(Reach)
              /\ ToSet(Tail(queue) \o Content[p].below) = ToSet(Tail(queue)) \cup ToSet(Content[p].below)
            BY <1>5, <3>4, ConcatEntries
        <3>6. /\ queue' \in Seq(Reach)
              /\ ToSet(queue') = ToSet(Tail(queue)) \cup ToSet(Content[p].below)
            BY <3>1, <3>5
        <3>7. items' = items \cup Loaded(p)
            BY <3>1, <3>2
        <3> QED BY <3>6, <3>7
    <2>2. CASE ~IsDirectory(p)
        <3>1. queue' = Tail(queue) /\ items' = items \cup Loaded(p)
            BY <1>5, <2>2 DEF TakePath, Collect
        <3> QED BY <1>5, <2>2, <3>1
    <2> QED BY <2>1, <2>2
<1> HIDE DEF U
<1>9. Walking(U)'
    <2>1. U \subseteq Reach
        BY <1>2, <1>5 DEF Walking, U
    <2>2. T \cup ToSet(queue) \subseteq U \cup ToSet(queue')
        BY <1>5, <1>8 DEF U
    <2>3. Named \subseteq U \cup ToSet(queue')
        BY <1>2, <2>2 DEF Walking
    <2>4. \A d \in U : IsDirectory(d) => ToSet(Content[d].below) \subseteq U \cup ToSet(queue')
        BY <1>2, <1>8, <2>2 DEF Walking, U
    <2>5. items' = PlanItems \cup UNION {Loaded(x) : x \in U}
        <3>1. items = PlanItems \cup UNION {Loaded(x) : x \in T}
            BY <1>2 DEF Walking
        <3>2. UNION {Loaded(x) : x \in U} = Loaded(p) \cup UNION {Loaded(x) : x \in T}
            BY DEF U
        <3> QED BY <1>8, <3>1, <3>2
    <2>6. UNION {Loaded(x)' : x \in U} = UNION {Loaded(x) : x \in U}
        BY <1>3
    <2> QED BY <1>3, <1>8, <2>1, <2>3, <2>4, <2>5, <2>6 DEF Walking, IsDirectory
<1>10. Shape'
    BY <1>1 DEF GateOK, Shape
<1>11. Gathered'
    <2>1. \E V \in SUBSET Path : Walking(V)'
        BY <1>7, <1>9
    <2> QED BY <1>1, <1>3, <2>1 DEF Gathered
<1>12. Told'
    BY <1>1, <1>3 DEF GateOK, Told
<1>13. TypeOK'
    <2>1. queue' \in Seq(Path)
        BY <1>6, <1>8
    <2>2. \A i \in items' : i.provider \in {"auto", "aws", "azure", "gcp"}
        <3>1. \A i \in Loaded(p) : i.provider \in {"auto", "aws", "azure", "gcp"}
            BY <1>1, <1>5, <1>6, ItemsAreTyped
        <3> QED BY <1>8, <3>1 DEF GateOK, TypeOK
    <2> QED BY <1>1, <2>1, <2>2 DEF GateOK, TypeOK
<1> QED BY <1>10, <1>11, <1>12, <1>13 DEF GateOK

(* When the queue is empty, everything there is has been collected. *)
LEMMA WalkEnds ==
    ASSUME GateOK, pc = "collect", queue = <<>>
    PROVE  Startable /\ items = Final /\ job \in Jobs
<1>1. Startable /\ job \in Jobs
    BY DEF GateOK, Gathered, TypeOK
<1>2. PICK T \in SUBSET Path : Walking(T)
    BY DEF GateOK, Gathered
<1> QED BY <1>1, <1>2, WalkIsOver

LEMMA StepNothingFound ==
    ASSUME GateOK, NothingFound
    PROVE  GateOK'
<1>1. pc = "collect" /\ queue = <<>> /\ items = {} /\ Publish({}) /\ Exit(0) /\ comment' = comment
    BY DEF NothingFound
<1>2. Startable /\ Final = {}
    BY <1>1, WalkEnds
<1>3. Readable /\ FinalResults = {} /\ ~Fails
    BY <1>2 DEF Readable, FinalResults, Fails
<1>4. \/ sarif' = sarif
      \/ run = "sarif" /\ Startable /\ Readable /\ sarif' = {f.severity : f \in FinalResults}
    BY <1>1, <1>2, <1>3 DEF Publish
<1> QED BY <1>1, <1>2, <1>3, <1>4, ExitStep

LEMMA StepScanRaises ==
    ASSUME GateOK, ScanRaises
    PROVE  GateOK'
<1>1. /\ pc = "collect" /\ queue = <<>> /\ Exit(1) /\ sarif' = sarif /\ comment' = comment
      /\ ~(\A i \in items : ~Raises(i.policy, i.provider))
    BY DEF ScanRaises, Scannable
<1>2. items = Final
    BY <1>1, WalkEnds
<1>3. ~Readable
    BY <1>1, <1>2 DEF Readable
<1> QED BY <1>1, <1>3, ExitStep

LEMMA StepScanAll ==
    ASSUME GateOK, ScanAll
    PROVE  GateOK'
<1>1. /\ pc = "collect" /\ queue = <<>> /\ pc' = "report" /\ queue' = queue /\ items' = items
      /\ job' = job /\ run' = run /\ code' = code /\ sarif' = sarif /\ comment' = comment
      /\ \A i \in items : ~Raises(i.policy, i.provider)
    BY DEF ScanAll, Scannable, Proceed
<1>2. Startable /\ items = Final
    BY <1>1, WalkEnds
<1>3. Readable
    BY <1>1, <1>2 DEF Readable
<1>4. /\ Startable' = Startable /\ Readable' = Readable /\ FinalResults' = FinalResults /\ Fails' = Fails
      /\ Final' = Final
    BY <1>1, JobLasts
<1>5. Shape'
    BY <1>1 DEF GateOK, Shape
<1>6. Gathered'
    BY <1>1, <1>2, <1>3, <1>4 DEF Gathered
<1>7. Told'
    BY <1>1, <1>4 DEF GateOK, Told
<1>8. TypeOK'
    BY <1>1 DEF GateOK, TypeOK
<1> QED BY <1>5, <1>6, <1>7, <1>8 DEF GateOK

LEMMA StepWriteComment ==
    ASSUME GateOK, WriteComment
    PROVE  GateOK'
<1>1. /\ pc = "report" /\ pc' = "print" /\ queue' = queue /\ items' = items
      /\ job' = job /\ run' = run /\ code' = code /\ sarif' = sarif
      /\ comment' = IF run = "comment" THEN CommentVerdict ELSE comment
    BY DEF WriteComment, Proceed
<1>2. Startable /\ Readable /\ items = Final /\ job \in Jobs
    BY <1>1 DEF GateOK, Gathered, TypeOK
<1>3. CommentVerdict = IF Fails THEN "FAILED" ELSE "PASSED"
    <2>1. Blocking <=> Fails
        BY <1>2, BlockingMeansFails
    <2> QED BY <2>1 DEF CommentVerdict
<1>4. /\ Startable' = Startable /\ Readable' = Readable /\ FinalResults' = FinalResults /\ Fails' = Fails
      /\ Final' = Final
    BY <1>1, JobLasts
<1>5. run = "comment" => code # <<>>
    BY <1>1 DEF GateOK, Shape
<1>6. Shape'
    BY <1>1 DEF GateOK, Shape
<1>7. Gathered'
    BY <1>1, <1>2, <1>4 DEF Gathered
<1>8. Told'
    BY <1>1, <1>2, <1>3, <1>4, <1>5 DEF GateOK, Told
<1>9. TypeOK'
    <2>1. comment' \in {"none", "PASSED", "FAILED"}
        BY <1>1, <1>3 DEF GateOK, TypeOK
    <2> QED BY <1>1, <2>1 DEF GateOK, TypeOK
<1> QED BY <1>6, <1>7, <1>8, <1>9 DEF GateOK

LEMMA StepCommentFails ==
    ASSUME GateOK, CommentFails
    PROVE  GateOK'
<1>1. run = "comment" /\ pc = "report" /\ Exit(1) /\ sarif' = sarif /\ comment' = comment
    BY DEF CommentFails
<1> QED BY <1>1, ExitStep

LEMMA StepFinish ==
    ASSUME GateOK, Finish
    PROVE  GateOK'
<1>1. /\ pc = "print" /\ Exit(ExitCode) /\ comment' = comment
      /\ Publish({f.severity : f \in Results})
    BY DEF Finish
<1>2. Startable /\ Readable /\ items = Final /\ job \in Jobs
    BY <1>1 DEF GateOK, Gathered, TypeOK
<1>3. Results = FinalResults /\ (Blocking <=> Fails)
    BY <1>2, BlockingMeansFails
<1>4. ExitCode = IF Fails THEN 1 ELSE 0
    BY <1>3 DEF ExitCode
<1>5. ExitCode \in 0..2
    BY <1>4
<1>6. \/ sarif' = sarif
      \/ run = "sarif" /\ Startable /\ Readable /\ sarif' = {f.severity : f \in FinalResults}
    BY <1>1, <1>2, <1>3 DEF Publish
<1> QED BY <1>1, <1>2, <1>4, <1>5, <1>6, ExitStep

LEMMA NextGate == GateOK /\ [Next]_vars => GateOK'
<1> SUFFICES ASSUME GateOK, [Next]_vars PROVE GateOK'
    OBVIOUS
<1>1. CASE Start
    BY <1>1, StepStart
<1>2. CASE TakePath
    BY <1>2, StepTakePath
<1>3. CASE NothingFound
    BY <1>3, StepNothingFound
<1>4. CASE ScanRaises
    BY <1>4, StepScanRaises
<1>5. CASE ScanAll
    BY <1>5, StepScanAll
<1>6. CASE WriteComment
    BY <1>6, StepWriteComment
<1>7. CASE CommentFails
    BY <1>7, StepCommentFails
<1>8. CASE Finish
    BY <1>8, StepFinish
<1>9. CASE UNCHANGED vars
    <2>1. /\ job' = job /\ run' = run /\ pc' = pc /\ queue' = queue /\ items' = items
          /\ sarif' = sarif /\ comment' = comment /\ code' = code
        BY <1>9 DEF vars
    <2>2. /\ Startable' = Startable /\ Readable' = Readable /\ FinalResults' = FinalResults
          /\ Fails' = Fails /\ Final' = Final /\ Reach' = Reach /\ PlanItems' = PlanItems
          /\ Named' = Named /\ \A x : Loaded(x)' = Loaded(x)
        BY <2>1, JobLasts
    <2>3. ASSUME pc = "collect" PROVE Startable /\ \E T \in SUBSET Path : Walking(T)'
        <3>1. PICK T \in SUBSET Path : Walking(T)
            BY <2>3 DEF GateOK, Gathered
        <3>2. UNION {Loaded(x)' : x \in T} = UNION {Loaded(x) : x \in T}
            BY <2>2
        <3>3. Walking(T)'
            BY <2>1, <2>2, <3>1, <3>2 DEF Walking, IsDirectory
        <3> QED BY <2>3, <3>1, <3>3 DEF GateOK, Gathered
    <2>4. Gathered'
        BY <2>1, <2>2, <2>3 DEF GateOK, Gathered
    <2>5. Told'
        BY <2>1, <2>2 DEF GateOK, Told
    <2>6. Shape' /\ TypeOK'
        BY <2>1 DEF GateOK, Shape, TypeOK
    <2> QED BY <2>4, <2>5, <2>6 DEF GateOK
<1> QED BY <1>1, <1>2, <1>3, <1>4, <1>5, <1>6, <1>7, <1>8, <1>9 DEF Next, Step, Stop

(* Every job, at every step: the walk loses no path, and each exit code,   *)
(* the SARIF and the comment are the verdict on what there is to collect.  *)
THEOREM GateIsKept == Spec => []GateOK
<1> QED BY InitGate, NextGate, PTL DEF Spec

-----------------------------------------------------------------------------
(* What the runs check. *)

(* The job's variables keep their types: the queue holds paths, though     *)
(* directories are added to it while it is walked, and no run ends twice   *)
(* or with a code the documentation does not know.                         *)
THEOREM GateIsTyped == Spec => []TypeOK
<1>1. GateOK => TypeOK
    BY DEF GateOK
<1> QED BY <1>1, GateIsKept, PTL

(* The comment says FAILED exactly when the first run failed the build,    *)
(* and the uploaded SARIF has a blocking result exactly then, although     *)
(* the two come from two runs of the program.                              *)
THEOREM OutputsSayTheSame == Spec => []OutputsAgree
<1>1. GateOK => OutputsAgree
    <2> SUFFICES ASSUME GateOK PROVE OutputsAgree
        OBVIOUS
    <2>1. ASSUME comment # "none" PROVE (comment = "FAILED") = (code[1] = 1)
        <3>1. /\ comment = IF Fails THEN "FAILED" ELSE "PASSED"
              /\ code[1] = IF Fails THEN 1 ELSE 0
            BY <2>1 DEF GateOK, Told
        <3>2. comment = "FAILED" <=> code[1] = 1
            BY <3>1
        <3> QED BY <3>2
    <2>2. ASSUME sarif # NoOutput
          PROVE  (\E s \in sarif : Rank[s] >= Rank[job.fail_on]) = (code[1] = 1)
        <3>1. sarif = {f.severity : f \in FinalResults} /\ code[1] = IF Fails THEN 1 ELSE 0
            BY <2>2 DEF GateOK, Told
        <3>2. (\E s \in sarif : Rank[s] >= Rank[job.fail_on]) <=> Fails
            BY <3>1 DEF Fails, Blocks
        <3> DEFINE blocked == \E s \in sarif : Rank[s] >= Rank[job.fail_on]
        <3>3. blocked <=> code[1] = 1
            BY <3>1, <3>2
        <3>4. blocked \in BOOLEAN
            OBVIOUS
        <3> HIDE DEF blocked
        <3>5. blocked = (code[1] = 1)
            BY <3>3, <3>4
        <3> QED BY <3>5 DEF blocked
    <2> QED BY <2>1, <2>2 DEF OutputsAgree
<1> QED BY <1>1, GateIsKept, PTL

(* What the extractor hands over as of Azure or GCP is detected as of that *)
(* cloud, whatever the plan; and so is an AWS policy, unless it has a key  *)
(* at the top that belongs to the other clouds.                            *)
THEOREM ProvidersAreDetected == Spec => []DetectionAgrees
<1>1. GateOK => DetectionAgrees
    <2> SUFFICES ASSUME GateOK, NEW i \in items, i.address \notin Path
                 PROVE  \/ DetectProvider(i.policy) = i.provider
                        \/ i.provider = "aws" /\ HasForeignKey(i.policy)
        BY DEF DetectionAgrees
    <2>1. Startable /\ job \in Jobs
        BY DEF GateOK, Gathered, TypeOK
    <2>2. i \in PlanItems \/ \E p \in Path : i \in Loaded(p)
        <3>1. CASE pc = "collect"
            <4>1. PICK T \in SUBSET Path : Walking(T)
                BY <3>1 DEF GateOK, Gathered
            <4> QED BY <4>1 DEF Walking
        <3>2. CASE items = Final
            BY <3>2 DEF Final, Reach
        <3> QED BY <3>1, <3>2 DEF GateOK, Gathered, TypeOK
    <2> QED BY <2>1, <2>2, ItemsAreTyped
<1> QED BY <1>1, GateIsKept, PTL

(* What comes before the results: one finding for each fingerprint, none   *)
(* of them milder than another that shares it.                             *)
LEMMA DedupKeepsWorst ==
    ASSUME NEW F, Graded(F), NEW f \in F
    PROVE  \E g \in Deduped(F) : Rank[f.severity] <= Rank[g.severity]
<1> DEFINE same == {g \in F : Fingerprint(g) = Fingerprint(f)}
           short == {4 - Rank[g.severity] : g \in same}
<1>1. \A g \in F : Rank[g.severity] \in 0..4
    BY RankType DEF Graded
<1>2. short \in SUBSET Nat /\ short # {}
    BY <1>1
<1>3. PICK n \in short : \A m \in short : n <= m
    BY <1>2, LeastNatural
<1>4. PICK g \in same : n = 4 - Rank[g.severity]
    BY <1>3
<1>5. \A h \in same : Rank[h.severity] <= Rank[g.severity]
    BY <1>1, <1>3, <1>4
<1>6. g \in Deduped(F)
    BY <1>4, <1>5 DEF Deduped
<1> QED BY <1>5, <1>6

(* An item that is collected answers for the findings about it. *)
LEMMA ItemsAreJudged ==
    ASSUME job \in Jobs, ~Fails, NEW i \in Final, NEW g \in AnalyzePolicy(i.policy, i.provider),
           NEW f, f.severity \in Severity, Rank[f.severity] <= Rank[g.severity]
    PROVE  ~Blocks(f)
<1>1. Graded(AnalyzePolicy(i.policy, i.provider))
    BY AnalysisIsGraded
<1>2. PICK h \in Deduped(AnalyzePolicy(i.policy, i.provider)) : Rank[g.severity] <= Rank[h.severity]
    BY <1>1, DedupKeepsWorst
<1>3. h \in FinalResults
    BY <1>2 DEF FinalResults
<1>4. ~(Rank[h.severity] >= Rank[job.fail_on])
    BY <1>3 DEF Fails, Blocks
<1>5. /\ Rank[f.severity] \in 0..4 /\ Rank[g.severity] \in 0..4 /\ Rank[h.severity] \in 0..4
      /\ Rank[job.fail_on] \in 0..4
    BY <1>1, <1>3, FinalIsGraded, JobAssumption, RankType DEF Graded
<1> QED BY <1>2, <1>4, <1>5 DEF Blocks

(* The gate lets nothing through: behind an exit code of 0 there is no     *)
(* finding at or above the threshold, in any file named or below a         *)
(* directory that is, nor in any policy the plan makes known, whatever     *)
(* the walk, the deduplication and the labels of the extractor do to it.   *)
THEOREM PassingIsClean == Spec => []PassMeansClean
<1>1. GateOK => PassMeansClean
    <2> SUFFICES ASSUME GateOK, code # <<>>, code[1] = 0, NEW f \in FileFindings \cup PlanFindings
                 PROVE  ~Blocks(f)
        BY DEF PassMeansClean
    <2>1. Startable /\ Readable /\ ~Fails /\ job \in Jobs
        BY DEF GateOK, Told, TypeOK
    <2>2. CASE f \in FileFindings
        <3>1. PICK p \in Inside \cap DOMAIN Content :
                  /\ Content[p].kind = "document"
                  /\ f \in AnalyzePolicy(Content[p].policy, job.provider)
            BY <2>2 DEF FileFindings
        <3>2. p \in Reach
            <4>1. Named \subseteq Reach
                BY <2>1, NamedArePaths DEF Reach
            <4> QED BY <3>1, <4>1, ReachIsClosed DEF Inside, Closed
        <3> DEFINE i == [address |-> p, provider |-> job.provider, policy |-> Content[p].policy]
        <3>3. i \in Final
            <4>1. i \in Loaded(p)
                BY <3>1 DEF Loaded
            <4> QED BY <3>2, <4>1 DEF Final
        <3>4. f \in AnalyzePolicy(i.policy, i.provider)
            BY <3>1
        <3>5. f.severity \in Severity
            BY <3>1, AnalysisIsGraded DEF Graded
        <3>6. Rank[f.severity] <= Rank[f.severity]
            BY <3>5, RankType
        <3> HIDE DEF i
        <3> QED BY <2>1, <3>3, <3>4, <3>5, <3>6, ItemsAreJudged
    <2>3. CASE f \in PlanFindings
        <3>1. PlanOf(job)
            BY <2>3 DEF PlanFindings, PlanOf
        <3>2. PlanFindings = UNION {AnalyzePolicy(d.policy, d.provider) :
                                      d \in UNION {Deployed(r) : r \in Resources(job.tfplan)}}
            BY <3>1, Zenon DEF PlanFindings, PlanOf, Resources, Changed
        <3>3. PICK r \in Resources(job.tfplan) :
                  \E d \in Deployed(r) : f \in AnalyzePolicy(d.policy, d.provider)
            BY <2>3, <3>2
        <3>4. PICK d \in Deployed(r) : f \in AnalyzePolicy(d.policy, d.provider)
            BY <3>3
        <3>5. PICK got \in Extract(r).policies : \E g \in AnalyzePolicy(got, Extract(r).provider) :
                  Rank[f.severity] <= Rank[g.severity]
            BY <2>1, <3>1, <3>4, DeployedIsCovered DEF Covered
        <3>6. PICK g \in AnalyzePolicy(got, Extract(r).provider) : Rank[f.severity] <= Rank[g.severity]
            BY <3>5
        <3> DEFINE i == [address |-> r.address, provider |-> Extract(r).provider, policy |-> got]
        <3>7. i \in Final
            <4>1. i \in ExtractPolicies(job.tfplan)
                BY <3>5 DEF ExtractPolicies
            <4>2. PlanItems = ExtractPolicies(job.tfplan)
                BY <3>1 DEF PlanItems, PlanOf
            <4> QED BY <4>1, <4>2 DEF Final
        <3>8. g \in AnalyzePolicy(i.policy, i.provider)
            BY <3>6
        <3>9. f.severity \in Severity
            BY <3>4, AnalysisIsGraded DEF Graded
        <3> HIDE DEF i
        <3> QED BY <2>1, <3>6, <3>7, <3>8, <3>9, ItemsAreJudged
    <2> QED BY <2>2, <2>3
<1> QED BY <1>1, GateIsKept, PTL
=============================================================================
