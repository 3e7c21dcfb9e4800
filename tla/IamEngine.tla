----------------------------- MODULE IamEngine -----------------------------
(***************************************************************************)
(* iam_engine.py: the rule engine for AWS policies.  A statement is what   *)
(* the rules look at.  Action strings are patterns; that fnmatch matches a *)
(* pattern with an action the rules ask for is the relation Covers, and    *)
(* the rule tables are constants, for the program reads some of them from  *)
(* custom_rules.json.                                                      *)
(***************************************************************************)
EXTENDS Findings, Sequences

CONSTANTS
    Sid, NoSid,          \* statement ids, and the lack of one
    CrossStatement,      \* the location of findings about the whole policy
    Pattern,             \* action strings of a policy
    Global,              \* the pattern "*"
    ServiceWildcard,     \* the patterns that end in ":*"
    AdminService,        \* those that are "iam:*" or "sts:*" in any case
    Needed,              \* the actions that rules ask for
    Covers,              \* Covers[p]: the needed actions that pattern p matches
    Primitive, Needs,    \* ESCALATION_PRIMITIVES: ids and their actions
    FullAdmin,           \* FULL_ADMIN_ACTIONS without "*"
    Exfil,               \* EXFIL_ACTIONS, in order
    AssumeRole, PassRole,
    NotAnObject          \* an entry of "Statement" that is not an object

ASSUME PatternAssumption ==
    /\ Global \in Pattern \ ServiceWildcard
    /\ AdminService \subseteq ServiceWildcard
    /\ Covers \in [Pattern -> SUBSET Needed]
    /\ Covers[Global] = Needed

ASSUME RuleAssumption ==
    /\ Needs \in [Primitive -> (SUBSET Needed) \ {{}}]
    /\ FullAdmin \subseteq Needed
    /\ Exfil \in Seq(Needed)
    /\ {AssumeRole, PassRole} \subseteq Needed

ASSUME TableAssumption == IsFiniteSet(Primitive) /\ IsFiniteSet(FullAdmin)

ASSUME LocationAssumption == NoSid \notin Sid /\ CrossStatement \notin Sid \cup {NoSid}

Statement ==
    [sid : Sid \cup {NoSid}, effect : {"allow", "other"}, actions : SUBSET Pattern,
     notActions : SUBSET Pattern, anyResource : BOOLEAN, condition : BOOLEAN,
     anyPrincipal : BOOLEAN]

ASSUME ObjectAssumption == NotAnObject \notin Statement

(* stmt.get("Sid") or f"Statement[{idx}]" *)
Located(sid, pos) == [sid |-> sid, pos |-> pos]
Cross == Located(CrossStatement, 0)

(* Seeded fault: the index is always used. *)
LocationByIndex(s, i) == Located(NoSid, i)

Location(s, i) == IF s.sid = NoSid THEN Located(NoSid, i) ELSE Located(s.sid, 0)

Allows(s) == s # NotAnObject /\ s.effect = "allow"

(* _action_matches *)
ActionMatches(patterns, needed) == \E p \in patterns : needed \in Covers[p]

(* The rules that look at one statement, all of them about Allow. *)
StatementFindings(s, i) ==
    LET at == Location(s, i)
        all == Global \in s.actions
    IN  When(all, Finding("WILDCARD_ACTION_ALL", "CRITICAL", at, {}))
        \cup {Finding("WILDCARD_ACTION_SERVICE",
                      IF p \in AdminService THEN "CRITICAL" ELSE "HIGH", at, {p})
                : p \in s.actions \cap ServiceWildcard}
        \cup When(s.anyResource /\ s.actions # {} /\ ~all,
                  Finding("WILDCARD_RESOURCE", "HIGH", at, {}))
        \cup When(s.notActions # {}, Finding("NOTACTION_ALLOW", "HIGH", at, s.notActions))
        \cup When(s.anyPrincipal,
                  Finding("WILDCARD_PRINCIPAL", IF s.condition THEN "MEDIUM" ELSE "CRITICAL", at, {}))
        \cup When(ActionMatches(s.actions, AssumeRole) /\ ~s.condition,
                  Finding("ASSUMEROLE_NO_CONDITION", "MEDIUM", at, {}))
        \cup When(ActionMatches(s.actions, PassRole) /\ s.anyResource,
                  Finding("PASSROLE_WILDCARD", "HIGH", at, {}))

(* Seeded fault: the patterns of Deny statements are gathered too. *)
AllowedPatternsAndDenied(policy) ==
    UNION {policy[i].actions : i \in {j \in DOMAIN policy : policy[j] # NotAnObject}}

AllowedPatterns(policy) ==
    UNION {policy[i].actions : i \in {j \in DOMAIN policy : Allows(policy[j])}}

(* Seeded fault: any service-wide wildcard counts as a global one. *)
SuppressedByService(patterns) == patterns \cap (ServiceWildcard \cup {Global}) # {}

(* A global "*" makes the rules below redundant. *)
Suppressed(patterns) == Global \in patterns

FirstExfil(patterns) ==
    LET hits == {k \in DOMAIN Exfil : ActionMatches(patterns, Exfil[k])}
    IN  {Exfil[k] : k \in {j \in hits : \A i \in hits : j <= i}}

(* The rules that put all Allow statements together. *)
CrossFindings(policy) ==
    LET patterns == AllowedPatterns(policy)
        starred == \E i \in DOMAIN policy : Allows(policy[i]) /\ policy[i].anyResource
    IN  IF Suppressed(patterns) THEN {}
        ELSE {Finding(p, "CRITICAL", Cross, Needs[p])
                : p \in {q \in Primitive : \A n \in Needs[q] : ActionMatches(patterns, n)}}
             \cup {Finding("ADMIN_EQUIVALENT", "CRITICAL", Cross, {n})
                     : n \in {m \in FullAdmin : ActionMatches(patterns, m)}}
             \cup {Finding("DATA_EXFIL_CAPABLE", "HIGH", Cross, {n})
                     : n \in IF starred THEN FirstExfil(patterns) ELSE {}}

(* analyze_iam_policy; without a statement there is only a parse error. *)
AnalyzeIamPolicy(policy) ==
    IF policy = <<>> THEN {}
    ELSE (UNION {StatementFindings(policy[i], i) : i \in {j \in DOMAIN policy : Allows(policy[j])}})
         \cup CrossFindings(policy)
=============================================================================
