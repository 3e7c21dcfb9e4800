---------------------------- MODULE AzureEngine ----------------------------
(***************************************************************************)
(* iam_engine_azure.py: the rules about Azure role definitions.  A role    *)
(* has blocks of permissions and scopes; as in IamEngine, that a pattern   *)
(* matches an action is a relation and the rule table is a constant.       *)
(***************************************************************************)
EXTENDS Findings

CONSTANTS
    RoleName,
    AzurePattern,        \* action strings of a role
    AllActions,          \* the pattern "*"
    AzurePrimitive,      \* the rules of the table esc
    AzureAction,         \* the action of each
    AzureCovers,         \* AzureCovers[p]: the actions of the table that p matches
    Scope, RootScope, SubscriptionScope,
    NotABlock            \* an entry of "permissions" that is not an object

ASSUME AzurePatternAssumption ==
    /\ AllActions \in AzurePattern
    /\ AzureCovers \in [AzurePattern -> SUBSET {AzureAction[r] : r \in AzurePrimitive}]
    /\ AzureCovers[AllActions] = {AzureAction[r] : r \in AzurePrimitive}

ASSUME ScopeAssumption ==
    RootScope \subseteq Scope /\ SubscriptionScope \subseteq Scope \ RootScope

Block == [actions : SUBSET AzurePattern, dataActions : SUBSET AzurePattern,
          notActions : SUBSET AzurePattern]

ASSUME BlockAssumption == NotABlock \notin Block

(* What _extract finds: one block, given without a list, is one of one. *)
Role == [name : RoleName, permissions : SUBSET (Block \cup {NotABlock}), scopes : SUBSET Scope]

Objects(role) == role.permissions \ {NotABlock}

(* all_actions *)
AzureGranted(role) == UNION {b.actions : b \in Objects(role)}

BlockFindings(b, at) ==
    LET all == AllActions \in b.actions
    IN  When(all, Finding("AZ.WILDCARD_ACTION_ALL", "CRITICAL", at, {}))
        \cup When(AllActions \in b.dataActions,
                  Finding("AZ.WILDCARD_DATAACTION_ALL", "HIGH", at, {}))
        \cup When(all /\ b.notActions # {},
                  Finding("AZ.NOTACTIONS_TRAP", "HIGH", at, b.notActions))

EscalationFindings(role) ==
    {Finding(r, "CRITICAL", role.name, {AzureAction[r]}) :
        r \in {q \in AzurePrimitive : \E p \in AzureGranted(role) : AzureAction[q] \in AzureCovers[p]}}

ScopeFindings(role) ==
    {Finding("AZ.SCOPE_ROOT", "HIGH", role.name, {s}) : s \in role.scopes \cap RootScope}
    \cup {Finding("AZ.SCOPE_SUBSCRIPTION", "MEDIUM", role.name, {s})
            : s \in role.scopes \cap SubscriptionScope}

(* analyze_azure_role; without permissions there is only a parse error.    *)
AnalyzeAzureRole(role) ==
    IF role.permissions = {} THEN {}
    ELSE (UNION {BlockFindings(b, role.name) : b \in Objects(role)})
         \cup EscalationFindings(role) \cup ScopeFindings(role)
=============================================================================
