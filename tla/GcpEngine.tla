----------------------------- MODULE GcpEngine -----------------------------
(***************************************************************************)
(* iam_engine_gcp.py: the rules about GCP policies, which bind roles to    *)
(* members, and about custom roles, which include permissions.  Roles and  *)
(* permissions are compared as they are; there is no pattern matching.     *)
(***************************************************************************)
EXTENDS Findings

CONSTANTS
    GcpRole,
    Owner, Editor,       \* PRIMITIVE_ROLES
    EscalationRole,      \* ESC_ROLES
    Member, PublicMember,
    Permission,
    EscalationPermission,
    WildcardPermission,  \* "*" and those that end in ".*"
    NotABinding          \* an entry of "bindings" that is not an object

ASSUME GcpAssumption ==
    /\ Owner # Editor /\ {Owner, Editor} \cup EscalationRole \subseteq GcpRole
    /\ PublicMember \subseteq Member
    /\ EscalationPermission \cup WildcardPermission \subseteq Permission

Binding == [role : GcpRole, members : SUBSET Member, condition : BOOLEAN]

ASSUME BindingAssumption == NotABinding \notin Binding

(* The evidence names the role and the member but not the condition.       *)
PublicFindings(b) ==
    {Finding("GCP.PUBLIC_MEMBER", IF b.condition THEN "HIGH" ELSE "CRITICAL", b.role, {b.role, m})
        : m \in b.members \cap PublicMember}

RoleFindings(b) ==
    CASE b.role = Owner  -> {Finding("GCP.PRIMITIVE_ROLE", "CRITICAL", b.role, {b.role})}
      [] b.role = Editor -> {Finding("GCP.PRIMITIVE_ROLE", "HIGH", b.role, {b.role})}
      [] OTHER -> When(b.role \in EscalationRole,
                       Finding("GCP.ESC_ROLE", "CRITICAL", b.role, {b.role}))

PermissionFindings(included) ==
    {Finding("GCP.ESC_PERMISSION", "CRITICAL", "custom role", {p})
        : p \in included \cap EscalationPermission}
    \cup {Finding("GCP.WILDCARD_PERMISSION", "HIGH", "custom role", {p})
            : p \in included \cap WildcardPermission}

(* analyze_gcp_policy; a key that is absent is empty here, and when both   *)
(* are there is only a parse error.                                        *)
AnalyzeGcpPolicy(bindings, included) ==
    (UNION {PublicFindings(b) \cup RoleFindings(b) : b \in bindings \ {NotABinding}})
    \cup PermissionFindings(included)
=============================================================================
