-------------------------- MODULE TerraformExtract --------------------------
(***************************************************************************)
(* terraform_extract.py: the policies of a plan.  A resource has an        *)
(* address, a type and the values known at plan time; a policy attribute   *)
(* that is only known after apply is not among them.  Resources stand in   *)
(* planned_values, in the module tree, and in resource_changes, there with *)
(* null for `after` when the resource goes away.                           *)
(***************************************************************************)
EXTENDS Providers

CONSTANTS
    Broken,          \* a policy attribute whose text is no JSON object
    GrantType        \* types that begin with "google_" and contain "iam_binding" or "iam_member"

PolicyType == {"aws_iam_policy", "aws_iam_role_policy", "aws_iam_user_policy", "aws_iam_group_policy"}
AwsType == PolicyType \cup {"aws_iam_role"}

ASSUME GrantTypeAssumption ==
    GrantType \cap (AwsType \cup {"azurerm_role_definition", "google_project_iam_custom_role"}) = {}

(* Seeded fault: resource_changes is a fallback only.                      *)
ResourcesPlanned(plan) ==
    IF plan.planned # {} THEN plan.planned
    ELSE {[address |-> c.address, type |-> c.type, values |-> c.after] :
            c \in {d \in plan.changes : "after" \in DOMAIN d}}

(* _iter_resources, in no order: what is made of one does not depend on    *)
(* the others.                                                             *)
Resources(plan) ==
    plan.planned
    \cup {[address |-> c.address, type |-> c.type, values |-> c.after] :
            c \in {d \in plan.changes : "after" \in DOMAIN d}}

(* _load_json_policy of an attribute: a set of at most one document. *)
LoadJsonPolicy(values, attribute) ==
    IF attribute \in DOMAIN values THEN {values[attribute]} \ {Broken} ELSE {}

(* _azure_policy: blocks that are no objects are left out.                 *)
AzurePolicy(values) ==
    {[properties |-> [roleName         |-> Get(values, "name", "tf-role"),
                      permissions      |-> perms \ {NotABlock},
                      assignableScopes |-> Get(values, "assignable_scopes", {})]]
        : perms \in {Get(values, "permissions", {})} \ {{}}}

CustomRole(values) ==
    {[includedPermissions |-> perms] : perms \in {Get(values, "permissions", {})} \ {{}}}

(* The members of a grant, or its one member when there are none. *)
MembersOf(values) ==
    IF Get(values, "members", {}) # {} THEN values.members ELSE Get(values, "member", {})

(* The condition of a grant is not read. *)
Grant(values) ==
    {[bindings |-> {[role |-> values[key], members |-> MembersOf(values), condition |-> FALSE]}]
        : key \in {"role"} \cap DOMAIN values}

(* The provider and the policies, one or none, of a resource. *)
Extract(r) ==
    CASE r.type \in PolicyType ->
             [provider |-> "aws", policies |-> LoadJsonPolicy(r.values, "policy")]
      [] r.type = "aws_iam_role" ->
             [provider |-> "aws", policies |-> LoadJsonPolicy(r.values, "assume_role_policy")]
      [] r.type = "azurerm_role_definition" ->
             [provider |-> "azure", policies |-> AzurePolicy(r.values)]
      [] r.type = "google_project_iam_custom_role" ->
             [provider |-> "gcp", policies |-> CustomRole(r.values)]
      [] r.type \in GrantType -> [provider |-> "gcp", policies |-> Grant(r.values)]
      [] OTHER -> [provider |-> "none", policies |-> {}]

(* extract_policies: one item for each address and policy. *)
ExtractPolicies(plan) ==
    UNION {{[address |-> r.address, provider |-> Extract(r).provider, policy |-> p]
              : p \in Extract(r).policies} : r \in Resources(plan)}
=============================================================================
