---------------------------- MODULE MCGuardrail ----------------------------
(* A checkout, plans and command lines for Guardrail. *)
EXTENDS Guardrail, MCPolicies

AzureTable == [p \in {"*", "Microsoft.Authorization/*", "Microsoft.Compute/*/read"} |->
    CASE p = "*" -> {"roleAssignments/write", "Authorization/*"}
      [] p = "Microsoft.Authorization/*" -> {"roleAssignments/write", "Authorization/*"}
      [] OTHER -> {}]

AzureActions ==
    [ESC_ROLE_ASSIGNMENT_WRITE |-> "roleAssignments/write", ESC_AUTHORIZATION_ALL |-> "Authorization/*"]

Aws(statements) == [Statement |-> statements]

Chain == Aws(<<Allow("A", {"iam:PassRole"}), Allow("B", {"ec2:RunInstances"})>>)
Clean == Aws(<<Allow("A", {"kms:Decrypt"})>>)
OpenTrust == Aws(<<[Allow("A", {}) EXCEPT !.anyPrincipal = TRUE, !.condition = TRUE]>>)

Bind(role, members, condition) == [role |-> role, members |-> members, condition |-> condition]

(* One role granted to everyone, with a condition and without one. *)
Public ==
    [bindings |-> {Bind("roles/viewer", {"allUsers"}, TRUE), Bind("roles/viewer", {"allUsers"}, FALSE)}]

AzureBlock(actions, notActions) ==
    [actions |-> actions, dataActions |-> {}, notActions |-> notActions]

Trap == [properties |-> [permissions |-> {AzureBlock({"*"}, {"Microsoft.Authorization/*"}), NotABlock}]]

(* Its properties are null; a binding has null for its members. *)
NullProperties == [properties |-> Unusable, Statement |-> <<Allow("A", {"*"})>>]
NullMembers == [bindings |-> {Bind("roles/owner", Unusable, FALSE)}]

(* A policy of AWS that looks like a role of Azure. *)
Disguised ==
    [Statement |-> <<Allow("A", {"*"})>>, permissions |-> {}, description |-> "stops Microsoft.Compute hosts"]

(* The directory old.json matches the pattern that looks for files.        *)
Tree ==
    [x \in {"policies", "old.json", "deep", "chain", "clean", "public", "trap", "disguised",
            "nullproperties", "nullmembers", "list", "null", "text"} |->
        CASE x = "policies" ->
                 [kind |-> "directory", below |-> <<"clean", "public", "text", "old.json", "deep">>]
          [] x = "old.json" -> [kind |-> "directory", below |-> <<"deep">>]
          [] x = "deep"     -> [kind |-> "document", policy |-> OpenTrust]
          [] x = "chain"    -> [kind |-> "document", policy |-> Chain]
          [] x = "clean"    -> [kind |-> "document", policy |-> Clean]
          [] x = "public"   -> [kind |-> "document", policy |-> Public]
          [] x = "trap"     -> [kind |-> "document", policy |-> Trap]
          [] x = "disguised" -> [kind |-> "document", policy |-> Disguised]
          [] x = "nullproperties" -> [kind |-> "document", policy |-> NullProperties]
          [] x = "nullmembers" -> [kind |-> "document", policy |-> NullMembers]
          [] x = "list"     -> [kind |-> "document", policy |-> NotAnObject]
          [] x = "null"     -> [kind |-> "null"]
          [] OTHER          -> [kind |-> "unreadable"]]

Resource(address, type, values) == [address |-> address, type |-> type, values |-> values]
Change(address, type, after) == [address |-> address, type |-> type, after |-> after]

(* Known and unknown policies, a broken one, one that is not what it looks *)
(* like, grants with a condition and with no members, a custom role, and a *)
(* bucket.                                                                 *)
Offer ==
    {Resource("aws_iam_policy.a", "aws_iam_policy", [policy |-> Clean]),
     Resource("aws_iam_policy.b", "aws_iam_policy", [name |-> "later"]),
     Resource("aws_iam_policy.c", "aws_iam_user_policy", [policy |-> Broken]),
     Resource("aws_iam_policy.d", "aws_iam_role_policy", [policy |-> Disguised]),
     Resource("aws_iam_role.r", "aws_iam_role", [assume_role_policy |-> OpenTrust]),
     Resource("google_project_iam_member.m", "google_project_iam_member",
              [role |-> "roles/viewer", member |-> {"allUsers"}, condition |-> TRUE]),
     Resource("google_storage_bucket_iam_member.p", "google_storage_bucket_iam_member",
              [role |-> "roles/viewer", members |-> {}, member |-> {"allUsers"}]),
     Resource("google_project_iam_custom_role.c", "google_project_iam_custom_role",
              [permissions |-> {"*", "iam.roles.update"}]),
     Resource("azurerm_role_definition.z", "azurerm_role_definition",
              [name |-> "ops", permissions |-> {AzureBlock({"Microsoft.Compute/*/read"}, {})},
               assignable_scopes |-> {"/subscriptions/1"}]),
     Resource("aws_s3_bucket.s", "aws_s3_bucket", [bucket |-> "b"])}

(* Resources that only the list of changes holds, one of them going away.  *)
Changes ==
    {{},
     {Change("aws_iam_group_policy.g", "aws_iam_group_policy", [policy |-> Chain]),
      [address |-> "aws_iam_policy.old", type |-> "aws_iam_policy"]},
     {Change("google_project_iam_binding.b", "google_project_iam_binding",
             [role |-> "roles/editor", members |-> {"user:ann"}])}}

Plans ==
    {NoArgument, Missing, Malformed}
    \cup [planned : {{r, s} : r, s \in Offer}, changes : Changes]

Patterns ==
    {<<>>, <<<<>>>>, <<<<"policies">>, <<"absent">>>>, <<<<"chain", "null">>>>, <<<<"trap">>>>,
     <<<<"disguised">>>>, <<<<"nullproperties">>>>, <<<<"nullmembers">>>>, <<<<"list">>>>, <<<<"text">>>>}

CommandLines ==
    [tfplan : {NoArgument, Missing, Malformed}, patterns : Patterns,
     provider : {"auto", "aws", "azure", "gcp"}, fail_on : Severity]
    \cup [tfplan : Plans, patterns : {<<>>, <<<<"policies">>>>}, provider : {"auto"},
          fail_on : {"CRITICAL", "HIGH", "MEDIUM"}]
=============================================================================
