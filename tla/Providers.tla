----------------------------- MODULE Providers -----------------------------
(***************************************************************************)
(* providers.py: which engine a document goes to.  A JSON object is a      *)
(* function on the keys it has, so that `key in policy` is membership of   *)
(* its domain; a document that is no object is NotAnObject.                *)
(***************************************************************************)
EXTENDS IamEngine, AzureEngine, GcpEngine

CONSTANTS
    AzureText,       \* names and descriptions that mention "actions",
                     \* "assignableScopes" or "Microsoft." somewhere
    Unusable         \* a value the code cannot go on with at its place: null
                     \* for an object or for members, a number for a list

Get(object, key, default) == IF key \in DOMAIN object THEN object[key] ELSE default

LooksLikeGcp(doc) == {"bindings", "includedPermissions"} \cap DOMAIN doc # {}

(* Seeded fault: a role definition is only looked for at the top level.    *)
PropertiesIgnored(doc) == doc

Properties(doc) == Get(doc, "properties", doc)

(* The text of the object: the keys of a block name actions, of any kind.  *)
MentionsAzure(props) ==
    \/ "assignableScopes" \in DOMAIN props
    \/ props.permissions \ {NotABlock} # {}
    \/ \E key \in {"roleName", "name", "description"} \cap DOMAIN props : props[key] \in AzureText

LooksLikeAzure(doc) ==
    LET props == Properties(doc)
    IN  /\ "permissions" \in DOMAIN props /\ props.permissions # Unusable
        /\ MentionsAzure(props)

DetectProvider(doc) ==
    IF doc = NotAnObject THEN "aws"
    ELSE IF LooksLikeGcp(doc) THEN "gcp"
    ELSE IF LooksLikeAzure(doc) THEN "azure"
    ELSE "aws"

Resolved(doc, provider) == IF provider = "auto" THEN DetectProvider(doc) ELSE provider

(* Every engine begins with policy.get; the shape test and the Azure       *)
(* engine look into the properties, and the loops of the Azure and the GCP *)
(* engine take what they find for lists.  The AWS engine takes anything.   *)
Raises(doc, provider) ==
    \/ doc = NotAnObject
    \/ /\ Properties(doc) = Unusable
       /\ provider = "azure" \/ (provider = "auto" /\ ~LooksLikeGcp(doc))
    \/ /\ Resolved(doc, provider) = "azure"
       /\ Get(Properties(doc), "permissions", {}) = Unusable
    \/ /\ Resolved(doc, provider) = "gcp"
       /\ \/ Unusable \in {Get(doc, "bindings", {}), Get(doc, "includedPermissions", {})}
          \/ \E b \in Get(doc, "bindings", {}) \ {NotABinding} : b.members = Unusable

(* _extract *)
RoleOf(doc) ==
    LET props == Properties(doc)
    IN  [name |-> Get(props, "roleName", Get(props, "name", Get(doc, "name", "custom role"))),
         permissions |-> Get(props, "permissions", {}),
         scopes |-> Get(props, "assignableScopes", {})]

AnalyzePolicy(doc, provider) ==
    CASE Resolved(doc, provider) = "azure" -> AnalyzeAzureRole(RoleOf(doc))
      [] Resolved(doc, provider) = "gcp" ->
             AnalyzeGcpPolicy(Get(doc, "bindings", {}), Get(doc, "includedPermissions", {}))
      [] OTHER -> AnalyzeIamPolicy(Get(doc, "Statement", <<>>))
=============================================================================
