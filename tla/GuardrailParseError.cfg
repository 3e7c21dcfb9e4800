SPECIFICATION Spec
CONSTANTS
    Sid = {"A", "B"}
    NoSid = NoSid
    CrossStatement = "cross-statement"
    Pattern = {"*", "*:*", "iam:*", "s3:*", "iam:PassRole", "ec2:RunInstances", "kms:Decrypt"}
    Global = "*"
    ServiceWildcard = {"*:*", "iam:*", "s3:*"}
    AdminService = {"iam:*"}
    Needed <- NeededActions
    Covers <- PatternTable
    Primitive = {"ESC_ATTACH_USER_POLICY", "ESC_PASSROLE_EC2"}
    Needs <- PrimitiveTable
    FullAdmin = {"iam:*", "sts:*"}
    Exfil <- ExfilActions
    AssumeRole = "sts:AssumeRole"
    PassRole = "iam:PassRole"
    NotAnObject = NotAnObject
    RoleName = {"ops", "tf-role", "custom role"}
    AzurePattern = {"*", "Microsoft.Authorization/*", "Microsoft.Compute/*/read"}
    AllActions = "*"
    AzurePrimitive = {"ESC_ROLE_ASSIGNMENT_WRITE", "ESC_AUTHORIZATION_ALL"}
    AzureAction <- AzureActions
    AzureCovers <- AzureTable
    Scope = {"/", "/subscriptions/1", "/subscriptions/1/resourceGroups/a"}
    RootScope = {"/"}
    SubscriptionScope = {"/subscriptions/1"}
    NotABlock = NotABlock
    GcpRole = {"roles/owner", "roles/editor", "roles/compute.admin", "roles/viewer"}
    Owner = "roles/owner"
    Editor = "roles/editor"
    EscalationRole = {"roles/owner", "roles/compute.admin"}
    Member = {"allUsers", "user:ann"}
    PublicMember = {"allUsers"}
    Permission = {"*", "iam.roles.update", "storage.objects.get"}
    EscalationPermission = {"iam.roles.update"}
    WildcardPermission = {"*"}
    NotABinding = NotABinding
    AzureText = {"stops Microsoft.Compute hosts"}
    Unusable = Unusable
    Broken = Broken
    GrantType = {"google_project_iam_member", "google_project_iam_binding", "google_storage_bucket_iam_member"}
    Path = {"policies", "old.json", "deep", "chain", "clean", "public", "trap", "disguised",
            "nullproperties", "nullmembers", "list", "null", "text", "absent"}
    Content <- Tree
    Jobs <- CommandLines
    NoArgument = NoArgument
    Missing = Missing
    Malformed = Malformed
INVARIANT
    ParseErrorIsUsageError
