SPECIFICATION Spec
CONSTANTS
    Sid = {"A", "B", "C", "D", "E", "F", "G", "H"}
    NoSid = NoSid
    CrossStatement = "cross-statement"
    Pattern = {"*", "*:*", "iam:*", "s3:*", "iam:PassRole", "ec2:RunInstances", "kms:Decrypt"}
    Global = "*"
    ServiceWildcard = {"*:*", "iam:*", "s3:*"}
    AdminService = {"iam:*"}
    Needed <- NeededActions
    Covers <- PatternTable
    Primitive = {"ESC_ATTACH_USER_POLICY", "ESC_PASSROLE_EC2"}
    Needs <- PrimitiveTable
    FullAdmin = {"iam:*", "sts:*"}
    Exfil <- ExfilActions
    AssumeRole = "sts:AssumeRole"
    PassRole = "iam:PassRole"
    NotAnObject = NotAnObject
    Offered <- Statements
    MaxLength = 3
    MaxEdits = 2
    MaxScans = 2
INVARIANTS
    SeveritiesAgree
    EscalationIsCritical
    DiffIsLocal
    NewNeedsAGrant
PROPERTIES
    GrantNeverLowersSeverity
CHECK_DEADLOCK FALSE
