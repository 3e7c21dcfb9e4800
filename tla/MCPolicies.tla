----------------------------- MODULE MCPolicies -----------------------------
(* A small rule table for IamEngine. *)
EXTENDS IamEngine

PatternTable ==
    [p \in {"*", "*:*", "iam:*", "s3:*", "iam:PassRole", "ec2:RunInstances", "kms:Decrypt"} |->
        CASE p = "*"     -> Needed
          [] p = "*:*"   -> Needed
          [] p = "iam:*" -> {"iam:*", "iam:PassRole", "iam:AttachUserPolicy"}
          [] p = "s3:*"  -> {"s3:*", "s3:GetObject"}
          [] OTHER       -> {p}]

NeededActions ==
    {"iam:*", "sts:*", "sts:AssumeRole", "iam:PassRole", "iam:AttachUserPolicy",
     "ec2:RunInstances", "s3:*", "s3:GetObject", "kms:Decrypt"}

PrimitiveTable ==
    [ESC_ATTACH_USER_POLICY |-> {"iam:AttachUserPolicy"},
     ESC_PASSROLE_EC2       |-> {"iam:PassRole", "ec2:RunInstances"}]

ExfilActions == <<"s3:GetObject", "s3:*", "kms:Decrypt">>

Allow(sid, actions) ==
    [sid |-> sid, effect |-> "allow", actions |-> actions, notActions |-> {},
     anyResource |-> FALSE, condition |-> FALSE, anyPrincipal |-> FALSE]
=============================================================================
