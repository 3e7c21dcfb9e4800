--------------------------- MODULE MCScanHistory ---------------------------
(* A few statements for ScanHistory. *)
EXTENDS ScanHistory, MCPolicies

(* Chains split over statements, wildcards, a trap, a Deny, open trust     *)
(* under one Sid with and without a condition, and a stray entry.          *)
Statements ==
    {Allow("A", {"iam:PassRole"}),
     [Allow("B", {"ec2:RunInstances"}) EXCEPT !.anyResource = TRUE],
     [Allow("C", {"s3:*", "kms:Decrypt"}) EXCEPT !.anyResource = TRUE],
     [Allow("D", {"kms:Decrypt"}) EXCEPT !.anyResource = TRUE],
     Allow("E", {"*"}),
     [Allow("F", {"*"}) EXCEPT !.effect = "other"],
     Allow("G", {"*:*"}),
     [Allow(NoSid, {}) EXCEPT !.notActions = {"iam:*"}],
     [Allow("H", {}) EXCEPT !.anyPrincipal = TRUE],
     [Allow("H", {}) EXCEPT !.anyPrincipal = TRUE, !.condition = TRUE],
     NotAnObject}
=============================================================================
