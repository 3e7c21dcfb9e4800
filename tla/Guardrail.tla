----------------------------- MODULE Guardrail -----------------------------
(***************************************************************************)
(* The CI gate: guardrails.py from its arguments to its exit code, run     *)
(* twice over the same checkout by action.yml, first for SARIF on stdout   *)
(* and with the exit code that decides the build, then for the comment.    *)
(* Files and the plan do not change under way; writing may fail.           *)
(***************************************************************************)
EXTENDS TerraformExtract, Integers, FiniteSetsExt, SequencesExt

CONSTANTS
    Path,
    Content,         \* what is at a path, see Entry; a path not in its domain is missing
    Jobs,            \* the command lines: tfplan, patterns (each as what it
                     \* expands to), provider and fail_on
    NoArgument, Missing, Malformed    \* for tfplan: not given, no file, no plan in it

(* A directory has the *.json below it, at any depth; a file a document,   *)
(* the JSON value null, or no JSON that can be read.                       *)
Entry ==
    [kind : {"directory"}, below : Seq(Path)] \cup [kind : {"null", "unreadable"}]
    \cup UNION {[kind : {"document"}, policy : {Content[p].policy}]
                  : p \in {q \in DOMAIN Content : Content[q].kind = "document"}}

ASSUME ContentAssumption ==
    /\ DOMAIN Content \subseteq Path
    /\ \A p \in DOMAIN Content : Content[p] \in Entry

(* What argparse lets through. *)
ASSUME JobAssumption ==
    \A j \in Jobs :
        /\ j.patterns \in Seq(Seq(Path))
        /\ j.provider \in {"auto", "aws", "azure", "gcp"}
        /\ j.fail_on \in Severity

VARIABLES
    job,
    run,        \* which of the two runs of the action: "sarif", "comment"
    pc,
    queue,      \* paths that _collect has still to look at
    items,      \* collected policies
    sarif,      \* severities of the results on stdout, NoOutput without any
    comment,    \* the verdict in the comment file, "none" before it is written
    code        \* exit codes of the runs that have ended

(* What a redirected stdout holds when nothing was printed. *)
NoOutput == {"nothing"}

vars == <<job, run, pc, queue, items, sarif, comment, code>>

Init ==
    /\ job \in Jobs
    /\ run = "sarif" /\ pc = "start"
    /\ queue = <<>> /\ items = {}
    /\ sarif = NoOutput /\ comment = "none"
    /\ code = <<>>

(* The process ends; the action runs the second one, whose code it drops.  *)
Exit(c) ==
    /\ code' = Append(code, c)
    /\ IF run = "sarif" THEN run' = "comment" /\ pc' = "start" ELSE run' = run /\ pc' = "done"
    /\ queue' = <<>> /\ items' = {}
    /\ UNCHANGED job

Proceed(step) == pc' = step /\ UNCHANGED <<job, run, code>>

Collect(found) == items' = items \cup found

(* argparse's error, and the checks on the plan; a plan that cannot be     *)
(* parsed ends the run with a traceback.                                   *)
Start ==
    /\ pc = "start"
    /\ \/ /\ job.patterns = <<>> /\ job.tfplan = NoArgument
          /\ Exit(2)
       \/ job.tfplan = Missing /\ Exit(2)
       \/ job.tfplan = Malformed /\ Exit(1)
       \/ /\ job.tfplan \notin {Missing, Malformed}
          /\ job.patterns # <<>> \/ job.tfplan # NoArgument
          /\ Collect(IF job.tfplan = NoArgument THEN {} ELSE ExtractPolicies(job.tfplan))
          /\ queue' = FlattenSeq(job.patterns)
          /\ Proceed("collect")
    /\ UNCHANGED <<sarif, comment>>

(* Seeded fault: glob(p) for the pattern of what is below p. *)
ExpandToItself(p) == <<p>>

(* matches += glob(...) while matches is walked *)
Expand(p) == Content[p].below

Loaded(p) ==
    IF p \in DOMAIN Content /\ Content[p].kind = "document"
    THEN {[address |-> p, provider |-> job.provider, policy |-> Content[p].policy]}
    ELSE {}

IsDirectory(p) == p \in DOMAIN Content /\ Content[p].kind = "directory"

(* One path: a directory adds what is below it; a file that is missing or  *)
(* unreadable is a warning, the JSON value null not even that.             *)
TakePath ==
    /\ pc = "collect" /\ queue # <<>>
    /\ LET p == Head(queue)
       IN  IF IsDirectory(p) THEN queue' = Tail(queue) \o Expand(p) /\ UNCHANGED items
           ELSE queue' = Tail(queue) /\ Collect(Loaded(p))
    /\ Proceed("collect")
    /\ UNCHANGED <<sarif, comment>>

Publish(severities) == sarif' = IF run = "sarif" THEN severities ELSE sarif

(* Nothing to scan is not a failure; no comment is written either. *)
NothingFound ==
    /\ pc = "collect" /\ queue = <<>> /\ items = {}
    /\ Publish({})
    /\ Exit(0)
    /\ UNCHANGED comment

Scannable == \A i \in items : ~Raises(i.policy, i.provider)

(* analyze_policy raises, and so does the run. *)
ScanRaises ==
    /\ pc = "collect" /\ queue = <<>>
    /\ ~Scannable
    /\ Exit(1)
    /\ UNCHANGED <<sarif, comment>>

Results == UNION {Deduped(AnalyzePolicy(i.policy, i.provider)) : i \in items}

ScanAll ==
    /\ pc = "collect" /\ queue = <<>> /\ items # {}
    /\ Scannable
    /\ Proceed("report")
    /\ UNCHANGED <<queue, items, sarif, comment>>

(* The highest rank over all items, -1 if there is no finding. *)
Worst == Max({-1} \cup {Rank[f.severity] : f \in Results})

Blocking == Worst >= Rank[job.fail_on]

(* Seeded fault: the comment has a threshold of its own. *)
CommentVerdictAtHigh == IF Worst >= Rank["HIGH"] THEN "FAILED" ELSE "PASSED"

CommentVerdict == IF Blocking THEN "FAILED" ELSE "PASSED"

(* The comment file is only named in the second run. *)
WriteComment ==
    /\ pc = "report"
    /\ comment' = IF run = "comment" THEN CommentVerdict ELSE comment
    /\ Proceed("print")
    /\ UNCHANGED <<queue, items, sarif>>

(* open or write raises, which nothing catches. *)
CommentFails ==
    /\ pc = "report" /\ run = "comment"
    /\ Exit(1)
    /\ UNCHANGED <<sarif, comment>>

(* Seeded fault: the process exits with the worst rank. *)
ExitCodeRank == IF Blocking THEN Worst ELSE 0

ExitCode == IF Blocking THEN 1 ELSE 0

(* Results on stdout, and sys.exit. *)
Finish ==
    /\ pc = "print"
    /\ Publish({f.severity : f \in Results})
    /\ Exit(ExitCode)
    /\ UNCHANGED comment

Step ==
    Start \/ TakePath \/ NothingFound \/ ScanRaises \/ ScanAll \/ WriteComment \/ CommentFails \/ Finish

Stop == pc = "done" /\ UNCHANGED vars

Next == Step \/ Stop

Spec == Init /\ [][Next]_vars

(* A process that is started runs on. *)
FairSpec == Spec /\ WF_vars(Step)

-----------------------------------------------------------------------------
(* The types of the job's variables. *)
TypeOK ==
    /\ job \in Jobs
    /\ run \in {"sarif", "comment"}
    /\ pc \in {"start", "collect", "report", "print", "done"}
    /\ queue \in Seq(Path)
    /\ \A i \in items : i.provider \in {"auto", "aws", "azure", "gcp"}
    /\ sarif = NoOutput \/ sarif \subseteq Severity
    /\ comment \in {"none", "PASSED", "FAILED"}
    /\ Len(code) <= 2 /\ \A k \in DOMAIN code : code[k] \in 0..2

(* What the checkout and the plan hold, read without the program: files    *)
(* named or below a directory that is, and every resource of the plan of a *)
(* type that terraform_extract.py:9-14 lists, with the policy it would     *)
(* have in the cloud of that type.                                         *)
Named == ToSet(FlattenSeq(job.patterns))

Inside ==
    Named \cup UNION {ToSet(Content[p].below) : p \in {q \in Named : IsDirectory(q)}}

FileFindings ==
    UNION {AnalyzePolicy(Content[p].policy, job.provider)
             : p \in {q \in Inside \cap DOMAIN Content :
                          Content[q].kind = "document" /\ ~Raises(Content[q].policy, job.provider)}}

(* An Azure role in the flat form its API lists it in, and a grant with    *)
(* all its members and its condition.                                      *)
Deployed(r) ==
    LET v == r.values
        attribute == IF r.type = "aws_iam_role" THEN "assume_role_policy" ELSE "policy"
    IN  CASE r.type \in AwsType ->
                 {[provider |-> "aws", policy |-> v[key]]
                    : key \in {k \in {attribute} \cap DOMAIN v : v[k] # Broken}}
          [] r.type = "azurerm_role_definition" ->
                 {[provider |-> "azure",
                   policy   |-> [roleName         |-> Get(v, "name", "tf-role"),
                                 permissions      |-> Get(v, "permissions", {}) \ {NotABlock},
                                 assignableScopes |-> Get(v, "assignable_scopes", {})]]}
          [] r.type = "google_project_iam_custom_role" ->
                 {[provider |-> "gcp", policy |-> [includedPermissions |-> Get(v, "permissions", {})]]}
          [] r.type \in GrantType ->
                 {[provider |-> "gcp",
                   policy   |-> [bindings |-> {[role      |-> v[key],
                                                members   |-> Get(v, "members", {}) \cup Get(v, "member", {}),
                                                condition |-> Get(v, "condition", FALSE)]}]]
                    : key \in {"role"} \cap DOMAIN v}
          [] OTHER -> {}

(* What is extracted is an object: text that begins with "{", or built by  *)
(* the extractor.  Terraform's schema gives an Azure role a list of        *)
(* permissions, and a grant a role, either members or a member, and a      *)
(* condition.                                                              *)
ASSUME PlanAssumption ==
    \A j \in Jobs : j.tfplan \notin {NoArgument, Missing, Malformed} =>
        \A r \in Resources(j.tfplan) :
            /\ NotAnObject \notin Extract(r).policies
            /\ r.type = "azurerm_role_definition" =>
                 Get(r.values, "permissions", {}) \ {NotABlock} # Unusable
            /\ r.type \in GrantType =>
                 /\ Get(r.values, "role", Owner) \in GcpRole
                 /\ Get(r.values, "members", {}) \cup Get(r.values, "member", {}) \subseteq Member
                 /\ {} \in {Get(r.values, "members", {}), Get(r.values, "member", {})}
                 /\ Get(r.values, "condition", FALSE) \in BOOLEAN

Changed(plan) == {[address |-> c.address, type |-> c.type, values |-> c.after] :
                    c \in {d \in plan.changes : "after" \in DOMAIN d}}

PlanFindings ==
    IF job.tfplan \in {NoArgument, Missing, Malformed} THEN {}
    ELSE UNION {AnalyzePolicy(d.policy, d.provider)
                  : d \in UNION {Deployed(r) : r \in job.tfplan.planned \cup Changed(job.tfplan)}}

Blocks(f) == Rank[f.severity] >= Rank[job.fail_on]

(* The gate lets nothing through ("Fail the build on IAM privilege-        *)
(* escalation", action.yml:2): when the build passes, no readable file,    *)
(* audited for the provider the job names, and no policy that the plan     *)
(* makes known, audited for the cloud it is deployed to and with its       *)
(* condition seen, has a finding at or above the threshold.                *)
PassMeansClean ==
    (code # <<>> /\ code[1] = 0) => \A f \in FileFindings \cup PlanFindings : ~Blocks(f)

(* The three outputs of the action agree ("Write markdown PR comment       *)
(* summary", guardrails.py:171): a comment says FAILED or PASSED as the    *)
(* build does, and the uploaded SARIF has a blocking result exactly when   *)
(* the build fails by verdict.                                             *)
OutputsAgree ==
    /\ comment # "none" => (comment = "FAILED") = (code[1] = 1)
    /\ sarif # NoOutput => (\E s \in sarif : Rank[s] >= Rank[job.fail_on]) = (code[1] = 1)

(* A key of the other clouds' documents, at the top of the document. *)
HasForeignKey(doc) == {"bindings", "includedPermissions", "properties", "permissions"} \cap DOMAIN doc # {}

(* The extractor names the provider of a resource; the service has to      *)
(* detect it from the document (providers.py:17).  Both go to one engine   *)
(* for whatever the extractor builds for Azure and GCP, and for AWS        *)
(* policies as AWS writes them: only an AWS policy with a key of another   *)
(* cloud, which nothing in the code looks for, may be taken for one of     *)
(* that cloud's.                                                           *)
DetectionAgrees ==
    \A i \in items : i.address \notin Path =>
        \/ DetectProvider(i.policy) = i.provider
        \/ i.provider = "aws" /\ HasForeignKey(i.policy)

(* Directories are added to the list that is being walked; it still ends.  *)
JobEnds == <>(pc = "done")

(* "2 = usage/parse error" (guardrails.py:17): a run that was given a plan *)
(* or a file that cannot be parsed says so by its exit code.               *)
ParseErrorIsUsageError ==
    (/\ code # <<>>
     /\ \/ job.tfplan = Malformed
        \/ \E p \in Named \cap DOMAIN Content : Content[p].kind = "unreadable")
        => code[1] = 2
=============================================================================
