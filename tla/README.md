# IAM Sentinel, specified

TLA+ models of IAM Sentinel: what they are models of, what TLC checks on small
instances of them, and what TLAPS proves about them for every instance.
Paths such as `store.py:99` are relative to the repository's `src/`.

IAM Sentinel audits cloud permission policies. A request carries a policy; a
deterministic rule engine finds what is dangerous in it; the result is stored
in an SQLite file together with an audit entry; two scans of one target can be
compared ("did the remediation work?"). A language model may rewrite the report
in prose. Quotas and seats of a license are counted from the stored scans.
Besides the web service there are a CI guardrail and an MCP server that use the
engines without the store, and a command line client of the service.

## 1. Inventory

### The components, their state and their operations

| component | source | state | operations that change state or decide |
|---|---|---|---|
| findings store | `store.py` | tables `scans`, `findings`, `audit_log`; one `_lock` per store object; one SQLite connection per call | `record_scan`, `log_action`; reads `get_scan`, `diff_latest`, `list_scans`, `recent_audit`, `count_scans_since`, `distinct_actors_since` |
| store singleton | `store.py:233` | `_store_singleton`, `_singleton_lock` | `get_store` |
| audit endpoint | `app.py:224` | the locals of each request thread | `iam_audit`: check, analyse, record, answer |
| metering | `metering.py` | none of its own; reads the store | `enforce_quota`, `usage_summary` |
| narrative, model client | `analyzer.py`, `llm_client.py` | attempt counter of the retry loop | `analyze`, `LLMClient.query` |
| finding schema | `findings.py` | a `ScanResult` | dedup, highest severity, counts, `to_dict` |
| AWS rule engine | `iam_engine.py` | rule tables, extended from `custom_rules.json` at import | `analyze_iam_policy` |
| Azure, GCP engines, dispatch | `iam_engine_azure.py`, `iam_engine_gcp.py`, `providers.py` | none | `analyze_azure_role`, `analyze_gcp_policy`, `detect_provider` |
| authentication, roles | `auth.py`, `config.py` | key table read at start | `resolve_principal`, `verify_jwt`, `has_role` |
| licensing and start-up | `licensing.py`, `config.py`, `app.py` | the license, read once at start | `config.verify_license`, `validate_startup`, `load_active_license`, `is_expired` |
| remaining endpoints | `app.py` | none | pages, health, `readyz`, rules, license, usage, scans, diff, audit log |
| Terraform extractor | `terraform_extract.py` | none | `extract_policies` |
| CI guardrail | `guardrails.py`, `action.yml` | exit code, SARIF on stdout, comment file; two processes for a build | `_collect`, `_scan_all`, `_worst`, `main` |
| MCP server | `mcp_stdio.py` | the two streams and the local `msg` | `serve_stdio`, `dispatch` |
| command line client | `sentinel.py` | none | `cmd_scan`, `cmd_diff`, `make_req` |
| report, pages, certificates, deployment | `remediation.py`, `*.html`, `docker-compose.yml` | none | text |

### How they interact

A request thread (`app.py`'s handlers are plain functions, so the framework runs
them in a thread pool) authenticates, asks `metering` whether the license leaves
room, runs `analyze` (engine, report, perhaps a narrative), and calls
`record_scan` on the store that `get_store` hands out to every thread of the
process. `metering` and the store share the `scans`
table and nothing else: the count is read in one connection, the scan it makes
room for is inserted in another one, perhaps minutes later. Readers share only
the file with writers. Several processes may share the file, too; then they
share no lock but SQLite's. The guardrail's action starts `guardrails.py` twice
over one checkout, for the build's verdict with SARIF and for the comment; the
MCP server answers one client on its standard streams. Both hand documents to
the same engines through `providers.py`, the guardrail with the provider that
the extractor names, the service and the MCP server with the one detected.

### What is hard about it

* **Concurrency.** Threads between check and insert; readers of several SELECTs
  among writers; the first calls of `get_store`; two processes on one file.
* **Failure.** A statement or a commit that raises in the middle of a scan; a
  process that is killed there; a store that cannot be opened yet; a model
  server that refuses, hangs or answers with nothing.
* **Ordering.** `scanned_at` is stamped before the narrative, the id given after
  it; a check may begin in one month and end in the next.
* **Time.** Timeouts and pauses of the model client add up in a request thread;
  tokens and licenses end while the process runs, at boundaries that are compared
  in three ways.
* **Lost answers.** A scan is stored before its answer is sent, and the client
  draws no identity for the request.
* **Input that is not what it should be.** Tokens, lines of JSON-RPC, policy
  files and plans can be broken in many places, and each place has its own way
  out: an answer, a warning, nothing, or an exception nobody catches.
* **One question answered twice.** Provider of a document by its shape or by its
  resource type; threshold in exit code, SARIF and comment; expiry at start-up
  and in the usage report.
* **Edits between scans.** The engine leaves findings out on purpose and the
  fingerprint may contain a position; the diff of two scans inherits both.

`PROJECT.json` lists every hazard at the line where it bites, with the
properties that look at it, or the reason why none does.

### What makes each component correct

* *Store*: a write is whole or absent, together with its audit entry; an
  acknowledged scan stays; the id returned is the caller's; readers see whole
  scans; nothing is ever changed or removed; `_lock` is always let go.
* *Singleton*: one object per process, handed out by every call that returns.
* *Service, metering*: a month's scans and actors exceed the license by no more
  than the concurrency explains; an answer of 200 means stored, an answer of 500
  after the insert means not stored; the usage report is consistent with itself.
* *Narrative*: it ends within a bound, and there is always a report.
* *Schema, engine, diff*: the header agrees with the rows; suppression hides no
  severity; the diff speaks of what was edited.
* *Authentication*: nothing behind `require_role` is done without a credential
  that had the rank when it was looked at, whichever of the eight ways out
  `verify_jwt` takes. A malformed token gets a 500 as often as a 401.
* *Licensing*: a process starts on a genuine key in its time or without one, as
  Community; after that the license is never read again, and what is reported as
  expired is what a restart would refuse, up to the day.
* *Client*: an answer tells whether the scan is stored; no answer tells nothing.
* *Extractor, guardrail*: a build that passes had nothing at or above its
  threshold in any readable file or known policy; the three outputs say the same.
* *Dispatch*: the engine chosen by resource type is the one chosen by shape, but
  for a policy of AWS that has a key of another cloud's documents.
* *MCP server*: the answers with an id are those of the requests, in order; only a
  JSON value that is no object, params of the wrong type, JSON that `json.loads`
  gives up on and bytes that are no text end the loop, the last of them before
  earlier lines of the same chunk are read.

## 2. The modules

```
ScanLedger            what the store promises: whole writes, honest answers
  ^ refined by        ^ used by
FindingsStore         AuditService        StoreSingleton         McpServer
  ^                     ^                   (checked directly)     (checked directly)
MCFindingsStore       MCAuditService      StoreSingletonProofs   McpServerProofs
FindingsStoreProofs   AuditServiceProofs
FindingsStoreRefinement

Auth, Licensing <- ServiceLife <- MCServiceLife      (ServiceLifeProofs)
LLMClient <- INSTANCE in ServiceLife

Findings <- IamEngine   <- MCPolicies
         <- AzureEngine
         <- GcpEngine
IamEngine <- ScanHistory <- MCScanHistory, ScanHistoryProofs
the three engines <- Providers <- TerraformExtract <- Guardrail <- MCGuardrail
                                                      Guardrail <- GuardrailProofs
```

**ScanLedger** is the abstract store: a log of whole scans, a trail of audit
entries, and for each caller a call that is pending, then *ok* exactly when its
write landed, or *error* exactly when it did not. A crash forgets calls and
nothing else.

**FindingsStore** is `store.py`. `db` is what is committed, `work` what the open
transaction sees, `writer` the thread whose connection holds SQLite's write
lock, `lock[s]` the `_lock` of store object `s`. Each SQL statement is one
action: `InsertScan` (with `cur.lastrowid`), one `InsertFinding` for each
finding in any order, `InsertAudit`, `Commit`. Leaving the `with` block by an
exception is `Rollback`, possible before every statement and at the commit;
`BusyTimeout` is SQLite's "database is locked", after either of two waits: the
first INSERT waits for another connection's write (`WaitsForWriter`), and where
the file system has no WAL (`Wal = FALSE`, the fallback of `store.py:88`) the
commit waits for the SELECTs of readers (`WaitsForReader`); `Release` leaves `with _lock` and
returns. `CallGetScan`/`GetScanRow` and `CallDiffLatest`/`DiffIds` with
`SelectFindings` are the reads, one action per SELECT, as no read opens a
transaction. `Crash(s)` kills the process of store object `s` and starts it
again: locals and open transaction are gone, and `_init_schema`'s CREATE TABLE
IF NOT EXISTS changes nothing in a file that has the tables.

**StoreSingleton** is `get_store`, line by line: the check without the lock, the
lock, the second check, a construction that may fail, the assignment, and the
last read of the global.

**AuditService** is `POST /api/audit/iam` with `enforce_quota`, and
`GET /api/usage`. Each thread has a label (`seats`, `quota`, `analyze`,
`narrate`, `record`, `respond`) and the locals that outlive a step: the month
start `since`, the `stamp` that will be `scanned_at`, the `status` of the answer.
`clock` ticks freely between steps and `MonthOf` says which month a reading
belongs to. `Check` can refuse (402), pass or raise (500); `Analyze` can end with
400, 500 or a stamped result; `Record` appends or raises; `Restart` kills the
process. The store appears as `ScanLedger` promises it, one step per write:
`UsesLedger` says that the service really is a client of the ledger, and
`ImplementsLedger` that the store really is one, so the two compose; both are
checked and proved.

**LLMClient** is the choice of the report and the retry loop, for both backends:
`Chat` with its second endpoint `Generate`, `Create` for the OpenAI client (whose
own retries are external to the repository and modelled as up to three
requests), `Retry` with the growing pause, `GiveUp`. What a server does is free:
text, no text, failure, each after any delay within the timeouts. It is a step
of a request in `ServiceLife`, which holds the assumptions on its settings.

**Auth** is `auth.py` with the parts of `config.py` it reads, as operators:
`ParseApiKeys` (an unknown role becomes analyst, a later pair wins), `VerifyJwt`
with the order of its checks and the status of each way out, `ClaimedRole`,
`ResolvePrincipal`, `RequireRole`. **Licensing** is `VerifyLicense`, by the
moment, `LoadActiveLicense` with the defaults of the plans, and `IsExpired`, by
the day.

**ServiceLife** puts them around one request at a time. `Start` is
`validate_startup` with an environment, `Kill` ends the process between any two
steps, `Tick` lets time pass; a client sends (`Send`), does not send at all
(`RefuseFile`, the exits of `cmd_scan` before its request) or goes away
(`Disconnect`) while the handler runs on. A body that is no JSON is refused by the
framework before any role is asked for (`RefuseBody`). Any other request passes
`Authorize` with the `MinimumRole` of its endpoint, then `AnswerOpen`,
`AnswerRead` or `RefuseAudit` (quota, provider, JSON, or a field that the
framework refuses) end it, or `Analyze`, the steps of
`LLMClient` as `Narrate`, and `Record` do; `Deliver` tells the client, if it is
still there. `stored` counts the scans of a call; no action reads it.

**Findings** has dedup, severities, counts and the diff as operators over sets.
**IamEngine** has every rule of `analyze_iam_policy` over a statement's features,
the suppression under a global wildcard, and the rules that put statements
together. Action patterns and the rule tables are constants: `Covers[p]` is the
set of needed actions that `fnmatch` lets pattern `p` match. **ScanHistory** puts
a policy's life around them: `AddStatement` and `RemoveStatement` by its author
(external), `Scan`, and the diff of the last two scans.

**AzureEngine** and **GcpEngine** have every rule of the other two engines over
role definitions, bindings and custom roles, with matching and tables as
constants. **Providers** is `detect_provider` and the dispatch; a JSON object is
a function on the keys it has, so that `key in policy` is membership of a domain.
`MentionsAzure` is the text test of `looks_like_azure`, with `AzureText` for the
names and descriptions that pass it; `Raises` collects the documents that the
shape test or an engine cannot go on with (`Unusable` is null for an object or a
number for a list). `GrantType` are the types that `terraform_extract.py:105` takes
for grants, whatever their names.
**TerraformExtract** is `extract_policies`: resources of the planned values and
of the changes, what each type yields for which provider, and what is left out
(unknown until apply, broken text, going away, blocks that are no objects). A
grant with an empty list of members falls back to its one member (`MembersOf`).

**Guardrail** is the composite action: two runs of `guardrails.py` over the same
checkout, each from `Start` (argparse, the plan) over `TakePath`, one path of
the growing list at a time, to `NothingFound`, `ScanRaises`, or `ScanAll`,
`WriteComment` and `Finish`. The first run's exit code decides the build and its
stdout is the SARIF file, the second one writes the comment.

**McpServer** is `serve_stdio` and `dispatch`. `FillBuffer` decodes the next chunk,
any number of the lines written so far, and raises when bytes in it are no text;
the lines of it that came earlier are then lost. From what was decoded one line
is taken, dispatched and answered at a time (`SkipBlank`, `ParseError`, `Parse`, `Immediate`, `Ignored`,
`UnknownNotification`, `StartAudit` with `AuditDone` and `AuditRaises`), what
raises out of it (`Crash`, for a value that is no object or JSON that is "too hard"
for `json.loads`, and `Raises`), and a client that writes ahead and may
close the stream. The id of a request is the number of its line.

The `MC*` modules only give values to constants; definitions marked *seeded
fault* are never used by a specification: each is the plausible bug that
`PROJECT.json` pairs with a property it must break.

## 3. What TLC checks

| run | instance | states | shows |
|---|---|---|---|
| `store_readers` | one process, 2 writers, 1 reader, 2 targets, 2 findings, 2 scans, no WAL | 1.3 M | `TypeOK`; reads of several SELECTs are whole (`GetScanIsComplete`) and fresh (`DiffIsFresh`); no writer finds SQLite's write lock with the other one (`NoSiblingHoldsWriteLock`) |
| `store_writers` | two processes, 1 writer each, 2 scans, 3 log entries, WAL, with fairness | 175 k | `AtomicVisibility`, `AuditMatchesScans`, `ReturnedIdIsOwn`, `AckedIsDurable`, `AppendOnly`, `LockIsReleased`, and the refinement `ImplementsLedger` |
| `service` | 2 threads, 1 viewer, 3 actors, 1 seat, quota 2, 3 scans, 3 clock readings over 2 months | 1.0 M | `TypeOK`, `ScanOvershootBound`, `SeatOvershootBound`, `SequentialScansInOrder`, `UsageCoversScans`, `UsesLedger` |
| `singleton` | 3 threads, with fairness | 691 | `AtMostOneStore`, `ReturnsTheStore`, `LockIsReleased` |
| `life` | 6 environments of which 3 can start, 14 credentials, 4 clock readings over 2 days, 1 retry, with fairness | 418 k | `TypeOK`, `CallsAreAuthorised`, `OutcomesMatchScans`, `LicenseInForce`, `WithinDeadline`, `FallbackIsDeterministic`, `CallEnds` |
| `scan_history` | 11 statements, policies of at most 3 of them, 2 edits, 2 scans | 304 k | `SeveritiesAgree`, `EscalationIsCritical`, `DiffIsLocal`, `NewNeedsAGrant`, `GrantNeverLowersSeverity` |
| `guardrail` | 14 paths, 10 resources in pairs, 3 sets of changes, 10 patterns, all thresholds and providers, with fairness | 20 k | `TypeOK`, `PassMeansClean`, `OutputsAgree`, `DetectionAgrees`, `JobEnds` |
| `mcp` | 3 lines out of 29, in chunks of any length, with fairness | 686 k | `TypeOK`, `AnswersMatch`, `RequestsAnswered` |
| `service_within_quota`, `service_diff_recent`, `guardrail_parse_error`, `llm_blank` | small | | counterexamples, section 5 |

Why these bounds suffice. The store has one lock per object and one per file, so
two writers contend for everything there is, and the second process brings the
second object; two findings distinguish none, some and all of a scan; two scans
of a target are what `diff_latest` compares, and the second target shows that it
compares no others. The readers' run is without WAL, where they can make a commit
fail, and the writers' run with it. `MaxScans` and `MaxLog` stop new calls, never a call under
way. In the service two threads make the overshoot of one; quota two allows a
month to be half used; three clock readings, two to the month, put a month's end
before, between and after the steps of a request; a third actor is the one that
must be refused. In `scan_history` three statements hold an escalation chain of
two split by a third, two edits can swap a statement for another one, and the 11
statements include both halves of a chain, a global wildcard in Allow and in
Deny, `*:*`, data actions, a NotAction trap without a Sid, open trust under one
Sid with and without a condition, and an entry that is no object.
In `life` the environments are those that matter to `validate_startup`: without
authentication, with keys of every role (one misspelt, one given twice), with
SSO, with a license that ends on the first day or at its end, and three that
must not start: no credential at all, a forged key, no data directory. Of the
tokens there is one that fails at each check of `verify_jwt` and nothing else,
one that ends and one that begins while the process runs, and one for each way
the role claims are looked up. One retry already has both pauses and the last
attempt. In `guardrail` every kind of file and of resource occurs, with every
pair of resources, so that one policy's findings stand beside another's and
beside none; the second run follows every outcome of the first. One directory
has another below it whose name matches the pattern, so its file is reached
twice, once from a path that was added while the list is walked. In `mcp` the
server keeps one line in memory, so two lines are all that can affect each
other, and a third is there to be answered behind both; three lines make up one
chunk, two or three.
The retries are bounded by the code.

Symmetry is used for threads of one store object, findings, targets and actors,
never in a run with liveness. Deadlock is checked in all runs but `scan_history`
where the bounds end a behaviour; `Stop` is the only step of a process that has
ended.

**Fairness.** `FairSpec` of the store assumes that a call that was started and can
take a step does so (weak fairness for each thread); failures, crashes, new calls
and timeouts are not assumed to happen nor not to happen. Nothing is assumed of
the order in which Python's lock serves its waiters: the properties are about
letting go. The singleton assumes the same of its threads. `ServiceLife` assumes
that the framework goes on with a request that arrived (`WF` of `Serve`): a wait
for the model server ends by an answer or by its timeout and a sleep by its
duration, both of which the code sets. Ticks, kills, restarts and lost
connections are free. In `Guardrail` a process that was started runs on. In
`McpServer` the loop does (`WF` of `Serve`), with the end of an audit taken from
`CallEnds`; the client may stop writing, and close the stream or never do so.

**Mutants.** Every property of every passing run is broken by at least one seeded
fault in a definition it depends on, under the run's own bounds.

## 4. What is proved

All proofs hold for every value of the constants that satisfies the named
assumptions: thread sets are disjoint, finitely many fingerprints and threads,
the null values differ from real ones, clock months do not run backwards, every
escalation path asks for at least one action (`if e.get("actions")`,
`iam_engine.py:116`), `*` covers every action, a day has a length, settings are
numbers, and headers, tokens and environments have the shape that `config.py`
reads them into. A rule table and a statement's list of actions are finite
(`TableAssumption`, `OfferedAssumption`): they are read from files. For the gate,
`JobAssumption` is what argparse lets through. `PlanAssumption` says of the policies
that are extracted that they are objects (`_load_json_policy` takes text that begins
with a brace, `terraform_extract.py:52`, and the others are built by the extractor),
and of the values of azurerm and google resources that they have the types of
Terraform's schema: an Azure role a list of permissions, a grant a role, members or
a member but not both, and a condition. It says nothing of what a policy of AWS
contains. `GrantTypeAssumption` says that the types taken for grants are none of the
others (their names differ), and `WalAssumption` that there is a WAL or there is not.

* **FindingsStoreProofs**: `TypeOK`, `AtomicVisibility`, `ReturnedIdIsOwn`,
  `AckedIsDurable`, `NoSiblingHoldsWriteLock`. None of them is inductive. `IInv` adds
  that `_lock` is held exactly inside the `with` block (`Locking`), that SQLite's
  lock is held exactly from the first INSERT on and without it nothing is
  uncommitted (`Transaction`), and what the open transaction has added to the
  committed tables, row by row (`Image`). `Image` is the heart: at the commit it
  says that what becomes visible is the request and nothing else.
  `SiblingsNeverCollide` is about the two locks: who holds SQLite's also holds the
  `_lock` of its store object, so whoever else is inside that lock's block does not
  find it taken. It is no statement that a single service is never told "database
  is locked": another process can cause that, and without the WAL a reader.
* **FindingsStoreRefinement**: what follows from `IInv` because `Commit` alone
  changes the tables. `AppendOnly`; `AuditMatchesScans`, whose map from scans to
  audit entries grows by one pair at the commit of a scan and not at all at that of
  a log entry; and `ImplementsLedger` by the mapping in `FindingsStore`: rows and
  findings are the ledger, `Commit` is `Land`, inner steps and reads stutter, `Crash`
  is `Crash` of the threads of that process. The readers, `GetScanIsComplete` and
  `DiffIsFresh`, need an invariant of their own, `Reads`: what a call has read is
  what the tables still hold, and what its first SELECT has settled (`Settled`: a
  scan that exists, or two neighbours of the target with none seen before the call
  above them) stays settled when the tables grow (`ReadingLasts`).
* **AuditServiceProofs**: every property of the run `service`, for any number of
  threads, any quota, any calendar. For `ScanOvershootBound` the invariant counts, for each month, the
  stored scans and the threads past their check that may still add to it
  (`PendingScans`): a pass is only given when the count is below the quota, so the
  sum never exceeds quota plus threads minus one. A month's end moves threads
  that are not stamped yet to the new month, where they meet an empty count.
  `SeatOvershootBound` is the same with actors for scans (`SeatBudgetAt`): a request
  by an actor who is already counted spends nothing, so only the threads whose actor
  would be new are pending (`PendingSeats`). `SequentialScansInOrder` needs that an
  analysed request is stamped no earlier than any scan stored before it arrived
  (`Order`); `UsageCoversScans` that what a report has counted lasts while others
  record, and that the actors are listed after the count (`Reported`). `UsesLedger`
  is proved step by step: `ThreadStep` and `OwnStep` say what a step does to the
  calls the ledger sees, and every other step stutters or crashes.
* **StoreSingletonProofs**: `AtMostOneStore`, `ReturnsTheStore` for any number of
  threads. `Construction` says who may be inside and what they have seen.
* **ScanHistoryProofs**: every property of the run `scan_history`, and the type
  invariant, for every rule table, every pattern language and policies of any
  length. The invariant `HistoryOK` says that a stored result is the analysis of its
  artifact; the rest is about the operators. `CriticalIsHighest` and `Domination`
  reduce `EscalationIsCritical` and `GrantNeverLowersSeverity` to single findings:
  under suppression the statement with the wildcard carries a CRITICAL finding of
  its own, without it every finding about the whole policy survives a new statement,
  the first data action perhaps as another one. `SeveritiesAgree` is a lemma about
  `ToDict` (`HeaderAgrees`): deduplication keeps a worst finding of each fingerprint
  and one only, so rows, fingerprints and counts are the same number
  (`CountsAddUp`). The two properties of the diff need a second invariant,
  `EditsOK`: the edits kept with a scan account for every statement in which two
  neighbouring artifacts differ, and removals alone bring none (`Accounted`). What
  `Insert` and `Remove` do to positions and to statements are lemmas of their own
  (`InsertedAt`, `RemovedAt`). TLC has checked `EditsOK` on the instance of the run.
* **GuardrailProofs**: every safety property of the run `guardrail`, for every
  checkout, any nesting of directories, plan, command line and rule table.
  `Reach` is what can be reached from the paths named, the least set closed under
  `below`; `Final` is what there is to collect in it and in the plan; `Fails` is the
  verdict on `Final`. None of them mentions a step. The invariant `GateOK` ties the
  two processes to them: while the list is walked, what was named or is below a
  directory already taken is taken or still in the queue (`Walking`), so an empty
  queue means that `Final` was collected (`WalkIsOver`); and exit code, SARIF and
  comment are the verdict on `Final`, or there is none (`Told`). `OutputsAgree` follows
  at once. `PassMeansClean` needs two more facts: deduplication keeps a finding that
  is as bad (`DedupKeepsWorst`), and a policy that is deployed has no finding worse
  than what was extracted for its resource (`DeployedIsCovered`). `Deployed` reads the
  resource itself, for its own cloud, with all members and the condition, and shares
  nothing with `Extract`; so there is a lemma for each family of types
  (`AwsIsCovered`, `AzureIsCovered`, `CustomRoleIsCovered`, `GrantIsCovered`), the last
  one for the condition that the extractor drops.
  `DetectionAgrees` is `ExtractedIsDetected`, type by type; the exception for a policy
  of AWS with a key of another cloud is in the statement, and TLC finds the
  property violated without it. TLC has checked `GateOK` on
  a part of the run's command lines.
* **McpServerProofs**: `TypeOK` and `AnswersMatch` for any number of lines. `LoopInv`
  ties the local variable `msg` to the line that is worked on and bounds the ids
  by the position in the stream; `OneMoreAnswer` is the one step that matters.
* **ServiceLifeProofs**: `TypeOK`, `CallsAreAuthorised`, `OutcomesMatchScans`,
  `LicenseInForce`, `WithinDeadline` and `FallbackIsDeterministic`, for any keys,
  tokens, claims, role map, length of day, number of retries and timeouts.
  *Roles*: `DocumentedRole` is what the manual asks for, stated apart from the
  `MinimumRole` of the code (for the stored scans see section 5). The first known claim exists because a set of positions has a least
  element, the last pair of a secret because a bounded one has a greatest; with
  `PassedIsAuthorised` for `require_role`, it remains that no step changes the
  environment or the header under a request (`CallIdentity`). *Outcomes*:
  `Consistent` says at each step of a request what has been stored for it.
  *License*: `ProcInv` keeps what `Start` has checked, and days do not run ahead of
  moments. *Waits*: `Before(a)` and `Spent(a)` are what may have passed before and
  after attempt `a`; they add up to `Deadline` by the sum of the growing pauses.
  `NarrativeIsOfCall` says that a narrative is under way only in an audit, so that
  the next one starts from nothing.

All safety properties and action properties of the passing runs are proved.
Only model-checked are the liveness properties, which need fairness and ENABLED,
out of the provers' reach: `LockIsReleased` (twice), `CallEnds`, `JobEnds`,
`RequestsAnswered`. `AuditMatchesScans` speaks of a map from scans to entries, where
a filter of the log would say the same, because a filter is a recursive definition
and what it computes cannot be proved here. The paths that several patterns name
are put together by `FlattenSeq`, a recursive function, of which the proofs need no
more than that it yields a sequence of paths (`FlattenIsSeq`, by a least
counterexample). `ScanHistory`'s `TypeOK` is proved and is in no run. No module
declares a RECURSIVE operator.

## 5. Where the code and its documentation disagree

Each is a run that TLC must find violated; `PROJECT.json` quotes the lines.

* `WithinQuota`: two requests can both pass the quota check before either is
  stored, so the month holds one more scan than the license.
  `ScanOvershootBound` says how far this can go, and is proved.
* `DiffComparesMostRecent`: of two overlapping scans of a target the one with the
  higher id can have the earlier `scanned_at`. `SequentialScansInOrder` says that
  overlapping is the only way.
* `ReportIsNeverBlank`: a 200 answer without text becomes an empty report with
  `llm_narrative_ok` true.
* `ParseErrorIsUsageError`: the guardrail's documented exit code 2 for parse errors
  is never used for one. An unreadable file is a warning, and with no other file
  the build passes; a plan that is no JSON ends in a traceback, exit code 1.

Smaller ones, met on the way, that have no run of their own:

* `USER_MANUAL.md:35-40` gives a viewer health, license, rules, usage and the web UI,
  and the diff of scans to analysts; `app.py:260`, `265` and `273` ask only viewer for
  the stored scans and their diff. `CallsAreAuthorised` requires the rank that both
  ask for, which for these three endpoints is viewer: it holds of the code, and does
  not say that the manual's rule is kept there. With analyst in its place
  `DocumentedRole("scans")` fails at the first viewer's key.
* `INSTALL.md:157` knows "database is locked" from a service on a network share,
  where `store.py:85` says that the fallback from WAL spares it a failure to start.
  The model shows one way to it with a single process: a reader takes no `_lock`, and
  without WAL it can hold up a commit for longer than the 30 seconds.
  `NoSiblingHoldsWriteLock` says that the writers of a process are not the cause.
* A policy of AWS with a top-level `bindings`, `includedPermissions` or `permissions`
  beside text that names Azure is audited by the service as another cloud's
  (`providers.py:17-28`), with rules that never fire; CI goes by the resource type and
  audits it as AWS's. `DetectionAgrees` names the exception.
* `mcp_stdio.py:171` answers "Parse error" to text that is no JSON, but ends on bytes
  that are no text and on JSON for which `json.loads` raises another error (nesting
  too deep, an integer too long).
* A quota check under way when the month turns counts the scans of both months
  (`metering.py:47`) and may refuse although neither is used up.
* "`resolve_principal`: return the authenticated principal or raise AuthError"
  (`auth.py:118`): tokens with a bad encoding, or claims of another type, raise
  something else, and the caller gets 500 where 401 is meant.
* A misspelt role in `IAM_SENTINEL_API_KEYS` becomes analyst without a word
  (`config.py:64`); a mapped role of `JWT_ROLE_MAP` that is no role allows nothing.
* A license key without `expires_at` is refused as expired since 1970
  (`config.py:98`), although for `licensing.py:52` an empty date is perpetual.
* `mcp_stdio.py:120` answers nothing to a notification, but only for unknown
  methods and `notifications/initialized`: `ping`, `initialize` and `tools/*` without
  an id are answered with id null.
* `/api/rules` (`app.py:9` calls it the catalog) lists `AZ.SCOPE_MANAGEMENT_GROUP`,
  which no engine emits, and misses `GCP.ESC_ROLE`, which one does.
* The guardrail skips a file that holds the JSON value `null` without a warning,
  scans a file twice that two patterns reach, and leaves the comment of an earlier
  run in place when there is nothing to scan.

## 6. What the models leave out

* Text: reports, prompts, titles, layout of answers, logging, hashing. A
  fingerprint is the tuple it hashes.
* Failing reads: a SELECT that raises, as "database is locked" without the WAL too,
  ends its request without changing anything. A reader holds SQLite's shared lock
  from one SELECT to the end of its call at most; the model takes it that long.
* `list_scans` and `recent_audit`, single SELECTs; the limits of their answers.
* Wall-clock time going backwards (`MonthAssumption`).
* A model's answer arriving in pieces: the timeout of `requests` is per wait, and a
  server that sends a byte now and then keeps a thread for longer than `Deadline`.
* How `fnmatch` matches, and the loading of custom rules: `Covers` and `Needs` are
  arbitrary tables. The order inside a NotAction list, which is part of a
  fingerprint, is not told apart. Sids are taken to be distinct from the engine's own
  `cross-statement`, and two rules with one id to be one rule.
* A document without statements has no findings. What raises in an engine is
  `Raises` of `Providers`: the traceback of the guardrail, the 500 of `RefuseAudit`.
  Values of other wrong types deeper in a document are left out; they raise, too.
* Of the text that `looks_like_azure` searches, the model has names, descriptions
  and the keys, not the scopes or action patterns inside (a block has keys that
  match already). `assignableScopes` as the name of a Terraform attribute, which
  azurerm does not have, is left out.
* Resource types that `terraform_extract.py:9-14` does not list: the gate neither
  reads them nor says that it does, and `PassMeansClean` does not speak of them.
* Signatures (HMAC, RSA, Ed25519) are facts about a token or a key, not computed.
* In `ServiceLife`: requests that overlap and the counts behind a 402, which are
  `AuditService`'s; the streaming mode of the model client, which no caller asks
  for; that an answer can be encoded as JSON is assumed.
* In `McpServer`: where chunks end. One ends after any line; one that ends within a
  line leaves the rest of it for the next. A locale in which Python decodes stdin
  without errors (`surrogateescape`) has no undecodable lines.
* In the guardrail: files and plan changing under the two runs, a broken stdout,
  the text and json formats and the step summary, which show the same results.

### Not modelled

* `remediation.py`: the layout of a report. It has no state, and no control beyond
  the case of no findings.
* The loading of `custom_rules.json` (`iam_engine.py:105-123`): the rule table is a
  constant, so everything said about the AWS engine holds for whatever was loaded.
* `/api/rules`, the HTML pages, CORS and TLS settings: constant text and settings.
* `licensing.verify_license`: it reads another token format, and no code of the
  program calls it; the one that start-up calls is in `config.py`.
* `sentinel.py`'s printing and its `test` command; `cmd_diff` does not quote the
  target in the URL it builds, which a model of values cannot show.
* The certificate helper and `docker-compose.yml`: no state of the program.
* A policy that is known only after apply: it is in no plan, so no statement about
  the gate can mention it. The model has such resources and skips them as the
  code does.

## 7. Plan

Done, in this order: the store, its ledger and the singleton; the service with
metering and the overshoot proof; the schema, the AWS engine and the history of
a policy; the other engines with the dispatch, the extractor and the guardrail;
the MCP server; authentication, licensing, the model client and the client's
view, composed in `ServiceLife`.

The proofs, in this order: the store and the singleton; the overshoot of scans;
escalation and severity; the MCP server; `ServiceLife`; then what was left of the
store, the service and the history of a policy, and the guardrail.

Left: variants that decrease, on which the liveness properties rest: the attempts
and waits of `LLMClient` for `CallEnds`, and for `JobEnds` what can still be reached,
in a checkout where no directory is below itself. They are properties of single
steps, so they can be proved although their conclusion cannot. The loading of `custom_rules.json` would be a module of its own, if an entry
that raises is ever to be told apart.
