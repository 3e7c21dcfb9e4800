---------------------------- MODULE ServiceLife ----------------------------
(***************************************************************************)
(* The service from start to kill, and one request through the whole of    *)
(* it: validate_startup and the license, require_role in front of every    *)
(* endpoint, the audit with the narrative of LLMClient, and what the       *)
(* client (sentinel.py or another) is told.  The process may be killed and *)
(* started again in another environment, and the connection lost, between  *)
(* any two steps.  Requests come one at a time here; those that overlap,   *)
(* and the counts behind a 402, are AuditService's.  Time passes on its    *)
(* own, for tokens and licenses.                                           *)
(***************************************************************************)
EXTENDS Auth, Licensing

CONSTANTS
    Environment,       \* what the process may be started with
    Header,            \* the credentials requests carry
    NoProcess, NoCall,
    MaxClock,          \* bound: the last reading of the clock
    MaxRetries, Timeout, Backoff

ASSUME SettingAssumption ==
    MaxClock \in Nat \ {0} /\ MaxRetries \in Int /\ Timeout \in Nat /\ Backoff \in Nat

ASSUME HeaderAssumption ==
    \A h \in Header : h.apiKey \in Secret \cup {NoCredential} /\ h.bearer \in Token \cup {NoCredential}

ASSUME EnvironmentAssumption ==
    \A env \in Environment :
       /\ env.auth \in BOOLEAN /\ env.sso \in BOOLEAN /\ env.dataDir \in BOOLEAN
       /\ env.keys \in Seq([secret : Secret, role : STRING])
       /\ env.key = NoKey \/ (env.key.genuine \in BOOLEAN /\ env.key.expires_at \in Nat)

VARIABLES
    clock,
    proc,        \* NoProcess, or its environment, its LICENSE and when it started
    call,        \* NoCall, or the last request: endpoint, header, step, status,
                 \* when it was authorised, whether the client still waits for
                 \* it, and ghost: how many scans were stored for it
    backend, pc, attempt, elapsed, report, llmOk      \* of LLMClient

narrativeVars == <<backend, pc, attempt, elapsed, report, llmOk>>
vars == <<clock, proc, call, narrativeVars>>

Narrative == INSTANCE LLMClient

(* "read" is the license and the usage, "scans" the stored scans and their *)
(* diff.                                                                   *)
Endpoint == {"open", "read", "scans", "audit", "admin log"}

(* What require_role asks for; open endpoints do without it. *)
MinimumRole ==
    [e \in Endpoint \ {"open"} |->
        CASE e \in {"read", "scans"} -> "viewer"
          [] e = "audit" -> "analyst"
          [] e = "admin log" -> "admin"]

(* What a client is left with when no answer comes, and when sentinel.py   *)
(* has not sent the request: no such file, or not JSON.                    *)
Broken == 0
NotSent == 1

ASSUME NoCallAssumption ==
    NoCall \notin [endpoint : Endpoint, header : Header,
                   step : {"arrived", "handle", "narrate", "answered", "told"},
                   status : Nat, at : Nat, waiting : BOOLEAN, stored : Nat]

NoNarrative ==
    /\ backend = "ollama" /\ pc = "analyze" /\ attempt = 0 /\ elapsed = 0
    /\ report = "none" /\ llmOk = TRUE

ForgetNarrative ==
    /\ backend' = "ollama" /\ pc' = "analyze" /\ attempt' = 0 /\ elapsed' = 0
    /\ report' = "none" /\ llmOk' = TRUE

Init ==
    /\ clock = 1
    /\ proc = NoProcess
    /\ call = NoCall
    /\ NoNarrative

Tick ==
    /\ clock < MaxClock
    /\ clock' = clock + 1
    /\ UNCHANGED <<proc, call, narrativeVars>>

-----------------------------------------------------------------------------
(* The process.                                                            *)

ValidateStartup(env) ==
    /\ VerifyLicense(env.key, clock)
    /\ env.auth => DOMAIN ParseApiKeys(env.keys) # {} \/ env.sso
    /\ env.dataDir

Start(env) ==
    /\ proc = NoProcess
    /\ ValidateStartup(env)
    /\ proc' = [env |-> env, license |-> LoadActiveLicense(env.key), since |-> clock]
    /\ UNCHANGED <<clock, call, narrativeVars>>

InFlight == call # NoCall /\ call.step # "told"

(* What the handler held is gone, and its client is left without answer. *)
Kill ==
    /\ proc # NoProcess
    /\ proc' = NoProcess
    /\ call' = IF InFlight THEN [call EXCEPT !.step = "told", !.status = Broken] ELSE call
    /\ ForgetNarrative
    /\ UNCHANGED clock

-----------------------------------------------------------------------------
(* The client.                                                             *)

NewCall(endpoint, header, step, status) ==
    [endpoint |-> endpoint, header |-> header, step |-> step, status |-> status,
     at |-> 0, waiting |-> TRUE, stored |-> 0]

Send(endpoint, header) ==
    /\ ~InFlight
    /\ call' = IF proc = NoProcess THEN NewCall(endpoint, header, "told", Broken)
               ELSE NewCall(endpoint, header, "arrived", Broken)
    /\ UNCHANGED <<clock, proc, narrativeVars>>

(* cmd_scan's exits before make_req. *)
RefuseFile(header) ==
    /\ ~InFlight
    /\ call' = NewCall("audit", header, "told", NotSent)
    /\ UNCHANGED <<clock, proc, narrativeVars>>

(* The client gives up or the connection breaks; the handler runs on. *)
Disconnect ==
    /\ InFlight /\ call.waiting
    /\ call' = [call EXCEPT !.waiting = FALSE]
    /\ UNCHANGED <<clock, proc, narrativeVars>>

-----------------------------------------------------------------------------
(* The request.                                                            *)

At(step) == InFlight /\ call.step = step
Answered(c, status) == [c EXCEPT !.step = "answered", !.status = status]

Authorize ==
    /\ At("arrived")
    /\ LET header == call.header
           status == IF call.endpoint = "open" THEN 200
                     ELSE RequireRole(MinimumRole[call.endpoint], proc.env,
                                      header.apiKey, header.bearer, clock)
       IN  call' = IF status = 200 THEN [call EXCEPT !.step = "handle", !.at = clock]
                   ELSE Answered(call, status)
    /\ UNCHANGED <<clock, proc, narrativeVars>>

Answer(endpoint, statuses) ==
    /\ At("handle") /\ call.endpoint = endpoint
    /\ \E status \in statuses : call' = Answered(call, status)
    /\ UNCHANGED <<clock, proc, narrativeVars>>

(* Pages (one may be missing), health, rules, and readyz. *)
AnswerOpen == Answer("open", {200, 404, 500, 503})

(* License, usage, the scans and their diff, and the audit log; a bad      *)
(* parameter is the framework's 422.                                       *)
AnswerRead ==
    \/ Answer("read", {200, 500})
    \/ Answer("scans", {200, 404, 422, 500})
    \/ Answer("admin log", {200, 422, 500})

(* A body that is no JSON is the framework's to refuse, before anybody     *)
(* asks for a role.                                                        *)
RefuseBody ==
    /\ At("arrived") /\ call.endpoint = "audit"
    /\ call' = Answered(call, 422)
    /\ UNCHANGED <<clock, proc, narrativeVars>>

(* By the fields of IAMAuditRequest, by the quota, for its provider or its *)
(* JSON, or by an analysis that raises.                                    *)
RefuseAudit == Answer("audit", {400, 402, 422, 500})

(* The report is built and the model may be asked to better it. *)
Analyze ==
    /\ At("handle") /\ call.endpoint = "audit"
    /\ backend' \in {"ollama", "vllm"}
    /\ call' = [call EXCEPT !.step = "narrate"]
    /\ UNCHANGED <<clock, proc, pc, attempt, elapsed, report, llmOk>>

Narrate ==
    /\ At("narrate") /\ pc # "done"
    /\ Narrative!Step
    /\ UNCHANGED <<clock, proc, call>>

(* Seeded fault: the scan is stored although the answer says it failed.    *)
RecordThenFail ==
    /\ At("narrate") /\ pc = "done"
    /\ \/ call' = Answered([call EXCEPT !.stored = @ + 1], 200)
       \/ call' = Answered([call EXCEPT !.stored = @ + 1], 500)
    /\ UNCHANGED <<clock, proc, narrativeVars>>

(* record_scan commits, or raises and leaves nothing. *)
Record ==
    /\ At("narrate") /\ pc = "done"
    /\ \/ call' = Answered([call EXCEPT !.stored = @ + 1], 200)
       \/ call' = Answered(call, 500)
    /\ UNCHANGED <<clock, proc, narrativeVars>>

(* The answer is sent, to a client that may be gone. *)
Deliver ==
    /\ At("answered")
    /\ call' = [call EXCEPT !.step = "told", !.status = IF call.waiting THEN @ ELSE Broken]
    /\ ForgetNarrative
    /\ UNCHANGED <<clock, proc>>

Serve ==
    \/ Authorize \/ AnswerOpen \/ AnswerRead \/ RefuseBody \/ RefuseAudit
    \/ Analyze \/ Narrate \/ Record \/ Deliver

Next ==
    \/ Serve \/ Tick \/ Kill \/ Disconnect
    \/ \E env \in Environment : Start(env)
    \/ \E header \in Header :
          RefuseFile(header) \/ \E endpoint \in Endpoint : Send(endpoint, header)

Spec == Init /\ [][Next]_vars

(* The framework goes on with a request, and every wait in it ends.        *)
FairSpec == Spec /\ WF_vars(Serve)

-----------------------------------------------------------------------------
(* The types of the process, the call and the narrative's variables.       *)
TypeOK ==
    /\ clock \in 1..MaxClock
    /\ proc = NoProcess \/
          /\ proc.env \in Environment
          /\ proc.since \in 1..clock
    /\ call = NoCall \/
          /\ call.endpoint \in Endpoint /\ call.header \in Header
          /\ call.step \in {"arrived", "handle", "narrate", "answered", "told"}
          /\ call.status \in {Broken, NotSent, 200, 400, 401, 402, 403, 404, 422, 500, 503}
          /\ call.at \in 0..clock
          /\ call.waiting \in BOOLEAN
    /\ Narrative!TypeOK

(* The roles that a credential can be said to have by what it is: the key  *)
(* as it was configured, where an unknown role means analyst; a genuine    *)
(* token in its time with any of its claims, or viewer without.  With SSO  *)
(* a token is not helped by a key beside it.                               *)
Genuine(token, time) ==
    /\ token.form = "sound" /\ token.alg /\ token.signature /\ token.issuer /\ token.audience
    /\ token.nbf <= time
    /\ token.exp = 0 \/ time < token.exp

RolesOf(header, env, time) ==
    IF ~env.auth THEN {"admin"}
    ELSE IF env.sso /\ header.bearer # NoCredential
         THEN IF ~Genuine(header.bearer, time) THEN {}
              ELSE {"viewer"} \cup {IF r \in DOMAIN RoleMap THEN RoleMap[r] ELSE r :
                                       r \in ToSet(header.bearer.roles)}
    ELSE {IF pair.role \in ToSet(ROLES) THEN pair.role ELSE DefaultRole :
             pair \in {p \in ToSet(env.keys) : p.secret = header.apiKey}}

(* Who may do what by USER_MANUAL.md:35-42.  The manual also keeps the     *)
(* stored scans and their diff for analysts (line 40; line 36 does not     *)
(* give them to viewers), but list_scans, get_scan and diff_scans ask for  *)
(* viewer only: the code and the manual disagree there, so of "scans" only *)
(* what both say is required, a role of the program.                       *)
DocumentedRole(endpoint) ==
    CASE endpoint \in {"read", "scans"} -> "viewer"
      [] endpoint = "audit" -> "analyst"
      [] endpoint = "admin log" -> "admin"

MayActAs(role) == \E own \in RolesOf(call.header, proc.env, call.at) : HasRole(own, role)

(* "viewer < analyst < admin" (auth.py:10): nothing behind require_role is *)
(* done for a request whose credential had not, when it was looked at, the *)
(* rank the manual asks for (viewer for the stored scans, see above) in    *)
(* the environment of the running process; a token that makes verify_jwt   *)
(* raise something other than AuthError gets a 500 and no further.         *)
CallsAreAuthorised ==
    (InFlight /\ call.endpoint # "open" /\ call.at > 0) => MayActAs(DocumentedRole(call.endpoint))

(* What a client may conclude: an audit answered 200 is stored once, one   *)
(* answered with an error, or never sent, is not stored, and only a call   *)
(* that was lost on its way leaves it open; repeating that one may store   *)
(* the scan again (app.py:246), since the process commits first.           *)
OutcomesMatchScans ==
    (call # NoCall /\ call.step = "told") =>
        CASE call.status = Broken -> call.stored \in {0, 1}
          [] call.status = 200    -> call.stored = IF call.endpoint = "audit" THEN 1 ELSE 0
          [] OTHER                -> call.stored = 0

(* "validate_startup() refuses to boot on a tampered/expired key"          *)
(* (licensing.py:158), and the license of a running process is never read  *)
(* again: a process with a key was started with a genuine one in its time; *)
(* what it reports as expired could not be started with now, and one that  *)
(* could not is reported, at the latest from the day after it expired.     *)
LicenseInForce ==
    (proc # NoProcess /\ proc.env.key # NoKey) =>
        LET key == proc.env.key
            restarts == key.genuine /\ clock <= key.expires_at
        IN  /\ key.genuine /\ proc.since <= key.expires_at
            /\ IsExpired(proc.license, clock) => ~restarts
            /\ ~restarts => IsExpired(proc.license, clock) \/ Day(clock) = Day(key.expires_at)

(* See LLMClient: the waits of an audit are bounded, and its report is a   *)
(* complete one also when the model gave none.                             *)
WithinDeadline == Narrative!WithinDeadline
FallbackIsDeterministic == Narrative!FallbackIsDeterministic

(* A client that waits is not left waiting, by a dead model or otherwise.  *)
CallEnds == InFlight ~> ~InFlight
=============================================================================
