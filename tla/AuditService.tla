---------------------------- MODULE AuditService ----------------------------
(***************************************************************************)
(* app.py's POST /api/audit/iam with metering.py in front of it, and GET   *)
(* /api/usage.  The handlers are plain functions, so the framework runs    *)
(* them in a pool of threads: several requests stand between the quota     *)
(* check and the INSERT that the next check would count, and an LLM call   *)
(* may take minutes there.  The store is what ScanLedger promises: a scan  *)
(* is recorded whole in one step or not at all.                            *)
(***************************************************************************)
EXTENDS Integers, Sequences, FiniteSets

CONSTANTS
    Thread,             \* the threads that may serve audit requests at once
    Viewer,             \* the threads that serve usage requests
    Actor, Target,
    NoRequest,          \* what an idle thread serves
    Seats,              \* LICENSE.seats, no limit when not positive
    MaxScansPerMonth,   \* LICENSE.max_scans_per_month, likewise
    MonthOf,            \* MonthOf[c]: the calendar month at clock reading c
    MaxClock,           \* bound: the last reading of the clock
    MaxScans            \* bound: no request arrives once this many scans are stored

ASSUME ThreadAssumption == IsFiniteSet(Thread) /\ Thread # {} /\ Thread \cap Viewer = {}

ASSUME LimitAssumption == Seats \in Int /\ MaxScansPerMonth \in Int

ASSUME BoundAssumption == MaxClock \in Nat \ {0} /\ MaxScans \in Nat

(* Wall-clock time does not run backwards. *)
ASSUME MonthAssumption ==
    /\ MonthOf \in [1..MaxClock -> Nat]
    /\ \A c, d \in 1..MaxClock : c <= d => MonthOf[c] <= MonthOf[d]

VARIABLES
    clock,     \* the time, in steps that the month function tells apart
    scans,     \* the scans table
    pc,        \* the next step of each thread
    req,       \* the actor and target of the request a thread serves
    since,     \* enforce_quota's and usage_summary's month start
    stamp,     \* the scanned_at of a finished analysis, 0 before
    status,    \* the HTTP status of the answer
    base,      \* ghost: how many scans were stored when the request arrived
    usage      \* what usage_summary has read, with ghost: scans then stored

threadVars == <<pc, req, since, stamp, status, base>>
vars == <<clock, scans, threadVars, usage>>

Month == MonthOf[clock]

Request == [action : {"record_scan"}, actor : Actor, target : Target, fps : {{}}]

(* WHERE scanned_at >= month start; a stamp sorts as its time does. *)
Since(m) == {i \in DOMAIN scans : MonthOf[scans[i].at] >= m}
CountScansSince(m) == Cardinality(Since(m))
DistinctActorsSince(m) == {scans[i].actor : i \in Since(m)}

NoUsage == [used |-> 0, actors |-> {}, stored |-> 0]

Init ==
    /\ clock = 1
    /\ scans = <<>>
    /\ pc = [t \in Thread \cup Viewer |-> "idle"]
    /\ req = [t \in Thread |-> NoRequest]
    /\ since = [t \in Thread \cup Viewer |-> 0]
    /\ stamp = [t \in Thread |-> 0]
    /\ status = [t \in Thread |-> 0]
    /\ base = [t \in Thread |-> 0]
    /\ usage = [v \in Viewer |-> NoUsage]

Tick ==
    /\ clock < MaxClock
    /\ clock' = clock + 1
    /\ UNCHANGED <<scans, threadVars, usage>>

-----------------------------------------------------------------------------
(* POST /api/audit/iam.                                                    *)

Goto(t, label) == pc' = [pc EXCEPT ![t] = label]

Answer(t, code) ==
    /\ status' = [status EXCEPT ![t] = code]
    /\ Goto(t, "respond")
    /\ UNCHANGED <<clock, req, since, stamp, base, usage>>

(* An authorised analyst's request: enforce_quota starts with the month.   *)
Arrive(t, r) ==
    /\ pc[t] = "idle"
    /\ Len(scans) < MaxScans
    /\ req' = [req EXCEPT ![t] = r]
    /\ since' = [since EXCEPT ![t] = Month]
    /\ base' = [base EXCEPT ![t] = Len(scans)]
    /\ Goto(t, "seats")
    /\ UNCHANGED <<clock, scans, stamp, status, usage>>

(* Seeded fault: as many actors as there are seats still leave room. *)
SeatsFullOffByOne(t) ==
    /\ Seats > 0
    /\ req[t].actor \notin DistinctActorsSince(since[t])
    /\ Cardinality(DistinctActorsSince(since[t])) > Seats

SeatsFull(t) ==
    /\ Seats > 0
    /\ req[t].actor \notin DistinctActorsSince(since[t])
    /\ Cardinality(DistinctActorsSince(since[t])) >= Seats

(* One check: refuse, pass, or fail (no store, or its SELECT raises). *)
Check(t, full, next) ==
    /\ \/ full /\ Answer(t, 402)
       \/ ~full /\ Goto(t, next) /\ UNCHANGED <<clock, req, since, stamp, status, base, usage>>
       \/ Answer(t, 500)
    /\ UNCHANGED scans

CheckSeats(t) == pc[t] = "seats" /\ Check(t, SeatsFull(t), "quota")

(* Seeded fault: as many scans as the quota still leave room. *)
QuotaFullOffByOne(t) == MaxScansPerMonth > 0 /\ CountScansSince(since[t]) > MaxScansPerMonth

QuotaFull(t) == MaxScansPerMonth > 0 /\ CountScansSince(since[t]) >= MaxScansPerMonth

CheckQuota(t) == pc[t] = "quota" /\ Check(t, QuotaFull(t), "analyze")

(* An unknown provider or invalid JSON (400), an analysis that raises      *)
(* (500), or a finished analysis, stamped before the narrative is asked    *)
(* for.                                                                    *)
Analyze(t) ==
    /\ pc[t] = "analyze"
    /\ \/ Answer(t, 400)
       \/ Answer(t, 500)
       \/ /\ stamp' = [stamp EXCEPT ![t] = clock]
          /\ Goto(t, "narrate")
          /\ UNCHANGED <<clock, req, since, status, base, usage>>
    /\ UNCHANGED scans

(* The narrative ends, by an answer or by LLMUnavailable, see LLMClient.   *)
Narrate(t) ==
    /\ pc[t] = "narrate"
    /\ Goto(t, "record")
    /\ UNCHANGED <<clock, scans, req, since, stamp, status, base, usage>>

(* Seeded faults: the analysis is cached by actor, scanned_at included;    *)
(* the row is not stamped.                                                 *)
ScanOfUnstamped(t) == [actor |-> req[t].actor, target |-> req[t].target, at |-> 0, base |-> base[t]]
ScanOfCached(t) ==
    LET cached == {i \in DOMAIN scans : scans[i].actor = req[t].actor}
    IN  [actor |-> req[t].actor, target |-> req[t].target, base |-> base[t],
         at |-> IF cached = {} THEN stamp[t] ELSE scans[CHOOSE i \in cached : TRUE].at]

ScanOf(t) == [actor |-> req[t].actor, target |-> req[t].target, at |-> stamp[t], base |-> base[t]]

(* Seeded fault: an exception of record_scan is swallowed. *)
RecordSwallowed(t) ==
    /\ pc[t] = "record"
    /\ \/ scans' = Append(scans, ScanOf(t)) /\ Answer(t, 200)
       \/ UNCHANGED scans /\ Answer(t, 200)

(* record_scan lands and its id is answered, or it raises. *)
Record(t) ==
    /\ pc[t] = "record"
    /\ \/ scans' = Append(scans, ScanOf(t)) /\ Answer(t, 200)
       \/ UNCHANGED scans /\ Answer(t, 500)

Forget(t) ==
    /\ req' = [req EXCEPT ![t] = NoRequest]
    /\ since' = [since EXCEPT ![t] = 0]
    /\ stamp' = [stamp EXCEPT ![t] = 0]
    /\ status' = [status EXCEPT ![t] = 0]
    /\ base' = [base EXCEPT ![t] = 0]

Respond(t) ==
    /\ pc[t] = "respond"
    /\ Goto(t, "idle")
    /\ Forget(t)
    /\ UNCHANGED <<clock, scans, usage>>

Serve(t) ==
    \/ CheckSeats(t) \/ CheckQuota(t) \/ Analyze(t) \/ Narrate(t) \/ Record(t) \/ Respond(t)

-----------------------------------------------------------------------------
(* GET /api/usage: two SELECTs, each on a connection of its own.           *)

AskUsage(v) ==
    /\ pc[v] = "idle"
    /\ since' = [since EXCEPT ![v] = Month]
    /\ Goto(v, "count")
    /\ UNCHANGED <<clock, scans, req, stamp, status, base, usage>>

(* Seeded fault: the month is taken anew for the second SELECT. *)
CountScansNewMonth(v) ==
    /\ pc[v] = "count"
    /\ usage' = [usage EXCEPT ![v].used = CountScansSince(since[v]), ![v].stored = Len(scans)]
    /\ since' = [since EXCEPT ![v] = Month]
    /\ Goto(v, "actors")
    /\ UNCHANGED <<clock, scans, req, stamp, status, base>>

CountScans(v) ==
    /\ pc[v] = "count"
    /\ usage' = [usage EXCEPT ![v].used = CountScansSince(since[v]), ![v].stored = Len(scans)]
    /\ Goto(v, "actors")
    /\ UNCHANGED <<clock, scans, req, since, stamp, status, base>>

ListActors(v) ==
    /\ pc[v] = "actors"
    /\ usage' = [usage EXCEPT ![v].actors = DistinctActorsSince(since[v])]
    /\ Goto(v, "report")
    /\ UNCHANGED <<clock, scans, req, since, stamp, status, base>>

ReturnUsage(v) ==
    /\ pc[v] = "report"
    /\ usage' = [usage EXCEPT ![v] = NoUsage]
    /\ since' = [since EXCEPT ![v] = 0]
    /\ Goto(v, "idle")
    /\ UNCHANGED <<clock, scans, req, stamp, status, base>>

Report(v) == CountScans(v) \/ ListActors(v) \/ ReturnUsage(v)

-----------------------------------------------------------------------------
(* The process is killed and started again: requests in flight are gone,   *)
(* the table is not.                                                       *)
Restart ==
    /\ pc' = [t \in Thread \cup Viewer |-> "idle"]
    /\ req' = [t \in Thread |-> NoRequest]
    /\ since' = [t \in Thread \cup Viewer |-> 0]
    /\ stamp' = [t \in Thread |-> 0]
    /\ status' = [t \in Thread |-> 0]
    /\ base' = [t \in Thread |-> 0]
    /\ usage' = [v \in Viewer |-> NoUsage]
    /\ UNCHANGED <<clock, scans>>

Next ==
    \/ \E t \in Thread : Serve(t) \/ \E r \in Request : Arrive(t, r)
    \/ \E v \in Viewer : Report(v) \/ AskUsage(v)
    \/ Tick
    \/ Restart

Spec == Init /\ [][Next]_vars

-----------------------------------------------------------------------------
Pc == {"idle", "seats", "quota", "analyze", "narrate", "record", "respond"}
ViewerPc == {"idle", "count", "actors", "report"}
ScanType == [actor : Actor, target : Target, at : 1..MaxClock, base : Nat]

(* The types of the table, the clock and every thread's locals. *)
TypeOK ==
    /\ clock \in 1..MaxClock
    /\ scans \in Seq(ScanType)
    /\ pc \in [Thread \cup Viewer -> Pc \cup ViewerPc]
    /\ \A t \in Thread : pc[t] \in Pc
    /\ \A v \in Viewer : pc[v] \in ViewerPc
    /\ req \in [Thread -> Request \cup {NoRequest}]
    /\ since \in [Thread \cup Viewer -> Nat]
    /\ stamp \in [Thread -> 0..MaxClock]
    /\ status \in [Thread -> {0, 200, 400, 402, 500}]
    /\ base \in [Thread -> Nat]
    /\ usage \in [Viewer -> [used : Nat, actors : SUBSET Actor, stored : Nat]]

Months == {MonthOf[c] : c \in DOMAIN MonthOf}
InMonth(m) == {i \in DOMAIN scans : MonthOf[scans[i].at] = m}
ActorsIn(m) == {scans[i].actor : i \in InMonth(m)}

(* How far the check-then-record of app.py:230-245 can overshoot: in no    *)
(* month are more scans stored than the quota and one more for every other *)
(* thread that can be between its check and its INSERT, also across a      *)
(* month's end.  With a single thread the quota is exact.                  *)
ScanOvershootBound ==
    MaxScansPerMonth > 0 =>
        \A m \in Months : Cardinality(InMonth(m)) <= MaxScansPerMonth + Cardinality(Thread) - 1

(* The same for seats: a month's distinct actors exceed the seats by at    *)
(* most one for every other thread (metering.py:50-56).                    *)
SeatOvershootBound ==
    Seats > 0 =>
        \A m \in Months : Cardinality(ActorsIn(m)) <= Seats + Cardinality(Thread) - 1

(* Ids and times agree for scans that did not overlap: a scan requested    *)
(* after another was stored has the larger id and no earlier scanned_at,   *)
(* so that diff_latest's "newer" is the later one (store.py:186-192).      *)
SequentialScansInOrder ==
    \A i, j \in DOMAIN scans : i <= scans[j].base => scans[i].at <= scans[j].at

(* usage_summary counts first and lists actors second (metering.py:29-30): *)
(* with scans recorded in between, every scan in scans_used is still by an *)
(* actor in active_actors.                                                 *)
UsageCoversScans ==
    \A v \in Viewer : pc[v] = "report" =>
        LET counted == Since(since[v]) \cap 1..usage[v].stored
        IN  /\ usage[v].used = Cardinality(counted)
            /\ {scans[i].actor : i \in counted} \subseteq usage[v].actors

-----------------------------------------------------------------------------
(* What the documentation promises and the interleavings break.            *)

(* "Raise QuotaExceeded if running one more scan as `actor` would breach   *)
(* the license" (metering.py:46): no month holds more scans than licensed. *)
WithinQuota ==
    MaxScansPerMonth > 0 =>
        \A m \in Months : Cardinality(InMonth(m)) <= MaxScansPerMonth

(* "Compare the two most recent scans of a (domain, target)"               *)
(* (store.py:180): the scan diff_latest calls newer, the one with the      *)
(* highest id, was not made before the one it calls older.                 *)
DiffComparesMostRecent ==
    \A i, j \in DOMAIN scans :
        (/\ i < j /\ scans[i].target = scans[j].target
         /\ \A k \in DOMAIN scans : scans[k].target = scans[i].target => k \in {i, j} \/ k < i)
        => scans[i].at <= scans[j].at

-----------------------------------------------------------------------------
(* The service uses the store as ScanLedger offers it.                     *)

CallPhase(t) ==
    CASE pc[t] \in {"narrate", "record"} -> "pending"
      [] pc[t] = "respond" /\ status[t] = 200 -> "ok"
      [] pc[t] = "respond" /\ status[t] = 500 /\ stamp[t] > 0 -> "error"
      [] OTHER -> "idle"

Ledger == INSTANCE ScanLedger WITH
    Caller <- Thread,
    ledger <- [i \in DOMAIN scans |-> [actor |-> scans[i].actor, target |-> scans[i].target,
                                       finding_count |-> 0, fps |-> {}]],
    trail  <- [i \in DOMAIN scans |-> [actor |-> scans[i].actor, action |-> "record_scan"]],
    phase  <- [t \in Thread |-> CallPhase(t)],
    asked  <- [t \in Thread |-> IF CallPhase(t) = "idle" THEN NoRequest ELSE req[t]]

(* A request answered 200 has its scan stored under its own actor, one     *)
(* answered 500 after a failed INSERT has none, and each stores at most    *)
(* one: the service is a client of the abstract ledger.                    *)
UsesLedger == Ledger!Spec
=============================================================================
