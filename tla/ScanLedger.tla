----------------------------- MODULE ScanLedger -----------------------------
(***************************************************************************)
(* What the findings store promises its callers, with no lock, no          *)
(* transaction and no row-by-row insert: every write lands at most once,   *)
(* whole and together with its audit entry; a caller is told "ok" only if  *)
(* its write landed and "error" only if it did not; a crash of the service *)
(* forgets the calls in flight and nothing that landed.                    *)
(***************************************************************************)
EXTENDS Naturals, Sequences, FiniteSets

CONSTANTS
    Caller,       \* the threads that call the store's write operations
    Request,      \* the writes they may ask for, see EntryOf and TrailOf
    NoRequest     \* what a caller with no call in flight has asked for

VARIABLES
    ledger,       \* the recorded scans, each whole, in the order they landed
    trail,        \* the audit log, one entry per write that landed
    phase,        \* how far each caller's call has come
    asked         \* what each caller asked for

vars == <<ledger, trail, phase, asked>>

Phase == {"idle", "pending", "ok", "error"}

(* A recorded scan: its header with the finding count, and its findings. *)
EntryOf(r) == [actor |-> r.actor, target |-> r.target,
               finding_count |-> Cardinality(r.fps), fps |-> r.fps]

TrailOf(r) == [actor |-> r.actor, action |-> r.action]

IsScan(r) == r.action = "record_scan"

Init ==
    /\ ledger = <<>>
    /\ trail = <<>>
    /\ phase = [c \in Caller |-> "idle"]
    /\ asked = [c \in Caller |-> NoRequest]

Submit(c, r) ==
    /\ phase[c] = "idle"
    /\ phase' = [phase EXCEPT ![c] = "pending"]
    /\ asked' = [asked EXCEPT ![c] = r]
    /\ UNCHANGED <<ledger, trail>>

(* The write takes effect: the scan, all its findings and its audit entry. *)
Land(c) ==
    /\ phase[c] = "pending"
    /\ phase' = [phase EXCEPT ![c] = "ok"]
    /\ ledger' = IF IsScan(asked[c]) THEN Append(ledger, EntryOf(asked[c])) ELSE ledger
    /\ trail' = Append(trail, TrailOf(asked[c]))
    /\ UNCHANGED asked

Refuse(c) ==
    /\ phase[c] = "pending"
    /\ phase' = [phase EXCEPT ![c] = "error"]
    /\ UNCHANGED <<ledger, trail, asked>>

Reply(c) ==
    /\ phase[c] \in {"ok", "error"}
    /\ phase' = [phase EXCEPT ![c] = "idle"]
    /\ asked' = [asked EXCEPT ![c] = NoRequest]
    /\ UNCHANGED <<ledger, trail>>

(* The service process that runs the callers in C dies. *)
Crash(C) ==
    /\ phase' = [c \in Caller |-> IF c \in C THEN "idle" ELSE phase[c]]
    /\ asked' = [c \in Caller |-> IF c \in C THEN NoRequest ELSE asked[c]]
    /\ UNCHANGED <<ledger, trail>>

Next ==
    \/ \E c \in Caller :
          \/ \E r \in Request : Submit(c, r)
          \/ Land(c)
          \/ Refuse(c)
          \/ Reply(c)
    \/ \E C \in SUBSET Caller : Crash(C)

Spec == Init /\ [][Next]_vars
=============================================================================
