--------------------------- MODULE StoreSingleton ---------------------------
(***************************************************************************)
(* store.py's get_store: request threads create the one FindingsStore of   *)
(* the process on first use, by a check, a lock, a second check and a      *)
(* construction that may fail (no directory, unreadable file) and is then  *)
(* tried again by a later call.  _lock of FindingsStore serialises writers *)
(* only because all of them are handed the same object.                    *)
(***************************************************************************)
EXTENDS Naturals, FiniteSets

CONSTANTS
    Thread,      \* the request threads
    NoThread     \* holder of a free lock

ASSUME ThreadAssumption == NoThread \notin Thread

VARIABLES
    singleton,   \* _store_singleton: the number of an object, 0 for None
    built,       \* how many FindingsStore objects have been constructed
    holder,      \* the thread that holds _singleton_lock
    pc,          \* the next step of each thread
    got          \* what each thread's last call returned, 0 if it raised

vars == <<singleton, built, holder, pc, got>>

Init ==
    /\ singleton = 0
    /\ built = 0
    /\ holder = NoThread
    /\ pc = [t \in Thread |-> "idle"]
    /\ got = [t \in Thread |-> 0]

Goto(t, label) == pc' = [pc EXCEPT ![t] = label]

Call(t) ==
    /\ pc[t] = "idle"
    /\ Goto(t, "check")
    /\ UNCHANGED <<singleton, built, holder, got>>

(* if _store_singleton is None, without the lock *)
Check(t) ==
    /\ pc[t] = "check"
    /\ Goto(t, IF singleton = 0 THEN "lock" ELSE "return")
    /\ UNCHANGED <<singleton, built, holder, got>>

Acquire(t) ==
    /\ pc[t] = "lock"
    /\ holder = NoThread
    /\ holder' = t
    /\ Goto(t, "recheck")
    /\ UNCHANGED <<singleton, built, got>>

(* Seeded fault: the second check is missing. *)
NoRecheck(t) ==
    /\ pc[t] = "recheck"
    /\ Goto(t, "construct")
    /\ UNCHANGED <<singleton, built, holder, got>>

Recheck(t) ==
    /\ pc[t] = "recheck"
    /\ Goto(t, IF singleton = 0 THEN "construct" ELSE "unlock")
    /\ UNCHANGED <<singleton, built, holder, got>>

(* FindingsStore() succeeds and is assigned, or raises. *)
Construct(t) ==
    /\ pc[t] = "construct"
    /\ built' = built + 1
    /\ Goto(t, "assign")
    /\ UNCHANGED <<singleton, holder, got>>

(* Seeded fault: an exception in the constructor leaves the lock taken. *)
ConstructFailsLocked(t) ==
    /\ pc[t] = "construct"
    /\ got' = [got EXCEPT ![t] = 0]
    /\ Goto(t, "idle")
    /\ UNCHANGED <<singleton, built, holder>>

ConstructFails(t) ==
    /\ pc[t] = "construct"
    /\ holder' = NoThread
    /\ got' = [got EXCEPT ![t] = 0]
    /\ Goto(t, "idle")
    /\ UNCHANGED <<singleton, built>>

(* Seeded fault: the assignment is to a local name. *)
AssignLocally(t) ==
    pc[t] = "assign" /\ Goto(t, "unlock") /\ UNCHANGED <<singleton, built, holder, got>>

Assign(t) ==
    /\ pc[t] = "assign"
    /\ singleton' = built
    /\ Goto(t, "unlock")
    /\ UNCHANGED <<built, holder, got>>

Unlock(t) ==
    /\ pc[t] = "unlock"
    /\ holder' = NoThread
    /\ Goto(t, "return")
    /\ UNCHANGED <<singleton, built, got>>

(* return _store_singleton: the global is read once more. *)
Return(t) ==
    /\ pc[t] = "return"
    /\ got' = [got EXCEPT ![t] = singleton]
    /\ Goto(t, "idle")
    /\ UNCHANGED <<singleton, built, holder>>

Step(t) ==
    \/ Check(t) \/ Acquire(t) \/ Recheck(t) \/ Construct(t) \/ ConstructFails(t)
    \/ Assign(t) \/ Unlock(t) \/ Return(t)

Next == \E t \in Thread : Step(t) \/ Call(t)

Spec == Init /\ [][Next]_vars

(* A thread that runs keeps running; once the object exists the lock is    *)
(* not wanted for long, so weak fairness is enough for those in its queue. *)
FairSpec == Spec /\ \A t \in Thread : WF_vars(Step(t))

-----------------------------------------------------------------------------
Pc == {"idle", "check", "lock", "recheck", "construct", "assign", "unlock", "return"}

(* The types of the global, the lock and every thread's locals. *)
TypeOK ==
    /\ singleton \in Nat /\ built \in Nat
    /\ holder \in Thread \cup {NoThread}
    /\ pc \in [Thread -> Pc]
    /\ got \in [Thread -> Nat]

(* No two FindingsStore objects ever exist in one process, however the     *)
(* first calls interleave: with two there would be two _locks and writers  *)
(* of one process would time out on each other (store.py:237-243).         *)
AtMostOneStore == built <= 1

(* A call that returns hands out that object and never None: a thread that *)
(* saw None, waited and found the object made reads it afterwards.         *)
ReturnsTheStore ==
    /\ \A t \in Thread : pc[t] = "return" => singleton = 1
    /\ \A t \in Thread : got[t] \in {0, 1}

(* A failed construction does not wedge the service: _singleton_lock is    *)
(* let go, so that the next call (or /api/readyz probe, app.py:154-160)    *)
(* can try again.                                                          *)
LockIsReleased == \A t \in Thread : holder = t ~> holder # t
=============================================================================
