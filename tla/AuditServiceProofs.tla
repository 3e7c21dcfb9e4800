------------------------- MODULE AuditServiceProofs -------------------------
(***************************************************************************)
(* How far the licensed quota and seats can be overshot, the order of the  *)
(* stored scans, what a usage report counts, and the service as a client   *)
(* of ScanLedger: proofs for any number of threads, actors and scans, any  *)
(* license and any length of the months.                                   *)
(***************************************************************************)
EXTENDS AuditService, FiniteSetTheorems, TLAPS

-----------------------------------------------------------------------------
(* Types, and what the clock says of the stamps.                           *)

(* A thread that serves a request has its actor and target; no stamp and   *)
(* no month start is later than the clock.                                 *)
Stamps ==
    /\ \A i \in DOMAIN scans : scans[i].at <= clock
    /\ \A t \in Thread :
          /\ pc[t] # "idle" => req[t] \in Request
          /\ pc[t] \in {"narrate", "record"} => stamp[t] \in 1..clock
          /\ since[t] <= Month

TypeInv == TypeOK /\ Stamps

LEMMA MonthType ==
    ASSUME TypeOK
    PROVE  Month \in Nat /\ clock \in Nat /\ \A c \in 1..clock : MonthOf[c] \in Nat /\ MonthOf[c] <= Month
<1>1. clock \in 1..MaxClock /\ MaxClock \in Nat
  BY BoundAssumption DEF TypeOK
<1> QED BY <1>1, MonthAssumption DEF Month

LEMMA InitInv == Init => TypeInv
<1> SUFFICES ASSUME Init PROVE TypeInv
  OBVIOUS
<1> USE ThreadAssumption, BoundAssumption DEF Init
<1>1. NoUsage \in [used : Nat, actors : SUBSET Actor, stored : Nat]
  BY DEF NoUsage
<1>2. 1 \in 1..MaxClock
  OBVIOUS
<1>3. TypeOK
  BY <1>1, <1>2 DEF TypeOK, Pc, ViewerPc
<1>4. Stamps
  BY <1>3, MonthType DEF Stamps
<1> QED BY <1>3, <1>4 DEF TypeInv

LEMMA TableFacts ==
    ASSUME TypeOK
    PROVE  /\ Len(scans) \in Nat /\ DOMAIN scans = 1..Len(scans) /\ IsFiniteSet(DOMAIN scans)
           /\ \A i \in DOMAIN scans : scans[i].at \in 1..MaxClock /\ scans[i].actor \in Actor
<1>1. scans \in Seq(ScanType)
  BY DEF TypeOK
<1>2. Len(scans) \in Nat /\ DOMAIN scans = 1..Len(scans)
  BY <1>1
<1>3. \A i \in DOMAIN scans : scans[i] \in ScanType
  BY <1>1
<1>4. IsFiniteSet(1..Len(scans))
  BY <1>2, FS_Interval
<1> QED BY <1>2, <1>3, <1>4 DEF ScanType

(* A thread moves on, or answers, with its locals as they are. *)
LEMMA MoveType ==
    ASSUME TypeInv, NEW t \in Thread, NEW label \in Pc,
           pc[t] # "idle", label \in {"narrate", "record"} => pc[t] = "narrate",
           pc' = [pc EXCEPT ![t] = label],
           status' \in [Thread -> {0, 200, 400, 402, 500}],
           UNCHANGED <<clock, scans, req, since, stamp, base, usage>>
    PROVE  TypeInv'
<1>1. \A u \in Thread : u # t => pc'[u] = pc[u]
  BY DEF TypeInv, TypeOK
<1>2. pc'[t] = label
  BY DEF TypeInv, TypeOK
<1>3. pc' \in [Thread \cup Viewer -> Pc \cup ViewerPc]
  BY DEF TypeInv, TypeOK
<1>4. TypeOK'
  BY <1>1, <1>2, <1>3, ThreadAssumption DEF TypeInv, TypeOK
<1>5. Stamps'
  BY <1>1, <1>2 DEF TypeInv, Stamps, Month
<1> QED BY <1>4, <1>5 DEF TypeInv

(* Steps of an audit request but the INSERT. *)
LEMMA ServeType ==
    ASSUME TypeInv, NEW t \in Thread,
           \/ \E r \in Request : Arrive(t, r)
           \/ CheckSeats(t) \/ CheckQuota(t) \/ Analyze(t) \/ Narrate(t) \/ Respond(t)
    PROVE  TypeInv' /\ UNCHANGED scans
<1> USE ThreadAssumption, BoundAssumption DEF TypeInv, Pc, ViewerPc, Goto
<1>0. /\ Month \in Nat /\ clock \in 1..MaxClock /\ clock \in Nat
      /\ status \in [Thread -> {0, 200, 400, 402, 500}]
      /\ stamp \in [Thread -> 0..MaxClock] /\ since \in [Thread \cup Viewer -> Nat]
      /\ req \in [Thread -> Request \cup {NoRequest}] /\ base \in [Thread -> Nat]
      /\ pc \in [Thread \cup Viewer -> Pc \cup ViewerPc]
  BY MonthType DEF TypeOK
<1>1. ASSUME NEW r \in Request, Arrive(t, r) PROVE TypeInv' /\ UNCHANGED scans
  <2>1. Len(scans) \in Nat
    BY DEF TypeOK
  <2>2. TypeOK'
    BY <1>0, <1>1, <2>1 DEF Arrive, TypeOK
  <2>3. Stamps'
    BY <1>0, <1>1 DEF Arrive, TypeOK, Stamps, Month
  <2> QED BY <1>1, <2>2, <2>3 DEF Arrive
<1>2. ASSUME NEW full, NEW next \in {"quota", "analyze"}, pc[t] \in {"seats", "quota"},
             Check(t, full, next)
      PROVE  TypeInv' /\ UNCHANGED scans
  <2>1. status' \in [Thread -> {0, 200, 400, 402, 500}]
    BY <1>0, <1>2 DEF Check, Answer
  <2>2. \E label \in Pc : label \notin {"narrate", "record"} /\ pc' = [pc EXCEPT ![t] = label]
    BY <1>2 DEF Check, Answer
  <2>3. UNCHANGED <<clock, scans, req, since, stamp, base, usage>>
    BY <1>2 DEF Check, Answer
  <2> QED BY <1>2, <2>1, <2>2, <2>3, MoveType
<1>3. CASE CheckSeats(t) \/ CheckQuota(t)
  BY <1>2, <1>3 DEF CheckSeats, CheckQuota
<1>4. CASE Analyze(t)
  <2>1. CASE Answer(t, 400) \/ Answer(t, 500)
    <3>1. status' \in [Thread -> {0, 200, 400, 402, 500}]
      BY <1>0, <2>1 DEF Answer
    <3>2. /\ "respond" \in Pc /\ pc[t] = "analyze" /\ pc' = [pc EXCEPT ![t] = "respond"]
          /\ UNCHANGED <<clock, scans, req, since, stamp, base, usage>>
      BY <1>4, <2>1 DEF Analyze, Answer
    <3> QED BY <3>1, <3>2, MoveType
  <2>2. CASE ~(Answer(t, 400) \/ Answer(t, 500))
    <3>1. TypeOK'
      <4>1. /\ stamp' \in [Thread -> 0..MaxClock]
            /\ pc' \in [Thread \cup Viewer -> Pc \cup ViewerPc]
            /\ \A u \in Thread : pc'[u] \in Pc
            /\ \A v \in Viewer : pc'[v] \in ViewerPc
        <5>1. (\A u \in Thread : pc[u] \in Pc) /\ (\A v \in Viewer : pc[v] \in ViewerPc)
          BY DEF TypeOK
        <5> QED BY <1>0, <1>4, <2>2, <5>1 DEF Analyze
      <4> QED BY <1>4, <2>2, <4>1 DEF Analyze, TypeOK
    <3>2. Stamps'
      BY <1>0, <1>4, <2>2 DEF Analyze, TypeOK, Stamps, Month
    <3> QED BY <1>4, <3>1, <3>2 DEF Analyze
  <2> QED BY <2>1, <2>2
<1>5. CASE Narrate(t)
  <2>1. /\ "record" \in Pc /\ pc[t] = "narrate" /\ pc' = [pc EXCEPT ![t] = "record"]
        /\ UNCHANGED <<clock, scans, req, since, stamp, base, usage, status>>
    BY <1>5 DEF Narrate
  <2>2. status' \in [Thread -> {0, 200, 400, 402, 500}]
    BY <2>1 DEF TypeOK
  <2> QED BY <2>1, <2>2, MoveType
<1>6. CASE Respond(t)
  <2>1. TypeOK'
    BY <1>0, <1>6 DEF Respond, Forget, TypeOK
  <2>2. Stamps'
    BY <1>0, <1>6 DEF Respond, Forget, TypeOK, Stamps, Month
  <2> QED BY <1>6, <2>1, <2>2 DEF Respond
<1> QED BY <1>1, <1>3, <1>4, <1>5, <1>6

(* What the table looks like after the INSERT. *)
LEMMA Inserted ==
    ASSUME TypeInv, NEW t \in Thread, pc[t] = "record", scans' = Append(scans, ScanOf(t))
    PROVE  /\ Len(scans) \in Nat /\ DOMAIN scans = 1..Len(scans)
           /\ scans' \in Seq(ScanType)
           /\ DOMAIN scans' = DOMAIN scans \cup {Len(scans) + 1}
           /\ \A i \in DOMAIN scans : scans'[i] = scans[i]
           /\ scans'[Len(scans) + 1] = ScanOf(t)
           /\ ScanOf(t).at = stamp[t] /\ ScanOf(t).actor = req[t].actor
<1>1. scans \in Seq(ScanType) /\ Len(scans) \in Nat
  BY DEF TypeInv, TypeOK
<1>2. ScanOf(t) \in ScanType
  <2>1. req[t].actor \in Actor /\ req[t].target \in Target
    BY DEF TypeInv, Stamps, Request
  <2>2. stamp[t] \in 1..MaxClock /\ base[t] \in Nat
    BY MonthType, BoundAssumption DEF TypeInv, TypeOK, Stamps
  <2> QED BY <2>1, <2>2 DEF ScanOf, ScanType
<1>3. /\ scans' \in Seq(ScanType)
      /\ Len(scans') = Len(scans) + 1
      /\ \A i \in 1..Len(scans) : scans'[i] = scans[i]
      /\ scans'[Len(scans) + 1] = ScanOf(t)
  BY <1>1, <1>2
<1>4. DOMAIN scans = 1..Len(scans) /\ DOMAIN scans' = 1..(Len(scans) + 1)
  BY <1>1, <1>3
<1>5. 1..(Len(scans) + 1) = 1..Len(scans) \cup {Len(scans) + 1}
  BY <1>1
<1>6. ScanOf(t).at = stamp[t] /\ ScanOf(t).actor = req[t].actor
  BY DEF ScanOf
<1> QED BY <1>1, <1>3, <1>4, <1>5, <1>6

LEMMA RecordType ==
    ASSUME TypeInv, NEW t \in Thread, Record(t)
    PROVE  TypeInv'
<1> USE ThreadAssumption DEF TypeInv, Pc, ViewerPc, Goto, Record, Answer
<1>0. /\ status \in [Thread -> {0, 200, 400, 402, 500}]
      /\ pc \in [Thread \cup Viewer -> Pc \cup ViewerPc]
  BY DEF TypeOK
<1>1. scans' \in Seq(ScanType) /\ \A i \in DOMAIN scans' : scans'[i].at <= clock
  <2>1. CASE UNCHANGED scans
    BY <2>1 DEF TypeOK, Stamps
  <2>2. CASE scans' = Append(scans, ScanOf(t))
    BY <2>2, Inserted, MonthType DEF Stamps
  <2> QED BY <2>1, <2>2
<1>2. /\ pc' \in [Thread \cup Viewer -> Pc \cup ViewerPc] /\ pc'[t] = "respond"
      /\ \A u \in Thread \cup Viewer : u # t => pc'[u] = pc[u]
  BY <1>0
<1>3. status' \in [Thread -> {0, 200, 400, 402, 500}]
  BY <1>0
<1>4. UNCHANGED <<clock, req, since, stamp, base, usage>> /\ pc[t] = "record"
  OBVIOUS
<1> HIDE DEF Record, Answer
<1>5. TypeOK'
  BY <1>1, <1>2, <1>3, <1>4 DEF TypeOK
<1>6. Stamps'
  BY <1>1, <1>2, <1>4 DEF TypeOK, Stamps, Month
<1> QED BY <1>5, <1>6

LEMMA TypeStep == TypeInv /\ [Next]_vars => TypeInv'
<1> SUFFICES ASSUME TypeInv, [Next]_vars PROVE TypeInv'
  OBVIOUS
<1> USE ThreadAssumption, BoundAssumption DEF TypeInv, Pc, ViewerPc, Goto
<1>0. Month \in Nat /\ clock \in 1..MaxClock
  BY MonthType DEF TypeOK
<1>1. CASE UNCHANGED vars
  BY <1>1 DEF vars, threadVars, TypeOK, Stamps, Month
<1>2. CASE Tick
  <2>1. clock' \in 1..MaxClock /\ clock' = clock + 1
    BY <1>0, <1>2 DEF Tick
  <2>2. Month <= Month' /\ Month' \in Nat
    BY <1>0, <2>1, MonthAssumption DEF Month
  <2>3. TypeOK'
    BY <1>2, <2>1 DEF Tick, TypeOK, threadVars
  <2>4. Stamps'
    <3>1. \A i \in DOMAIN scans : scans[i].at \in Nat
      BY TableFacts, BoundAssumption
    <3>2. \A u \in Thread : since[u] \in Nat
      BY DEF TypeOK
    <3> QED BY <1>0, <1>2, <2>1, <2>2, <3>1, <3>2 DEF Tick, Stamps, threadVars
  <2> QED BY <2>3, <2>4
<1>3. CASE Restart
  <2>1. NoUsage \in [used : Nat, actors : SUBSET Actor, stored : Nat]
    BY DEF NoUsage
  <2>2. TypeOK'
    BY <1>3, <2>1 DEF Restart, TypeOK
  <2>3. Stamps'
    BY <1>0, <1>3 DEF Restart, Stamps, Month
  <2> QED BY <2>2, <2>3
<1>4. ASSUME NEW v \in Viewer, Report(v) \/ AskUsage(v) PROVE TypeInv'
  <2>0. /\ since \in [Thread \cup Viewer -> Nat]
        /\ usage \in [Viewer -> [used : Nat, actors : SUBSET Actor, stored : Nat]]
    BY DEF TypeOK
  <2>1. /\ since' \in [Thread \cup Viewer -> Nat]
        /\ \A t \in Thread : since'[t] = since[t]
    <3>1. \E m \in Nat : since' = [since EXCEPT ![v] = m] \/ UNCHANGED since
      BY <1>0, <1>4 DEF Report, CountScans, ListActors, ReturnUsage, AskUsage
    <3> QED BY <2>0, <3>1
  <2>2. /\ \E label \in ViewerPc : pc' = [pc EXCEPT ![v] = label]
        /\ UNCHANGED <<clock, scans, req, stamp, status, base>>
    BY <1>4 DEF Report, CountScans, ListActors, ReturnUsage, AskUsage
  <2>3. /\ pc' \in [Thread \cup Viewer -> Pc \cup ViewerPc]
        /\ \A t \in Thread : pc'[t] = pc[t]
        /\ \A u \in Viewer : pc'[u] \in ViewerPc
    BY <2>2 DEF TypeOK
  <2>4. usage' \in [Viewer -> [used : Nat, actors : SUBSET Actor, stored : Nat]]
    <3>1. CountScansSince(since[v]) \in Nat /\ Len(scans) \in Nat
      <4>1. IsFiniteSet(DOMAIN scans) /\ Len(scans) \in Nat
        BY TableFacts
      <4> QED BY <4>1, FS_Subset, FS_CardinalityType DEF CountScansSince, Since
    <3>2. DistinctActorsSince(since[v]) \in SUBSET Actor
      <4>1. \A i \in DOMAIN scans : scans[i].actor \in Actor
        BY TableFacts
      <4> QED BY <4>1 DEF DistinctActorsSince, Since
    <3>3. NoUsage \in [used : Nat, actors : SUBSET Actor, stored : Nat]
      BY DEF NoUsage
    <3>4. CASE CountScans(v)
      BY <2>0, <3>1, <3>4 DEF CountScans
    <3>5. CASE ListActors(v)
      BY <2>0, <3>2, <3>5 DEF ListActors
    <3>6. CASE ReturnUsage(v) \/ AskUsage(v)
      BY <2>0, <3>3, <3>6 DEF ReturnUsage, AskUsage
    <3> QED BY <1>4, <3>4, <3>5, <3>6 DEF Report
  <2>5. TypeOK'
    BY <2>1, <2>2, <2>3, <2>4 DEF TypeOK
  <2>6. Stamps'
    BY <2>1, <2>2, <2>3 DEF Stamps, Month
  <2> QED BY <2>5, <2>6
<1> QED BY <1>1, <1>2, <1>3, <1>4, ServeType, RecordType DEF Next, Serve

(* In every reachable state the clock, the table and the locals of all     *)
(* threads have their types.                                               *)
THEOREM TypeCorrect == Spec => []TypeOK
<1>1. TypeInv => TypeOK
  BY DEF TypeInv
<1> QED BY <1>1, InitInv, TypeStep, PTL DEF Spec

-----------------------------------------------------------------------------
(* The scan quota.                                                         *)

(* The threads that are past the quota check and will store a scan of      *)
(* month m, should their INSERT succeed.                                   *)
PendingScans(m) ==
    {t \in Thread : \/ pc[t] = "analyze" /\ Month = m
                    \/ pc[t] \in {"narrate", "record"} /\ MonthOf[stamp[t]] = m}

LEMMA Counts ==
    ASSUME TypeOK, NEW m
    PROVE  /\ IsFiniteSet(InMonth(m)) /\ Cardinality(InMonth(m)) \in Nat
           /\ IsFiniteSet(PendingScans(m)) /\ Cardinality(PendingScans(m)) \in Nat
           /\ Cardinality(PendingScans(m)) <= Cardinality(Thread)
           /\ Cardinality(Thread) \in Nat \ {0}
<1>1. InMonth(m) \in SUBSET (DOMAIN scans) /\ PendingScans(m) \in SUBSET Thread
  BY DEF InMonth, PendingScans
<1>2. Cardinality(Thread) \in Nat \ {0}
  BY ThreadAssumption, FS_CardinalityType, FS_EmptySet
<1> QED BY <1>1, <1>2, TableFacts, ThreadAssumption, FS_Subset, FS_CardinalityType

(* No scan is of a later month than the current one. *)
LEMMA NoneLater ==
    ASSUME TypeInv, NEW m \in Nat, m > Month
    PROVE  InMonth(m) = {}
<1>1. ASSUME NEW i \in DOMAIN scans PROVE MonthOf[scans[i].at] # m
  <2>1. scans[i].at \in 1..clock
    BY TableFacts, MonthType, BoundAssumption DEF TypeInv, Stamps
  <2>2. MonthOf[scans[i].at] \in Nat /\ MonthOf[scans[i].at] <= Month /\ Month \in Nat
    BY <2>1, MonthType DEF TypeInv
  <2> QED BY <2>2
<1> QED BY <1>1 DEF InMonth

(* Pending scans are counted as if they were stored: the last check that   *)
(* passed saw a scan less than the quota, and all other threads may be     *)
(* pending at that time.                                                   *)
BudgetAt(m) ==
    Cardinality(InMonth(m)) + Cardinality(PendingScans(m))
        <= MaxScansPerMonth + Cardinality(Thread) - 1

(* A month to which no scan is added and for which no thread becomes       *)
(* pending stays within its budget.                                        *)
LEMMA BudgetKept ==
    ASSUME TypeOK, NEW m \in Nat, BudgetAt(m),
           InMonth(m)' = InMonth(m), PendingScans(m)' \subseteq PendingScans(m)
    PROVE  BudgetAt(m)'
<1>1. PendingScans(m)' \in SUBSET PendingScans(m) /\ IsFiniteSet(PendingScans(m))
  BY Counts
<1> HIDE DEF PendingScans, InMonth
<1>2. /\ Cardinality(PendingScans(m)') <= Cardinality(PendingScans(m))
      /\ Cardinality(PendingScans(m)') \in Nat
  BY <1>1, FS_Subset, FS_CardinalityType
<1>3. Cardinality(InMonth(m)) \in Nat /\ Cardinality(PendingScans(m)) \in Nat /\ Cardinality(Thread) \in Nat
  BY Counts
<1> QED BY <1>2, <1>3, LimitAssumption DEF BudgetAt

(* A thread passes the quota check. *)
LEMMA CheckBudget ==
    ASSUME TypeInv, TypeOK', MaxScansPerMonth > 0, \A m \in Nat : BudgetAt(m),
           NEW t \in Thread, CheckQuota(t)
    PROVE  \A m \in Nat : BudgetAt(m)'
<1> SUFFICES ASSUME NEW m \in Nat PROVE BudgetAt(m)'
  OBVIOUS
<1> USE DEF TypeInv
<1>0. pc \in [Thread \cup Viewer -> Pc \cup ViewerPc] /\ Month \in Nat
  BY MonthType DEF TypeOK
<1>1. /\ \A u \in Thread : u # t => pc'[u] = pc[u]
      /\ UNCHANGED <<clock, scans, stamp>> /\ InMonth(m)' = InMonth(m)
  BY <1>0 DEF CheckQuota, Check, Answer, Goto, InMonth
<1>2. CASE m # Month \/ pc'[t] # "analyze"
  <2>1. pc'[t] \in {"respond", "analyze"}
    BY <1>0 DEF CheckQuota, Check, Answer, Goto
  <2>2. PendingScans(m)' \subseteq PendingScans(m)
    BY <1>1, <1>2, <2>1 DEF PendingScans, Month
  <2> QED BY <1>1, <2>2, BudgetKept
<1>3. CASE m = Month /\ pc'[t] = "analyze"
  <2>1. CountScansSince(since[t]) < MaxScansPerMonth
    <3>1. ~QuotaFull(t)
      BY <1>0, <1>3 DEF CheckQuota, Check, Answer, Goto
    <3>2. CountScansSince(since[t]) \in Nat
      <4>1. Since(since[t]) \in SUBSET (DOMAIN scans)
        BY DEF Since
      <4> QED BY <4>1, TableFacts, FS_Subset, FS_CardinalityType DEF CountScansSince
    <3> QED BY <3>1, <3>2, LimitAssumption DEF QuotaFull
  <2>2. Cardinality(InMonth(m)) <= CountScansSince(since[t])
    <3>1. since[t] <= Month
      BY DEF Stamps
    <3>2. InMonth(m) \in SUBSET Since(since[t])
      BY <1>3, <3>1 DEF InMonth, Since
    <3>3. IsFiniteSet(Since(since[t]))
      <4>1. Since(since[t]) \in SUBSET (DOMAIN scans)
        BY DEF Since
      <4> QED BY <4>1, TableFacts, FS_Subset
    <3> QED BY <3>2, <3>3, FS_Subset DEF CountScansSince
  <2>3. Cardinality(PendingScans(m)') <= Cardinality(Thread) /\ Cardinality(PendingScans(m)') \in Nat
    <3>1. PendingScans(m)' \in SUBSET Thread
      BY DEF PendingScans
    <3> HIDE DEF PendingScans
    <3> QED BY <3>1, ThreadAssumption, FS_Subset, FS_CardinalityType
  <2>4. Cardinality(InMonth(m)) \in Nat /\ Cardinality(Thread) \in Nat /\ CountScansSince(since[t]) \in Nat
    <3>1. Since(since[t]) \in SUBSET (DOMAIN scans)
      BY DEF Since
    <3> QED BY <3>1, Counts, TableFacts, FS_Subset, FS_CardinalityType DEF CountScansSince
  <2> QED BY <1>1, <2>1, <2>2, <2>3, <2>4, LimitAssumption DEF BudgetAt
<1> QED BY <1>2, <1>3

(* A pending scan is stored, or is not pending any more. *)
LEMMA RecordBudget ==
    ASSUME TypeInv, \A m \in Nat : BudgetAt(m), NEW t \in Thread, Record(t)
    PROVE  \A m \in Nat : BudgetAt(m)'
<1> SUFFICES ASSUME NEW m \in Nat PROVE BudgetAt(m)'
  OBVIOUS
<1> USE DEF TypeInv
<1>0. pc \in [Thread \cup Viewer -> Pc \cup ViewerPc]
  BY DEF TypeOK
<1>1. /\ \A u \in Thread : u # t => pc'[u] = pc[u]
      /\ pc[t] = "record" /\ pc'[t] = "respond" /\ UNCHANGED <<clock, stamp>>
  BY <1>0 DEF Record, Answer, Goto
<1>2. PendingScans(m)' = PendingScans(m) \ {t}
  BY <1>1 DEF PendingScans, Month
<1>3. CASE UNCHANGED scans
  <2>1. InMonth(m)' = InMonth(m)
    BY <1>3 DEF InMonth
  <2> QED BY <1>2, <2>1, BudgetKept
<1>4. CASE scans' = Append(scans, ScanOf(t))
  <2> DEFINE n == Len(scans)
  <2>1. /\ n \in Nat /\ DOMAIN scans = 1..n /\ DOMAIN scans' = DOMAIN scans \cup {n + 1}
        /\ \A i \in DOMAIN scans : scans'[i] = scans[i]
        /\ scans'[n + 1].at = stamp[t]
    BY <1>1, <1>4, Inserted
  <2> HIDE DEF n
  <2>2. CASE MonthOf[stamp[t]] # m
    <3>1. InMonth(m)' = InMonth(m)
      BY <2>1, <2>2 DEF InMonth
    <3> QED BY <1>2, <3>1, BudgetKept
  <2>3. CASE MonthOf[stamp[t]] = m
    <3>1. InMonth(m)' = InMonth(m) \cup {n + 1} /\ n + 1 \notin InMonth(m)
      BY <2>1, <2>3 DEF InMonth
    <3>2. t \in PendingScans(m)
      BY <1>1, <2>3 DEF PendingScans
    <3> DEFINE S == InMonth(m)
               P == PendingScans(m)
    <3>3. IsFiniteSet(S) /\ IsFiniteSet(P) /\ Cardinality(S) \in Nat /\ Cardinality(P) \in Nat
      BY Counts
    <3> HIDE DEF S, P
    <3>4. Cardinality(S \cup {n + 1}) = Cardinality(S) + 1 /\ Cardinality(P \ {t}) = Cardinality(P) - 1
      BY <3>1, <3>2, <3>3, FS_AddElement, FS_RemoveElement DEF S, P
    <3>5. InMonth(m)' = S \cup {n + 1} /\ PendingScans(m)' = P \ {t}
      BY <1>2, <3>1 DEF S, P
    <3>6. Cardinality(S) + Cardinality(P) <= MaxScansPerMonth + Cardinality(Thread) - 1
      BY DEF BudgetAt, S, P
    <3>7. Cardinality(InMonth(m)') + Cardinality(PendingScans(m)') = Cardinality(S) + Cardinality(P)
      BY <3>3, <3>4, <3>5
    <3> QED BY <3>6, <3>7 DEF BudgetAt
  <2> QED BY <2>2, <2>3
<1> QED BY <1>3, <1>4 DEF Record

(* A new month starts with no scan, and at most all threads pending. *)
LEMMA TickBudget ==
    ASSUME TypeInv, TypeInv', MaxScansPerMonth > 0, \A m \in Nat : BudgetAt(m), Tick
    PROVE  \A m \in Nat : BudgetAt(m)'
<1> SUFFICES ASSUME NEW m \in Nat PROVE BudgetAt(m)'
  OBVIOUS
<1> USE DEF TypeInv
<1>1. UNCHANGED <<scans, pc, stamp>> /\ InMonth(m)' = InMonth(m)
  BY DEF Tick, threadVars, InMonth
<1>2. Month \in Nat /\ Month' \in Nat /\ Month <= Month'
  <2>1. clock \in 1..MaxClock /\ clock' \in 1..MaxClock /\ clock <= clock'
    BY BoundAssumption DEF Tick, TypeOK
  <2> QED BY <2>1, MonthAssumption DEF Month
<1>3. CASE m = Month' /\ Month' # Month
  <2>1. InMonth(m)' = {}
    BY <1>1, <1>2, <1>3, NoneLater
  <2>2. Cardinality(InMonth(m)') = 0
    BY <2>1, FS_EmptySet
  <2>3. Cardinality(PendingScans(m)') <= Cardinality(Thread) /\ Cardinality(PendingScans(m)') \in Nat
    <3>1. PendingScans(m)' \in SUBSET Thread
      BY DEF PendingScans
    <3> HIDE DEF PendingScans
    <3> QED BY <3>1, ThreadAssumption, FS_Subset, FS_CardinalityType
  <2>4. Cardinality(Thread) \in Nat
    BY Counts
  <2> QED BY <2>2, <2>3, <2>4, LimitAssumption DEF BudgetAt
<1>4. CASE ~(m = Month' /\ Month' # Month)
  <2>1. PendingScans(m)' \subseteq PendingScans(m)
    BY <1>1, <1>4 DEF PendingScans
  <2> QED BY <1>1, <2>1, BudgetKept
<1> QED BY <1>3, <1>4

(* Any other step leaves no more threads pending than before. *)
LEMMA OtherSteps ==
    ASSUME TypeInv, NEW m \in Nat,
           \/ UNCHANGED vars
           \/ Restart
           \/ \E v \in Viewer : Report(v) \/ AskUsage(v)
           \/ \E t \in Thread :
                 \/ \E r \in Request : Arrive(t, r)
                 \/ CheckSeats(t) \/ Analyze(t) \/ Narrate(t) \/ Respond(t)
    PROVE  InMonth(m)' = InMonth(m) /\ PendingScans(m)' \subseteq PendingScans(m)
<1> USE DEF TypeInv, Goto
<1>0. /\ pc \in [Thread \cup Viewer -> Pc \cup ViewerPc]
      /\ stamp \in [Thread -> 0..MaxClock]
  BY DEF TypeOK
<1>1. CASE UNCHANGED vars
  BY <1>1 DEF vars, threadVars, InMonth, PendingScans, Month
<1>2. CASE Restart
  BY <1>2 DEF Restart, InMonth, PendingScans, Month
<1>3. ASSUME NEW v \in Viewer, Report(v) \/ AskUsage(v)
      PROVE  InMonth(m)' = InMonth(m) /\ PendingScans(m)' \subseteq PendingScans(m)
  <2>1. /\ \A t \in Thread : pc'[t] = pc[t]
        /\ UNCHANGED <<clock, scans, stamp>>
    BY <1>0, <1>3, ThreadAssumption DEF Report, CountScans, ListActors, ReturnUsage, AskUsage
  <2> QED BY <2>1 DEF InMonth, PendingScans, Month
<1>4. ASSUME NEW t \in Thread,
             \/ \E r \in Request : Arrive(t, r)
             \/ CheckSeats(t) \/ Analyze(t) \/ Narrate(t) \/ Respond(t)
      PROVE  InMonth(m)' = InMonth(m) /\ PendingScans(m)' \subseteq PendingScans(m)
  <2>1. /\ \A u \in Thread : u # t => pc'[u] = pc[u] /\ stamp'[u] = stamp[u]
        /\ UNCHANGED <<clock, scans>>
    <3>1. CASE \E r \in Request : Arrive(t, r)
      BY <1>0, <3>1 DEF Arrive
    <3>2. CASE CheckSeats(t)
      BY <1>0, <3>2 DEF CheckSeats, Check, Answer
    <3>3. CASE Analyze(t)
      BY <1>0, <3>3 DEF Analyze, Answer
    <3>4. CASE Narrate(t) \/ Respond(t)
      BY <1>0, <3>4 DEF Narrate, Respond, Forget
    <3> QED BY <1>4, <3>1, <3>2, <3>3, <3>4
  <2>2. \/ pc'[t] \in {"idle", "seats", "quota", "respond"}
        \/ pc[t] = "analyze" /\ pc'[t] = "narrate" /\ stamp'[t] = clock
        \/ pc[t] = "narrate" /\ pc'[t] = "record" /\ stamp'[t] = stamp[t]
    <3>1. CASE \E r \in Request : Arrive(t, r)
      BY <1>0, <3>1 DEF Arrive
    <3>2. CASE CheckSeats(t)
      BY <1>0, <3>2 DEF CheckSeats, Check, Answer
    <3>3. CASE Analyze(t)
      BY <1>0, <3>3 DEF Analyze, Answer
    <3>4. CASE Narrate(t) \/ Respond(t)
      BY <1>0, <3>4 DEF Narrate, Respond
    <3> QED BY <1>4, <3>1, <3>2, <3>3, <3>4
  <2> QED BY <2>1, <2>2 DEF InMonth, PendingScans, Month
<1> QED BY <1>1, <1>2, <1>3, <1>4

(* In no month are more scans stored than the quota and one for every      *)
(* other thread, however the checks and the INSERTs of the threads         *)
(* interleave with each other, with restarts and with a month's end.       *)
THEOREM ScanOvershoot == Spec => []ScanOvershootBound
<1> DEFINE Budget == MaxScansPerMonth > 0 => \A m \in Nat : BudgetAt(m)
<1>1. Init => Budget
  <2> SUFFICES ASSUME Init, MaxScansPerMonth > 0, NEW m \in Nat PROVE BudgetAt(m)
    OBVIOUS
  <2>1. InMonth(m) = {} /\ PendingScans(m) = {}
    BY DEF Init, InMonth, PendingScans
  <2>2. Cardinality(Thread) \in Nat \ {0}
    BY InitInv, Counts DEF TypeInv
  <2> QED BY <2>1, <2>2, FS_EmptySet, LimitAssumption DEF BudgetAt
<1>2. TypeInv /\ TypeInv' /\ Budget /\ [Next]_vars => Budget'
  <2> SUFFICES ASSUME TypeInv, TypeInv', MaxScansPerMonth > 0, \A m \in Nat : BudgetAt(m), [Next]_vars
               PROVE  \A m \in Nat : BudgetAt(m)'
    OBVIOUS
  <2>1. CASE \E t \in Thread : CheckQuota(t)
    BY <2>1, CheckBudget DEF TypeInv
  <2>2. CASE \E t \in Thread : Record(t)
    BY <2>2, RecordBudget
  <2>3. CASE Tick
    BY <2>3, TickBudget
  <2>4. CASE ~(\/ \E t \in Thread : CheckQuota(t) \/ Record(t)
               \/ Tick)
    <3>1. \A m \in Nat : InMonth(m)' = InMonth(m) /\ PendingScans(m)' \subseteq PendingScans(m)
      BY <2>4, OtherSteps DEF Next, Serve
    <3> QED BY <3>1, BudgetKept DEF TypeInv
  <2> QED BY <2>1, <2>2, <2>3, <2>4
<1>3. TypeInv /\ Budget => ScanOvershootBound
  <2> SUFFICES ASSUME TypeInv, MaxScansPerMonth > 0, \A m \in Nat : BudgetAt(m), NEW m \in Months
               PROVE  Cardinality(InMonth(m)) <= MaxScansPerMonth + Cardinality(Thread) - 1
    BY DEF ScanOvershootBound
  <2>1. m \in Nat
    BY MonthAssumption DEF Months
  <2>2. Cardinality(InMonth(m)) \in Nat /\ Cardinality(PendingScans(m)) \in Nat /\ Cardinality(Thread) \in Nat
    BY Counts DEF TypeInv
  <2> QED BY <2>1, <2>2, LimitAssumption DEF BudgetAt
<1> QED BY <1>1, <1>2, <1>3, InitInv, TypeStep, PTL DEF Spec

-----------------------------------------------------------------------------
(* The seats.                                                              *)

(* The threads that may yet add an actor to month m: past the seats check  *)
(* with an actor who is new to the month, or still before it with a month  *)
(* start that has gone by, so that the check looks at too many actors.     *)
PendingSeats(m) ==
    {t \in Thread :
        \/ pc[t] = "seats" /\ Month = m /\ since[t] < m
        \/ pc[t] \in {"quota", "analyze"} /\ Month = m /\ req[t].actor \notin ActorsIn(m)
        \/ pc[t] \in {"narrate", "record"} /\ MonthOf[stamp[t]] = m /\ req[t].actor \notin ActorsIn(m)}

(* The image of a finite set under the column actor is finite. *)
LEMMA ActorsFinite ==
    ASSUME TypeOK, NEW S \in SUBSET DOMAIN scans
    PROVE  /\ IsFiniteSet({scans[i].actor : i \in S})
           /\ Cardinality({scans[i].actor : i \in S}) \in Nat
<1> DEFINE T == {scans[i].actor : i \in S}
           f == [i \in S |-> scans[i].actor]
<1>1. IsFiniteSet(S)
  BY TableFacts, FS_Subset
<1>2. f \in Surjection(S, T)
  BY DEF Surjection
<1>3. IsFiniteSet(T)
  <2> HIDE DEF T, f
  <2> QED BY <1>1, <1>2, FS_Surjection
<1>4. Cardinality(T) \in Nat
  <2> HIDE DEF T
  <2> QED BY <1>3, FS_CardinalityType
<1> QED BY <1>3, <1>4

LEMMA SeatCounts ==
    ASSUME TypeOK, NEW m
    PROVE  /\ IsFiniteSet(ActorsIn(m)) /\ Cardinality(ActorsIn(m)) \in Nat
           /\ IsFiniteSet(PendingSeats(m)) /\ Cardinality(PendingSeats(m)) \in Nat
           /\ Cardinality(PendingSeats(m)) <= Cardinality(Thread)
           /\ Cardinality(Thread) \in Nat \ {0}
<1>1. IsFiniteSet(ActorsIn(m)) /\ Cardinality(ActorsIn(m)) \in Nat
  <2>1. InMonth(m) \in SUBSET DOMAIN scans
    BY DEF InMonth
  <2> QED BY <2>1, ActorsFinite DEF ActorsIn
<1>2. PendingSeats(m) \in SUBSET Thread
  BY DEF PendingSeats
<1>3. Cardinality(Thread) \in Nat \ {0}
  BY ThreadAssumption, FS_CardinalityType, FS_EmptySet
<1> HIDE DEF PendingSeats
<1> QED BY <1>1, <1>2, <1>3, ThreadAssumption, FS_Subset, FS_CardinalityType

(* Pending seats are counted as if they were taken. *)
SeatBudgetAt(m) ==
    Cardinality(ActorsIn(m)) + Cardinality(PendingSeats(m)) <= Seats + Cardinality(Thread) - 1

LEMMA SeatBudgetKept ==
    ASSUME TypeOK, NEW m \in Nat, SeatBudgetAt(m),
           ActorsIn(m)' = ActorsIn(m), PendingSeats(m)' \subseteq PendingSeats(m)
    PROVE  SeatBudgetAt(m)'
<1>1. PendingSeats(m)' \in SUBSET PendingSeats(m) /\ IsFiniteSet(PendingSeats(m))
  BY SeatCounts
<1> HIDE DEF PendingSeats, ActorsIn
<1>2. /\ Cardinality(PendingSeats(m)') <= Cardinality(PendingSeats(m))
      /\ Cardinality(PendingSeats(m)') \in Nat
  BY <1>1, FS_Subset, FS_CardinalityType
<1>3. Cardinality(ActorsIn(m)) \in Nat /\ Cardinality(PendingSeats(m)) \in Nat /\ Cardinality(Thread) \in Nat
  BY SeatCounts
<1> QED BY <1>2, <1>3, LimitAssumption DEF SeatBudgetAt

(* As long as the table is the same, so are the actors of each month. *)
LEMMA SameActors ==
    ASSUME UNCHANGED scans, NEW m
    PROVE  ActorsIn(m)' = ActorsIn(m)
  BY DEF ActorsIn, InMonth

(* A request passes the seats check of the current month: its actor is one *)
(* of the month's, or there was a seat left.                               *)
LEMMA SeatsPassed ==
    ASSUME TypeInv, NEW t \in Thread, since[t] = Month, Seats > 0, ~SeatsFull(t)
    PROVE  \/ req[t].actor \in ActorsIn(Month)
           \/ Cardinality(ActorsIn(Month)) < Seats
<1> DEFINE m == Month
<1>1. \A i \in DOMAIN scans : MonthOf[scans[i].at] \in Nat /\ MonthOf[scans[i].at] <= Month /\ Month \in Nat
  BY MonthType, TableFacts, BoundAssumption DEF TypeInv, Stamps
<1>2. Since(m) = InMonth(m)
  BY <1>1 DEF Since, InMonth
<1>3. DistinctActorsSince(since[t]) = ActorsIn(m)
  BY <1>2 DEF DistinctActorsSince, ActorsIn
<1>4. Cardinality(ActorsIn(m)) \in Nat
  BY SeatCounts DEF TypeInv
<1> HIDE DEF m
<1> QED BY <1>3, <1>4, LimitAssumption DEF SeatsFull, m

(* A thread passes the seats check. *)
LEMMA CheckSeatBudget ==
    ASSUME TypeInv, TypeOK', Seats > 0, \A m \in Nat : SeatBudgetAt(m),
           NEW t \in Thread, CheckSeats(t)
    PROVE  \A m \in Nat : SeatBudgetAt(m)'
<1> SUFFICES ASSUME NEW m \in Nat PROVE SeatBudgetAt(m)'
  OBVIOUS
<1> USE DEF TypeInv
<1>0. /\ pc \in [Thread \cup Viewer -> Pc \cup ViewerPc] /\ Month \in Nat
      /\ since[t] \in Nat /\ since[t] <= Month
  BY MonthType DEF TypeOK, Stamps
<1>1. /\ \A u \in Thread : u # t => pc'[u] = pc[u]
      /\ pc[t] = "seats" /\ pc'[t] \in {"respond", "quota"}
      /\ UNCHANGED <<clock, scans, stamp, req, since>>
  BY <1>0 DEF CheckSeats, Check, Answer, Goto
<1>2. ActorsIn(m)' = ActorsIn(m) /\ Month' = Month
  BY <1>1, SameActors DEF Month
<1>3. CASE m # Month \/ pc'[t] # "quota" \/ since[t] < m \/ req[t].actor \in ActorsIn(m)
  <2>1. PendingSeats(m)' \subseteq PendingSeats(m)
    <3>1. ASSUME NEW u \in PendingSeats(m)', u # t PROVE u \in PendingSeats(m)
      BY <1>1, <1>2, <3>1 DEF PendingSeats
    <3>2. ASSUME t \in PendingSeats(m)' PROVE t \in PendingSeats(m)
      BY <1>1, <1>2, <1>3, <3>2 DEF PendingSeats
    <3> QED BY <3>1, <3>2
  <2> QED BY <1>2, <2>1, SeatBudgetKept
<1>4. CASE ~(m # Month \/ pc'[t] # "quota" \/ since[t] < m \/ req[t].actor \in ActorsIn(m))
  <2>1. ~SeatsFull(t) /\ since[t] = Month /\ m = Month /\ req[t].actor \notin ActorsIn(m)
    BY <1>0, <1>1, <1>4 DEF CheckSeats, Check, Answer, Goto
  <2>2. Cardinality(ActorsIn(m)) < Seats
    BY <2>1, SeatsPassed
  <2>3. Cardinality(PendingSeats(m)') <= Cardinality(Thread) /\ Cardinality(PendingSeats(m)') \in Nat
    <3>1. PendingSeats(m)' \in SUBSET Thread
      BY DEF PendingSeats
    <3> HIDE DEF PendingSeats
    <3> QED BY <3>1, ThreadAssumption, FS_Subset, FS_CardinalityType
  <2>4. Cardinality(ActorsIn(m)) \in Nat /\ Cardinality(Thread) \in Nat
    BY SeatCounts
  <2> QED BY <1>2, <2>2, <2>3, <2>4, LimitAssumption DEF SeatBudgetAt
<1> QED BY <1>3, <1>4

(* A pending actor takes a seat, or is not pending any more. *)
LEMMA RecordSeat ==
    ASSUME TypeInv, \A m \in Nat : SeatBudgetAt(m), NEW t \in Thread, Record(t)
    PROVE  \A m \in Nat : SeatBudgetAt(m)'
<1> SUFFICES ASSUME NEW m \in Nat PROVE SeatBudgetAt(m)'
  OBVIOUS
<1> USE DEF TypeInv
<1> DEFINE a == req[t].actor
<1>0. pc \in [Thread \cup Viewer -> Pc \cup ViewerPc]
  BY DEF TypeOK
<1>1. /\ \A u \in Thread : u # t => pc'[u] = pc[u]
      /\ pc[t] = "record" /\ pc'[t] = "respond" /\ UNCHANGED <<clock, stamp, req, since>>
  BY <1>0 DEF Record, Answer, Goto
<1>2. ASSUME ActorsIn(m)' = ActorsIn(m) PROVE SeatBudgetAt(m)'
  <2>1. PendingSeats(m)' \subseteq PendingSeats(m)
    BY <1>1, <1>2 DEF PendingSeats, Month
  <2> QED BY <1>2, <2>1, SeatBudgetKept
<1>3. CASE UNCHANGED scans
  BY <1>2, <1>3, SameActors
<1>4. CASE scans' = Append(scans, ScanOf(t))
  <2> DEFINE n == Len(scans)
  <2>1. /\ n \in Nat /\ DOMAIN scans = 1..n /\ DOMAIN scans' = DOMAIN scans \cup {n + 1}
        /\ \A i \in DOMAIN scans : scans'[i] = scans[i]
        /\ scans'[n + 1].at = stamp[t] /\ scans'[n + 1].actor = a
    BY <1>1, <1>4, Inserted
  <2> HIDE DEF n, a
  <2>2. CASE MonthOf[stamp[t]] # m
    <3>1. InMonth(m)' = InMonth(m) /\ InMonth(m) \subseteq DOMAIN scans
      BY <2>1, <2>2 DEF InMonth
    <3>2. ActorsIn(m)' = ActorsIn(m)
      BY <2>1, <3>1 DEF ActorsIn
    <3> QED BY <1>2, <3>2
  <2>3. CASE MonthOf[stamp[t]] = m
    <3>1. InMonth(m)' = InMonth(m) \cup {n + 1} /\ InMonth(m) \subseteq DOMAIN scans
      BY <2>1, <2>3 DEF InMonth
    <3>2. ActorsIn(m)' = ActorsIn(m) \cup {a}
      BY <2>1, <3>1 DEF ActorsIn
    <3>3. CASE a \in ActorsIn(m)
      BY <1>2, <3>2, <3>3
    <3>4. CASE a \notin ActorsIn(m)
      <4>1. t \in PendingSeats(m)
        BY <1>1, <2>3, <3>4 DEF PendingSeats, a
      <4>2. PendingSeats(m)' \subseteq PendingSeats(m) \ {t}
        BY <1>1, <3>2 DEF PendingSeats, Month
      <4> DEFINE S == ActorsIn(m)
                 P == PendingSeats(m)
                 Q == PendingSeats(m)'
      <4>3. IsFiniteSet(S) /\ IsFiniteSet(P) /\ Cardinality(S) \in Nat /\ Cardinality(P) \in Nat
            /\ Cardinality(Thread) \in Nat
        BY SeatCounts
      <4>4. Q \in SUBSET (P \ {t}) /\ t \in P /\ a \notin S
        BY <3>4, <4>1, <4>2
      <4>5. /\ Cardinality(S) + Cardinality(P) <= Seats + Cardinality(Thread) - 1
            /\ ActorsIn(m)' = S \cup {a}
        BY <3>2 DEF SeatBudgetAt
      <4> HIDE DEF S, P, Q
      <4>6. Cardinality(S \cup {a}) = Cardinality(S) + 1
        BY <4>3, <4>4, FS_AddElement
      <4>7. Cardinality(P \ {t}) = Cardinality(P) - 1 /\ IsFiniteSet(P \ {t})
        BY <4>3, <4>4, FS_RemoveElement
      <4>8. Cardinality(Q) <= Cardinality(P) - 1 /\ Cardinality(Q) \in Nat
        BY <4>4, <4>7, FS_Subset, FS_CardinalityType
      <4>9. Cardinality(S \cup {a}) + Cardinality(Q) <= Seats + Cardinality(Thread) - 1
        BY <4>3, <4>5, <4>6, <4>8, LimitAssumption
      <4> QED BY <4>5, <4>9 DEF SeatBudgetAt, Q
    <3> QED BY <3>3, <3>4
  <2> QED BY <2>2, <2>3
<1> QED BY <1>3, <1>4 DEF Record

(* A new month starts with no actor, and at most all threads pending. *)
LEMMA TickSeats ==
    ASSUME TypeInv, TypeInv', Seats > 0, \A m \in Nat : SeatBudgetAt(m), Tick
    PROVE  \A m \in Nat : SeatBudgetAt(m)'
<1> SUFFICES ASSUME NEW m \in Nat PROVE SeatBudgetAt(m)'
  OBVIOUS
<1> USE DEF TypeInv
<1>1. UNCHANGED <<scans, pc, stamp, req, since>> /\ ActorsIn(m)' = ActorsIn(m)
  BY SameActors DEF Tick, threadVars
<1>2. Month \in Nat /\ Month' \in Nat /\ Month <= Month'
  <2>1. clock \in 1..MaxClock /\ clock' \in 1..MaxClock /\ clock <= clock'
    BY BoundAssumption DEF Tick, TypeOK
  <2> QED BY <2>1, MonthAssumption DEF Month
<1>3. CASE m = Month' /\ Month' # Month
  <2>1. InMonth(m) = {}
    BY <1>2, <1>3, NoneLater
  <2>2. Cardinality(ActorsIn(m)') = 0
    BY <1>1, <2>1, FS_EmptySet DEF ActorsIn
  <2>3. Cardinality(PendingSeats(m)') <= Cardinality(Thread) /\ Cardinality(PendingSeats(m)') \in Nat
    <3>1. PendingSeats(m)' \in SUBSET Thread
      BY DEF PendingSeats
    <3> HIDE DEF PendingSeats
    <3> QED BY <3>1, ThreadAssumption, FS_Subset, FS_CardinalityType
  <2>4. Cardinality(Thread) \in Nat
    BY SeatCounts
  <2> QED BY <2>2, <2>3, <2>4, LimitAssumption DEF SeatBudgetAt
<1>4. CASE ~(m = Month' /\ Month' # Month)
  <2>1. PendingSeats(m)' \subseteq PendingSeats(m)
    BY <1>1, <1>4 DEF PendingSeats
  <2> QED BY <1>1, <2>1, SeatBudgetKept
<1> QED BY <1>3, <1>4

(* No other step makes a thread pending. *)
LEMMA OtherSeatSteps ==
    ASSUME TypeInv, NEW m \in Nat,
           \/ UNCHANGED vars
           \/ Restart
           \/ \E v \in Viewer : Report(v) \/ AskUsage(v)
           \/ \E t \in Thread :
                 \/ \E r \in Request : Arrive(t, r)
                 \/ CheckQuota(t) \/ Analyze(t) \/ Narrate(t) \/ Respond(t)
    PROVE  ActorsIn(m)' = ActorsIn(m) /\ PendingSeats(m)' \subseteq PendingSeats(m)
<1> USE DEF TypeInv, Goto
<1>0. /\ pc \in [Thread \cup Viewer -> Pc \cup ViewerPc]
      /\ stamp \in [Thread -> 0..MaxClock]
      /\ since \in [Thread \cup Viewer -> Nat]
      /\ req \in [Thread -> Request \cup {NoRequest}]
      /\ Month \in Nat
  BY MonthType DEF TypeOK
<1>1. CASE UNCHANGED vars
  BY <1>1 DEF vars, threadVars, ActorsIn, InMonth, PendingSeats, Month
<1>2. CASE Restart
  BY <1>2 DEF Restart, ActorsIn, InMonth, PendingSeats, Month
<1>3. ASSUME NEW v \in Viewer, Report(v) \/ AskUsage(v)
      PROVE  ActorsIn(m)' = ActorsIn(m) /\ PendingSeats(m)' \subseteq PendingSeats(m)
  <2>1. /\ \A t \in Thread : pc'[t] = pc[t] /\ since'[t] = since[t]
        /\ UNCHANGED <<clock, scans, stamp, req>>
    BY <1>0, <1>3, ThreadAssumption DEF Report, CountScans, ListActors, ReturnUsage, AskUsage
  <2> QED BY <2>1, SameActors DEF PendingSeats, Month
<1>4. ASSUME NEW t \in Thread,
             \/ \E r \in Request : Arrive(t, r)
             \/ CheckQuota(t) \/ Analyze(t) \/ Narrate(t) \/ Respond(t)
      PROVE  ActorsIn(m)' = ActorsIn(m) /\ PendingSeats(m)' \subseteq PendingSeats(m)
  <2>1. /\ \A u \in Thread : u # t => /\ pc'[u] = pc[u] /\ stamp'[u] = stamp[u]
                                     /\ req'[u] = req[u] /\ since'[u] = since[u]
        /\ UNCHANGED <<clock, scans>>
    <3>1. CASE \E r \in Request : Arrive(t, r)
      BY <1>0, <3>1 DEF Arrive
    <3>2. CASE CheckQuota(t)
      BY <1>0, <3>2 DEF CheckQuota, Check, Answer
    <3>3. CASE Analyze(t)
      BY <1>0, <3>3 DEF Analyze, Answer
    <3>4. CASE Narrate(t) \/ Respond(t)
      BY <1>0, <3>4 DEF Narrate, Respond, Forget
    <3> QED BY <1>4, <3>1, <3>2, <3>3, <3>4
  <2>2. \/ pc'[t] \in {"idle", "respond"}
        \/ pc'[t] = "seats" /\ since'[t] = Month
        \/ pc[t] = "quota" /\ pc'[t] = "analyze" /\ req'[t] = req[t]
        \/ pc[t] = "analyze" /\ pc'[t] = "narrate" /\ stamp'[t] = clock /\ req'[t] = req[t]
        \/ pc[t] = "narrate" /\ pc'[t] = "record" /\ stamp'[t] = stamp[t] /\ req'[t] = req[t]
    <3>1. CASE \E r \in Request : Arrive(t, r)
      BY <1>0, <3>1 DEF Arrive
    <3>2. CASE CheckQuota(t)
      BY <1>0, <3>2 DEF CheckQuota, Check, Answer
    <3>3. CASE Analyze(t)
      BY <1>0, <3>3 DEF Analyze, Answer
    <3>4. CASE Narrate(t) \/ Respond(t)
      BY <1>0, <3>4 DEF Narrate, Respond
    <3> QED BY <1>4, <3>1, <3>2, <3>3, <3>4
  <2>3. ActorsIn(m)' = ActorsIn(m) /\ Month' = Month
    BY <2>1, SameActors DEF Month
  <2>4. ASSUME NEW u \in PendingSeats(m)', u # t PROVE u \in PendingSeats(m)
    BY <2>1, <2>3, <2>4 DEF PendingSeats
  <2>5. ASSUME t \in PendingSeats(m)' PROVE t \in PendingSeats(m)
    BY <1>0, <2>2, <2>3, <2>5 DEF PendingSeats, Month
  <2> QED BY <2>3, <2>4, <2>5
<1> QED BY <1>1, <1>2, <1>3, <1>4

(* In no month are there more distinct actors than the seats and one for   *)
(* every other thread, also when requests started before a month's end     *)
(* are checked against the month that has gone by.                         *)
THEOREM SeatOvershoot == Spec => []SeatOvershootBound
<1> DEFINE Budget == Seats > 0 => \A m \in Nat : SeatBudgetAt(m)
<1>1. Init => Budget
  <2> SUFFICES ASSUME Init, Seats > 0, NEW m \in Nat PROVE SeatBudgetAt(m)
    OBVIOUS
  <2>1. ActorsIn(m) = {} /\ PendingSeats(m) = {}
    BY DEF Init, ActorsIn, InMonth, PendingSeats
  <2>2. Cardinality(Thread) \in Nat \ {0}
    BY InitInv, SeatCounts DEF TypeInv
  <2> QED BY <2>1, <2>2, FS_EmptySet, LimitAssumption DEF SeatBudgetAt
<1>2. TypeInv /\ TypeInv' /\ Budget /\ [Next]_vars => Budget'
  <2> SUFFICES ASSUME TypeInv, TypeInv', Seats > 0, \A m \in Nat : SeatBudgetAt(m), [Next]_vars
               PROVE  \A m \in Nat : SeatBudgetAt(m)'
    OBVIOUS
  <2>1. CASE \E t \in Thread : CheckSeats(t)
    BY <2>1, CheckSeatBudget DEF TypeInv
  <2>2. CASE \E t \in Thread : Record(t)
    BY <2>2, RecordSeat
  <2>3. CASE Tick
    BY <2>3, TickSeats
  <2>4. CASE ~(\/ \E t \in Thread : CheckSeats(t) \/ Record(t)
               \/ Tick)
    <3>1. \A m \in Nat : ActorsIn(m)' = ActorsIn(m) /\ PendingSeats(m)' \subseteq PendingSeats(m)
      BY <2>4, OtherSeatSteps DEF Next, Serve
    <3> QED BY <3>1, SeatBudgetKept DEF TypeInv
  <2> QED BY <2>1, <2>2, <2>3, <2>4
<1>3. TypeInv /\ Budget => SeatOvershootBound
  <2> SUFFICES ASSUME TypeInv, Seats > 0, \A m \in Nat : SeatBudgetAt(m), NEW m \in Months
               PROVE  Cardinality(ActorsIn(m)) <= Seats + Cardinality(Thread) - 1
    BY DEF SeatOvershootBound
  <2>1. m \in Nat
    BY MonthAssumption DEF Months
  <2>2. Cardinality(ActorsIn(m)) \in Nat /\ Cardinality(PendingSeats(m)) \in Nat /\ Cardinality(Thread) \in Nat
    BY SeatCounts DEF TypeInv
  <2> QED BY <2>1, <2>2, LimitAssumption DEF SeatBudgetAt
<1> QED BY <1>1, <1>2, <1>3, InitInv, TypeStep, PTL DEF Spec

-----------------------------------------------------------------------------
(* The order of the scans, and what the usage report has counted.          *)

(* What a request knows of the scans stored before it arrived: they are no *)
(* later than its own analysis.                                            *)
Order ==
    /\ SequentialScansInOrder
    /\ \A j \in DOMAIN scans : scans[j].base < j
    /\ \A t \in Thread :
          /\ base[t] <= Len(scans)
          /\ pc[t] \in {"narrate", "record"} =>
                \A i \in DOMAIN scans : i <= base[t] => scans[i].at <= stamp[t]

(* What a usage report has counted, and then listed, stays what it was.    *)
Counted(v) == Since(since[v]) \cap 1..usage[v].stored

Reported ==
    \A v \in Viewer :
        /\ pc[v] \in {"actors", "report"} =>
              usage[v].stored <= Len(scans) /\ usage[v].used = Cardinality(Counted(v))
        /\ pc[v] = "report" => {scans[i].actor : i \in Counted(v)} \subseteq usage[v].actors

(* The INSERT is the only step that changes the table. *)
LEMMA OnlyRecordStores ==
    ASSUME TypeInv, [Next]_vars
    PROVE  UNCHANGED scans \/ \E t \in Thread : Record(t)
<1>1. ASSUME NEW t \in Thread, Serve(t) \/ \E r \in Request : Arrive(t, r)
      PROVE  UNCHANGED scans \/ Record(t)
  BY <1>1 DEF Serve, CheckSeats, CheckQuota, Check, Analyze, Narrate, Respond, Arrive
<1>2. ASSUME NEW v \in Viewer, Report(v) \/ AskUsage(v) PROVE UNCHANGED scans
  BY <1>2 DEF Report, CountScans, ListActors, ReturnUsage, AskUsage
<1> QED BY <1>1, <1>2 DEF Next, Tick, Restart, vars

LEMMA OrderStep ==
    ASSUME TypeInv, TypeInv', Order, [Next]_vars
    PROVE  Order'
<1> USE DEF TypeInv
<1>0. /\ pc \in [Thread \cup Viewer -> Pc \cup ViewerPc]
      /\ stamp \in [Thread -> 0..MaxClock] /\ base \in [Thread -> Nat]
      /\ Len(scans) \in Nat /\ DOMAIN scans = 1..Len(scans)
      /\ \A i \in DOMAIN scans : scans[i].at \in Nat /\ scans[i].at <= clock
  BY TableFacts, BoundAssumption DEF TypeOK, Stamps
(* A request moves on with what it knows. *)
<1>1. ASSUME UNCHANGED scans,
             \A t \in Thread : /\ base'[t] <= Len(scans)
                               /\ pc'[t] \in {"narrate", "record"} =>
                                     /\ base'[t] = base[t]
                                     /\ \/ pc[t] \in {"narrate", "record"} /\ stamp'[t] = stamp[t]
                                        \/ stamp'[t] = clock
      PROVE  Order'
  BY <1>0, <1>1 DEF Order, SequentialScansInOrder
<1>2. CASE UNCHANGED vars \/ Tick
  <2>1. UNCHANGED <<scans, pc, base, stamp>>
    BY <1>2 DEF vars, Tick, threadVars
  <2> QED BY <1>1, <2>1 DEF Order
<1>3. CASE Restart
  <2>1. UNCHANGED scans /\ \A t \in Thread : pc'[t] = "idle" /\ base'[t] = 0
    BY <1>3 DEF Restart
  <2> QED BY <1>0, <1>1, <2>1
<1>4. ASSUME NEW v \in Viewer, Report(v) \/ AskUsage(v) PROVE Order'
  <2>1. UNCHANGED <<scans, base, stamp>> /\ \A t \in Thread : pc'[t] = pc[t]
    BY <1>0, <1>4, ThreadAssumption DEF Report, CountScans, ListActors, ReturnUsage, AskUsage, Goto
  <2> QED BY <1>1, <2>1 DEF Order
<1>5. ASSUME NEW t \in Thread,
             \/ \E r \in Request : Arrive(t, r)
             \/ CheckSeats(t) \/ CheckQuota(t) \/ Analyze(t) \/ Narrate(t) \/ Respond(t)
      PROVE  Order'
  <2>1. /\ \A u \in Thread : u # t => pc'[u] = pc[u] /\ stamp'[u] = stamp[u] /\ base'[u] = base[u]
        /\ UNCHANGED scans
    <3>1. CASE \E r \in Request : Arrive(t, r)
      BY <1>0, <3>1 DEF Arrive, Goto
    <3>2. CASE CheckSeats(t) \/ CheckQuota(t)
      BY <1>0, <3>2 DEF CheckSeats, CheckQuota, Check, Answer, Goto
    <3>3. CASE Analyze(t)
      BY <1>0, <3>3 DEF Analyze, Answer, Goto
    <3>4. CASE Narrate(t) \/ Respond(t)
      BY <1>0, <3>4 DEF Narrate, Respond, Forget, Goto
    <3> QED BY <1>5, <3>1, <3>2, <3>3, <3>4
  <2>2. \/ pc'[t] \notin {"narrate", "record"} /\ base'[t] \in {0, base[t], Len(scans)}
        \/ base'[t] = base[t] /\ stamp'[t] = clock
        \/ base'[t] = base[t] /\ pc[t] = "narrate" /\ stamp'[t] = stamp[t]
    <3>1. CASE \E r \in Request : Arrive(t, r)
      BY <1>0, <3>1 DEF Arrive, Goto
    <3>2. CASE CheckSeats(t) \/ CheckQuota(t)
      BY <1>0, <3>2 DEF CheckSeats, CheckQuota, Check, Answer, Goto
    <3>3. CASE Analyze(t)
      BY <1>0, <3>3 DEF Analyze, Answer, Goto
    <3>4. CASE Narrate(t) \/ Respond(t)
      BY <1>0, <3>4 DEF Narrate, Respond, Forget, Goto
    <3> QED BY <1>5, <3>1, <3>2, <3>3, <3>4
  <2>3. \A u \in Thread : base[u] <= Len(scans) /\ base[u] \in Nat
    BY <1>0 DEF Order
  <2>4. ASSUME NEW u \in Thread
        PROVE  /\ base'[u] <= Len(scans)
               /\ pc'[u] \in {"narrate", "record"} =>
                     /\ base'[u] = base[u]
                     /\ \/ pc[u] \in {"narrate", "record"} /\ stamp'[u] = stamp[u]
                        \/ stamp'[u] = clock
    <3>1. CASE u # t
      BY <2>1, <2>3, <3>1
    <3>2. CASE u = t
      BY <1>0, <2>2, <2>3, <3>2
    <3> QED BY <3>1, <3>2
  <2> QED BY <1>1, <2>1, <2>4
<1>6. ASSUME NEW t \in Thread, Record(t) PROVE Order'
  <2>1. /\ \A u \in Thread : u # t => pc'[u] = pc[u]
        /\ pc[t] = "record" /\ pc'[t] = "respond" /\ UNCHANGED <<clock, stamp, base>>
    BY <1>0, <1>6 DEF Record, Answer, Goto
  <2>2. CASE UNCHANGED scans
    BY <1>1, <2>1, <2>2 DEF Order
  <2>3. CASE scans' = Append(scans, ScanOf(t))
    <3> DEFINE n == Len(scans)
    <3>1. /\ n \in Nat /\ DOMAIN scans = 1..n /\ DOMAIN scans' = 1..(n + 1) /\ Len(scans') = n + 1
          /\ \A i \in 1..n : scans'[i] = scans[i]
          /\ scans'[n + 1].at = stamp[t] /\ scans'[n + 1].base = base[t]
      <4>1. scans \in Seq(ScanType) /\ scans' \in Seq(ScanType)
        BY <2>1, <2>3, Inserted
      <4> QED BY <2>1, <2>3, <4>1, Inserted DEF ScanOf
    <3>2. base[t] \in Nat /\ base[t] <= n /\ \A i \in 1..n : i <= base[t] => scans[i].at <= stamp[t]
      BY <1>0, <2>1, <3>1 DEF Order
    <3> HIDE DEF n
    <3>3. \A j \in 1..n : scans[j].base \in Nat /\ scans[j].base < j
      <4>1. \A j \in 1..n : scans[j] \in ScanType
        BY <3>1 DEF TypeOK
      <4> QED BY <3>1, <4>1 DEF Order, ScanType
    <3>4. ASSUME NEW i \in 1..(n + 1), NEW j \in 1..(n + 1), i <= scans'[j].base
          PROVE  scans'[i].at <= scans'[j].at
      <4>1. CASE j = n + 1
        <5>1. i \in 1..n
          BY <3>1, <3>2, <3>4, <4>1
        <5> QED BY <3>1, <3>2, <3>4, <4>1, <5>1
      <4>2. CASE j # n + 1
        <5>1. j \in 1..n /\ i \in 1..n
          BY <3>1, <3>3, <3>4, <4>2
        <5> QED BY <3>1, <3>4, <5>1 DEF Order, SequentialScansInOrder
      <4> QED BY <4>1, <4>2
    <3>5. SequentialScansInOrder'
      BY <3>1, <3>4 DEF SequentialScansInOrder
    <3>6. \A j \in DOMAIN scans' : scans'[j].base < j
      <4>1. \A j \in 1..(n + 1) : j \in 1..n \/ j = n + 1
        BY <3>1
      <4> QED BY <3>1, <3>2, <3>3, <4>1
    <3>7. ASSUME NEW u \in Thread
          PROVE  /\ base'[u] <= Len(scans')
                 /\ pc'[u] \in {"narrate", "record"} =>
                       \A i \in DOMAIN scans' : i <= base'[u] => scans'[i].at <= stamp'[u]
      <4>1. base[u] \in Nat /\ base[u] <= n /\ base'[u] = base[u] /\ stamp'[u] = stamp[u]
        BY <1>0, <2>1 DEF Order, n
      <4>2. ASSUME pc'[u] \in {"narrate", "record"}, NEW i \in 1..(n + 1), i <= base[u]
            PROVE  scans'[i].at <= stamp[u]
        <5>1. i \in 1..n /\ u # t
          BY <2>1, <3>1, <4>1, <4>2
        <5>2. pc[u] \in {"narrate", "record"}
          BY <2>1, <4>2, <5>1
        <5>3. \A k \in 1..n : k <= base[u] => scans[k].at <= stamp[u]
          BY <3>1, <5>2 DEF Order
        <5> QED BY <3>1, <4>2, <5>1, <5>3
      <4> QED BY <3>1, <4>1, <4>2
    <3> QED BY <3>5, <3>6, <3>7 DEF Order
  <2> QED BY <1>6, <2>2, <2>3 DEF Record
<1> QED BY <1>2, <1>3, <1>4, <1>5, <1>6 DEF Next, Serve

(* Scans that did not overlap are stored in the order of their times.      *)
THEOREM ScansInOrder == Spec => []SequentialScansInOrder
<1>1. Init => Order
  BY DEF Init, Order, SequentialScansInOrder
<1>2. Order => SequentialScansInOrder
  BY DEF Order
<1> QED BY <1>1, <1>2, InitInv, TypeStep, OrderStep, PTL DEF Spec

(* The rows up to a given one that are no older than a given month: later  *)
(* rows do not change them, nor their actors.                              *)
LEMMA CountedLasts ==
    ASSUME TypeInv, NEW t \in Thread, Record(t), NEW m, NEW n \in Nat, n <= Len(scans)
    PROVE  /\ (Since(m) \cap 1..n)' = Since(m) \cap 1..n
           /\ \A i \in 1..n : scans'[i].actor = scans[i].actor
           /\ Len(scans') \in Nat /\ Len(scans) <= Len(scans')
<1>1. Len(scans) \in Nat /\ DOMAIN scans = 1..Len(scans) /\ pc[t] = "record"
  BY TableFacts DEF TypeInv, Record
<1>2. CASE UNCHANGED scans
  BY <1>1, <1>2 DEF Since
<1>3. CASE scans' = Append(scans, ScanOf(t))
  <2> DEFINE k == Len(scans)
  <2>1. /\ DOMAIN scans' = DOMAIN scans \cup {k + 1} /\ \A i \in DOMAIN scans : scans'[i] = scans[i]
        /\ scans' \in Seq(ScanType)
    BY <1>1, <1>3, Inserted
  <2>2. Len(scans') \in Nat /\ DOMAIN scans' = 1..Len(scans')
    BY <2>1
  <2> HIDE DEF k
  <2>3. k \in Nat /\ DOMAIN scans = 1..k /\ n <= k /\ 1..n \subseteq 1..k /\ k + 1 \notin 1..n
    BY <1>1 DEF k
  <2>4. (Since(m) \cap 1..n)' = Since(m) \cap 1..n
    BY <2>1, <2>3 DEF Since
  <2>5. k <= Len(scans')
    BY <2>1, <2>2, <2>3
  <2> QED BY <2>1, <2>2, <2>3, <2>4, <2>5 DEF k
<1> QED BY <1>2, <1>3 DEF Record

LEMMA ReportedStep ==
    ASSUME TypeInv, TypeInv', Reported, [Next]_vars
    PROVE  Reported'
<1> USE DEF TypeInv
<1>0. /\ pc \in [Thread \cup Viewer -> Pc \cup ViewerPc]
      /\ since \in [Thread \cup Viewer -> Nat]
      /\ usage \in [Viewer -> [used : Nat, actors : SUBSET Actor, stored : Nat]]
      /\ Len(scans) \in Nat /\ DOMAIN scans = 1..Len(scans)
  BY TableFacts DEF TypeOK
<1>1. ASSUME UNCHANGED scans,
             \A v \in Viewer : \/ pc'[v] = pc[v] /\ since'[v] = since[v] /\ usage'[v] = usage[v]
                               \/ pc'[v] \in {"idle", "count"}
      PROVE  Reported'
  BY <1>1 DEF Reported, Counted, Since
<1>2. CASE UNCHANGED vars \/ Tick
  <2>1. UNCHANGED <<scans, pc, since, usage>>
    BY <1>2 DEF vars, Tick, threadVars
  <2> QED BY <1>1, <2>1
<1>3. CASE Restart
  <2>1. UNCHANGED scans /\ \A v \in Viewer : pc'[v] = "idle"
    BY <1>3 DEF Restart
  <2> QED BY <1>1, <2>1
<1>4. ASSUME NEW t \in Thread,
             \/ \E r \in Request : Arrive(t, r)
             \/ CheckSeats(t) \/ CheckQuota(t) \/ Analyze(t) \/ Narrate(t) \/ Record(t) \/ Respond(t)
      PROVE  \A v \in Viewer : pc'[v] = pc[v] /\ since'[v] = since[v] /\ usage'[v] = usage[v]
  <2>1. /\ UNCHANGED usage
        /\ \E label : pc' = [pc EXCEPT ![t] = label]
        /\ UNCHANGED since \/ \E m : since' = [since EXCEPT ![t] = m]
    <3>1. CASE (\E r \in Request : Arrive(t, r)) \/ Narrate(t) \/ Respond(t)
      BY <3>1 DEF Arrive, Narrate, Respond, Forget, Goto
    <3>2. CASE CheckSeats(t) \/ CheckQuota(t) \/ Analyze(t) \/ Record(t)
      BY <3>2 DEF CheckSeats, CheckQuota, Check, Analyze, Record, Answer, Goto
    <3> QED BY <1>4, <3>1, <3>2
  <2>2. \A v \in Viewer : v # t /\ v \in Thread \cup Viewer
    BY ThreadAssumption
  <2> QED BY <1>0, <2>1, <2>2
<1>5. ASSUME NEW t \in Thread, Record(t) PROVE Reported'
  <2> SUFFICES ASSUME NEW v \in Viewer
               PROVE  /\ pc'[v] \in {"actors", "report"} =>
                            usage'[v].stored <= Len(scans') /\ usage'[v].used = Cardinality(Counted(v)')
                      /\ pc'[v] = "report" => {scans'[i].actor : i \in Counted(v)'} \subseteq usage'[v].actors
    BY DEF Reported
  <2>1. pc'[v] = pc[v] /\ since'[v] = since[v] /\ usage'[v] = usage[v]
    BY <1>4, <1>5
  <2>2. CASE pc[v] \in {"actors", "report"}
    <3>1. usage[v].stored \in Nat /\ usage[v].stored <= Len(scans)
      BY <1>0, <2>2 DEF Reported
    <3>2. /\ (Since(since[v]) \cap 1..usage[v].stored)' = Since(since[v]) \cap 1..usage[v].stored
          /\ \A i \in 1..usage[v].stored : scans'[i].actor = scans[i].actor
          /\ Len(scans') \in Nat /\ Len(scans) <= Len(scans')
      <4> DEFINE m == since[v]
                 n == usage[v].stored
      <4>1. n \in Nat /\ n <= Len(scans)
        BY <3>1
      <4>2. Since(m)' = {i \in DOMAIN scans' : MonthOf[scans'[i].at] >= since[v]}
        BY <2>1 DEF Since
      <4>3. \A k, l \in Nat : l <= Len(scans) =>
                 {i \in DOMAIN scans' : MonthOf[scans'[i].at] >= k} \cap 1..l
                   = {i \in DOMAIN scans : MonthOf[scans[i].at] >= k} \cap 1..l
        BY <1>5, CountedLasts DEF Since
      <4>4. \A i \in 1..n : scans'[i].actor = scans[i].actor
        BY <1>5, <4>1, CountedLasts
      <4>5. Len(scans') \in Nat /\ Len(scans) <= Len(scans')
        BY <1>5, <4>1, CountedLasts
      <4>6. m \in Nat
        BY <1>0
      <4> QED BY <2>1, <4>1, <4>2, <4>3, <4>4, <4>5, <4>6 DEF Since
    <3>3. Counted(v)' = Counted(v) /\ \A i \in Counted(v) : scans'[i].actor = scans[i].actor
      BY <2>1, <3>2 DEF Counted
    <3>4. {scans'[i].actor : i \in Counted(v)'} = {scans[i].actor : i \in Counted(v)}
      BY <3>3
    <3>5. usage'[v].stored <= Len(scans') /\ usage'[v].used = Cardinality(Counted(v)')
      BY <1>0, <2>1, <2>2, <3>1, <3>2, <3>3 DEF Reported
    <3> QED BY <2>1, <3>4, <3>5 DEF Reported
  <2>3. CASE pc[v] \notin {"actors", "report"}
    BY <2>1, <2>3
  <2> QED BY <2>2, <2>3
<1>6. ASSUME NEW v \in Viewer, Report(v) \/ AskUsage(v) PROVE Reported'
  <2>1. /\ \A u \in Viewer : u # v => pc'[u] = pc[u] /\ since'[u] = since[u] /\ usage'[u] = usage[u]
        /\ UNCHANGED scans
    BY <1>0, <1>6 DEF Report, CountScans, ListActors, ReturnUsage, AskUsage, Goto
  <2>2. CASE AskUsage(v) \/ ReturnUsage(v)
    <3>1. pc'[v] \in {"idle", "count"}
      BY <1>0, <2>2 DEF AskUsage, ReturnUsage, Goto
    <3> QED BY <1>1, <2>1, <3>1
  <2>3. ASSUME /\ pc'[v] \in {"actors", "report"}
               /\ usage'[v].stored <= Len(scans) /\ usage'[v].used = Cardinality(Counted(v)')
               /\ pc'[v] = "report" => {scans[i].actor : i \in Counted(v)'} \subseteq usage'[v].actors
        PROVE  Reported'
    <3>1. ASSUME NEW u \in Viewer
          PROVE  /\ pc'[u] \in {"actors", "report"} =>
                       usage'[u].stored <= Len(scans') /\ usage'[u].used = Cardinality(Counted(u)')
                 /\ pc'[u] = "report" => {scans'[i].actor : i \in Counted(u)'} \subseteq usage'[u].actors
      <4>1. CASE u = v
        BY <2>1, <2>3, <4>1
      <4>2. CASE u # v
        <5>1. Counted(u)' = Counted(u)
          BY <2>1, <4>2 DEF Counted, Since
        <5> QED BY <2>1, <4>2, <5>1 DEF Reported
      <4> QED BY <4>1, <4>2
    <3> QED BY <3>1 DEF Reported
  <2>4. CASE CountScans(v)
    <3>1. /\ pc'[v] = "actors" /\ since'[v] = since[v]
          /\ usage'[v].used = CountScansSince(since[v]) /\ usage'[v].stored = Len(scans)
      BY <1>0, <2>4 DEF CountScans, Goto
    <3>2. Counted(v)' = Since(since[v])
      <4>1. Since(since[v]) \subseteq 1..Len(scans)
        BY <1>0 DEF Since
      <4>2. Counted(v)' = Since(since[v]) \cap 1..Len(scans)
        BY <2>1, <3>1 DEF Counted, Since
      <4> QED BY <4>1, <4>2
    <3> QED BY <1>0, <2>3, <3>1, <3>2 DEF CountScansSince
  <2>5. CASE ListActors(v)
    <3>1. /\ pc[v] = "actors" /\ pc'[v] = "report" /\ since'[v] = since[v]
          /\ usage'[v].used = usage[v].used /\ usage'[v].stored = usage[v].stored
          /\ usage'[v].actors = DistinctActorsSince(since[v])
      BY <1>0, <2>5 DEF ListActors, Goto
    <3>2. Counted(v)' = Counted(v)
      BY <2>1, <3>1 DEF Counted, Since
    <3>3. {scans[i].actor : i \in Counted(v)} \subseteq DistinctActorsSince(since[v])
      BY DEF Counted, DistinctActorsSince
    <3> QED BY <2>3, <3>1, <3>2, <3>3 DEF Reported
  <2> QED BY <1>6, <2>2, <2>4, <2>5 DEF Report
<1>7. ASSUME NEW t \in Thread, ~Record(t), Serve(t) \/ \E r \in Request : Arrive(t, r) PROVE Reported'
  <2>1. UNCHANGED scans
    BY <1>7, ServeType DEF Serve
  <2> QED BY <1>1, <1>4, <1>7, <2>1 DEF Serve
<1> QED BY <1>2, <1>3, <1>5, <1>6, <1>7 DEF Next

(* Every scan a usage report has counted is by an actor it lists, however  *)
(* many scans are stored between its two SELECTs.                          *)
THEOREM UsageIsCovered == Spec => []UsageCoversScans
<1>1. Init => Reported
  BY ThreadAssumption DEF Init, Reported
<1>2. Reported => UsageCoversScans
  BY DEF Reported, Counted, UsageCoversScans
<1> QED BY <1>1, <1>2, InitInv, TypeStep, ReportedStep, PTL DEF Spec

-----------------------------------------------------------------------------
(* The service is a client of the abstract ledger.                         *)

(* A request has no stamp before its analysis has ended. *)
Unstamped ==
    \A t \in Thread : pc[t] \in {"idle", "seats", "quota", "analyze"} => stamp[t] = 0

(* A step of one thread leaves the locals of the others alone. *)
LEMMA ThreadStep ==
    ASSUME TypeInv, NEW t \in Thread, Serve(t) \/ \E r \in Request : Arrive(t, r)
    PROVE  \A u \in Thread : u # t =>
              /\ pc'[u] = pc[u] /\ stamp'[u] = stamp[u] /\ status'[u] = status[u]
              /\ req'[u] = req[u]
<1>0. /\ pc \in [Thread \cup Viewer -> Pc \cup ViewerPc] /\ stamp \in [Thread -> 0..MaxClock]
      /\ status \in [Thread -> {0, 200, 400, 402, 500}]
      /\ req \in [Thread -> Request \cup {NoRequest}]
  BY DEF TypeInv, TypeOK
<1>1. CASE \E r \in Request : Arrive(t, r)
  BY <1>0, <1>1 DEF Arrive, Goto
<1>2. CASE CheckSeats(t) \/ CheckQuota(t)
  BY <1>0, <1>2 DEF CheckSeats, CheckQuota, Check, Answer, Goto
<1>3. CASE Analyze(t)
  BY <1>0, <1>3 DEF Analyze, Answer, Goto
<1>4. CASE Record(t)
  BY <1>0, <1>4 DEF Record, Answer, Goto
<1>5. CASE Narrate(t) \/ Respond(t)
  BY <1>0, <1>5 DEF Narrate, Respond, Forget, Goto
<1> QED BY <1>1, <1>2, <1>3, <1>4, <1>5 DEF Serve

(* What a thread's step does to its call, seen from the ledger. *)
LEMMA OwnStep ==
    ASSUME TypeInv, Unstamped, NEW t \in Thread, Serve(t) \/ \E r \in Request : Arrive(t, r)
    PROVE  /\ pc'[t] \in {"idle", "seats", "quota", "analyze"} => stamp'[t] = 0
           /\ \/ CallPhase(t) = "idle" /\ CallPhase(t)' = "idle" /\ UNCHANGED scans
              \/ CallPhase(t) = "idle" /\ CallPhase(t)' = "pending" /\ UNCHANGED scans
                 /\ req'[t] = req[t] /\ req[t] \in Request
              \/ CallPhase(t) = "pending" /\ CallPhase(t)' = "pending" /\ UNCHANGED scans
                 /\ req'[t] = req[t]
              \/ CallPhase(t) = "pending" /\ CallPhase(t)' = "error" /\ UNCHANGED scans
                 /\ req'[t] = req[t]
              \/ CallPhase(t) \in {"ok", "error"} /\ CallPhase(t)' = "idle" /\ UNCHANGED scans
              \/ CallPhase(t) = "pending" /\ CallPhase(t)' = "ok" /\ req'[t] = req[t]
                 /\ pc[t] = "record" /\ scans' = Append(scans, ScanOf(t))
<1> USE DEF CallPhase
<1>0. /\ pc \in [Thread \cup Viewer -> Pc \cup ViewerPc] /\ stamp \in [Thread -> 0..MaxClock]
      /\ status \in [Thread -> {0, 200, 400, 402, 500}]
      /\ req \in [Thread -> Request \cup {NoRequest}]
      /\ pc[t] # "idle" => req[t] \in Request
      /\ pc[t] \in {"idle", "seats", "quota", "analyze"} => stamp[t] = 0
      /\ pc[t] \in {"narrate", "record"} => stamp[t] > 0
      /\ clock \in Nat /\ clock > 0
  BY MonthType, BoundAssumption DEF TypeInv, TypeOK, Stamps, Unstamped
<1>1. CASE \E r \in Request : Arrive(t, r)
  BY <1>0, <1>1 DEF Arrive, Goto
<1>2. CASE CheckSeats(t) \/ CheckQuota(t)
  BY <1>0, <1>2 DEF CheckSeats, CheckQuota, Check, Answer, Goto
<1>3. CASE Analyze(t)
  BY <1>0, <1>3 DEF Analyze, Answer, Goto
<1>4. CASE Narrate(t)
  BY <1>0, <1>4 DEF Narrate, Goto
<1>5. CASE Record(t)
  BY <1>0, <1>5 DEF Record, Answer, Goto
<1>6. CASE Respond(t)
  <2>1. pc[t] = "respond" /\ pc'[t] = "idle" /\ stamp'[t] = 0 /\ UNCHANGED scans
    BY <1>0, <1>6 DEF Respond, Forget, Goto
  <2>2. CallPhase(t)' = "idle" /\ CallPhase(t) \in {"idle", "ok", "error"}
    BY <2>1
  <2> QED BY <2>1, <2>2
<1> QED BY <1>1, <1>2, <1>3, <1>4, <1>5, <1>6 DEF Serve

LEMMA UnstampedStep == TypeInv /\ Unstamped /\ [Next]_vars => Unstamped'
<1> SUFFICES ASSUME TypeInv, Unstamped, [Next]_vars PROVE Unstamped'
  OBVIOUS
<1>1. CASE UNCHANGED vars \/ Tick
  BY <1>1 DEF vars, Tick, threadVars, Unstamped
<1>2. CASE Restart
  BY <1>2 DEF Restart, Unstamped
<1>3. ASSUME NEW v \in Viewer, Report(v) \/ AskUsage(v) PROVE Unstamped'
  <2>1. pc \in [Thread \cup Viewer -> Pc \cup ViewerPc]
    BY DEF TypeInv, TypeOK
  <2>2. UNCHANGED stamp /\ \A t \in Thread : pc'[t] = pc[t]
    BY <1>3, <2>1, ThreadAssumption DEF Report, CountScans, ListActors, ReturnUsage, AskUsage, Goto
  <2> QED BY <2>2 DEF Unstamped
<1>4. ASSUME NEW t \in Thread, Serve(t) \/ \E r \in Request : Arrive(t, r) PROVE Unstamped'
  <2>1. pc'[t] \in {"idle", "seats", "quota", "analyze"} => stamp'[t] = 0
    BY <1>4, OwnStep
  <2> QED BY <1>4, <2>1, ThreadStep DEF Unstamped
<1> QED BY <1>1, <1>2, <1>3, <1>4 DEF Next

(* The ledger's view of the table and of the threads. *)
Rows(s) == [i \in DOMAIN s |-> [actor |-> s[i].actor, target |-> s[i].target,
                                finding_count |-> 0, fps |-> {}]]
Trail(s) == [i \in DOMAIN s |-> [actor |-> s[i].actor, action |-> "record_scan"]]
Phases == [t \in Thread |-> CallPhase(t)]
Asked == [t \in Thread |-> IF CallPhase(t) = "idle" THEN NoRequest ELSE req[t]]

(* A step that stores nothing and moves no call is a stutter. *)
LEMMA LedgerStutters ==
    ASSUME UNCHANGED scans,
           \A t \in Thread : /\ CallPhase(t)' = CallPhase(t)
                             /\ CallPhase(t) = "idle" \/ req'[t] = req[t]
    PROVE  UNCHANGED Ledger!vars
<1>1. UNCHANGED <<Rows(scans), Trail(scans)>>
  BY DEF Rows, Trail
<1>2. Phases' = [t \in Thread |-> CallPhase(t)'] /\ Phases = [t \in Thread |-> CallPhase(t)']
  BY DEF Phases
<1>3. Asked' = [t \in Thread |-> IF CallPhase(t)' = "idle" THEN NoRequest ELSE req'[t]]
  BY DEF Asked
<1>4. Asked = [t \in Thread |-> IF CallPhase(t)' = "idle" THEN NoRequest ELSE req'[t]]
  BY DEF Asked
<1> QED BY <1>1, <1>2, <1>3, <1>4 DEF Ledger!vars, Rows, Trail, Phases, Asked

LEMMA RowOf ==
    ASSUME NEW s, NEW i \in DOMAIN s
    PROVE  /\ Rows(s)[i] = [actor |-> s[i].actor, target |-> s[i].target,
                            finding_count |-> 0, fps |-> {}]
           /\ Trail(s)[i] = [actor |-> s[i].actor, action |-> "record_scan"]
  BY DEF Rows, Trail

(* A sequence that agrees with another one and has one more element. *)
LEMMA AppendOf ==
    ASSUME NEW n \in Nat, NEW f, NEW g, NEW e,
           f = [i \in 1..n |-> f[i]], g = [i \in 1..(n + 1) |-> g[i]],
           \A i \in 1..n : g[i] = f[i], g[n + 1] = e
    PROVE  g = Append(f, e)
<1> DEFINE E == {f[i] : i \in 1..n} \cup {e}
           A == Append(f, e)
<1>1. f \in [1..n -> E] /\ e \in E
  OBVIOUS
<1> HIDE DEF E
<1>2. f \in Seq(E) /\ Len(f) = n
  BY <1>1
<1>3. /\ A \in Seq(E) /\ Len(A) = n + 1
      /\ \A i \in 1..n : A[i] = f[i]
      /\ A[n + 1] = e
  BY <1>1, <1>2
<1> HIDE DEF A
<1>4. A = [i \in 1..(n + 1) |-> A[i]]
  BY <1>3
<1>5. \A i \in 1..(n + 1) : A[i] = g[i]
  <2>1. \A i \in 1..(n + 1) : i \in 1..n \/ i = n + 1
    OBVIOUS
  <2> QED BY <1>3, <2>1
<1>6. A = g
  BY <1>4, <1>5
<1> QED BY <1>6 DEF A

(* The stored scan is the one the request asked for. *)
LEMMA StoredAsAsked ==
    ASSUME TypeInv, NEW t \in Thread, pc[t] = "record", scans' = Append(scans, ScanOf(t))
    PROVE  /\ Ledger!IsScan(req[t])
           /\ Rows(scans') = Append(Rows(scans), Ledger!EntryOf(req[t]))
           /\ Trail(scans') = Append(Trail(scans), Ledger!TrailOf(req[t]))
<1> DEFINE n == Len(scans)
           r == req[t]
<1>1. r \in Request
  BY DEF TypeInv, Stamps
<1>2. r.action = "record_scan" /\ r.fps = {}
  BY <1>1 DEF Request
<1>3. /\ n \in Nat /\ DOMAIN scans = 1..n /\ scans \in Seq(ScanType) /\ scans' \in Seq(ScanType)
      /\ \A i \in 1..n : scans'[i] = scans[i]
      /\ scans'[n + 1] = ScanOf(t)
  BY Inserted DEF TypeInv, TypeOK
<1>4. DOMAIN scans' = 1..(n + 1)
  BY <1>3
<1>5. ScanOf(t).actor = r.actor /\ ScanOf(t).target = r.target
  BY DEF ScanOf
<1>6. Ledger!EntryOf(r) = [actor |-> r.actor, target |-> r.target, finding_count |-> 0, fps |-> {}]
  <2>1. Ledger!Cardinality({}) = 0
    <3>1. Cardinality({}) = Ledger!Cardinality({})
      BY DEF Cardinality, Ledger!Cardinality
    <3> QED BY <3>1, FS_EmptySet
  <2> QED BY <1>2, <2>1 DEF Ledger!EntryOf
<1>7. Ledger!TrailOf(r) = [actor |-> r.actor, action |-> "record_scan"]
  BY <1>2 DEF Ledger!TrailOf
<1> HIDE DEF n, r
<1>8. DOMAIN Rows(scans) = 1..n /\ DOMAIN Rows(scans') = 1..(n + 1)
      /\ DOMAIN Trail(scans) = 1..n /\ DOMAIN Trail(scans') = 1..(n + 1)
  BY <1>3, <1>4 DEF Rows, Trail
<1>9. ASSUME NEW i \in 1..n
      PROVE  Rows(scans')[i] = Rows(scans)[i] /\ Trail(scans')[i] = Trail(scans)[i]
  <2>1. i \in DOMAIN scans /\ i \in DOMAIN scans' /\ scans'[i] = scans[i]
    BY <1>3, <1>4
  <2> QED BY <2>1, RowOf
<1>10. Rows(scans')[n + 1] = Ledger!EntryOf(r) /\ Trail(scans')[n + 1] = Ledger!TrailOf(r)
  <2>1. n + 1 \in DOMAIN scans' /\ scans'[n + 1] = ScanOf(t)
    BY <1>3, <1>4
  <2> QED BY <1>5, <1>6, <1>7, <2>1, RowOf
<1>11. ASSUME NEW s
       PROVE  /\ Rows(s) = [i \in DOMAIN Rows(s) |-> Rows(s)[i]]
              /\ Trail(s) = [i \in DOMAIN Trail(s) |-> Trail(s)[i]]
  BY DEF Rows, Trail
<1>12. n \in Nat
  BY <1>3
<1>13. Rows(scans') = Append(Rows(scans), Ledger!EntryOf(r))
  BY <1>8, <1>9, <1>10, <1>11, <1>12, AppendOf
<1>14. Trail(scans') = Append(Trail(scans), Ledger!TrailOf(r))
  BY <1>8, <1>9, <1>10, <1>11, <1>12, AppendOf
<1> QED BY <1>2, <1>13, <1>14 DEF Ledger!IsScan, r

LEMMA LedgerStep == TypeInv /\ Unstamped /\ [Next]_vars => [Ledger!Next]_(Ledger!vars)
<1> SUFFICES ASSUME TypeInv, Unstamped, [Next]_vars
             PROVE  Ledger!Next \/ UNCHANGED Ledger!vars
  OBVIOUS
<1>1. CASE UNCHANGED vars \/ Tick
  <2>1. UNCHANGED <<scans, pc, status, stamp, req>>
    BY <1>1 DEF vars, Tick, threadVars
  <2> QED BY <2>1, LedgerStutters DEF CallPhase
<1>2. ASSUME NEW v \in Viewer, Report(v) \/ AskUsage(v) PROVE UNCHANGED Ledger!vars
  <2>1. pc \in [Thread \cup Viewer -> Pc \cup ViewerPc]
    BY DEF TypeInv, TypeOK
  <2>2. UNCHANGED <<scans, status, stamp, req>> /\ \A t \in Thread : pc'[t] = pc[t]
    BY <1>2, <2>1, ThreadAssumption DEF Report, CountScans, ListActors, ReturnUsage, AskUsage, Goto
  <2>3. \A t \in Thread : CallPhase(t)' = CallPhase(t)
    BY <2>2 DEF CallPhase
  <2> QED BY <2>2, <2>3, LedgerStutters
<1>3. CASE Restart
  <2>1. UNCHANGED scans /\ \A t \in Thread : CallPhase(t)' = "idle"
    BY <1>3 DEF Restart, CallPhase
  <2>2. Phases' = [t \in Thread |-> CallPhase(t)'] /\ Phases' = [t \in Thread |-> "idle"]
    BY <2>1 DEF Phases
  <2>3. Asked' = [t \in Thread |-> IF CallPhase(t)' = "idle" THEN NoRequest ELSE req'[t]]
    BY DEF Asked
  <2>4. Asked' = [t \in Thread |-> NoRequest]
    BY <2>1, <2>3
  <2>5. Ledger!Crash(Thread)
    BY <2>1, <2>2, <2>4 DEF Ledger!Crash, Phases, Asked
  <2> QED BY <2>5 DEF Ledger!Next
<1>4. ASSUME NEW t \in Thread, Serve(t) \/ \E r \in Request : Arrive(t, r)
      PROVE  Ledger!Next \/ UNCHANGED Ledger!vars
  <2>0. \A u \in Thread : u # t => /\ pc'[u] = pc[u] /\ stamp'[u] = stamp[u]
                                   /\ status'[u] = status[u] /\ req'[u] = req[u]
    BY <1>4, ThreadStep
  <2>1. ASSUME NEW phase, CallPhase(t)' = phase
        PROVE  /\ Phases' = [Phases EXCEPT ![t] = phase]
               /\ Asked' = [Asked EXCEPT ![t] = IF phase = "idle" THEN NoRequest ELSE req'[t]]
    <3>1. \A u \in Thread : u # t => CallPhase(u)' = CallPhase(u)
      BY <2>0 DEF CallPhase
    <3>2. Phases' = [u \in Thread |-> CallPhase(u)']
      BY DEF Phases
    <3>3. Asked' = [u \in Thread |-> IF CallPhase(u)' = "idle" THEN NoRequest ELSE req'[u]]
      BY DEF Asked
    <3> QED BY <2>0, <2>1, <3>1, <3>2, <3>3 DEF Phases, Asked
  <2>2. Phases[t] = CallPhase(t) /\ (CallPhase(t) # "idle" => Asked[t] = req[t])
    BY DEF Phases, Asked
  <2>3. CASE /\ UNCHANGED scans /\ CallPhase(t)' = CallPhase(t)
             /\ CallPhase(t) = "idle" \/ req'[t] = req[t]
    <3>1. \A u \in Thread : /\ CallPhase(u)' = CallPhase(u)
                            /\ CallPhase(u) = "idle" \/ req'[u] = req[u]
      BY <2>0, <2>3 DEF CallPhase
    <3> QED BY <2>3, <3>1, LedgerStutters
  <2>4. CASE CallPhase(t) = "idle" /\ CallPhase(t)' = "pending" /\ UNCHANGED scans
             /\ req'[t] = req[t] /\ req[t] \in Request
    <3>1. Phases' = [Phases EXCEPT ![t] = "pending"] /\ Asked' = [Asked EXCEPT ![t] = req[t]]
      BY <2>1, <2>4
    <3>2. PICK r \in Request : r = req[t]
      BY <2>4
    <3>3. Ledger!Submit(t, r)
      BY <2>2, <2>4, <3>1, <3>2 DEF Ledger!Submit, Phases, Asked
    <3> QED BY <3>3 DEF Ledger!Next
  <2>5. CASE CallPhase(t) = "pending" /\ CallPhase(t)' = "error" /\ UNCHANGED scans
             /\ req'[t] = req[t]
    <3>1. Phases' = [Phases EXCEPT ![t] = "error"] /\ Asked' = Asked
      BY <2>1, <2>2, <2>5 DEF Asked
    <3>2. Ledger!Refuse(t)
      BY <2>2, <2>5, <3>1 DEF Ledger!Refuse, Phases, Asked
    <3> QED BY <3>2 DEF Ledger!Next
  <2>6. CASE CallPhase(t) \in {"ok", "error"} /\ CallPhase(t)' = "idle" /\ UNCHANGED scans
    <3>1. Phases' = [Phases EXCEPT ![t] = "idle"] /\ Asked' = [Asked EXCEPT ![t] = NoRequest]
      BY <2>1, <2>6
    <3>2. Ledger!Reply(t)
      BY <2>2, <2>6, <3>1 DEF Ledger!Reply, Phases, Asked
    <3> QED BY <3>2 DEF Ledger!Next
  <2>7. CASE CallPhase(t) = "pending" /\ CallPhase(t)' = "ok" /\ req'[t] = req[t]
             /\ pc[t] = "record" /\ scans' = Append(scans, ScanOf(t))
    <3>1. Phases' = [Phases EXCEPT ![t] = "ok"] /\ Asked' = Asked
      BY <2>1, <2>2, <2>7 DEF Asked
    <3>2. /\ Ledger!IsScan(Asked[t])
          /\ Rows(scans)' = Append(Rows(scans), Ledger!EntryOf(Asked[t]))
          /\ Trail(scans)' = Append(Trail(scans), Ledger!TrailOf(Asked[t]))
      <4>1. Asked[t] = req[t] /\ Rows(scans)' = Rows(scans') /\ Trail(scans)' = Trail(scans')
        BY <2>2, <2>7 DEF Rows, Trail
      <4> HIDE DEF Asked, Rows, Trail
      <4> QED BY <2>7, <4>1, StoredAsAsked
    <3>3. Ledger!Land(t)
      BY <2>2, <2>7, <3>1, <3>2 DEF Ledger!Land, Phases, Asked, Rows, Trail
    <3> QED BY <3>3 DEF Ledger!Next
  <2> QED BY <1>4, <2>3, <2>4, <2>5, <2>6, <2>7, OwnStep
<1> QED BY <1>1, <1>2, <1>3, <1>4 DEF Next

(* The service is a client of the abstract ledger: a request answered 200  *)
(* has stored its own scan, once, and one answered 500 after a failed      *)
(* INSERT none.                                                            *)
THEOREM ServiceUsesLedger == Spec => UsesLedger
<1>1. Init => Unstamped
  BY DEF Init, Unstamped
<1>2. Init => Ledger!Init
  <2> SUFFICES ASSUME Init PROVE Ledger!Init
    OBVIOUS
  <2>1. Rows(scans) = <<>> /\ Trail(scans) = <<>>
    BY DEF Init, Rows, Trail
  <2>2. \A t \in Thread : CallPhase(t) = "idle"
    BY DEF Init, CallPhase
  <2> QED BY <2>1, <2>2 DEF Ledger!Init, Rows, Trail
<1> QED BY <1>1, <1>2, InitInv, TypeStep, UnstampedStep, LedgerStep, PTL DEF Spec, UsesLedger, Ledger!Spec
=============================================================================
