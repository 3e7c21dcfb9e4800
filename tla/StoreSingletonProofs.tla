------------------------ MODULE StoreSingletonProofs ------------------------
(***************************************************************************)
(* One store object per process, for any number of request threads.        *)
(***************************************************************************)
EXTENDS StoreSingleton, TLAPS

(* The threads between taking _singleton_lock and letting it go. *)
Inside == {"recheck", "construct", "assign", "unlock"}

(* Only the holder of the lock is inside; an object is constructed but not *)
(* yet assigned only while a thread stands before its assignment; and who  *)
(* is past the checks has seen the object in its place.                    *)
Construction ==
    /\ \A t \in Thread : pc[t] \in Inside => holder = t
    /\ singleton \in {0, 1} /\ built \in {0, 1}
    /\ singleton = 1 => built = 1
    /\ built = 1 => singleton = 1 \/ \E t \in Thread : pc[t] = "assign"
    /\ \A t \in Thread :
          /\ pc[t] = "construct" => built = 0
          /\ pc[t] = "assign" => built = 1 /\ singleton = 0
          /\ pc[t] \in {"unlock", "return"} => singleton = 1

IInv == TypeOK /\ Construction /\ \A t \in Thread : got[t] \in {0, 1}

LEMMA InvInit == Init => IInv
  BY DEF Init, IInv, TypeOK, Pc, Construction, Inside

LEMMA InvStep == IInv /\ [Next]_vars => IInv'
<1> SUFFICES ASSUME IInv, [Next]_vars PROVE IInv'
  OBVIOUS
<1> USE ThreadAssumption DEF IInv, TypeOK, Pc, Construction, Inside, Goto
<1>1. CASE UNCHANGED vars
  BY <1>1 DEF vars
<1>2. ASSUME NEW t \in Thread, Call(t) PROVE IInv'
  BY <1>2 DEF Call
<1>3. ASSUME NEW t \in Thread, Check(t) PROVE IInv'
  BY <1>3 DEF Check
<1>4. ASSUME NEW t \in Thread, Acquire(t) PROVE IInv'
  BY <1>4 DEF Acquire
<1>5. ASSUME NEW t \in Thread, Recheck(t) PROVE IInv'
  <2>1. singleton = 0 => built = 0
    BY <1>5 DEF Recheck
  <2> QED BY <1>5, <2>1 DEF Recheck
<1>6. ASSUME NEW t \in Thread, Construct(t) PROVE IInv'
  <2>1. built = 0 /\ singleton = 0
    BY <1>6 DEF Construct
  <2>2. \A u \in Thread : u # t => pc'[u] = pc[u] /\ pc[u] \notin Inside
    BY <1>6 DEF Construct
  <2> QED BY <1>6, <2>1, <2>2 DEF Construct
<1>7. ASSUME NEW t \in Thread, ConstructFails(t) PROVE IInv'
  BY <1>7 DEF ConstructFails
<1>8. ASSUME NEW t \in Thread, Assign(t) PROVE IInv'
  BY <1>8 DEF Assign
<1>9. ASSUME NEW t \in Thread, Unlock(t) PROVE IInv'
  BY <1>9 DEF Unlock
<1>10. ASSUME NEW t \in Thread, Return(t) PROVE IInv'
  BY <1>10 DEF Return
<1> QED BY <1>1, <1>2, <1>3, <1>4, <1>5, <1>6, <1>7, <1>8, <1>9, <1>10 DEF Next, Step

LEMMA Invariant == Spec => []IInv
  BY InvInit, InvStep, PTL DEF Spec

(* However the first calls of get_store interleave and fail, no second     *)
(* FindingsStore is ever constructed.                                      *)
THEOREM OneStore == Spec => []AtMostOneStore
<1>1. IInv => AtMostOneStore
  BY DEF IInv, Construction, AtMostOneStore
<1> QED BY <1>1, Invariant, PTL

(* A call of get_store that returns hands out the one store, never None.   *)
THEOREM HandsOutTheStore == Spec => []ReturnsTheStore
<1>1. IInv => ReturnsTheStore
  BY DEF IInv, Construction, ReturnsTheStore
<1> QED BY <1>1, Invariant, PTL
=============================================================================
