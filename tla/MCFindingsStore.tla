-------------------------- MODULE MCFindingsStore --------------------------
(* Small instances of FindingsStore for TLC. *)
EXTENDS FindingsStore, TLC

CONSTANTS w1, w2, r1, s1, s2

(* One service process: every thread uses the same store object. *)
OneStore == [t \in Writer \cup Reader |-> s1]

(* Two processes share the database file: w2 runs in the second. *)
TwoStores == [t \in Writer \cup Reader |-> IF t = w2 THEN s2 ELSE s1]

(* Threads of one store object, findings, targets and actors are alike. *)
OneStoreSymmetry ==
    Permutations(Writer) \cup Permutations(Fingerprint) \cup Permutations(Target)
TwoStoreSymmetry ==
    Permutations(Fingerprint) \cup Permutations(Target) \cup Permutations(Actor)
=============================================================================
