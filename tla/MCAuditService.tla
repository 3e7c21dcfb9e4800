--------------------------- MODULE MCAuditService ---------------------------
(* Small instances of AuditService for TLC. *)
EXTENDS AuditService, TLC

(* Two readings of the clock to the month. *)
TwoPerMonth == [c \in 1..MaxClock |-> (c + 1) \div 2]

Symmetry == Permutations(Thread) \cup Permutations(Actor) \cup Permutations(Target)
=============================================================================
