---------------------------- MODULE MCAuditTrail ----------------------------
(***************************************************************************)
(* A small instance of AuditTrail: three records of one size, a queue of   *)
(* one (so that a record is queued, one is written and one diverted), two  *)
(* attempts.                                                               *)
(***************************************************************************)
EXTENDS AuditTrail, TLC

MCBytes == [e \in Entry |-> 1]
Symmetry == Permutations(Entry)
=============================================================================
