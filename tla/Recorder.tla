------------------------------ MODULE Recorder ------------------------------
(***************************************************************************)
(* What the execution recorder promises the runtime, without saying how:   *)
(* every record handed to it joins one first-in first-out backlog, or is   *)
(* written past it by its own caller, and every record meets its fate      *)
(* once.  The fates are the three ways a write of the recorder can end:    *)
(* the record is stored, only its audit row is lost, or it is dropped.     *)
(***************************************************************************)
EXTENDS Naturals, Sequences

CONSTANTS Entry,     \* the execution records the runtime produces
          Capacity   \* how many records the backlog may hold

Fate == {"stored", "auditLost", "dropped"}

VARIABLES backlog,   \* records accepted and not yet settled, oldest first
          bypass,    \* records written directly by their caller
          fate       \* what became of each record: "new", "pending" or a Fate

avars == <<backlog, bypass, fate>>

AInit == /\ backlog = <<>>
         /\ bypass = {}
         /\ fate = [e \in Entry |-> "new"]

\* The recorder takes a record into its backlog, which has room for it.
Accept(e) == /\ fate[e] = "new"
             /\ Len(backlog) < Capacity
             /\ backlog' = Append(backlog, e)
             /\ fate' = [fate EXCEPT ![e] = "pending"]
             /\ UNCHANGED bypass

\* The recorder makes the caller write the record itself.
Divert(e) == /\ fate[e] = "new"
             /\ bypass' = bypass \cup {e}
             /\ fate' = [fate EXCEPT ![e] = "pending"]
             /\ UNCHANGED backlog

\* The oldest record of the backlog, and no other, meets its fate.
SettleOldest(f) == /\ backlog # <<>>
                   /\ backlog' = Tail(backlog)
                   /\ fate' = [fate EXCEPT ![Head(backlog)] = f]
                   /\ UNCHANGED bypass

\* A directly written record meets its fate.
SettleBypass(e, f) == /\ e \in bypass
                      /\ bypass' = bypass \ {e}
                      /\ fate' = [fate EXCEPT ![e] = f]
                      /\ UNCHANGED backlog

ANext == \/ \E e \in Entry : Accept(e) \/ Divert(e)
         \/ \E f \in Fate : SettleOldest(f)
         \/ \E e \in Entry, f \in Fate : SettleBypass(e, f)

\* The safety part of the promise.
ASpec == AInit /\ [][ANext]_avars
=============================================================================
