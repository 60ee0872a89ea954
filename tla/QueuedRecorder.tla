--------------------------- MODULE QueuedRecorder ---------------------------
(***************************************************************************)
(* QueuedExecutionRecorder: recordInvocation returns as soon as a record   *)
(* is queued, one background pump writes the queue in order with retries,  *)
(* and a record that does not fit is written by its caller, once.          *)
(*                                                                         *)
(* An action is the code that runs between two awaits: the event loop runs *)
(* it without interruption.  The inner recorder's answer to a write is one *)
(* of Result: it stored the record, stored it but lost the audit row       *)
(* (AuditWriteError), or failed.                                           *)
(***************************************************************************)
EXTENDS Naturals, Integers, Sequences, FiniteSets

CONSTANTS Entry,          \* the execution records the runtime produces
          Bytes,          \* estimateEntryBytes of each record
          MaxQueueSize,   \* entry budget of the queue
          MaxQueueBytes,  \* byte budget of the queue
          MaxAttempts     \* RETRY_DELAYS_MS.length + 1

ASSUME RecorderAssumption ==
  /\ Bytes \in [Entry -> Nat]
  /\ MaxQueueSize \in Nat
  /\ MaxQueueBytes \in Nat
  /\ MaxAttempts \in Nat \ {0}

VARIABLES queue,        \* this.queue
          queuedBytes,  \* this.queuedBytes
          pumpPromise,  \* TRUE iff this.pumpPromise is not null
          stage,        \* where each record is
          attempts,     \* inner writes started for each record
          drain         \* drain(): "idle", "waiting", "drained", "timedOut"

recVars == <<queue, queuedBytes, pumpPromise, stage, attempts, drain>>

Result == {"ok", "audit", "error"}
Settled == {"stored", "auditLost", "dropped"}
Stage == {"new", "queued", "writing", "backoff", "direct"} \cup Settled

\* The records a pump holds: shifted off the queue, being written or retried.
Held == {e \in Entry : stage[e] \in {"writing", "backoff"}}

TypeOK ==
  /\ queue \in Seq(Entry)
  /\ queuedBytes \in Int
  /\ pumpPromise \in BOOLEAN
  /\ stage \in [Entry -> Stage]
  /\ attempts \in [Entry -> 0 .. MaxAttempts]
  /\ drain \in {"idle", "waiting", "drained", "timedOut"}

Init ==
  /\ queue = <<>>
  /\ queuedBytes = 0
  /\ pumpPromise = FALSE
  /\ stage = [e \in Entry |-> "new"]
  /\ attempts = [e \in Entry |-> 0]
  /\ drain = "idle"

OverBudget(e) == \/ Len(queue) >= MaxQueueSize
                 \/ queuedBytes + Bytes[e] > MaxQueueBytes

\* Mutant: the bytes of the head are kept.
PumpKeepsBytes(q, b, s) ==
  /\ q # <<>>
  /\ stage' = [s EXCEPT ![Head(q)] = "writing"]
  /\ attempts' = [attempts EXCEPT ![Head(q)] = 1]
  /\ pumpPromise' = TRUE /\ queue' = Tail(q) /\ queuedBytes' = b

\* pump() from its loop test to the next await, on queue q of b bytes and
\* stages s: it ends on an empty queue, or shifts the head and writes it.
Pump(q, b, s) ==
  \/ /\ q = <<>>
     /\ pumpPromise' = FALSE
     /\ queue' = q
     /\ queuedBytes' = b
     /\ stage' = s
     /\ UNCHANGED attempts
  \/ /\ q # <<>>
     /\ pumpPromise' = TRUE
     /\ queue' = Tail(q)
     /\ queuedBytes' = b - Bytes[Head(q)]
     /\ stage' = [s EXCEPT ![Head(q)] = "writing"]
     /\ attempts' = [attempts EXCEPT ![Head(q)] = 1]

\* recordInvocation over budget: the caller itself makes the only attempt.
WriteDirectly(e) ==
  /\ stage[e] = "new"
  /\ OverBudget(e)
  /\ stage' = [stage EXCEPT ![e] = "direct"]
  /\ attempts' = [attempts EXCEPT ![e] = 1]
  /\ UNCHANGED <<queue, queuedBytes, pumpPromise, drain>>

\* Mutant: every push starts a pump.
EnqueueAndPump(e) ==
  /\ stage[e] = "new" /\ ~OverBudget(e)
  /\ Pump(Append(queue, e), queuedBytes + Bytes[e], [stage EXCEPT ![e] = "queued"])
  /\ UNCHANGED drain

\* recordInvocation within budget: push, then start a pump if none runs.
Enqueue(e) ==
  LET q == Append(queue, e)
      b == queuedBytes + Bytes[e]
      s == [stage EXCEPT ![e] = "queued"]
  IN /\ stage[e] = "new"
     /\ ~OverBudget(e)
     /\ \/ ~pumpPromise /\ Pump(q, b, s)
        \/ /\ pumpPromise
           /\ queue' = q
           /\ queuedBytes' = b
           /\ stage' = s
           /\ UNCHANGED <<pumpPromise, attempts>>
     /\ UNCHANGED drain

\* Mutant: a failed write is retried without end.
AfterAnyError(r, retriesLeft) ==
  CASE r = "ok" -> "stored" [] r = "audit" -> "auditLost" [] r = "error" -> "backoff"

\* The stage a write ending in r leads to, with or without retries left.
After(r, retriesLeft) == CASE r = "ok" -> "stored"
                           [] r = "audit" -> "auditLost"
                           [] r = "error" -> IF retriesLeft THEN "backoff" ELSE "dropped"

\* Mutant: a record to retry goes to the back of the queue.
PumpWriteRequeues(e, r) ==
  LET again == r = "error" /\ attempts[e] < MaxAttempts
  IN /\ stage[e] = "writing"
     /\ stage' = [stage EXCEPT ![e] = IF again THEN "queued" ELSE After(r, FALSE)]
     /\ queue' = IF again THEN Append(queue, e) ELSE queue
     /\ UNCHANGED <<queuedBytes, pumpPromise, attempts, drain>>

\* The inner write of the pump's record ends (writeWithRetry).
PumpWriteSettles(e, r) ==
  /\ stage[e] = "writing"
  /\ stage' = [stage EXCEPT ![e] = After(r, attempts[e] < MaxAttempts)]
  /\ UNCHANGED <<queue, queuedBytes, pumpPromise, attempts, drain>>

\* The retry delay is over: the next attempt starts.
BackoffElapses(e) ==
  /\ stage[e] = "backoff"
  /\ stage' = [stage EXCEPT ![e] = "writing"]
  /\ attempts' = [attempts EXCEPT ![e] = @ + 1]
  /\ UNCHANGED <<queue, queuedBytes, pumpPromise, drain>>

\* Mutant: the pump ends after one record, without looking at the queue again.
PumpEnds == /\ pumpPromise /\ Held = {}
            /\ pumpPromise' = FALSE
            /\ UNCHANGED <<queue, queuedBytes, stage, attempts, drain>>

\* writeWithRetry has returned: the pump resumes at its loop test, in a later
\* microtask than the one that settled the write.
PumpResumes ==
  /\ pumpPromise
  /\ Held = {}
  /\ Pump(queue, queuedBytes, stage)
  /\ UNCHANGED drain

\* The inner write of a direct record ends (writeOnce).
DirectWriteSettles(e, r) ==
  /\ stage[e] = "direct"
  /\ stage' = [stage EXCEPT ![e] = After(r, FALSE)]
  /\ UNCHANGED <<queue, queuedBytes, pumpPromise, attempts, drain>>

\* Mutant: drain() looks at the queue alone.
QueueIsEmpty == queue = <<>>

DrainCondition == queue = <<>> /\ ~pumpPromise

\* drain() is called, or wakes from its 25 ms poll: it returns when nothing is
\* queued and no pump runs, or with a warning when its deadline has passed.
DrainReturns ==
  /\ drain \in {"idle", "waiting"}
  /\ DrainCondition
  /\ drain' = "drained"
  /\ UNCHANGED <<queue, queuedBytes, pumpPromise, stage, attempts>>

DrainWaits ==
  /\ drain = "idle"
  /\ ~DrainCondition
  /\ drain' = "waiting"
  /\ UNCHANGED <<queue, queuedBytes, pumpPromise, stage, attempts>>

DrainTimesOut ==
  /\ drain = "waiting"
  /\ ~DrainCondition
  /\ drain' = "timedOut"
  /\ UNCHANGED <<queue, queuedBytes, pumpPromise, stage, attempts>>

WriteSettles(e, r) == PumpWriteSettles(e, r) \/ DirectWriteSettles(e, r)

Next ==
  \/ \E e \in Entry : Enqueue(e) \/ WriteDirectly(e) \/ BackoffElapses(e)
  \/ \E e \in Entry, r \in Result : WriteSettles(e, r)
  \/ PumpResumes
  \/ DrainReturns \/ DrainWaits \/ DrainTimesOut

Spec == Init /\ [][Next]_recVars

\* The database answers or errors every write, timers fire, and the event loop
\* resumes what is ready; the runtime need not produce any record.
Fairness ==
  /\ \A e \in Entry : WF_recVars(\E r \in Result : WriteSettles(e, r))
  /\ \A e \in Entry : WF_recVars(BackoffElapses(e))
  /\ WF_recVars(PumpResumes)

FairSpec == Spec /\ Fairness

-----------------------------------------------------------------------------
\* The comment on recordInvocation: "queue non-empty implies a pump is
\* running".  Otherwise a queued record waits for some later, unrelated call.
PumpRunsWhenQueued == queue # <<>> => pumpPromise

\* "A single background pump": no two records are being written by pumps at
\* once, and the one being written keeps pumpPromise set, so that drain() and
\* recordInvocation see it.
SinglePump == /\ \A e, f \in Held : e = f
              /\ Held # {} => pumpPromise

\* Each record is in one place: the queue holds each queued record once and
\* nothing that is being written, was diverted to its caller, or is settled.
QueueHoldsQueued ==
  /\ \A i, j \in 1 .. Len(queue) : queue[i] = queue[j] => i = j
  /\ \A e \in Entry : stage[e] = "queued" <=> \E i \in 1 .. Len(queue) : queue[i] = e

\* The three together: a pushed record stands in the queue once and a pump, the
\* only one, will take it, in whichever order pushes, writes and the pump's end
\* meet.
OnePumpServesQueue == PumpRunsWhenQueued /\ SinglePump /\ QueueHoldsQueued

\* "The queue is bounded by entry count and estimated payload bytes", at every
\* moment and whatever the database does.
WithinBudget == /\ Len(queue) <= MaxQueueSize
                /\ queuedBytes <= MaxQueueBytes

\* The bytes of the records in S, one by one.
Payload(S) == UNION {{e} \X (1 .. Bytes[e]) : e \in S}

\* Both budgets hold, and the byte counter is exactly the size of what is
\* queued: no shift, push, diversion or retry makes it drift, or the budget
\* would close (or open) for good.
ByteAccounting ==
  /\ WithinBudget
  /\ queuedBytes = Cardinality(Payload({e \in Entry : stage[e] = "queued"}))

\* "Call drain() before shutdown so nothing queued is lost": when drain()
\* returns without its warning, no record accepted by the queue is unwritten.
DrainFlushes ==
  [][drain' = "drained" /\ drain # "drained"
       => \A e \in Entry : stage[e] \notin {"queued", "writing", "backoff"}]_recVars

\* Every record handed to recordInvocation is settled in the end: written, or
\* given up after the retries; none waits for a call that may never come.
EveryRecordSettles ==
  \A e \in Entry : stage[e] # "new" ~> stage[e] \in Settled

-----------------------------------------------------------------------------
\* The recorder as the runtime sees it: the backlog is the record the pump
\* holds, then the queue.
InFlight == IF Held = {} THEN <<>> ELSE <<CHOOSE e \in Held : TRUE>>

Outcome == [e \in Entry |-> IF stage[e] \in Settled \cup {"new"} THEN stage[e] ELSE "pending"]

Promise == INSTANCE Recorder WITH
             Capacity <- MaxQueueSize + 1,
             backlog <- InFlight \o queue,
             bypass <- {e \in Entry : stage[e] = "direct"},
             fate <- Outcome

\* One first-in first-out backlog, and one fate for each record.
KeepsPromise == Promise!ASpec
=============================================================================
