----------------------- MODULE QueuedRecorder_proofs -----------------------
(***************************************************************************)
(* The safety properties of QueuedRecorder, and of AuditTrail, which       *)
(* extends it, for every set of records, every size of record, every       *)
(* budget and every number of attempts.                                    *)
(*                                                                         *)
(* PumpRunsWhenQueued, SinglePump and QueueHoldsQueued depend on each      *)
(* other: a push may start a pump only because a missing pump means that   *)
(* no record is held and, by the comment on recordInvocation, that the     *)
(* queue is empty.  They are proved together, as RecorderInv.              *)
(***************************************************************************)
EXTENDS AuditTrail, FiniteSetTheorems, TLAPS

\* A record waiting for its next attempt has one left.
RetriesLeft == \A e \in Entry : stage[e] = "backoff" => attempts[e] < MaxAttempts

RecorderInv == /\ TypeOK
               /\ RetriesLeft
               /\ PumpRunsWhenQueued
               /\ SinglePump
               /\ QueueHoldsQueued
               /\ WithinBudget

-----------------------------------------------------------------------------
(* Appending to and removing from a sequence without duplicates.           *)

\* Appending keeps the elements and adds one at the end.
LEMMA AppendFacts ==
  ASSUME NEW S, NEW q \in Seq(S), NEW e \in S
  PROVE  /\ Append(q, e) \in Seq(S)
         /\ Append(q, e) # <<>>
         /\ Len(Append(q, e)) = Len(q) + 1
         /\ \A i \in 1 .. Len(q) : Append(q, e)[i] = q[i]
         /\ Append(q, e)[Len(q) + 1] = e
  OBVIOUS

\* Removing the head shifts the others down.
LEMMA TailFacts ==
  ASSUME NEW S, NEW q \in Seq(S), q # <<>>
  PROVE  /\ Tail(q) \in Seq(S)
         /\ Len(Tail(q)) = Len(q) - 1
         /\ Len(q) \in Nat \ {0}
         /\ Head(q) = q[1]
         /\ Head(q) \in S
         /\ \A i \in 1 .. Len(Tail(q)) : Tail(q)[i] = q[i + 1]
  OBVIOUS

\* A queue of one is empty without it.
LEMMA SingletonTail ==
  ASSUME NEW S, NEW e \in S
  PROVE  /\ Append(<<>>, e) = <<e>>
         /\ Head(<<e>>) = e
         /\ Tail(<<e>>) = <<>>
  OBVIOUS
-----------------------------------------------------------------------------
(* What pump() needs of the queue q, its bytes b and the stages s, and what *)
(* it establishes.                                                          *)

PumpReady(q, b, s) ==
  /\ q \in Seq(Entry) /\ Len(q) <= MaxQueueSize
  /\ b \in Int /\ b <= MaxQueueBytes
  /\ s \in [Entry -> Stage]
  /\ \A e \in Entry : s[e] \notin {"writing", "backoff"}
  /\ \A i, j \in 1 .. Len(q) : q[i] = q[j] => i = j
  /\ \A e \in Entry : s[e] = "queued" <=> \E i \in 1 .. Len(q) : q[i] = e

\* From a state in which it may go on, pump() leaves the recorder consistent.
LEMMA PumpStep ==
  ASSUME NEW q, NEW b, NEW s, PumpReady(q, b, s), TypeOK, UNCHANGED drain,
         Pump(q, b, s)
  PROVE  RecorderInv'
<1> USE RecorderAssumption DEF PumpReady
<1>1. CASE q = <<>>
  <2>1. /\ queue' = <<>> /\ queuedBytes' = b /\ stage' = s /\ attempts' = attempts
        /\ pumpPromise' = FALSE
    BY <1>1 DEF Pump
  <2>2. Held' = {}
    BY <2>1 DEF Held
  <2>3. TypeOK' /\ RetriesLeft' /\ PumpRunsWhenQueued'
    BY <1>1, <2>1 DEF TypeOK, RetriesLeft, PumpRunsWhenQueued
  <2>4. SinglePump'
    BY <2>2 DEF SinglePump
  <2>5. QueueHoldsQueued' /\ WithinBudget'
    BY <1>1, <2>1 DEF QueueHoldsQueued, WithinBudget
  <2> QED
    BY <2>3, <2>4, <2>5 DEF RecorderInv
<1>2. CASE q # <<>>
  <2> DEFINE h == Head(q)
  <2>1. /\ queue' = Tail(q) /\ queuedBytes' = b - Bytes[h] /\ pumpPromise' = TRUE
        /\ stage' = [s EXCEPT ![h] = "writing"] /\ attempts' = [attempts EXCEPT ![h] = 1]
    BY <1>2 DEF Pump
  <2>2. /\ Tail(q) \in Seq(Entry) /\ Len(Tail(q)) = Len(q) - 1 /\ Len(q) \in Nat \ {0}
        /\ h = q[1] /\ h \in Entry
        /\ \A i \in 1 .. Len(Tail(q)) : Tail(q)[i] = q[i + 1]
    BY <1>2, TailFacts
  <2> HIDE DEF h
  <2>3. TypeOK'
    BY <2>1, <2>2 DEF TypeOK, Stage, Settled
  <2>4. Held' = {h}
    BY <2>1, <2>2 DEF Held
  <2>5. RetriesLeft'
    BY <2>1, <2>2 DEF RetriesLeft
  <2>6. PumpRunsWhenQueued' /\ SinglePump'
    BY <2>1, <2>4 DEF PumpRunsWhenQueued, SinglePump
  <2>7. WithinBudget'
    BY <2>1, <2>2 DEF WithinBudget
  <2>8. QueueHoldsQueued'
    <3>1. \A i, j \in 1 .. Len(queue') : queue'[i] = queue'[j] => i = j
      BY <2>1, <2>2
    <3>2. ASSUME NEW e \in Entry
          PROVE  stage'[e] = "queued" <=> \E i \in 1 .. Len(queue') : queue'[i] = e
      <4>1. CASE e = h
        <5>1. \A i \in 1 .. Len(Tail(q)) : Tail(q)[i] # h
          BY <2>2
        <5> QED
          BY <4>1, <5>1, <2>1, <2>2
      <4>2. CASE e # h
        <5>1. (\E i \in 1 .. Len(q) : q[i] = e) <=> \E i \in 1 .. Len(Tail(q)) : Tail(q)[i] = e
          <6>1. ASSUME NEW i \in 1 .. Len(q), q[i] = e
                PROVE  \E k \in 1 .. Len(Tail(q)) : Tail(q)[k] = e
            <7>1. i # 1 /\ i - 1 \in 1 .. Len(Tail(q))
              BY <6>1, <4>2, <2>2
            <7>2. Tail(q)[i - 1] = q[(i - 1) + 1] /\ (i - 1) + 1 = i
              BY <7>1, <2>2
            <7> QED
              BY <7>1, <7>2, <6>1
          <6>2. ASSUME NEW i \in 1 .. Len(Tail(q)), Tail(q)[i] = e
                PROVE  \E k \in 1 .. Len(q) : q[k] = e
            BY <6>2, <2>2
          <6> QED
            BY <6>1, <6>2
        <5> QED
          BY <4>2, <5>1, <2>1
      <4> QED
        BY <4>1, <4>2
    <3> QED
      BY <3>1, <3>2 DEF QueueHoldsQueued
  <2> QED
    BY <2>3, <2>5, <2>6, <2>7, <2>8 DEF RecorderInv
<1> QED
  BY <1>1, <1>2

\* Pushing a record that was not yet handed in keeps the queue well formed.
LEMMA PushStep ==
  ASSUME NEW e \in Entry, RecorderInv, stage[e] = "new", ~OverBudget(e)
  PROVE  LET q == Append(queue, e)
             s == [stage EXCEPT ![e] = "queued"]
         IN /\ q \in Seq(Entry) /\ q # <<>> /\ Len(q) <= MaxQueueSize
            /\ queuedBytes + Bytes[e] \in Int /\ queuedBytes + Bytes[e] <= MaxQueueBytes
            /\ s \in [Entry -> Stage]
            /\ \A i, j \in 1 .. Len(q) : q[i] = q[j] => i = j
            /\ \A f \in Entry : s[f] = "queued" <=> \E i \in 1 .. Len(q) : q[i] = f
<1> DEFINE q == Append(queue, e)
           s == [stage EXCEPT ![e] = "queued"]
<1> USE RecorderAssumption
<1>1. /\ queue \in Seq(Entry) /\ Len(queue) \in Nat /\ queuedBytes \in Int
      /\ stage \in [Entry -> Stage] /\ s \in [Entry -> Stage]
  BY DEF RecorderInv, TypeOK, Stage
<1>2. /\ q \in Seq(Entry) /\ q # <<>> /\ Len(q) = Len(queue) + 1
      /\ \A i \in 1 .. Len(queue) : q[i] = queue[i]
      /\ q[Len(queue) + 1] = e
  BY <1>1, AppendFacts
<1>3. \A i \in 1 .. Len(queue) : queue[i] # e
  BY DEF RecorderInv, QueueHoldsQueued
<1>4. Len(q) <= MaxQueueSize /\ queuedBytes + Bytes[e] \in Int
      /\ queuedBytes + Bytes[e] <= MaxQueueBytes
  BY <1>1, <1>2 DEF OverBudget
<1> HIDE DEF q
<1>5. \A i, j \in 1 .. Len(q) : q[i] = q[j] => i = j
  <2> SUFFICES ASSUME NEW i \in 1 .. Len(q), NEW j \in 1 .. Len(q), q[i] = q[j]
               PROVE  i = j
    OBVIOUS
  <2>1. \A k \in 1 .. Len(q) : k \in 1 .. Len(queue) \/ k = Len(queue) + 1
    BY <1>1, <1>2
  <2>2. \A k, l \in 1 .. Len(queue) : queue[k] = queue[l] => k = l
    BY DEF RecorderInv, QueueHoldsQueued
  <2>3. CASE i \in 1 .. Len(queue) /\ j \in 1 .. Len(queue)
    BY <1>2, <2>2, <2>3
  <2>4. CASE i = Len(queue) + 1 /\ j \in 1 .. Len(queue)
    BY <1>2, <1>3, <2>4
  <2>5. CASE j = Len(queue) + 1 /\ i \in 1 .. Len(queue)
    BY <1>2, <1>3, <2>5
  <2> QED
    BY <2>1, <2>3, <2>4, <2>5
<1>6. ASSUME NEW f \in Entry
      PROVE  s[f] = "queued" <=> \E i \in 1 .. Len(q) : q[i] = f
  <2>1. CASE f = e
    <3>1. s[f] = "queued"
      BY <1>1, <2>1
    <3>2. Len(queue) + 1 \in 1 .. Len(q)
      BY <1>1, <1>2
    <3> QED
      BY <1>2, <2>1, <3>1, <3>2
  <2>2. CASE f # e
    <3>1. s[f] = stage[f]
      BY <1>1, <2>2
    <3>2. stage[f] = "queued" <=> \E i \in 1 .. Len(queue) : queue[i] = f
      BY DEF RecorderInv, QueueHoldsQueued
    <3>3. (\E i \in 1 .. Len(queue) : queue[i] = f) <=> \E i \in 1 .. Len(q) : q[i] = f
      <4>1. 1 .. Len(q) = (1 .. Len(queue)) \cup {Len(queue) + 1}
        BY <1>1, <1>2
      <4> QED
        BY <1>2, <2>2, <4>1
    <3> QED
      BY <3>1, <3>2, <3>3
  <2> QED
    BY <2>1, <2>2
<1> QED
  BY <1>1, <1>2, <1>4, <1>5, <1>6 DEF q

-----------------------------------------------------------------------------
\* The idle recorder satisfies the invariant.
LEMMA RecorderInvInit == Init => RecorderInv
<1> SUFFICES ASSUME Init
             PROVE  RecorderInv
  OBVIOUS
<1> USE RecorderAssumption DEF Init
<1>1. RetriesLeft /\ PumpRunsWhenQueued
  BY DEF RetriesLeft, PumpRunsWhenQueued
<1>t. TypeOK
  <2>1. 0 \in 0 .. MaxAttempts /\ "new" \in Stage /\ 0 \in Int
    BY DEF Stage
  <2>2. queue \in Seq(Entry) /\ drain \in {"idle", "waiting", "drained", "timedOut"}
    OBVIOUS
  <2> QED
    BY <2>1, <2>2 DEF TypeOK
<1>2. Held = {}
  BY DEF Held
<1>3. SinglePump
  BY <1>2 DEF SinglePump
<1>4. QueueHoldsQueued /\ WithinBudget
  BY DEF QueueHoldsQueued, WithinBudget
<1> QED
  BY <1>1, <1>t, <1>3, <1>4 DEF RecorderInv

\* Steps that move one record between stages and leave the queue alone.
LEMMA StageStep ==
  ASSUME RecorderInv, NEW e \in Entry, stage[e] # "queued",
         UNCHANGED <<queue, queuedBytes, pumpPromise>>, drain' \in {"idle", "waiting", "drained", "timedOut"},
         NEW t \in Stage, t # "queued", stage' = [stage EXCEPT ![e] = t],
         attempts' \in [Entry -> 0 .. MaxAttempts],
         \A f \in Entry \ {e} : attempts'[f] = attempts[f],
         t = "backoff" => attempts'[e] < MaxAttempts,
         t \in {"writing", "backoff"} => e \in Held
  PROVE  RecorderInv'
<1>1. /\ stage \in [Entry -> Stage] /\ stage' \in [Entry -> Stage]
      /\ stage'[e] = t /\ \A f \in Entry \ {e} : stage'[f] = stage[f]
  BY DEF RecorderInv, TypeOK
<1>2. TypeOK' /\ PumpRunsWhenQueued' /\ WithinBudget'
  BY <1>1 DEF RecorderInv, TypeOK, PumpRunsWhenQueued, WithinBudget
<1>3. RetriesLeft'
  BY <1>1 DEF RecorderInv, RetriesLeft
<1>4. Held' \subseteq Held
  BY <1>1 DEF Held
<1>5. SinglePump'
  BY <1>4 DEF RecorderInv, SinglePump
<1>6. QueueHoldsQueued'
  BY <1>1 DEF RecorderInv, QueueHoldsQueued
<1> QED
  BY <1>2, <1>3, <1>5, <1>6 DEF RecorderInv

\* No step of the recorder breaks the invariant.
LEMMA RecorderInvStep == RecorderInv /\ [Next]_recVars => RecorderInv'
<1> SUFFICES ASSUME RecorderInv, [Next]_recVars
             PROVE  RecorderInv'
  OBVIOUS
<1> USE RecorderAssumption
<1>t. TypeOK
  BY DEF RecorderInv
<1>1. ASSUME NEW e \in Entry, Enqueue(e)
      PROVE  RecorderInv'
  <2> DEFINE q == Append(queue, e)
             b == queuedBytes + Bytes[e]
             s == [stage EXCEPT ![e] = "queued"]
  <2>1. stage[e] = "new" /\ ~OverBudget(e) /\ UNCHANGED drain
    BY <1>1 DEF Enqueue
  <2>2. /\ q \in Seq(Entry) /\ q # <<>> /\ Len(q) <= MaxQueueSize
        /\ b \in Int /\ b <= MaxQueueBytes /\ s \in [Entry -> Stage]
        /\ \A i, j \in 1 .. Len(q) : q[i] = q[j] => i = j
        /\ \A f \in Entry : s[f] = "queued" <=> \E i \in 1 .. Len(q) : q[i] = f
    BY <2>1, PushStep
  <2>s. \A f \in Entry : s[f] \in {"writing", "backoff"} => f \in Held
    BY <1>t DEF TypeOK, Held
  <2>3. CASE ~pumpPromise /\ Pump(q, b, s)
    <3>1. Held = {}
      BY <2>3 DEF RecorderInv, SinglePump
    <3>2. PumpReady(q, b, s)
      BY <2>2, <2>s, <3>1 DEF PumpReady
    <3> QED
      BY <2>1, <2>3, <3>2, <1>t, PumpStep
  <2>4. CASE /\ pumpPromise /\ queue' = q /\ queuedBytes' = b /\ stage' = s
             /\ UNCHANGED <<pumpPromise, attempts>>
    <3> HIDE DEF q, b
    <3>1. Held' = Held
      BY <2>1, <2>4, <1>t DEF Held, TypeOK
    <3>2. TypeOK' /\ WithinBudget' /\ PumpRunsWhenQueued'
      BY <2>1, <2>2, <2>4, <1>t DEF TypeOK, WithinBudget, PumpRunsWhenQueued
    <3>3. SinglePump'
      BY <3>1, <2>4 DEF RecorderInv, SinglePump
    <3>4. RetriesLeft'
      BY <2>1, <2>4, <1>t DEF RecorderInv, RetriesLeft, TypeOK
    <3>5. QueueHoldsQueued'
      BY <2>2, <2>4 DEF QueueHoldsQueued
    <3> QED
      BY <3>2, <3>3, <3>4, <3>5 DEF RecorderInv
  <2> QED
    BY <1>1, <2>3, <2>4 DEF Enqueue
<1>2. ASSUME NEW e \in Entry, WriteDirectly(e)
      PROVE  RecorderInv'
  <2>1. /\ stage[e] # "queued" /\ stage' = [stage EXCEPT ![e] = "direct"]
        /\ UNCHANGED <<queue, queuedBytes, pumpPromise, drain>>
        /\ attempts' \in [Entry -> 0 .. MaxAttempts]
        /\ \A f \in Entry \ {e} : attempts'[f] = attempts[f]
    BY <1>2, <1>t DEF WriteDirectly, TypeOK
  <2> QED
    BY <1>t, <2>1, StageStep DEF TypeOK, Stage
<1>3. ASSUME NEW e \in Entry, BackoffElapses(e)
      PROVE  RecorderInv'
  <2>1. attempts[e] < MaxAttempts
    BY <1>3 DEF BackoffElapses, RecorderInv, RetriesLeft
  <2>2. e \in Held
    BY <1>3 DEF BackoffElapses, Held
  <2>3. /\ stage[e] # "queued" /\ stage' = [stage EXCEPT ![e] = "writing"]
        /\ UNCHANGED <<queue, queuedBytes, pumpPromise, drain>>
        /\ attempts' \in [Entry -> 0 .. MaxAttempts]
        /\ \A f \in Entry \ {e} : attempts'[f] = attempts[f]
    BY <1>3, <1>t, <2>1 DEF BackoffElapses, TypeOK
  <2> QED
    BY <1>t, <2>2, <2>3, StageStep DEF TypeOK, Stage
<1>4. ASSUME NEW e \in Entry, NEW r \in Result, PumpWriteSettles(e, r)
      PROVE  RecorderInv'
  <2> DEFINE t == After(r, attempts[e] < MaxAttempts)
  <2>1. t \in Settled \cup {"backoff"} /\ (t = "backoff" => attempts[e] < MaxAttempts)
    BY DEF After, Result, Settled
  <2>2. e \in Held
    BY <1>4 DEF PumpWriteSettles, Held
  <2>3. stage' = [stage EXCEPT ![e] = t] /\ stage[e] # "queued"
        /\ UNCHANGED <<queue, queuedBytes, pumpPromise, attempts, drain>>
    BY <1>4 DEF PumpWriteSettles
  <2> HIDE DEF t
  <2> QED
    BY <1>t, <2>1, <2>2, <2>3, StageStep DEF TypeOK, Stage, Settled
<1>5. ASSUME NEW e \in Entry, NEW r \in Result, DirectWriteSettles(e, r)
      PROVE  RecorderInv'
  <2> DEFINE t == After(r, FALSE)
  <2>1. t \in Settled
    BY DEF After, Result, Settled
  <2>2. stage' = [stage EXCEPT ![e] = t] /\ stage[e] # "queued"
        /\ UNCHANGED <<queue, queuedBytes, pumpPromise, attempts, drain>>
    BY <1>5 DEF DirectWriteSettles
  <2> HIDE DEF t
  <2> QED
    BY <1>t, <2>1, <2>2, StageStep DEF TypeOK, Stage, Settled
<1>6. ASSUME PumpResumes
      PROVE  RecorderInv'
  <2>1. PumpReady(queue, queuedBytes, stage)
    BY <1>6, <1>t
       DEF PumpResumes, PumpReady, Held, RecorderInv, TypeOK, QueueHoldsQueued, WithinBudget
  <2> QED
    BY <1>6, <1>t, <2>1, PumpStep DEF PumpResumes
<1>7. ASSUME \/ DrainReturns \/ DrainWaits \/ DrainTimesOut
             \/ UNCHANGED recVars
      PROVE  RecorderInv'
  <2>1. /\ UNCHANGED <<queue, queuedBytes, pumpPromise, stage, attempts>>
        /\ drain' \in {"idle", "waiting", "drained", "timedOut"}
    BY <1>7, <1>t DEF DrainReturns, DrainWaits, DrainTimesOut, recVars, TypeOK
  <2>2. TypeOK' /\ RetriesLeft' /\ PumpRunsWhenQueued' /\ WithinBudget' /\ Held' = Held
    BY <2>1 DEF RecorderInv, TypeOK, RetriesLeft, PumpRunsWhenQueued, WithinBudget, Held
  <2>3. SinglePump' /\ QueueHoldsQueued'
    BY <2>1, <2>2 DEF RecorderInv, SinglePump, QueueHoldsQueued
  <2> QED
    BY <2>2, <2>3 DEF RecorderInv
<1> QED
  BY <1>1, <1>2, <1>3, <1>4, <1>5, <1>6, <1>7 DEF Next, WriteSettles

\* The recorder keeps its queue, its pump and its budgets consistent in every
\* reachable state.
THEOREM RecorderSafety == Spec => []RecorderInv
BY RecorderInvInit, RecorderInvStep, PTL DEF Spec

\* The recorder's variables keep their types: in particular no record is ever
\* attempted more often than the retry delays allow.
THEOREM RecorderTyped == Spec => []TypeOK
<1>1. RecorderInv => TypeOK
  BY DEF RecorderInv
<1> QED
  BY <1>1, RecorderSafety, PTL

\* A queued record is in the queue once and has a running pump to write it;
\* there is never a second pump, and never a hidden one.
THEOREM QueueIsServed == Spec => []OnePumpServesQueue
<1>1. RecorderInv => OnePumpServesQueue
  BY DEF RecorderInv, OnePumpServesQueue
<1> QED
  BY <1>1, RecorderSafety, PTL

\* The queue stays within both of its budgets.
THEOREM MemoryBounded == Spec => []WithinBudget
<1>1. RecorderInv => WithinBudget
  BY DEF RecorderInv
<1> QED
  BY <1>1, RecorderSafety, PTL

\* A drain() that returns without its warning has left nothing behind: only
\* the two conditions of its loop are tested, but they cover every record.
THEOREM DrainLosesNothing == Spec => DrainFlushes
<1>1. RecorderInv /\ [Next]_recVars
      => (drain' = "drained" /\ drain # "drained"
          => \A e \in Entry : stage[e] \notin {"queued", "writing", "backoff"})
  <2> SUFFICES ASSUME RecorderInv, [Next]_recVars, drain' = "drained", drain # "drained",
                      NEW e \in Entry
               PROVE  stage[e] \notin {"queued", "writing", "backoff"}
    OBVIOUS
  <2>1. DrainReturns
    BY DEF Next, recVars, Enqueue, WriteDirectly, BackoffElapses, WriteSettles,
           PumpWriteSettles, DirectWriteSettles, PumpResumes, DrainWaits, DrainTimesOut
  <2>2. queue = <<>> /\ ~pumpPromise
    BY <2>1 DEF DrainReturns, DrainCondition
  <2>3. stage[e] # "queued"
    BY <2>2 DEF RecorderInv, QueueHoldsQueued
  <2>4. e \notin Held
    BY <2>2 DEF RecorderInv, SinglePump
  <2> QED
    BY <2>3, <2>4 DEF Held
<1> QED
  BY <1>1, RecorderSafety, PTL DEF Spec, DrainFlushes

-----------------------------------------------------------------------------
(* The byte counter.  A push adds a record's bytes to it and to what is     *)
(* queued, a shift takes them from both, and nothing else touches either.   *)

QueuedIn(s) == {e \in Entry : s[e] = "queued"}
Exact(b, s) == IsFiniteSet(Payload(QueuedIn(s))) /\ b = Cardinality(Payload(QueuedIn(s)))

\* A record of n bytes has n of them.
LEMMA RecordBytes ==
  ASSUME NEW e \in Entry
  PROVE  /\ IsFiniteSet({e} \X (1 .. Bytes[e]))
         /\ Cardinality({e} \X (1 .. Bytes[e])) = Bytes[e]
<1> DEFINE n == Bytes[e]
           T == {e} \X (1 .. n)
           f == [i \in 1 .. n |-> <<e, i>>]
<1>1. n \in Nat
  BY RecorderAssumption
<1> HIDE DEF n
<1>2. f \in Bijection(1 .. n, T)
  <2>1. f \in Injection(1 .. n, T)
    BY DEF Injection, IsInjective
  <2>2. f \in Surjection(1 .. n, T)
    BY DEF Surjection
  <2> QED
    BY <2>1, <2>2 DEF Bijection
<1>3. ExistsBijection(1 .. n, T)
  BY <1>2 DEF ExistsBijection
<1> HIDE DEF T
<1>4. IsFiniteSet(T) /\ Cardinality(T) = n
  BY <1>1, <1>3, FS_NatBijection, FS_CountingElements
<1> QED
  BY <1>4 DEF T, n

\* One more record has its bytes more.
LEMMA PayloadGrows ==
  ASSUME NEW S \in SUBSET Entry, NEW e \in Entry \ S, IsFiniteSet(Payload(S))
  PROVE  /\ IsFiniteSet(Payload(S \cup {e}))
         /\ Cardinality(Payload(S \cup {e})) = Cardinality(Payload(S)) + Bytes[e]
<1> DEFINE T == {e} \X (1 .. Bytes[e])
<1>1. IsFiniteSet(T) /\ Cardinality(T) = Bytes[e]
  BY RecordBytes
<1>2. Payload(S \cup {e}) = Payload(S) \cup T
  BY DEF Payload
<1>3. Payload(S) \cap T = {}
  BY DEF Payload
<1> HIDE DEF T
<1>4. Cardinality(Payload(S)) \in Nat /\ Bytes[e] \in Nat
  BY FS_CardinalityType, RecorderAssumption
<1>5. /\ IsFiniteSet(Payload(S) \cup T)
      /\ Cardinality(Payload(S) \cup T)
           = Cardinality(Payload(S)) + Cardinality(T) - Cardinality(Payload(S) \cap T)
  BY <1>1, FS_Union
<1>6. Cardinality(Payload(S) \cap T) = 0
  BY <1>3, FS_EmptySet
<1>7. Cardinality(Payload(S) \cup T) = Cardinality(Payload(S)) + Bytes[e]
  BY <1>1, <1>4, <1>5, <1>6
<1> QED
  BY <1>2, <1>5, <1>7, Zenon

\* One less has them less.
LEMMA PayloadShrinks ==
  ASSUME NEW S \in SUBSET Entry, NEW e \in S, IsFiniteSet(Payload(S))
  PROVE  /\ IsFiniteSet(Payload(S \ {e}))
         /\ Cardinality(Payload(S \ {e})) = Cardinality(Payload(S)) - Bytes[e]
<1>1. IsFiniteSet(Payload(S \ {e}))
  <2>1. Payload(S \ {e}) \subseteq Payload(S)
    BY DEF Payload
  <2> QED
    BY <2>1, FS_Subset
<1>2. (S \ {e}) \cup {e} = S /\ S \ {e} \in SUBSET Entry /\ e \in Entry \ (S \ {e})
  OBVIOUS
<1>3. Cardinality(Payload(S)) = Cardinality(Payload(S \ {e})) + Bytes[e]
  BY <1>1, <1>2, PayloadGrows
<1>4. Cardinality(Payload(S \ {e})) \in Nat /\ Bytes[e] \in Nat
  BY <1>1, FS_CardinalityType, RecorderAssumption
<1> QED
  BY <1>1, <1>3, <1>4

\* pump() takes from the counter what it takes from the queue.
LEMMA PumpExact ==
  ASSUME NEW q, NEW b, NEW s, PumpReady(q, b, s), Exact(b, s), Pump(q, b, s)
  PROVE  Exact(queuedBytes', stage')
<1>1. CASE q = <<>>
  BY <1>1 DEF Pump
<1>2. CASE q # <<>>
  <2> DEFINE h == Head(q)
  <2>1. queuedBytes' = b - Bytes[h] /\ stage' = [s EXCEPT ![h] = "writing"]
    BY <1>2 DEF Pump
  <2>2. h = q[1] /\ h \in Entry /\ 1 \in 1 .. Len(q)
    BY <1>2, TailFacts DEF PumpReady
  <2> HIDE DEF h
  <2>3. h \in QueuedIn(s) /\ QueuedIn(s) \in SUBSET Entry
    BY <2>2 DEF PumpReady, QueuedIn
  <2>4. QueuedIn(stage') = QueuedIn(s) \ {h}
    BY <2>1, <2>2 DEF PumpReady, QueuedIn
  <2> QED
    BY <2>1, <2>3, <2>4, PayloadShrinks DEF Exact
<1> QED
  BY <1>1, <1>2

\* No step makes the counter drift.
LEMMA ExactStep ==
  ASSUME RecorderInv, Exact(queuedBytes, stage), [Next]_recVars
  PROVE  Exact(queuedBytes', stage')
<1>t. TypeOK
  BY DEF RecorderInv
<1>1. ASSUME NEW e \in Entry, Enqueue(e)
      PROVE  Exact(queuedBytes', stage')
  <2> DEFINE q == Append(queue, e)
             b == queuedBytes + Bytes[e]
             s == [stage EXCEPT ![e] = "queued"]
  <2>1. stage[e] = "new" /\ ~OverBudget(e)
    BY <1>1 DEF Enqueue
  <2>2. Exact(b, s)
    <3>1. QueuedIn(s) = QueuedIn(stage) \cup {e} /\ e \in Entry \ QueuedIn(stage)
      BY <1>t, <2>1 DEF TypeOK, QueuedIn
    <3>2. QueuedIn(stage) \in SUBSET Entry
      BY DEF QueuedIn
    <3> HIDE DEF s
    <3> QED
      BY <3>1, <3>2, PayloadGrows DEF Exact
  <2>3. CASE ~pumpPromise /\ Pump(q, b, s)
    <3>1. Held = {}
      BY <2>3 DEF RecorderInv, SinglePump
    <3>2. \A f \in Entry : s[f] \notin {"writing", "backoff"}
      BY <1>t, <3>1 DEF TypeOK, Held
    <3>3. PumpReady(q, b, s)
      BY <2>1, <3>2, PushStep DEF PumpReady
    <3> QED
      BY <2>2, <2>3, <3>3, PumpExact
  <2>4. CASE queuedBytes' = b /\ stage' = s
    BY <2>2, <2>4
  <2> QED
    BY <1>1, <2>3, <2>4 DEF Enqueue
<1>2. ASSUME PumpResumes
      PROVE  Exact(queuedBytes', stage')
  <2>1. PumpReady(queue, queuedBytes, stage)
    BY <1>2, <1>t
       DEF PumpResumes, PumpReady, Held, RecorderInv, TypeOK, QueueHoldsQueued, WithinBudget
  <2> QED
    BY <1>2, <2>1, PumpExact DEF PumpResumes
<1>3. ASSUME NEW e \in Entry, NEW t, t # "queued", stage[e] # "queued",
             stage' = [stage EXCEPT ![e] = t], queuedBytes' = queuedBytes
      PROVE  Exact(queuedBytes', stage')
  <2>1. QueuedIn(stage') = QueuedIn(stage)
    BY <1>t, <1>3 DEF TypeOK, QueuedIn
  <2> QED
    BY <1>3, <2>1 DEF Exact
<1>4. ASSUME NEW e \in Entry, NEW r \in Result,
             WriteSettles(e, r) \/ WriteDirectly(e) \/ BackoffElapses(e)
      PROVE  Exact(queuedBytes', stage')
  <2>1. \A b : After(r, b) # "queued"
    BY DEF After, Result
  <2>2. WriteSettles(e, r) => Exact(queuedBytes', stage')
    BY <1>3, <2>1 DEF WriteSettles, PumpWriteSettles, DirectWriteSettles
  <2>3. WriteDirectly(e) \/ BackoffElapses(e) => Exact(queuedBytes', stage')
    BY <1>3 DEF WriteDirectly, BackoffElapses
  <2> QED
    BY <1>4, <2>2, <2>3
<1>5. ASSUME DrainReturns \/ DrainWaits \/ DrainTimesOut \/ UNCHANGED recVars
      PROVE  Exact(queuedBytes', stage')
  BY <1>5 DEF DrainReturns, DrainWaits, DrainTimesOut, recVars
<1>6. "ok" \in Result
  BY DEF Result
<1> QED
  BY <1>1, <1>2, <1>4, <1>5, <1>6 DEF Next

\* The byte counter is exactly the size of what is queued, and within its
\* budget: the budget can neither close nor open for good.
THEOREM BytesExact == Spec => []ByteAccounting
<1>1. Init => Exact(queuedBytes, stage)
  <2> SUFFICES ASSUME Init PROVE Exact(queuedBytes, stage)
    OBVIOUS
  <2>1. QueuedIn(stage) = {}
    BY DEF Init, QueuedIn
  <2>2. Payload({}) = {}
    BY DEF Payload
  <2> QED
    BY <2>1, <2>2, FS_EmptySet DEF Init, Exact
<1>2. RecorderInv /\ Exact(queuedBytes, stage) /\ [Next]_recVars => Exact(queuedBytes, stage)'
  BY ExactStep
<1>3. RecorderInv /\ Exact(queuedBytes, stage) => ByteAccounting
  BY DEF RecorderInv, Exact, ByteAccounting, QueuedIn
<1> QED
  BY <1>1, <1>2, <1>3, RecorderSafety, PTL DEF Spec

-----------------------------------------------------------------------------
(* The recorder implements its promise.  The backlog of Recorder is the    *)
(* record the pump holds followed by the queue, so a pump that takes the   *)
(* head of the queue leaves it unchanged.                                  *)

\* Putting a record before a queue, for the refinement.
LEMMA ConsFacts ==
  ASSUME NEW S, NEW q \in Seq(S), NEW h \in S
  PROVE  /\ <<h>> \o q \in Seq(S)
         /\ <<h>> \o q # <<>>
         /\ Len(<<h>> \o q) = Len(q) + 1
         /\ Head(<<h>> \o q) = h
         /\ Tail(<<h>> \o q) = q
         /\ <<>> \o q = q
         /\ \A e \in S : <<h>> \o Append(q, e) = Append(<<h>> \o q, e)
  OBVIOUS

\* A queue is its head followed by its tail.
LEMMA HeadThenTail ==
  ASSUME NEW S, NEW q \in Seq(S), q # <<>>
  PROVE  <<Head(q)>> \o Tail(q) = q
  OBVIOUS

\* pump() on stages without a held record: the backlog is the queue it got.
LEMMA PumpBacklog ==
  ASSUME NEW q, NEW b, NEW s, PumpReady(q, b, s), Pump(q, b, s), RecorderInv'
  PROVE  /\ (InFlight \o queue)' = q
         /\ \A e \in Entry : s[e] = "queued" => stage'[e] \in {"queued", "writing"}
         /\ \A e \in Entry : s[e] # "queued" => stage'[e] = s[e]
<1> USE DEF PumpReady
<1>1. CASE q = <<>>
  <2>1. queue' = <<>> /\ stage' = s
    BY <1>1 DEF Pump
  <2>2. Held' = {}
    BY <2>1 DEF Held
  <2> QED
    BY <1>1, <2>1, <2>2 DEF InFlight
<1>2. CASE q # <<>>
  <2>1. queue' = Tail(q) /\ stage' = [s EXCEPT ![Head(q)] = "writing"]
    BY <1>2 DEF Pump
  <2>2. Head(q) \in Entry /\ s[Head(q)] = "queued"
    <3>1. Head(q) = q[1] /\ Head(q) \in Entry /\ 1 \in 1 .. Len(q)
      BY <1>2, TailFacts
    <3> QED
      BY <3>1
  <2>3. Held' = {Head(q)}
    BY <2>1, <2>2 DEF Held
  <2>4. InFlight' = <<Head(q)>>
    BY <2>3 DEF InFlight
  <2>5. (InFlight \o queue)' = q
    BY <1>2, <2>1, <2>4, HeadThenTail
  <2> QED
    BY <2>1, <2>2, <2>5
<1> QED
  BY <1>1, <1>2

\* A held record is the oldest of the backlog.
LEMMA HeldIsOldest ==
  ASSUME RecorderInv, NEW e \in Held
  PROVE  InFlight = <<e>> /\ e \in Entry
<1>1. e \in Entry /\ \A f \in Held : f = e
  BY DEF RecorderInv, SinglePump, Held
<1> QED
  BY <1>1 DEF InFlight

\* The idle recorder is an idle abstract recorder.
LEMMA PromiseInit == Init => Promise!AInit
<1> SUFFICES ASSUME Init
             PROVE  Promise!AInit
  OBVIOUS
<1>1. Held = {} /\ {e \in Entry : stage[e] = "direct"} = {}
  BY DEF Init, Held
<1>2. Outcome = [e \in Entry |-> "new"]
  BY DEF Init, Outcome
<1>3. InFlight \o queue = <<>>
  BY <1>1 DEF Init, InFlight
<1> QED
  BY <1>1, <1>2, <1>3 DEF Promise!AInit

\* The abstract view of a step that moves one record between stages.
LEMMA OutcomeMoves ==
  ASSUME RecorderInv, NEW e \in Entry, NEW t \in Stage,
         stage' \in [Entry -> Stage], stage'[e] = t,
         \A f \in Entry \ {e} : \/ stage'[f] = stage[f]
                                \/ stage[f] = "queued" /\ stage'[f] = "writing"
  PROVE  /\ t \in Settled => Outcome' = [Outcome EXCEPT ![e] = t]
         /\ t \notin Settled \cup {"new"} => Outcome' = [Outcome EXCEPT ![e] = "pending"]
<1>1. \A f \in Entry \ {e} : Outcome'[f] = Outcome[f]
  BY DEF Outcome, Settled
<1>2. /\ t \in Settled => Outcome'[e] = t
      /\ t \notin Settled \cup {"new"} => Outcome'[e] = "pending"
  BY DEF Outcome, Settled
<1>3. Outcome' \in [Entry -> Settled \cup {"new", "pending"}]
      /\ DOMAIN Outcome = Entry /\ DOMAIN Outcome' = Entry
  BY DEF Outcome
<1> QED
  BY <1>1, <1>2, <1>3 DEF Outcome

\* Every step of the recorder is a step of the abstract one, or none.
LEMMA PromiseStep ==
  RecorderInv /\ RecorderInv' /\ [Next]_recVars => [Promise!ANext]_(Promise!avars)
<1> SUFFICES ASSUME RecorderInv, RecorderInv', [Next]_recVars
             PROVE  [Promise!ANext]_(Promise!avars)
  OBVIOUS
<1> USE RecorderAssumption
<1>t. TypeOK /\ TypeOK' /\ QueueHoldsQueued
  BY DEF RecorderInv
<1>d. \A e \in Entry : stage[e] \in {"queued", "writing", "backoff", "direct"}
                       => Outcome[e] = "pending"
  BY DEF Outcome, Settled
<1>1. ASSUME NEW e \in Entry, Enqueue(e)
      PROVE  Promise!Accept(e)
  <2> DEFINE q == Append(queue, e)
             s == [stage EXCEPT ![e] = "queued"]
  <2>1. stage[e] = "new" /\ ~OverBudget(e) /\ Outcome[e] = "new"
    BY <1>1 DEF Enqueue, Outcome
  <2>2. Len(queue) < MaxQueueSize /\ Len(queue) \in Nat
    BY <1>t, <2>1 DEF OverBudget, TypeOK
  <2>3. CASE ~pumpPromise /\ Pump(q, queuedBytes + Bytes[e], s)
    <3>1. Held = {} /\ queue = <<>>
      BY <2>3 DEF RecorderInv, SinglePump, PumpRunsWhenQueued
    <3>2. PumpReady(q, queuedBytes + Bytes[e], s)
      BY <2>1, <3>1, <1>t, PushStep DEF PumpReady, Held, TypeOK
    <3>3. /\ (InFlight \o queue)' = q
          /\ \A f \in Entry : s[f] = "queued" => stage'[f] \in {"queued", "writing"}
          /\ \A f \in Entry : s[f] # "queued" => stage'[f] = s[f]
      BY <2>3, <3>2, PumpBacklog
    <3>4. InFlight \o queue = queue /\ InFlight \o queue = <<>>
      BY <3>1 DEF InFlight
    <3>5. s[e] = "queued" /\ \A f \in Entry \ {e} : s[f] = stage[f]
      BY <1>t DEF TypeOK
    <3>6. \A f \in Entry \ {e} : stage[f] # "queued"
      BY <1>t, <3>1 DEF QueueHoldsQueued
    <3>7. stage'[e] \in {"queued", "writing"} /\ \A f \in Entry \ {e} : stage'[f] = stage[f]
      BY <3>3, <3>5, <3>6
    <3> HIDE DEF s
    <3>8. Outcome' = [Outcome EXCEPT ![e] = "pending"]
      BY <3>7, <1>t, OutcomeMoves DEF TypeOK, Stage, Settled
    <3>9. {f \in Entry : stage[f] = "direct"}' = {f \in Entry : stage[f] = "direct"}
      BY <3>7, <2>1
    <3> QED
      BY <2>1, <2>2, <3>1, <3>3, <3>4, <3>8, <3>9 DEF Promise!Accept
  <2>4. CASE pumpPromise /\ queue' = q /\ stage' = s
    <3>1. stage'[e] = "queued" /\ \A f \in Entry \ {e} : stage'[f] = stage[f]
      BY <2>4, <1>t DEF TypeOK
    <3>2. Held' = Held /\ InFlight' = InFlight
      <4>1. Held' = Held
        BY <3>1, <2>1 DEF Held
      <4> QED
        BY <4>1 DEF InFlight
    <3>3. Outcome' = [Outcome EXCEPT ![e] = "pending"]
      BY <3>1, <1>t, OutcomeMoves DEF TypeOK, Stage, Settled
    <3>4. {f \in Entry : stage[f] = "direct"}' = {f \in Entry : stage[f] = "direct"}
      BY <3>1, <2>1
    <3>5. /\ (InFlight \o queue)' = Append(InFlight \o queue, e)
          /\ Len(InFlight \o queue) < MaxQueueSize + 1
      <4>1. CASE Held = {}
        BY <4>1, <2>2, <2>4, <3>2, <1>t DEF InFlight, TypeOK
      <4>2. ASSUME NEW h \in Held
            PROVE  <3>5
        <5>1. InFlight = <<h>> /\ h \in Entry
          BY <4>2, HeldIsOldest
        <5>2. queue \in Seq(Entry)
          BY <1>t DEF TypeOK
        <5> QED
          BY <5>1, <5>2, <2>2, <2>4, <3>2, ConsFacts
      <4> QED
        BY <4>1, <4>2
    <3> QED
      BY <2>1, <3>3, <3>4, <3>5 DEF Promise!Accept
  <2> QED
    BY <1>1, <2>3, <2>4 DEF Enqueue
<1>2. ASSUME NEW e \in Entry, WriteDirectly(e)
      PROVE  Promise!Divert(e)
  <2>1. /\ stage[e] = "new" /\ queue' = queue /\ stage' = [stage EXCEPT ![e] = "direct"]
        /\ stage'[e] = "direct" /\ \A f \in Entry \ {e} : stage'[f] = stage[f]
    BY <1>2, <1>t DEF WriteDirectly, TypeOK
  <2>2. Held' = Held
    BY <2>1 DEF Held
  <2>3. InFlight' = InFlight
    BY <2>2 DEF InFlight
  <2>4. Outcome' = [Outcome EXCEPT ![e] = "pending"] /\ Outcome[e] = "new"
    BY <2>1, <1>t, OutcomeMoves DEF TypeOK, Stage, Settled, Outcome
  <2>5. {f \in Entry : stage[f] = "direct"}' = {f \in Entry : stage[f] = "direct"} \cup {e}
    BY <2>1
  <2> QED
    BY <2>1, <2>3, <2>4, <2>5 DEF Promise!Divert
<1>3. ASSUME NEW e \in Entry, BackoffElapses(e)
      PROVE  UNCHANGED Promise!avars
  <2>1. /\ stage[e] = "backoff" /\ queue' = queue /\ stage'[e] = "writing"
        /\ \A f \in Entry \ {e} : stage'[f] = stage[f]
    BY <1>3, <1>t DEF BackoffElapses, TypeOK
  <2>2. Held' = Held
    BY <2>1 DEF Held
  <2>3. InFlight' = InFlight
    BY <2>2 DEF InFlight
  <2>4. Outcome' = Outcome
    BY <2>1 DEF Outcome, Settled
  <2>5. {f \in Entry : stage[f] = "direct"}' = {f \in Entry : stage[f] = "direct"}
    BY <2>1
  <2> QED
    BY <2>1, <2>3, <2>4, <2>5 DEF Promise!avars
<1>4. ASSUME NEW e \in Entry, NEW r \in Result, PumpWriteSettles(e, r)
      PROVE  \/ \E f \in Promise!Fate : Promise!SettleOldest(f)
             \/ UNCHANGED Promise!avars
  <2> DEFINE t == After(r, attempts[e] < MaxAttempts)
  <2>1. t \in Settled \cup {"backoff"}
    BY DEF After, Result, Settled
  <2>2. /\ stage[e] = "writing" /\ queue' = queue /\ stage'[e] = t
        /\ \A f \in Entry \ {e} : stage'[f] = stage[f]
    BY <1>4, <1>t DEF PumpWriteSettles, TypeOK
  <2> HIDE DEF t
  <2>3. Held = {e} /\ InFlight = <<e>> /\ queue \in Seq(Entry)
    <3>1. e \in Held
      BY <2>2 DEF Held
    <3>2. Held = {e}
      BY <3>1 DEF RecorderInv, SinglePump
    <3> QED
      BY <3>1, <3>2, <1>t, HeldIsOldest DEF TypeOK
  <2>4. {f \in Entry : stage[f] = "direct"}' = {f \in Entry : stage[f] = "direct"}
    BY <2>1, <2>2 DEF Settled
  <2>5. CASE t = "backoff"
    <3>1. Held' = Held
      BY <2>2, <2>5 DEF Held
    <3>2. InFlight' = InFlight
      BY <3>1 DEF InFlight
    <3>3. Outcome' = Outcome
      BY <2>2, <2>5 DEF Outcome, Settled
    <3> QED
      BY <2>2, <2>4, <3>2, <3>3 DEF Promise!avars
  <2>6. CASE t \in Settled
    <3>1. Held' = {}
      BY <2>2, <2>3, <2>6 DEF Held, Settled
    <3>2. InFlight' \o queue' = queue
      BY <2>2, <2>3, <3>1 DEF InFlight
    <3>3. /\ InFlight \o queue # <<>> /\ Head(InFlight \o queue) = e
          /\ Tail(InFlight \o queue) = queue
      BY <2>3, ConsFacts
    <3>4. Outcome' = [Outcome EXCEPT ![e] = t]
      BY <2>2, <2>6, <1>t, OutcomeMoves DEF TypeOK, Stage
    <3>5. Promise!SettleOldest(t)
      BY <2>4, <3>2, <3>3, <3>4 DEF Promise!SettleOldest
    <3> QED
      BY <2>6, <3>5 DEF Promise!Fate, Settled
  <2> QED
    BY <2>1, <2>5, <2>6
<1>5. ASSUME NEW e \in Entry, NEW r \in Result, DirectWriteSettles(e, r)
      PROVE  \E f \in Promise!Fate : Promise!SettleBypass(e, f)
  <2> DEFINE t == After(r, FALSE)
  <2>1. t \in Settled
    BY DEF After, Result, Settled
  <2>2. /\ stage[e] = "direct" /\ queue' = queue /\ stage'[e] = t
        /\ \A f \in Entry \ {e} : stage'[f] = stage[f]
    BY <1>5, <1>t DEF DirectWriteSettles, TypeOK
  <2> HIDE DEF t
  <2>3. Held' = Held
    BY <2>1, <2>2 DEF Held, Settled
  <2>4. InFlight' = InFlight
    BY <2>3 DEF InFlight
  <2>5. Outcome' = [Outcome EXCEPT ![e] = t]
    BY <2>1, <2>2, <1>t, OutcomeMoves DEF TypeOK, Stage
  <2>6. {f \in Entry : stage[f] = "direct"}' = {f \in Entry : stage[f] = "direct"} \ {e}
    BY <2>1, <2>2 DEF Settled
  <2>7. Promise!SettleBypass(e, t)
    BY <2>2, <2>4, <2>5, <2>6 DEF Promise!SettleBypass
  <2> QED
    BY <2>1, <2>7 DEF Promise!Fate, Settled
<1>6. ASSUME PumpResumes
      PROVE  UNCHANGED Promise!avars
  <2>1. Held = {} /\ Pump(queue, queuedBytes, stage)
    BY <1>6 DEF PumpResumes
  <2>2. PumpReady(queue, queuedBytes, stage)
    BY <2>1, <1>t DEF PumpReady, Held, RecorderInv, TypeOK, QueueHoldsQueued, WithinBudget
  <2>3. /\ (InFlight \o queue)' = queue
        /\ \A e \in Entry : stage[e] = "queued" => stage'[e] \in {"queued", "writing"}
        /\ \A e \in Entry : stage[e] # "queued" => stage'[e] = stage[e]
    BY <2>1, <2>2, PumpBacklog
  <2>4. InFlight \o queue = queue
    BY <2>1, <1>t, ConsFacts DEF InFlight, TypeOK
  <2>5. Outcome' = Outcome
    BY <2>3 DEF Outcome, Settled
  <2>6. {f \in Entry : stage[f] = "direct"}' = {f \in Entry : stage[f] = "direct"}
    BY <2>3
  <2> QED
    BY <2>3, <2>4, <2>5, <2>6 DEF Promise!avars
<1>7. ASSUME \/ DrainReturns \/ DrainWaits \/ DrainTimesOut
             \/ UNCHANGED recVars
      PROVE  UNCHANGED Promise!avars
  <2>1. queue' = queue /\ stage' = stage
    BY <1>7 DEF DrainReturns, DrainWaits, DrainTimesOut, recVars
  <2>2. Held' = Held /\ Outcome' = Outcome
    BY <2>1 DEF Held, Outcome
  <2> QED
    BY <2>1, <2>2 DEF InFlight, Promise!avars
<1> QED
  BY <1>1, <1>2, <1>3, <1>4, <1>5, <1>6, <1>7 DEF Next, WriteSettles, Promise!ANext

\* Every behaviour of the recorder is one of Recorder: records leave in the
\* order they were accepted and each meets one fate.
THEOREM RecorderKeepsPromise == Spec => KeepsPromise
BY PromiseInit, PromiseStep, RecorderSafety, PTL DEF Spec, KeepsPromise, Promise!ASpec

-----------------------------------------------------------------------------
(***************************************************************************)
(* What the tables hold next to what the recorder reports, for all         *)
(* records, budgets, attempts and engines.  The recorder's own part is     *)
(* taken from RecorderInv.                                                 *)
(***************************************************************************)

TablesTyped ==
  /\ engine \in Engines
  /\ auditLogs \in BOOLEAN
  /\ auditTable \in BOOLEAN
  /\ rows \in [Entry -> Nat]
  /\ audits \in [Entry -> Nat]
  /\ saved \subseteq Entry

\* A write whose saveExecution has returned is in progress, with its row and
\* without its audit row.
SavedOf(e) ==
  e \in saved => stage[e] \in {"writing", "direct"} /\ rows[e] > 0 /\ audits[e] = 0

\* No attempt leaves more than one row.
RowsOf(e) ==
  /\ stage[e] \in {"new", "queued"} => rows[e] = 0
  /\ rows[e] <= attempts[e]
  /\ stage[e] \in {"writing", "direct"} /\ e \notin saved => rows[e] < attempts[e]
  /\ engine # "mongodb" => rows[e] <= 1
  /\ engine = "sqlite" /\ stage[e] \notin {"stored", "auditLost"} /\ e \notin saved => rows[e] = 0

\* A write that reached the audit table has settled and is not retried.
AuditsOf(e) ==
  /\ audits[e] <= 1
  /\ audits[e] > 0 => rows[e] > 0 /\ stage[e] \in {"stored", "auditLost"}

ReportOf(e) ==
  /\ stage[e] \in {"stored", "auditLost"} => rows[e] > 0
  /\ stage[e] = "stored" /\ auditLogs => audits[e] > 0
  /\ stage[e] = "auditLost" => auditLogs

AuditInv ==
  /\ RecorderInv
  /\ TablesTyped
  /\ \A e \in Entry : SavedOf(e) /\ RowsOf(e) /\ AuditsOf(e) /\ ReportOf(e)
-----------------------------------------------------------------------------
\* What an insert may do, whatever the engine.
LEMMA SaveOutcomes ==
  ASSUME TablesTyped, NEW n \in Nat, NEW o \in saveExecution(n)
  PROVE  /\ o.rows \in {n, n + 1}
         /\ o.ok => o.rows = n + 1
         /\ engine # "mongodb" /\ o.rows = n + 1 => n = 0
         /\ engine = "sqlite" /\ ~o.ok => o.rows = n
<1> USE EnginesAssumption DEF TablesTyped, Inserted, Refused, Unacknowledged
<1>1. CASE engine = "sqlite"
  BY <1>1 DEF saveExecution, SqliteSaveExecution
<1>2. CASE engine = "postgres"
  BY <1>2 DEF saveExecution, PostgresSaveExecution
<1>3. CASE engine = "oracle"
  BY <1>3 DEF saveExecution, OracleSaveExecution
<1>4. CASE engine = "couchbase"
  BY <1>4 DEF saveExecution, CouchbaseSaveExecution
<1>5. CASE engine = "mongodb"
  BY <1>5 DEF saveExecution, MongoSaveExecution
<1> QED
  BY <1>1, <1>2, <1>3, <1>4, <1>5

\* What an audit row's insert may do, whatever the engine.
LEMMA LogOutcomes ==
  ASSUME TablesTyped, NEW n \in Nat, NEW o \in saveExecutionLog(n)
  PROVE  /\ o.rows \in {n, n + 1}
         /\ o.ok => o.rows = n + 1
<1> USE EnginesAssumption DEF TablesTyped, Inserted, Refused, Unacknowledged
<1>1. CASE engine = "sqlite"
  BY <1>1 DEF saveExecutionLog, SqliteSaveExecutionLog
<1>2. CASE engine = "postgres"
  BY <1>2 DEF saveExecutionLog, PostgresSaveExecutionLog
<1>3. CASE engine = "oracle"
  BY <1>3 DEF saveExecutionLog, OracleSaveExecutionLog
<1>4. CASE engine = "couchbase"
  BY <1>4 DEF saveExecutionLog, CouchbaseSaveExecutionLog
<1>5. CASE engine = "mongodb"
  BY <1>5 DEF saveExecutionLog, MongoSaveExecutionLog
<1> QED
  BY <1>1, <1>2, <1>3, <1>4, <1>5

\* A step of the recorder itself starts attempts and settles nothing.
Started(e) ==
  \/ stage'[e] = stage[e] /\ attempts'[e] = attempts[e]
  \/ stage[e] = "new" /\ stage'[e] = "queued" /\ attempts'[e] = attempts[e]
  \/ stage[e] \in {"new", "queued"} /\ stage'[e] \in {"writing", "direct"} /\ attempts'[e] = 1
  \/ stage[e] = "backoff" /\ stage'[e] = "writing" /\ attempts'[e] = attempts[e] + 1

\* Each step of the recorder's own starts attempts in the ways Started lists.
LEMMA RecorderStarts ==
  ASSUME RecorderInv, RecorderStep, NEW e \in Entry
  PROVE  Started(e)
<1>1. /\ queue \in Seq(Entry) /\ stage \in [Entry -> Stage]
      /\ attempts \in [Entry -> 0 .. MaxAttempts] /\ QueueHoldsQueued
  BY DEF RecorderInv, TypeOK
<1>2. CASE \E f \in Entry : WriteDirectly(f) \/ BackoffElapses(f)
  BY <1>1, <1>2, RecorderAssumption DEF WriteDirectly, BackoffElapses, Started
<1>3. CASE DrainReturns \/ DrainWaits \/ DrainTimesOut
  BY <1>3 DEF DrainReturns, DrainWaits, DrainTimesOut, Started
<1>4. ASSUME NEW q \in Seq(Entry), NEW b, NEW s \in [Entry -> Stage], Pump(q, b, s),
             q # <<>> => s[Head(q)] = "queued",
             \A f \in Entry : s[f] = stage[f] \/ (stage[f] = "new" /\ s[f] = "queued")
      PROVE  Started(e)
  <2>1. CASE q = <<>>
    BY <1>4, <2>1 DEF Pump, Started
  <2>2. CASE q # <<>>
    <3>1. Head(q) \in Entry
      BY <2>2
    <3> QED
      BY <1>1, <1>4, <2>2, <3>1 DEF Pump, Started
  <2> QED
    BY <2>1, <2>2
<1>5. CASE PumpResumes
  <2>1. queue # <<>> => stage[Head(queue)] = "queued"
    <3>1. queue # <<>> => Head(queue) = queue[1] /\ 1 \in 1 .. Len(queue) /\ Head(queue) \in Entry
      BY <1>1
    <3> QED
      BY <1>1, <3>1 DEF QueueHoldsQueued
  <2> QED
    <3>1. Pump(queue, queuedBytes, stage)
      BY <1>5 DEF PumpResumes
    <3>2. \A f \in Entry : stage[f] = stage[f] \/ (stage[f] = "new" /\ stage[f] = "queued")
      OBVIOUS
    <3> QED
      BY <1>1, <1>4, <2>1, <3>1, <3>2, Zenon
<1>6. CASE \E f \in Entry : Enqueue(f)
  <2> PICK f \in Entry : Enqueue(f)
    BY <1>6
  <2> DEFINE q == Append(queue, f)
             s == [stage EXCEPT ![f] = "queued"]
  <2>1. q \in Seq(Entry) /\ q # <<>>
    BY <1>1, AppendFacts
  <2>2. s \in [Entry -> Stage] /\ stage[f] = "new"
    BY <1>1 DEF Enqueue, Stage
  <2>3. s[Head(q)] = "queued"
    <3>1. Head(q) = q[1] /\ Len(queue) \in Nat
      BY <1>1, <2>1
    <3>2. CASE Len(queue) = 0
      BY <1>1, <3>1, <3>2, AppendFacts
    <3>3. CASE Len(queue) # 0
      <4>1. Head(q) = queue[1] /\ 1 \in 1 .. Len(queue) /\ queue[1] \in Entry
        BY <1>1, <3>1, <3>3, AppendFacts
      <4> QED
        BY <1>1, <4>1 DEF QueueHoldsQueued
    <3> QED
      BY <3>2, <3>3
  <2>4. \A g \in Entry : s[g] = stage[g] \/ (stage[g] = "new" /\ s[g] = "queued")
    <3> TAKE g \in Entry
    <3>1. g # f => s[g] = stage[g]
      BY <1>1
    <3>2. s[f] = "queued"
      BY <1>1
    <3> QED
      BY <2>2, <3>1, <3>2
  <2>5. CASE Pump(q, queuedBytes + Bytes[f], s)
    BY <1>4, <2>1, <2>2, <2>3, <2>4, <2>5
  <2>6. CASE stage' = s /\ attempts' = attempts
    BY <2>4, <2>6 DEF Started
  <2> QED
    BY <2>5, <2>6 DEF Enqueue
<1> QED
  BY <1>2, <1>3, <1>5, <1>6 DEF RecorderStep

-----------------------------------------------------------------------------
\* The facts about one record survive a step of the recorder.
LEMMA RecorderKeepsRecord ==
  ASSUME AuditInv, NEW e \in Entry, Started(e), attempts'[e] \in Nat, UNCHANGED dbVars
  PROVE  SavedOf(e)' /\ RowsOf(e)' /\ AuditsOf(e)' /\ ReportOf(e)'
<1>1. /\ SavedOf(e) /\ RowsOf(e) /\ AuditsOf(e) /\ ReportOf(e)
      /\ rows[e] \in Nat /\ audits[e] \in Nat /\ attempts[e] \in Nat
  BY DEF AuditInv, TablesTyped, RecorderInv, TypeOK
<1>2. rows'[e] = rows[e] /\ audits'[e] = audits[e] /\ (e \in saved' <=> e \in saved) /\ UNCHANGED <<engine, auditLogs>>
  BY DEF dbVars
<1>3. SavedOf(e)'
  BY <1>1, <1>2 DEF Started, SavedOf
<1>4. RowsOf(e)'
  BY <1>1, <1>2 DEF Started, SavedOf, RowsOf
<1>5. AuditsOf(e)' /\ ReportOf(e)'
  BY <1>1, <1>2 DEF Started, AuditsOf, ReportOf
<1> QED
  BY <1>3, <1>4, <1>5

\* A write's settling leaves the attempts, and the stages of the other records.
LEMMA SettlingMoves ==
  ASSUME RecorderInv, NEW e \in Entry, NEW r \in Result, WriteSettles(e, r)
  PROVE  /\ stage[e] \in {"writing", "direct"}
         /\ r = "ok" => stage'[e] = "stored"
         /\ r = "audit" => stage'[e] = "auditLost"
         /\ r = "error" => stage'[e] \in {"backoff", "dropped"}
         /\ \A f \in Entry \ {e} : stage'[f] = stage[f]
         /\ attempts' = attempts
BY DEF RecorderInv, TypeOK, WriteSettles, PumpWriteSettles, DirectWriteSettles, After, Result

\* A step that touches one record's rows leaves the others'.
LEMMA OthersKept ==
  ASSUME AuditInv, NEW e \in Entry, NEW f \in Entry, f # e,
         rows'[f] = rows[f], audits'[f] = audits[f], f \in saved' <=> f \in saved,
         stage'[f] = stage[f], attempts'[f] = attempts[f], UNCHANGED <<engine, auditLogs>>
  PROVE  SavedOf(f)' /\ RowsOf(f)' /\ AuditsOf(f)' /\ ReportOf(f)'
BY DEF AuditInv, SavedOf, RowsOf, AuditsOf, ReportOf

\* The empty tables and queue satisfy the invariant.
LEMMA AuditInit == AInit => AuditInv
<1> SUFFICES ASSUME AInit
             PROVE  AuditInv
  OBVIOUS
<1>1. RecorderInv
  BY RecorderInvInit DEF AInit
<1>2. auditLogs \in BOOLEAN /\ auditTable \in BOOLEAN
  BY DEF AInit
<1>3. TablesTyped
  BY <1>2 DEF AInit, TablesTyped
<1>4. \A e \in Entry : SavedOf(e) /\ RowsOf(e) /\ AuditsOf(e) /\ ReportOf(e)
  BY DEF AInit, Init, SavedOf, RowsOf, AuditsOf, ReportOf
<1> QED
  BY <1>1, <1>3, <1>4 DEF AuditInv

\* No step of the recorder or of the repository breaks the invariant.
LEMMA AuditStep == AuditInv /\ [ANext]_vars => AuditInv'
<1> SUFFICES ASSUME AuditInv, [ANext]_vars
             PROVE  AuditInv'
  OBVIOUS
<1>1. RecorderInv'
  <2>1. [ANext]_vars => [Next]_recVars
    BY DEF ANext, RecorderStep, SaveReturns, SaveThrows, LogReturns, LogThrows, Next, Result, vars, recVars
  <2> QED
    BY <2>1, RecorderInvStep DEF AuditInv
<1>2. /\ RecorderInv /\ TablesTyped
      /\ \A e \in Entry : /\ SavedOf(e) /\ RowsOf(e) /\ AuditsOf(e) /\ ReportOf(e)
                         /\ attempts[e] \in Nat /\ attempts'[e] \in Nat
                         /\ rows[e] \in Nat /\ audits[e] \in Nat
  BY <1>1 DEF AuditInv, RecorderInv, TypeOK, TablesTyped
<1>3. CASE RecorderStep
  <2>1. UNCHANGED dbVars
    BY <1>3 DEF RecorderStep
  <2>2. TablesTyped'
    BY <1>2, <2>1 DEF TablesTyped, dbVars
  <2>3. \A e \in Entry : SavedOf(e)' /\ RowsOf(e)' /\ AuditsOf(e)' /\ ReportOf(e)'
    BY <1>2, <1>3, <2>1, RecorderStarts, RecorderKeepsRecord
  <2> QED
    BY <1>1, <2>2, <2>3 DEF AuditInv
<1>4. ASSUME NEW e \in Entry, SaveReturns(e) PROVE AuditInv'
  <2>1. PICK o \in saveExecution(rows[e]) : o.ok /\ rows' = [rows EXCEPT ![e] = o.rows]
    BY <1>4 DEF SaveReturns
  <2>2. /\ rows'[e] = rows[e] + 1 /\ (engine # "mongodb" => rows[e] = 0)
        /\ rows' \in [Entry -> Nat] /\ \A f \in Entry \ {e} : rows'[f] = rows[f]
    BY <1>2, <2>1, SaveOutcomes DEF TablesTyped
  <2>3. /\ saved' = saved \cup {e} /\ e \notin saved /\ stage[e] \in {"writing", "direct"}
        /\ UNCHANGED <<stage, attempts, engine, auditLogs, auditTable, audits>>
    BY <1>4 DEF SaveReturns, InnerWrite, recVars
  <2>4. SavedOf(e)' /\ RowsOf(e)' /\ AuditsOf(e)' /\ ReportOf(e)'
    BY <1>2, <2>2, <2>3 DEF SavedOf, RowsOf, AuditsOf, ReportOf
  <2>5. \A f \in Entry \ {e} : SavedOf(f)' /\ RowsOf(f)' /\ AuditsOf(f)' /\ ReportOf(f)'
    BY <2>2, <2>3, OthersKept
  <2>6. TablesTyped'
    BY <1>2, <2>2, <2>3 DEF TablesTyped
  <2> QED
    BY <1>1, <2>4, <2>5, <2>6 DEF AuditInv
<1>5. ASSUME NEW e \in Entry, SaveThrows(e) PROVE AuditInv'
  <2>1. PICK o \in saveExecution(rows[e]) : ~o.ok /\ rows' = [rows EXCEPT ![e] = o.rows]
    BY <1>5 DEF SaveThrows
  <2>2. /\ rows'[e] \in {rows[e], rows[e] + 1} /\ (engine # "mongodb" /\ rows'[e] # rows[e] => rows[e] = 0)
        /\ engine = "sqlite" => rows'[e] = rows[e]
        /\ rows' \in [Entry -> Nat] /\ \A f \in Entry \ {e} : rows'[f] = rows[f]
    BY <1>2, <2>1, SaveOutcomes DEF TablesTyped
  <2>3. e \notin saved /\ WriteSettles(e, "error") /\ UNCHANGED <<engine, auditLogs, auditTable, audits, saved>>
    BY <1>5 DEF SaveThrows
  <2>4. /\ stage[e] \in {"writing", "direct"} /\ stage'[e] \in {"backoff", "dropped"}
        /\ \A f \in Entry \ {e} : stage'[f] = stage[f]
        /\ attempts' = attempts
    BY <1>2, <2>3, SettlingMoves DEF Result
  <2>5. SavedOf(e)' /\ RowsOf(e)' /\ AuditsOf(e)' /\ ReportOf(e)'
    BY <1>2, <2>2, <2>3, <2>4 DEF SavedOf, RowsOf, AuditsOf, ReportOf
  <2>6. \A f \in Entry \ {e} : SavedOf(f)' /\ RowsOf(f)' /\ AuditsOf(f)' /\ ReportOf(f)'
    BY <2>2, <2>3, <2>4, OthersKept
  <2>7. TablesTyped'
    BY <1>2, <2>2, <2>3 DEF TablesTyped
  <2> QED
    BY <1>1, <2>5, <2>6, <2>7 DEF AuditInv
<1>6. ASSUME NEW e \in Entry, LogReturns(e) \/ LogThrows(e) PROVE AuditInv'
  <2>1. PICK o \in saveExecutionLog(audits[e]) :
          /\ audits' = [audits EXCEPT ![e] = o.rows]
          /\ \/ o.ok /\ WriteSettles(e, "ok")
             \/ ~o.ok /\ WriteSettles(e, IF auditLogs THEN "audit" ELSE "ok")
    BY <1>6 DEF LogReturns, LogThrows
  <2>2. /\ e \in saved /\ saved' = saved \ {e} /\ UNCHANGED <<engine, auditLogs, auditTable, rows>>
        /\ rows[e] > 0 /\ audits[e] = 0
    BY <1>2, <1>6 DEF LogReturns, LogThrows, SavedOf
  <2>3. /\ audits'[e] \in {0, 1} /\ (o.ok => audits'[e] = 1)
        /\ audits' \in [Entry -> Nat] /\ \A f \in Entry \ {e} : audits'[f] = audits[f]
    BY <1>2, <2>1, <2>2, LogOutcomes DEF TablesTyped
  <2>4. /\ \/ stage'[e] = "stored" /\ (o.ok \/ ~auditLogs)
           \/ stage'[e] = "auditLost" /\ auditLogs
        /\ \A f \in Entry \ {e} : stage'[f] = stage[f]
        /\ attempts' = attempts
    <3>1. CASE o.ok \/ ~auditLogs
      BY <1>2, <2>1, <3>1, SettlingMoves DEF Result
    <3>2. CASE ~o.ok /\ auditLogs
      BY <1>2, <2>1, <3>2, SettlingMoves DEF Result
    <3> QED
      BY <3>1, <3>2
  <2>5. SavedOf(e)' /\ RowsOf(e)' /\ AuditsOf(e)' /\ ReportOf(e)'
    BY <1>2, <2>2, <2>3, <2>4 DEF SavedOf, RowsOf, AuditsOf, ReportOf
  <2>6. \A f \in Entry \ {e} : SavedOf(f)' /\ RowsOf(f)' /\ AuditsOf(f)' /\ ReportOf(f)'
    BY <2>2, <2>3, <2>4, OthersKept
  <2>7. TablesTyped'
    BY <1>2, <2>2, <2>3 DEF TablesTyped
  <2> QED
    BY <1>1, <2>5, <2>6, <2>7 DEF AuditInv
<1>7. CASE UNCHANGED vars
  BY <1>1, <1>2, <1>7 DEF vars, recVars, dbVars, AuditInv, TablesTyped, SavedOf, RowsOf, AuditsOf, ReportOf
<1> QED
  BY <1>3, <1>4, <1>5, <1>6, <1>7 DEF ANext
-----------------------------------------------------------------------------
\* Rows, reports and attempts of each record stay consistent in every state.
THEOREM AuditSafety == ASpec => []AuditInv
BY AuditInit, AuditStep, PTL DEF ASpec

\* What the recorder reports of a record is what the tables hold.
THEOREM ReportsAreTrue == ASpec => []ReportsMatchStore
<1>1. AuditInv => ReportsMatchStore
  <2> SUFFICES ASSUME AuditInv, NEW e \in Entry, stage[e] = "dropped", engine = "sqlite"
               PROVE  rows[e] = 0
    BY DEF AuditInv, ReportOf, ReportsMatchStore
  <2>1. e \notin saved
    BY DEF AuditInv, SavedOf
  <2> QED
    BY <2>1 DEF AuditInv, RowsOf
<1> QED
  BY <1>1, AuditSafety, PTL

\* No retry duplicates an execution where its id is a key, nor an audit row.
THEOREM NothingIsDoubled == ASpec => []OneRowPerExecution
<1>1. AuditInv => OneRowPerExecution
  <2> SUFFICES ASSUME AuditInv
               PROVE  OneRowPerExecution
    OBVIOUS
  <2>1. \A e \in Entry : rows[e] \in 0 .. MaxAttempts /\ audits[e] \in 0 .. MaxAttempts
    BY RecorderAssumption DEF AuditInv, RecorderInv, TypeOK, TablesTyped, RowsOf, AuditsOf
  <2>2. ATypeOK
    BY <2>1 DEF AuditInv, RecorderInv, TablesTyped, ATypeOK
  <2> QED
    BY <2>2 DEF AuditInv, RowsOf, AuditsOf, OneRowPerExecution
<1> QED
  BY <1>1, AuditSafety, PTL
=============================================================================
