------------------------- MODULE Invocation_proofs -------------------------
(***************************************************************************)
(* Theorems about one invocation, for every policy the schema admits and   *)
(* any lateness of timers.  The inductive invariant IInv adds to the       *)
(* properties what connects them: which attempts have begun, what a        *)
(* backoff follows, and how late each timer may be.                        *)
(***************************************************************************)
EXTENDS Invocation, TLAPS

\* delayFor returns a number.
LEMMA DelayIsNatural ==
  ASSUME TypeOK, NEW n \in Attempt
  PROVE  Delay(n) \in Nat
<1> DEFINE factor == IF policy.backoff = "exponential" THEN 2 ^ (n - 1) ELSE 1
<1>1. n - 1 \in 0 .. MaxRetryCount
  BY DEF Attempt, MaxRetryCount
<1>2. factor \in Nat
  BY <1>1, PowersAreNatural
<1>3. policy.retryDelay \in Nat
  BY PolicyAssumption DEF TypeOK
<1> HIDE DEF factor
<1>4. policy.retryDelay * factor \in Nat
  BY <1>2, <1>3
<1> USE DEF factor
<1> QED
  BY <1>4, TimeAssumption DEF Delay

-----------------------------------------------------------------------------
\* Attempts are numbered as they begin, and never exceed the policy's number.
Counted ==
  /\ attempts <= policy.retryCount + 1
  /\ \A n \in Attempt : att[n] = "none" <=> n > attempts
  /\ pc = "lookup" => attempts = 0 /\ elapsed = 0
  /\ pc \in {"attempt", "backoff"} => attempts > 0
  /\ pc = "attempt" => att[attempts] = "running"

\* A backoff follows an error worth retrying and is as long as delayFor says.
BackoffJustified ==
  pc = "backoff" =>
    /\ attempts <= policy.retryCount
    /\ Retryable(Verdict(attempts))
    /\ wake >= begun + Delay(attempts)

\* How late each timer of a call with a budget may be.
Timely ==
  /\ begun <= elapsed
  /\ (HasBudget /\ pc = "attempt") =>
       /\ begun <= policy.maxElapsedTime + Lag
       /\ elapsed <= policy.maxElapsedTime + Lag \/ elapsed <= begun + Lag
  /\ (HasBudget /\ pc = "backoff") =>
       wake < policy.maxElapsedTime /\ elapsed <= wake + Lag
  /\ WithinBudget

\* Nothing is recorded before the end, and then what ended the call.
Recorded ==
  IF pc \in {"lookup", "attempt", "backoff"} THEN records = <<>>
  ELSE IF records = <<>>
    THEN pc = "done" /\ answer.code \in {"NOT_FOUND", "INTERNAL_ERROR"}
    ELSE /\ records = <<records[1]>>
         /\ records[1].code \notin {"NOT_FOUND", "INTERNAL_ERROR"}
         /\ pc = "done" => answer.code = records[1].code

IInv ==
  /\ TypeOK
  /\ Counted
  /\ BackoffJustified
  /\ Timely
  /\ Recorded
  /\ RecordTellsLastAttempt
  /\ AbandonedAreCancelled
  /\ GivesUpOnlyWhenSpent


\* An invocation begins within its invariant.
LEMMA InitIInv == Init => IInv
<1> SUFFICES ASSUME Init PROVE IInv
  OBVIOUS
<1> USE PolicyAssumption, TimeAssumption DEF Init
<1>1. TypeOK
  <2>1. policy.retryCount \in Nat
    BY DEF MaxRetryCount
  <2> QED
    BY <2>1 DEF TypeOK, NoAnswer, Code, Attempt, MaxRetryCount
<1>2. Counted /\ BackoffJustified /\ Recorded
  BY DEF Counted, BackoffJustified, Recorded, Attempt, MaxRetryCount
<1>3. Timely
  BY DEF Timely, WithinBudget, HasBudget
<1>4. RecordTellsLastAttempt /\ GivesUpOnlyWhenSpent /\ AbandonedAreCancelled
  BY DEF RecordTellsLastAttempt, GivesUpOnlyWhenSpent, AbandonedAreCancelled, Attempt
<1> QED
  BY <1>1, <1>2, <1>3, <1>4 DEF IInv

\* What Finish records is the one record there is.
LEMMA FinishRecords ==
  ASSUME TypeOK, records = <<>>, UNCHANGED attempts,
         NEW status \in {"success", "failed", "skipped"}, NEW code \in Code,
         NEW result \in {"mapped", "null"}, Finish(status, code, result)
  PROVE  /\ pc' = "recording" /\ Len(records') = 1
         /\ records' = <<records'[1]>> /\ records' # <<>>
         /\ records'[1].status = status /\ records'[1].code = code
         /\ records'[1].attempts = attempts
         /\ records' \in Seq([status : {"success", "failed", "skipped"}, code : Code,
                              attempts : 0 .. MaxRetryCount + 1, result : {"mapped", "null"}])
<1> DEFINE r == [status |-> status, code |-> code, attempts |-> attempts, result |-> result]
<1>1. r \in [status : {"success", "failed", "skipped"}, code : Code,
             attempts : 0 .. MaxRetryCount + 1, result : {"mapped", "null"}]
  BY DEF TypeOK
<1>2. records' = <<r>> /\ pc' = "recording"
  BY DEF Finish
<1> QED
  BY <1>1, <1>2

\* An error ends the call with its record, or leads to a backoff.
LEMMA ErrorStep ==
  ASSUME IInv, pc = "attempt", UNCHANGED <<policy, elapsed, begun, attempts, answer>>,
         NEW code \in Failure, NEW fate \in {"cancelled"} \cup Failure,
         fate = "cancelled" => code = "TIMEOUT", fate # "cancelled" => fate = code,
         att' = [att EXCEPT ![attempts] = fate], AfterError(code)
  PROVE  IInv'
<1> USE PolicyAssumption, TimeAssumption
<1>1. /\ attempts \in Attempt /\ elapsed \in Nat /\ begun \in Nat /\ wake \in Nat
      /\ policy \in Policy /\ policy.maxElapsedTime \in Nat /\ policy.retryCount \in Nat
      /\ records = <<>> /\ att \in [Attempt -> {"none", "running", "cancelled", "late", "value"} \cup Failure]
      /\ Lag \in Nat
  BY DEF IInv, TypeOK, Counted, Recorded, Attempt
<1>2. Delay(attempts) \in Nat /\ Delay(attempts)' = Delay(attempts)
  BY <1>1, DelayIsNatural DEF IInv, Delay
<1>3. Verdict(attempts)' = code
  BY <1>1 DEF Verdict, Failure
<1>4. /\ \A n \in Attempt : n # attempts => att'[n] = att[n]
      /\ att'[attempts] = fate /\ fate \notin {"none", "running", "late", "value"}
  BY <1>1 DEF Failure
<1>5. AbandonedAreCancelled'
  BY <1>1, <1>4 DEF IInv, AbandonedAreCancelled
<1>6. code \in Code /\ code \notin {"NOT_FOUND", "INTERNAL_ERROR"}
  BY DEF Code, Failure
<1>7. WithinBudget'
  BY DEF IInv, Timely, WithinBudget, HasBudget
<1>8. \A n \in Attempt : att'[n] = "none" <=> n > attempts
  BY <1>1, <1>4 DEF IInv, Counted
<1>9. att' \in [Attempt -> {"none", "running", "cancelled", "late", "value"} \cup Failure]
  BY <1>1
<1>10. CASE attempts > policy.retryCount \/ ~Retryable(code)
              \/ (HasBudget /\ Delay(attempts) >= RemainingBudget)
  <2>1. PICK result \in {"mapped", "null"} : Finish("failed", code, result)
    BY <1>10 DEF AfterError, Fail
  <2>2. /\ pc' = "recording" /\ Len(records') = 1 /\ wake' = wake
        /\ records' = <<records'[1]>> /\ records' # <<>>
        /\ records'[1].status = "failed" /\ records'[1].code = code
        /\ records'[1].attempts = attempts
        /\ records' \in Seq([status : {"success", "failed", "skipped"}, code : Code,
                             attempts : 0 .. MaxRetryCount + 1, result : {"mapped", "null"}])
    BY <1>1, <1>6, <1>10, <2>1, FinishRecords DEF IInv, AfterError
  <2>3. TypeOK'
    BY <1>9, <2>2 DEF IInv, TypeOK
  <2>4. Counted' /\ BackoffJustified' /\ Recorded'
    BY <1>6, <1>8, <2>2 DEF IInv, Counted, BackoffJustified, Recorded
  <2>5. Timely'
    BY <1>7, <2>2 DEF IInv, Timely
  <2>6. RecordTellsLastAttempt'
    BY <1>1, <1>3, <2>2 DEF RecordTellsLastAttempt, Failure, Attempt
  <2>7. GivesUpOnlyWhenSpent'
    <3>1. Retryable(code) => \/ attempts = policy.retryCount + 1
                             \/ HasBudget /\ Delay(attempts) >= RemainingBudget
      BY <1>1, <1>10 DEF IInv, Counted, Attempt, MaxRetryCount
    <3> QED
      BY <1>2, <2>2, <3>1 DEF GivesUpOnlyWhenSpent, HasBudget, RemainingBudget
  <2> QED
    BY <1>5, <2>3, <2>4, <2>5, <2>6, <2>7 DEF IInv
<1>11. CASE /\ attempts <= policy.retryCount /\ Retryable(code)
            /\ ~(HasBudget /\ Delay(attempts) >= RemainingBudget)
  <2>1. /\ pc' = "backoff" /\ records' = <<>> /\ wake' = elapsed + Delay(attempts)
    BY <1>1, <1>11 DEF AfterError, Attempt
  <2>2. TypeOK'
    BY <1>1, <1>2, <1>9, <2>1 DEF IInv, TypeOK
  <2>3. Counted' /\ Recorded'
    BY <1>1, <1>8, <2>1 DEF IInv, Counted, Recorded, Attempt
  <2>4. BackoffJustified'
    BY <1>1, <1>2, <1>3, <1>11, <2>1 DEF IInv, Timely, BackoffJustified
  <2>5. Timely'
    BY <1>1, <1>2, <1>7, <1>11, <2>1 DEF IInv, Timely, HasBudget, RemainingBudget
  <2>6. RecordTellsLastAttempt' /\ GivesUpOnlyWhenSpent'
    BY <2>1 DEF RecordTellsLastAttempt, GivesUpOnlyWhenSpent
  <2> QED
    BY <1>5, <2>2, <2>3, <2>4, <2>5, <2>6 DEF IInv
<1> QED
  BY <1>1, <1>10, <1>11 DEF Attempt

\* An attempt begins after the checks or after a backoff.
LEMMA StartStep ==
  ASSUME IInv, FirstAttempt \/ Wake
  PROVE  IInv'
<1> USE PolicyAssumption, TimeAssumption
<1>1. /\ elapsed \in Nat /\ begun \in Nat /\ wake \in Nat /\ attempts \in Nat
      /\ policy \in Policy /\ policy.maxElapsedTime \in Nat /\ policy.retryCount \in 0 .. MaxRetryCount
      /\ records = <<>> /\ att \in [Attempt -> {"none", "running", "cancelled", "late", "value"} \cup Failure]
      /\ pc \in {"lookup", "backoff"} /\ Lag \in Nat
  BY DEF IInv, TypeOK, Recorded, FirstAttempt, Wake
<1>2. /\ attempts' = attempts + 1 /\ begun' = elapsed /\ pc' = "attempt"
      /\ att' = [att EXCEPT ![attempts + 1] = "running"]
      /\ UNCHANGED <<policy, elapsed, wake, records, answer>>
  BY DEF FirstAttempt, Wake, StartAttempt
<1>3. attempts + 1 \in Attempt /\ attempts <= policy.retryCount
  BY <1>1 DEF IInv, Counted, BackoffJustified, Attempt, MaxRetryCount
<1>4. /\ \A n \in Attempt : n # attempts + 1 => att'[n] = att[n]
      /\ att'[attempts + 1] = "running"
  BY <1>1, <1>2, <1>3
<1>5. TypeOK'
  BY <1>1, <1>2, <1>3 DEF IInv, TypeOK, Attempt
<1>6. Counted'
  <2>1. \A n \in Attempt : att'[n] = "none" <=> n > attempts'
    BY <1>1, <1>2, <1>3, <1>4 DEF IInv, Counted, Attempt, MaxRetryCount
  <2> QED
    BY <1>1, <1>2, <1>3, <1>4, <2>1 DEF Counted
<1>7. BackoffJustified' /\ Recorded'
  BY <1>1, <1>2 DEF BackoffJustified, Recorded
<1>8. Timely'
  <2>1. CASE pc = "lookup"
    BY <1>1, <1>2, <2>1 DEF IInv, Counted, Timely, WithinBudget, HasBudget
  <2>2. CASE pc = "backoff"
    BY <1>1, <1>2, <2>2 DEF IInv, Timely, WithinBudget, HasBudget
  <2> QED
    BY <1>1, <2>1, <2>2
<1>9. AbandonedAreCancelled'
  BY <1>1, <1>2, <1>4 DEF IInv, AbandonedAreCancelled
<1>10. RecordTellsLastAttempt' /\ GivesUpOnlyWhenSpent'
  BY <1>1, <1>2 DEF RecordTellsLastAttempt, GivesUpOnlyWhenSpent
<1> QED
  BY <1>5, <1>6, <1>7, <1>8, <1>9, <1>10 DEF IInv

\* The call ends without an attempt.
LEMMA NoAttemptStep ==
  ASSUME IInv, LookupFails \/ Skip \/ Reject
  PROVE  IInv'
<1>1. /\ pc = "lookup" /\ attempts = 0 /\ records = <<>>
      /\ UNCHANGED <<policy, elapsed, begun, wake, attempts, att>>
  BY DEF IInv, Recorded, Counted, LookupFails, Skip, Reject
<1>2. BackoffJustified' /\ Timely' /\ Counted' /\ AbandonedAreCancelled'
  <2>1. pc' \in {"recording", "done"}
    BY DEF LookupFails, Skip, Reject, Finish, Fail
  <2>2. AbandonedAreCancelled'
    BY <1>1, <2>1 DEF IInv, AbandonedAreCancelled
  <2> QED
    BY <1>1, <2>1, <2>2 DEF IInv, Counted, BackoffJustified, Timely, WithinBudget, HasBudget
<1>3. CASE LookupFails
  <2>1. /\ pc' = "done" /\ records' = <<>> /\ answer'.code \in {"NOT_FOUND", "INTERNAL_ERROR"}
        /\ answer' \in [status : {"none", "success", "failed", "skipped"}, code : Code]
    BY <1>1, <1>3 DEF LookupFails, Code
  <2> QED
    BY <1>1, <1>2, <2>1 DEF IInv, TypeOK, Recorded, RecordTellsLastAttempt, GivesUpOnlyWhenSpent
<1>4. CASE Skip \/ Reject
  <2>1. PICK status \in {"failed", "skipped"}, code \in {"SKIPPED"} \cup Rejection,
             result \in {"mapped", "null"} : Finish(status, code, result)
    BY <1>4 DEF Skip, Reject, Fail
  <2>2. code \in Code /\ code \notin {"NOT_FOUND", "INTERNAL_ERROR"} /\ ~Retryable(code)
    BY DEF Code, Rejection, Retryable
  <2>3. /\ pc' = "recording" /\ Len(records') = 1 /\ UNCHANGED answer
        /\ records' = <<records'[1]>> /\ records' # <<>>
        /\ records'[1].status = status /\ records'[1].code = code
        /\ records'[1].attempts = attempts
        /\ records' \in Seq([status : {"success", "failed", "skipped"}, code : Code,
                             attempts : 0 .. MaxRetryCount + 1, result : {"mapped", "null"}])
    BY <1>1, <1>4, <2>1, <2>2, FinishRecords DEF IInv, Skip, Reject
  <2> QED
    BY <1>1, <1>2, <2>2, <2>3
       DEF IInv, TypeOK, Recorded, RecordTellsLastAttempt, GivesUpOnlyWhenSpent
<1> QED
  BY <1>3, <1>4

\* A result ends the call with its record.
LEMMA SuccessStep ==
  ASSUME IInv, AttemptSucceeds
  PROVE  IInv'
<1>1. /\ pc = "attempt" /\ attempts \in Attempt /\ records = <<>>
      /\ att \in [Attempt -> {"none", "running", "cancelled", "late", "value"} \cup Failure]
      /\ UNCHANGED <<policy, elapsed, begun, wake, attempts, answer>>
      /\ att' = [att EXCEPT ![attempts] = "value"]
  BY DEF IInv, TypeOK, Recorded, Counted, AttemptSucceeds, Attempt
<1>2. /\ \A n \in Attempt : n # attempts => att'[n] = att[n]
      /\ att'[attempts] = "value" /\ Verdict(attempts)' = "value"
  BY <1>1 DEF Verdict
<1>3. PICK status \in {"success", "failed"}, code \in {"OK"} \cup PipelineFailure,
           result \in {"mapped", "null"} : Finish(status, code, result)
  BY DEF AttemptSucceeds, RunPipeline, Fail
<1>4. code \in Code /\ code \notin {"NOT_FOUND", "INTERNAL_ERROR"} /\ ~Retryable(code)
  BY DEF Code, PipelineFailure, Retryable
<1>5. /\ pc' = "recording" /\ Len(records') = 1
      /\ records' = <<records'[1]>> /\ records' # <<>>
      /\ records'[1].status = status /\ records'[1].code = code
      /\ records'[1].attempts = attempts
      /\ records' \in Seq([status : {"success", "failed", "skipped"}, code : Code,
                           attempts : 0 .. MaxRetryCount + 1, result : {"mapped", "null"}])
  BY <1>1, <1>3, <1>4, FinishRecords DEF IInv
<1>6. TypeOK'
  BY <1>1, <1>5 DEF IInv, TypeOK
<1>7. Counted'
  <2>1. \A n \in Attempt : att'[n] = "none" <=> n > attempts
    BY <1>1, <1>2 DEF IInv, Counted, Attempt
  <2> QED
    BY <1>1, <1>5, <2>1 DEF IInv, Counted
<1>8. BackoffJustified' /\ Timely' /\ Recorded'
  BY <1>1, <1>4, <1>5
     DEF IInv, BackoffJustified, Timely, WithinBudget, HasBudget, Recorded
<1>9. RecordTellsLastAttempt' /\ GivesUpOnlyWhenSpent'
  BY <1>1, <1>2, <1>3, <1>4, <1>5 DEF RecordTellsLastAttempt, GivesUpOnlyWhenSpent, Attempt
<1>10. AbandonedAreCancelled'
  BY <1>1, <1>2 DEF IInv, AbandonedAreCancelled
<1> QED
  BY <1>6, <1>7, <1>8, <1>9, <1>10 DEF IInv

\* A late answer changes nothing that the record or the retries depend on.
LEMMA LateStep ==
  ASSUME IInv, LateAnswer
  PROVE  IInv'
<1>1. PICK n \in Attempt : att[n] = "cancelled" /\ att' = [att EXCEPT ![n] = "late"]
  BY DEF LateAnswer
<1>2. /\ UNCHANGED <<policy, pc, elapsed, begun, wake, attempts, records, answer>>
      /\ att \in [Attempt -> {"none", "running", "cancelled", "late", "value"} \cup Failure]
  BY DEF IInv, TypeOK, LateAnswer
<1>3. att'[n] = "late" /\ \A k \in Attempt : k # n => att'[k] = att[k]
  BY <1>1, <1>2
<1>4. \A k \in Attempt : /\ Verdict(k)' = Verdict(k)
                         /\ att'[k] = "none" <=> att[k] = "none"
                         /\ att'[k] = "running" <=> att[k] = "running"
  BY <1>1, <1>3 DEF Verdict
<1>5. TypeOK'
  BY <1>1, <1>2 DEF IInv, TypeOK
<1>6. attempts > 0 => attempts \in Attempt
  BY DEF IInv, TypeOK, Attempt
<1>7. Delay(attempts)' = Delay(attempts)
  BY <1>2 DEF Delay
<1>8. Counted' /\ Timely' /\ Recorded' /\ AbandonedAreCancelled'
  BY <1>2, <1>4, <1>6
     DEF IInv, Counted, Timely, WithinBudget, HasBudget, Recorded, AbandonedAreCancelled
<1>9. BackoffJustified'
  BY <1>2, <1>4, <1>6, <1>7 DEF IInv, Counted, BackoffJustified
<1>10. RecordTellsLastAttempt'
  BY <1>2, <1>4, <1>6 DEF IInv, RecordTellsLastAttempt
<1>11. GivesUpOnlyWhenSpent'
  BY <1>2, <1>7 DEF IInv, GivesUpOnlyWhenSpent, HasBudget, RemainingBudget
<1> QED
  BY <1>5, <1>8, <1>9, <1>10, <1>11 DEF IInv

\* Time passes no further than the armed timers and their lateness allow.
LEMMA TickStep ==
  ASSUME IInv, Tick
  PROVE  IInv'
<1> USE PolicyAssumption, TimeAssumption
<1>1. /\ elapsed \in Nat /\ begun \in Nat /\ wake \in Nat /\ policy \in Policy
      /\ policy.maxElapsedTime \in Nat /\ Lag \in Nat /\ records = <<>>
      /\ pc \in {"attempt", "backoff"} /\ elapsed' = elapsed + 1
      /\ UNCHANGED <<policy, pc, begun, wake, attempts, att, records, answer>>
  BY DEF IInv, TypeOK, Recorded, Tick
<1>2. Timely'
  <2>1. CASE pc = "attempt" /\ HasBudget
    <3>1. elapsed - Lag < policy.maxElapsedTime \/ elapsed - Lag < begun
      BY <1>1, <2>1 DEF Tick, Expired
    <3> QED
      BY <1>1, <2>1, <3>1 DEF IInv, Timely, WithinBudget, HasBudget
  <2>2. CASE pc = "backoff" /\ HasBudget
    BY <1>1, <2>2 DEF IInv, Tick, Timely, WithinBudget, HasBudget
  <2>3. CASE ~HasBudget
    BY <1>1, <2>3 DEF IInv, Timely, WithinBudget, HasBudget
  <2> QED
    BY <1>1, <2>1, <2>2, <2>3
<1>3. TypeOK' /\ Counted' /\ Recorded' /\ AbandonedAreCancelled'
  BY <1>1 DEF IInv, TypeOK, Counted, Recorded, AbandonedAreCancelled
<1>4. BackoffJustified'
  BY <1>1 DEF IInv, BackoffJustified, Delay, Verdict
<1>5. RecordTellsLastAttempt' /\ GivesUpOnlyWhenSpent'
  BY <1>1 DEF RecordTellsLastAttempt, GivesUpOnlyWhenSpent
<1> QED
  BY <1>2, <1>3, <1>4, <1>5 DEF IInv

\* A sequence of one element.
LEMMA FirstElement ==
  ASSUME NEW S, NEW q \in Seq(S), Len(q) = 1
  PROVE  q[1] \in S
OBVIOUS

\* Once the recorder has returned or thrown, the caller gets what was recorded.
LEMMA AnswerStep ==
  ASSUME IInv, RecorderReturns \/ RecorderThrows
  PROVE  IInv'
<1>1. /\ pc = "recording" /\ pc' = "done"
      /\ UNCHANGED <<policy, elapsed, begun, wake, attempts, att, records>>
      /\ answer' = [status |-> records[Len(records)].status, code |-> records[Len(records)].code]
  BY DEF RecorderReturns, RecorderThrows, Answered
<1>2. Len(records) = 1 /\ records # <<>> /\ records = <<records[1]>>
  BY <1>1 DEF IInv, Recorded
<1>3. answer' = [status |-> records[1].status, code |-> records[1].code]
  BY <1>1, <1>2
<1>4. /\ records[1].status \in {"success", "failed", "skipped"} /\ records[1].code \in Code
      /\ records[1].code \notin {"NOT_FOUND", "INTERNAL_ERROR"}
  <2>1. records[1] \in [status : {"success", "failed", "skipped"}, code : Code,
                        attempts : 0 .. MaxRetryCount + 1, result : {"mapped", "null"}]
    BY <1>2, FirstElement DEF IInv, TypeOK
  <2> QED
    BY <1>1, <1>2, <2>1 DEF IInv, Recorded
<1>5. TypeOK' /\ Recorded'
  BY <1>1, <1>2, <1>3, <1>4 DEF IInv, TypeOK, Recorded
<1>6. Counted' /\ BackoffJustified' /\ Timely' /\ AbandonedAreCancelled'
  BY <1>1 DEF IInv, Counted, BackoffJustified, Timely, WithinBudget, HasBudget, AbandonedAreCancelled
<1>7. RecordTellsLastAttempt'
  BY <1>1, <1>2, <1>3 DEF IInv, RecordTellsLastAttempt, Verdict
<1>8. GivesUpOnlyWhenSpent'
  BY <1>1, <1>2 DEF IInv, GivesUpOnlyWhenSpent, HasBudget, RemainingBudget, Delay
<1> QED
  BY <1>5, <1>6, <1>7, <1>8 DEF IInv

-----------------------------------------------------------------------------
\* No step of an invocation breaks the invariant.
LEMMA NextIInv == IInv /\ [Next]_vars => IInv'
<1> SUFFICES ASSUME IInv, [Next]_vars PROVE IInv'
  OBVIOUS
<1>1. CASE LookupFails \/ Skip \/ Reject
  BY <1>1, NoAttemptStep
<1>2. CASE FirstAttempt \/ Wake
  BY <1>2, StartStep
<1>3. CASE AttemptSucceeds
  BY <1>3, SuccessStep
<1>4. CASE AttemptFails
  <2>1. PICK code \in Failure : att' = [att EXCEPT ![attempts] = code] /\ AfterError(code)
    BY <1>4 DEF AttemptFails
  <2>2. code # "cancelled"
    BY DEF Failure
  <2> QED
    BY <1>4, <2>1, <2>2, ErrorStep DEF AttemptFails
<1>5. CASE DeadlineFires
  <2>1. "TIMEOUT" \in Failure
    BY DEF Failure
  <2> QED
    BY <1>5, <2>1, ErrorStep DEF DeadlineFires
<1>6. CASE LateAnswer
  BY <1>6, LateStep
<1>7. CASE Tick
  BY <1>7, TickStep
<1>8. CASE RecorderReturns \/ RecorderThrows
  BY <1>8, AnswerStep
<1>9. CASE UNCHANGED vars
  BY <1>9 DEF vars, IInv, TypeOK, Counted, BackoffJustified, Timely, WithinBudget, HasBudget,
              Recorded, RecordTellsLastAttempt, GivesUpOnlyWhenSpent, AbandonedAreCancelled,
              Verdict, Delay, RemainingBudget
<1> QED
  BY <1>1, <1>2, <1>3, <1>4, <1>5, <1>6, <1>7, <1>8, <1>9 DEF Next

\* The inductive invariant holds throughout every call.
THEOREM InvocationSafety == Spec => []IInv
BY InitIInv, NextIInv, PTL DEF Spec

\* The variables keep their types; at most retryCount + 1 attempts are
\* made, and never more than eleven.
THEOREM InvocationTyped == Spec => []TypeOK
<1>1. IInv => TypeOK
  BY DEF IInv
<1> QED
  BY <1>1, InvocationSafety, PTL

\* An invocation whose component was found is recorded exactly once.
THEOREM OneRecord == Spec => []RecordedOnce
<1>1. IInv => RecordedOnce
  BY DEF IInv, TypeOK, Recorded, RecordedOnce
<1> QED
  BY <1>1, InvocationSafety, PTL

\* The record and the answer agree and tell how the last attempt ended.
THEOREM RecordIsTrue == Spec => []RecordTellsLastAttempt
<1>1. IInv => RecordTellsLastAttempt
  BY DEF IInv
<1> QED
  BY <1>1, InvocationSafety, PTL

\* Both together: one record, and a true one.
THEOREM RecordHolds == Spec => []OneTrueRecord
BY OneRecord, RecordIsTrue, PTL DEF OneTrueRecord

\* No attempt is left running without having been told to stop.
THEOREM NoneAbandoned == Spec => []AbandonedAreCancelled
<1>1. IInv => AbandonedAreCancelled
  BY DEF IInv
<1> QED
  BY <1>1, InvocationSafety, PTL

\* maxElapsedTime bounds the call, up to the lateness of two timers.
THEOREM BudgetHolds == Spec => []WithinBudget
<1>1. IInv => WithinBudget
  BY DEF IInv, Timely
<1> QED
  BY <1>1, InvocationSafety, PTL

\* Only transient errors are retried, after the backoff and retryCount times at
\* most, and no retry is left out.
THEOREM RetriesHold == Spec => RetriesWhileWorthIt
<1> DEFINE Retry == (attempts > 0 /\ attempts' # attempts) =>
                      /\ attempts' = attempts + 1 /\ attempts <= policy.retryCount
                      /\ Retryable(Verdict(attempts))
                      /\ elapsed >= begun + Delay(attempts)
<1>1. IInv /\ Next => Retry
  <2> SUFFICES ASSUME IInv, Next, attempts > 0, attempts' # attempts
               PROVE  /\ attempts' = attempts + 1 /\ attempts <= policy.retryCount
                      /\ Retryable(Verdict(attempts))
                      /\ elapsed >= begun + Delay(attempts)
    OBVIOUS
  <2>1. FirstAttempt \/ Wake
    BY DEF Next, LookupFails, Skip, Reject, AttemptSucceeds, AttemptFails, DeadlineFires,
           LateAnswer, Tick, RecorderReturns, RecorderThrows, Answered
  <2>2. Wake
    BY <2>1 DEF IInv, Counted, FirstAttempt
  <2>3. attempts \in Attempt
    BY DEF IInv, TypeOK, Attempt
  <2>4. Delay(attempts) \in Nat
    BY <2>3, DelayIsNatural DEF IInv
  <2> QED
    BY <2>2, <2>4 DEF IInv, TypeOK, BackoffJustified, Wake, StartAttempt
<1>2. IInv' => GivesUpOnlyWhenSpent'
  BY DEF IInv
<1>3. IInv /\ IInv' /\ [Next]_vars => [Retry /\ GivesUpOnlyWhenSpent']_vars
  BY <1>1, <1>2
<1> QED
  BY <1>3, InvocationSafety, PTL DEF Spec, RetriesWhileWorthIt
=============================================================================
