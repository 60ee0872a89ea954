----------------------------- MODULE Invocation -----------------------------
(***************************************************************************)
(* One call of DefaultRuntimeExecutor.invoke: the lookup, the checks made  *)
(* before anything is sent, the attempts DefaultResilienceExecutor makes   *)
(* under their deadlines, retry count and time budget, the response        *)
(* pipeline, and the record handed to the recorder.                        *)
(*                                                                         *)
(* Time is discrete and counted from the start of execute().  A timer      *)
(* fires at its time or up to Lag units later, as on a busy event loop.    *)
(* An attempt whose deadline has passed is told to stop by its signal but  *)
(* goes on until it notices: it may answer while later attempts run.       *)
(***************************************************************************)
EXTENDS Integers, Sequences

CONSTANTS Policy,    \* the timeout and resilience settings considered
          MaxDelay,  \* DEFAULT_MAX_DELAY_MS
          Lag,       \* how late a timer may fire
          Horizon    \* bound: the clock of the model stops here

MaxRetryCount == 10  \* the schema's limit on retryCount

\* requestTimeout = 0 is no deadline per attempt; maxElapsedTime = 0 stands for
\* an absent one, which the schema does not admit as a value.
ASSUME PolicyAssumption ==
  Policy \subseteq [retryCount : 0 .. MaxRetryCount, retryDelay : Nat \ {0},
                    backoff : {"fixed", "exponential"},
                    requestTimeout : Nat, maxElapsedTime : Nat]
ASSUME TimeAssumption == MaxDelay \in Nat \ {0} /\ Lag \in Nat /\ Horizon \in Nat
ASSUME PowersAreNatural == \A n \in 0 .. MaxRetryCount : 2 ^ n \in Nat

VARIABLES policy,    \* the component's settings
          pc,        \* where invoke is
          elapsed,   \* Date.now() - startedAt of execute()
          begun,     \* when the current attempt began
          wake,      \* when the current backoff ends
          attempts,  \* the attempts started
          att,       \* what became of each attempt
          records,   \* what was handed to the recorder
          answer     \* what the caller was answered

vars == <<policy, pc, elapsed, begun, wake, attempts, att, records, answer>>

\* How the checks before the first attempt may end the invocation.
Rejection == {"TRANSFORMATION_ERROR", "UNKNOWN_COMPONENT_TYPE", "NOT_IMPLEMENTED",
              "VALIDATION_FAILED", "ENV_REF_UNRESOLVED"}

\* How an attempt may fail; EXTERNAL_RETRYABLE is an EXTERNAL_ERROR whose
\* status is in retryOn.
Failure == {"TIMEOUT", "CONNECTION_ERROR", "EXTERNAL_RETRYABLE", "EXTERNAL_ERROR", "OTHER"}

\* How the response pipeline may fail.
PipelineFailure == {"RESPONSE_VALIDATION_FAILED", "TRANSFORMATION_ERROR"}

Code == {"OK", "SKIPPED", "NOT_FOUND", "INTERNAL_ERROR"}
          \cup Rejection \cup Failure \cup PipelineFailure

Attempt == 1 .. MaxRetryCount + 1
NoAnswer == [status |-> "none", code |-> "OK"]

TypeOK ==
  /\ policy \in Policy
  /\ pc \in {"lookup", "attempt", "backoff", "recording", "done"}
  /\ elapsed \in Nat /\ begun \in Nat /\ wake \in Nat
  /\ attempts \in 0 .. MaxRetryCount + 1 /\ attempts <= policy.retryCount + 1
  /\ att \in [Attempt -> {"none", "running", "cancelled", "late", "value"} \cup Failure]
  /\ records \in Seq([status : {"success", "failed", "skipped"}, code : Code,
                      attempts : 0 .. MaxRetryCount + 1, result : {"mapped", "null"}])
  /\ answer \in [status : {"none", "success", "failed", "skipped"}, code : Code]

Init ==
  /\ policy \in Policy
  /\ pc = "lookup"
  /\ elapsed = 0 /\ begun = 0 /\ wake = 0
  /\ attempts = 0
  /\ att = [n \in Attempt |-> "none"]
  /\ records = <<>>
  /\ answer = NoAnswer

-----------------------------------------------------------------------------
\* isRetryable
Retryable(code) == code \in {"TIMEOUT", "CONNECTION_ERROR", "EXTERNAL_RETRYABLE"}

\* delayFor
Delay(n) ==
  LET grown == policy.retryDelay * (IF policy.backoff = "exponential" THEN 2 ^ (n - 1) ELSE 1)
  IN IF grown < MaxDelay THEN grown ELSE MaxDelay

HasBudget == policy.maxElapsedTime # 0
RemainingBudget == policy.maxElapsedTime - elapsed

\* Mutant: the timer does not take the budget into account.
ExpiredByTimeout(t) ==
  policy.requestTimeout # 0 /\ t >= begun + policy.requestTimeout

\* The timer of the current attempt, armed with the smaller of requestTimeout
\* and the remaining budget, has expired by time t.
Expired(t) ==
  \/ policy.requestTimeout # 0 /\ t >= begun + policy.requestTimeout
  \/ HasBudget /\ t >= policy.maxElapsedTime /\ t >= begun

Finish(status, code, result) ==
  /\ records' = Append(records, [status |-> status, code |-> code,
                                 attempts |-> attempts, result |-> result])
  /\ pc' = "recording"

\* invoke's catch: the failure is mapped if it can be, and recorded.
Fail(code) ==
  \E result \in {"mapped", "null"} : Finish("failed", code, result)

-----------------------------------------------------------------------------
\* findByKey finds nothing, or throws: neither is inside invoke's try.
LookupFails ==
  /\ pc = "lookup"
  /\ \E code \in {"NOT_FOUND", "INTERNAL_ERROR"} :
       answer' = [status |-> "failed", code |-> code]
  /\ pc' = "done"
  /\ UNCHANGED <<policy, elapsed, begun, wake, attempts, att, records>>

\* The component's condition is false.
Skip ==
  /\ pc = "lookup"
  /\ Finish("skipped", "SKIPPED", "null")
  /\ UNCHANGED <<policy, elapsed, begun, wake, attempts, att, answer>>

\* A check fails before anything is sent.
Reject ==
  /\ pc = "lookup"
  /\ \E code \in Rejection : Fail(code)
  /\ UNCHANGED <<policy, elapsed, begun, wake, attempts, att, answer>>

StartAttempt ==
  /\ attempts' = attempts + 1
  /\ att' = [att EXCEPT ![attempts + 1] = "running"]
  /\ begun' = elapsed
  /\ pc' = "attempt"

\* The first attempt begins in the same run as the checks.
FirstAttempt ==
  /\ pc = "lookup"
  /\ StartAttempt
  /\ UNCHANGED <<policy, elapsed, wake, records, answer>>

\* Mutants: retries that are not counted; one retry too few; a backoff that
\* ignores the budget.
AfterErrorUncounted(code) ==
  IF ~Retryable(code) \/ (HasBudget /\ Delay(attempts) >= RemainingBudget)
    THEN Fail(code) /\ wake' = wake
    ELSE /\ wake' = elapsed + Delay(attempts)
         /\ pc' = "backoff"
         /\ UNCHANGED records

AfterErrorOffByOne(code) ==
  IF attempts >= policy.retryCount \/ ~Retryable(code)
       \/ (HasBudget /\ Delay(attempts) >= RemainingBudget)
    THEN Fail(code) /\ wake' = wake
    ELSE /\ wake' = elapsed + Delay(attempts)
         /\ pc' = "backoff"
         /\ UNCHANGED records

AfterErrorUnbudgeted(code) ==
  IF attempts > policy.retryCount \/ ~Retryable(code)
    THEN Fail(code) /\ wake' = wake
    ELSE /\ wake' = elapsed + Delay(attempts)
         /\ pc' = "backoff"
         /\ UNCHANGED records

\* execute's catch and what follows it: rethrow, or sleep before the next attempt.
AfterError(code) ==
  IF attempts > policy.retryCount \/ ~Retryable(code)
       \/ (HasBudget /\ Delay(attempts) >= RemainingBudget)
    THEN Fail(code) /\ wake' = wake
    ELSE /\ wake' = elapsed + Delay(attempts)
         /\ pc' = "backoff"
         /\ UNCHANGED records

\* The response pipeline runs on the value of the attempt that won.
RunPipeline ==
  \/ Finish("success", "OK", "mapped")
  \/ \E code \in PipelineFailure : Fail(code)

\* The current attempt answers before its deadline.
AttemptSucceeds ==
  /\ pc = "attempt" /\ att[attempts] = "running"
  /\ att' = [att EXCEPT ![attempts] = "value"]
  /\ RunPipeline
  /\ UNCHANGED <<policy, elapsed, begun, wake, attempts, answer>>

AttemptFails ==
  /\ pc = "attempt" /\ att[attempts] = "running"
  /\ \E code \in Failure :
       /\ att' = [att EXCEPT ![attempts] = code]
       /\ AfterError(code)
  /\ UNCHANGED <<policy, elapsed, begun, attempts, answer>>

\* Mutant: the timer rejects the race without aborting the attempt.
DeadlineWithoutAbort ==
  /\ pc = "attempt" /\ Expired(elapsed)
  /\ AfterError("TIMEOUT")
  /\ UNCHANGED <<policy, elapsed, begun, attempts, att, answer>>

\* The timer rejects the race and aborts the attempt's signal.
DeadlineFires ==
  /\ pc = "attempt" /\ Expired(elapsed)
  /\ att' = [att EXCEPT ![attempts] = "cancelled"]
  /\ AfterError("TIMEOUT")
  /\ UNCHANGED <<policy, elapsed, begun, attempts, answer>>

\* A cancelled attempt ends, however late; its race was settled by its deadline.
LateAnswer ==
  /\ \E n \in Attempt : /\ att[n] = "cancelled"
                        /\ att' = [att EXCEPT ![n] = "late"]
  /\ UNCHANGED <<policy, pc, elapsed, begun, wake, attempts, records, answer>>

\* The backoff sleep ends.
Wake ==
  /\ pc = "backoff" /\ elapsed >= wake
  /\ StartAttempt
  /\ UNCHANGED <<policy, elapsed, wake, records, answer>>

\* Time passes, but no timer is left overdue by more than Lag.
Tick ==
  /\ elapsed < Horizon
  /\ \/ pc = "attempt" /\ ~Expired(elapsed - Lag)
     \/ pc = "backoff" /\ elapsed < wake + Lag
  /\ elapsed' = elapsed + 1
  /\ UNCHANGED <<policy, pc, begun, wake, attempts, att, records, answer>>

Answered(r) ==
  /\ answer' = [status |-> r.status, code |-> r.code]
  /\ pc' = "done"
  /\ UNCHANGED <<policy, elapsed, begun, wake, attempts, att, records>>

RecorderReturns ==
  /\ pc = "recording"
  /\ Answered(records[Len(records)])

\* Mutant: record() rethrows, and invoke's own catch records a failure.
RecorderThrowsOut ==
  /\ pc = "recording"
  /\ IF records[Len(records)].status = "success"
       THEN /\ Fail("INTERNAL_ERROR")
            /\ UNCHANGED <<policy, elapsed, begun, wake, attempts, att, answer>>
       ELSE Answered(records[Len(records)])

\* record() swallows whatever the recorder throws.
RecorderThrows ==
  /\ pc = "recording"
  /\ Answered(records[Len(records)])

Next ==
  \/ LookupFails
  \/ Skip
  \/ Reject
  \/ FirstAttempt
  \/ AttemptSucceeds
  \/ AttemptFails
  \/ DeadlineFires
  \/ LateAnswer
  \/ Wake
  \/ Tick
  \/ RecorderReturns
  \/ RecorderThrows

Spec == Init /\ [][Next]_vars

\* The lookup and the recorder settle, timers fire, time passes.  Nothing is
\* assumed of what the attempts talk to.
Fairness ==
  /\ WF_vars(LookupFails \/ Skip \/ Reject \/ FirstAttempt)
  /\ WF_vars(DeadlineFires)
  /\ WF_vars(Wake)
  /\ WF_vars(Tick)
  /\ WF_vars(RecorderReturns \/ RecorderThrows)

FairSpec == Spec /\ Fairness

-----------------------------------------------------------------------------
\* runtime-executor.ts 131, 167: an invocation whose component was found is
\* recorded once, whichever way it ends and whatever the recorder throws; one
\* whose component was not found is not recorded.
RecordedOnce ==
  /\ Len(records) = IF pc \in {"lookup", "attempt", "backoff"} THEN 0
                    ELSE IF pc = "done" /\ answer.code = "NOT_FOUND" THEN 0
                    ELSE IF pc = "done" /\ answer.code = "INTERNAL_ERROR" THEN 0
                    ELSE 1

\* What attempt n came to, as execute() saw it: an attempt whose deadline
\* passed timed out, whatever it answered later.
Verdict(n) == IF att[n] \in {"cancelled", "late"} THEN "TIMEOUT" ELSE att[n]

\* runtime-executor.ts 131-169 with resilience-executor.ts 67-80: the record
\* and the answer agree, and both tell how the last attempt ended: no earlier
\* attempt's late answer, no mapping failure and no recorder failure takes the
\* place of that outcome, and the attempts recorded are those started.
RecordTellsLastAttempt ==
  \A i \in 1 .. Len(records) :
    LET r == records[i]
    IN /\ r.attempts = attempts
       /\ pc = "done" => answer = [status |-> r.status, code |-> r.code]
       /\ attempts = 0 => r.status # "success"
       /\ attempts > 0 => IF Verdict(attempts) = "value"
                            THEN r.code \in {"OK"} \cup PipelineFailure
                            ELSE r.status = "failed" /\ r.code = Verdict(attempts)

\* One record, and a true one, although the handler of failures encloses the
\* recording and late attempts go on beside it.
OneTrueRecord == RecordedOnce /\ RecordTellsLastAttempt

\* resilience-executor.ts 62-65: when a call goes on or has ended, every
\* attempt still in progress but the one being awaited has been told to stop.
AbandonedAreCancelled ==
  \A n \in Attempt : att[n] = "running" => n = attempts /\ pc = "attempt"

\* resilience-executor.ts 53, 59, 82: with maxElapsedTime a call takes no longer
\* than that, give or take the lateness of two timers: that of a backoff, which
\* may end with no budget left, and that of the deadline of the attempt it starts.
WithinBudget ==
  HasBudget => elapsed <= policy.maxElapsedTime + 2 * Lag

\* A call ends with an error worth retrying only when the retries are used up or
\* the budget would not outlast the backoff.
GivesUpOnlyWhenSpent ==
  \A i \in 1 .. Len(records) :
    (attempts > 0 /\ Retryable(records[i].code)) =>
      \/ attempts = policy.retryCount + 1
      \/ HasBudget /\ Delay(attempts) >= RemainingBudget

\* resilience-executor.ts 72-82: the loop tries again when it should and only
\* then.  An attempt follows only one that failed in a way worth retrying, after
\* its backoff, and never beyond retryCount; and none is left untried.
RetriesWhileWorthIt ==
  [][/\ (attempts > 0 /\ attempts' # attempts) =>
          /\ attempts' = attempts + 1 /\ attempts <= policy.retryCount
          /\ Retryable(Verdict(attempts))
          /\ elapsed >= begun + Delay(attempts)
     /\ GivesUpOnlyWhenSpent']_vars

\* A deadline of either kind bounds the call even when nothing ever answers:
\* the caller is answered.
HasDeadline == policy.requestTimeout # 0 \/ HasBudget
EveryInvocationEnds == HasDeadline ~> pc = "done"

=============================================================================
