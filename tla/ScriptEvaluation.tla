-------------------------- MODULE ScriptEvaluation --------------------------
(***************************************************************************)
(* One evaluation of a script: WorkerScriptEvaluator.evaluate on the host  *)
(* and script-worker.ts in the worker, which share nothing but messages.   *)
(* A script may call back into the server (apiconfy.invoke) any number of  *)
(* times, may or may not await the answers, and may end, fail, spin for    *)
(* ever or be cut off by the deadline while its calls are in progress.     *)
(*                                                                         *)
(* What a nested invocation does between its start and its answer is left  *)
(* to the modules that extend this one.                                    *)
(***************************************************************************)
EXTENDS Naturals, Sequences, FiniteSets

CONSTANT Call   \* bound: the calls the script may make

ASSUME CallAssumption == IsFiniteSet(Call)

VARIABLES signal,   \* the attempt's signal has been aborted
          outcome,  \* how evaluate() settled
          worker,   \* the worker thread
          inbox,    \* messages of the worker the host has not received
          call      \* where each call of the script is

evalVars == <<signal, outcome, worker, inbox, call>>

Outcome == {"value", "failed", "deadline"}

\* The worker posts each call and its result once.  One that is "finished" has
\* posted its result and still receives replies.  A call is posted, being invoked
\* by the host, replied to, and resolved in the worker; a reply to a settled
\* evaluation is dropped.
EvalTypeOK ==
  /\ signal \in BOOLEAN
  /\ outcome \in {"none", "pending"} \cup Outcome
  /\ worker \in {"none", "running", "finished", "terminated"}
  /\ inbox \in Seq(Call \cup {"ok", "error"})
  /\ Len(inbox) <= Cardinality(Call) + 1
  /\ call \in [Call -> {"none", "posted", "invoking", "replied", "resolved", "dropped"}]

EvalInit ==
  /\ signal = FALSE
  /\ outcome = "none"
  /\ worker = "none"
  /\ inbox = <<>>
  /\ call = [c \in Call |-> "none"]

-----------------------------------------------------------------------------
\* Mutant: finish() terminates the worker only when it fails.
FinishKeepsWorker(how) ==
  IF outcome = "pending"
    THEN /\ outcome' = how
         /\ worker' = IF how = "value" THEN worker ELSE "terminated"
    ELSE UNCHANGED <<outcome, worker>>

\* finish: the first of result, failure and deadline settles the evaluation and
\* terminates the worker; the others find it settled.
Finish(how) ==
  IF outcome = "pending"
    THEN outcome' = how /\ worker' = "terminated"
    ELSE UNCHANGED <<outcome, worker>>

\* evaluate: no worker is started for a signal already aborted, and starting
\* one may fail.
Evaluate ==
  /\ outcome = "none"
  /\ \/ signal /\ outcome' = "deadline" /\ worker' = worker
     \/ ~signal /\ outcome' = "failed" /\ worker' = worker
     \/ ~signal /\ outcome' = "pending" /\ worker' = "running"
  /\ UNCHANGED <<signal, inbox, call>>

\* The deadline of the attempt, cleared when the attempt has ended, aborts the
\* signal; onAbort runs at once, if the evaluation has begun.
Abort ==
  /\ ~signal /\ outcome \notin Outcome
  /\ signal' = TRUE
  /\ Finish("deadline")
  /\ UNCHANGED <<inbox, call>>

\* rpc(): the script calls a tool.  Arguments that cannot be serialized are
\* answered in the worker, without a message.
WorkerCalls(c) ==
  /\ worker = "running" /\ call[c] = "none"
  /\ \/ call' = [call EXCEPT ![c] = "posted"] /\ inbox' = Append(inbox, c)
     \/ call' = [call EXCEPT ![c] = "resolved"] /\ inbox' = inbox
  /\ UNCHANGED <<signal, outcome, worker>>

\* evaluate() in the worker posts its only result, whether or not calls are pending.
WorkerEnds ==
  /\ worker = "running"
  /\ worker' = "finished"
  /\ \E result \in {"ok", "error"} : inbox' = Append(inbox, result)
  /\ UNCHANGED <<signal, outcome, call>>

\* onerror, onclose: the worker breaks down.
WorkerBreaks ==
  /\ worker \in {"running", "finished"}
  /\ Finish("failed")
  /\ UNCHANGED <<signal, inbox, call>>

\* onmessage with the result; one that does not parse is a failure.
HostReceivesResult ==
  /\ inbox # <<>> /\ Head(inbox) \in {"ok", "error"}
  /\ \/ Head(inbox) = "ok" /\ Finish("value")
     \/ Finish("failed")
  /\ inbox' = Tail(inbox)
  /\ UNCHANGED <<signal, call>>

\* onmessage with a call to invoke: handleRpc starts the nested invocation,
\* also if the evaluation has been settled since the message was posted.
HostInvokes(c) ==
  /\ inbox # <<>> /\ Head(inbox) = c
  /\ call[c] = "posted"
  /\ inbox' = Tail(inbox)
  /\ call' = [call EXCEPT ![c] = "invoking"]
  /\ UNCHANGED <<signal, outcome, worker>>

\* Mutant: no reply is posted.
ReplyLost(c) ==
  call' = [call EXCEPT ![c] = "dropped"]

\* reply: posted to the worker only while the evaluation is alive.
Reply(c) ==
  call' = [call EXCEPT ![c] = IF outcome = "pending" THEN "replied" ELSE "dropped"]

\* executeWorkflow and generate answer NOT_IMPLEMENTED without an execution.
HostAnswersAtOnce(c) ==
  /\ inbox # <<>> /\ Head(inbox) = c
  /\ inbox' = Tail(inbox)
  /\ Reply(c)
  /\ UNCHANGED <<signal, outcome, worker>>

\* What a terminated worker had posted may not be delivered any more.
InboxLost ==
  /\ worker = "terminated" /\ inbox # <<>>
  /\ inbox' = <<>>
  /\ call' = [c \in Call |-> IF call[c] = "posted" THEN "dropped" ELSE call[c]]
  /\ UNCHANGED <<signal, outcome, worker>>

\* onmessage in the worker: the promise of the call is resolved.
WorkerReceives(c) ==
  /\ worker \in {"running", "finished"} /\ call[c] = "replied"
  /\ call' = [call EXCEPT ![c] = "resolved"]
  /\ UNCHANGED <<signal, outcome, worker, inbox>>

\* The steps that start and end no nested invocation.
EvalStep ==
  \/ Evaluate
  \/ WorkerEnds
  \/ WorkerBreaks
  \/ HostReceivesResult
  \/ InboxLost
  \/ Abort
  \/ \E c \in Call : WorkerCalls(c) \/ HostAnswersAtOnce(c) \/ WorkerReceives(c)

-----------------------------------------------------------------------------
\* script-evaluator.ts 37-39, 60-69: "terminated on every exit path".  However
\* an evaluation ends, its worker is gone, and a worker belongs to an
\* evaluation that has not ended.
WorkerReclaimed ==
  worker \in {"running", "finished"} <=> outcome = "pending"

=============================================================================
