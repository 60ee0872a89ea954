# A TLA+ verification project for apiconfy

apiconfy is a server that runs configured *components* (REST calls, scripts)
and sequences of them (*workflows*), and keeps a record of every execution.
This directory holds TLA+ models of the parts of `apps/server/src` whose
correctness depends on the order of events, TLC configurations that check them
on small instances, and theorems about them that TLAPS checks for every value
of the constants.

Paths below are relative to `src/apps/server/src`, written `S/`.

## 1. The system

One process, one JavaScript event loop.  Code runs without interruption from
one `await` to the next, so the unit of interleaving, and of an action here, is
the code between two awaits (or one statement executed by the database).
Script workers are the only other threads, and they share no memory.

| component | source | state | operations | hard behaviours |
|---|---|---|---|---|
| queued recorder | `S/core/runtime/queued-execution-recorder.ts` | `queue`, `queuedBytes`, `pumpPromise` | `recordInvocation`, `pump`, `writeWithRetry`, `writeOnce`, `drain` | a push during the pump's last await; budgets; retries; drain racing new records |
| execution repository | `S/core/db/repositories/execution.repository.ts` | the tables `executions`, `execution_logs` | `recordInvocation` (two writes), `log` | the second write fails after the first; an answer lost after a commit; a retry of what was done |
| component registry | `S/services/component-registry.service.ts`, `S/core/db/repositories/component.repository.ts` | `component_definitions` | create, update, remove, get, list | check-then-act over awaits: lost updates, overlapping deletes, re-created keys |
| workflows | `S/services/workflow.service.ts` | `workflow_definitions`, `workflow_steps` | create, execute | two creators of one name; a component deleted between lookup and save, or between two steps of a run; no transaction |
| database adapters | `S/core/db/adapters/*` | a connection (pool), an open transaction | the methods of `DBAdapter` | foreign keys on three engines, count-then-act on two; read-back after autocommit; lost answers; cascades in several statements; absent fields |
| token cache | `S/core/auth/authenticator.ts` | `tokens`: key to promise | `resolve`, `invalidate` | shared promises, failures and evictions out of order, one caller's abort hitting others |
| REST component | `S/core/components/rest/rest.component.ts` | none of its own | `execute` with one replay after a 401 | replay racing other replays; attempts that outlive their deadline |
| socket transport | `S/core/components/rest/timed-transport.ts` | per request: two timers, `finished`, promise and body stream | `timedRequest`, `abort`, `cancel` | timers, answer, error and abort in any order; errors after the headers |
| resilience | `S/core/runtime/resilience-executor.ts` | per call: attempt, budget | `execute` | deadline against answer, retry budget, attempts that ignore cancellation |
| runtime executor | `S/core/runtime/runtime-executor.ts` | per call: attempts, request, secrets | `invoke` | exactly one record per invocation; late attempts writing to shared variables |
| script evaluator | `S/core/runtime/script-*.ts` | per call: worker, `settled` | `evaluate`, RPC | deadline against result; replies after the end; nested invocations nobody awaits |
| shutdown | `S/index.ts` | `shuttingDown` | `shutdown` | records queued during or after the drain |
| transforms, env refs, redaction, validation, schemas | `S/core/transform`, `S/core/env-ref`, `S/lib`, `S/core/schema` | none: they act on a stored configuration | check at registration, mask at reading, resolve at invocation | one text read by several scanners that must agree; recursion, boundaries |
| HTTP surface | `S/app.ts`, `S/routes`, `S/middleware` | none | routing, auth, error envelopes | none of its own |

A request to invoke a component goes from its route to the runtime executor,
which looks the component up in the repository, runs the handler under the
resilience executor (the REST handler asks the token cache for a token), and
hands one record to the queued recorder, whose pump writes it through the
execution repository and the engine's adapter.  A workflow does so for each of
its steps; a script may invoke other components through its bridge.  Shutdown
stops the server, drains the recorder and closes the database.

### What makes each part correct

* Recorder: whatever the interleaving, a queued record has a pump, there is one
  pump, budgets hold, records are written in order, each has one fate, a
  successful drain leaves nothing behind, and nothing waits for ever.
* Execution repository: what is reported of a record is what the tables hold.
* Catalogue: requests change only what they looked up; steps point at
  components; a workflow has one author and, once reported, all its steps.
* Token cache: no poisoned entry stays; a fresh token is not dropped for an old
  failure; no more token requests than callers are owed; every attempt ends.
* Runtime and resilience executor: one record per invocation, which tells how
  its last attempt ended; a deadline bounds every call; only transient errors are
  retried, within count and budget; what is abandoned is told to stop.
* Script evaluator: no worker outlives its evaluation; an awaited call is
  answered.
* Shutdown: a signal ends the process whatever hangs; when nothing was cut short
  no request's record is lost.
* Workflow run: steps run in order, each with the component it names, up to the
  first failure that halts; success means that all ran.
* Adapters: the five are interchangeable (a field reads back as it was last set,
  absent or not, but for what overlapping updates on Couchbase put back); a workflow goes with its steps; a transaction is all or nothing.
* Socket transport: until a request is over exactly one timer guards it, and then
  none; every error has a hearer; a timeout means silence.
* Configuration: what registration accepts the runtime can use; no template text
  is sent, but for what forms where pieces are joined; resubmitting what a read API showed loses no secret; an expression and
  a field rule mean what their definition says.

## 2. The modules

| module | models | state and actions against the code |
|---|---|---|
| `Recorder` | what the recorder promises (abstract) | a FIFO `backlog`, a `bypass` of diverted records, one `fate` each |
| `QueuedRecorder` | the recorder | the class's fields, plus `stage` (where each record is: queued, held by the pump, in backoff, written by its caller, settled), `attempts` and the state of one `drain()` call.  `Pump` is the pump's loop from its test to the next await; `Enqueue` starts one exactly when `pumpPromise ??=` does |
| `AuditTrail` | recorder + repository + engine (extends `QueuedRecorder`) | `rows` and `audits` count each record's rows in the two tables; a write is `SaveReturns`/`SaveThrows`, then `LogReturns`/`LogThrows`.  Which outcomes an insert has is said engine by engine |
| `Catalog` | registry, component repository, `WorkflowService.create`, the five engines | `rows` by natural key, `steps`, `workflows`, and the request each client has in progress with what it has read.  The engine is chosen initially and decides which actions a request goes through |
| `WorkflowRun` | `WorkflowService.execute` beside the requests of `Catalog`, which it extends | `run` is where each client's execution is: the steps it read (`read`), the natural key of the component found (`key`), and the `log` of what each invocation ran.  An invocation succeeds or fails as it likes, and fails when its component is gone |
| `Store`, `SqliteStore`, `PostgresStore`, `OracleStore`, `MongoStore`, `CouchbaseStore` | what the adapters share; each adapter | `db` is the tables, one row per kind reduced to one optional column; `call` the statement each client is at; `tx` its transaction (what it has written, and the rows its foreign keys hold).  An action is a statement, so a method is as many actions as it has awaits |
| `Adapters` | the five adapters with their callers and transactions | the engine is chosen initially; `Submit` calls any method; statements fail (`StatementFails`), commits go unanswered |
| `SocketTransport` | `timedRequest` | the closure's variables, with each timer as the time it has left; `silence` is the time since the peer was last heard; an action is a callback |
| `Templates`, `Expressions`, `FieldRules` | paths, templates, environment references and masks; the expression language; field rules | operators and recursive functions (no RECURSIVE operator, so that they can be proved about), with the lexemes that may occur (`Names`, `Indices`) as constants; a text is a sequence of lexemes (`{`, `$`, `}`, names, dots, indices, other text), so that rendering may form a bracket `{$` which neither piece held; an expression is a sequence of tokens.  `length` is no name: `lookupPath` would find it in an array.  `Expressions!Meaning` and `FieldRules!Wrong` are reference definitions, written from the grammar and from the meaning of a path and not from the code's order |
| `ConfigLifecycle` | a configuration from registration through reading and resubmission to invocation | `draft`, `stored`, `shown`, `from` (what was shown), and the `last` operation with its outcome.  The constant `Depth` of `Templates` bounds the nesting of payloads |
| `TokenCache` | token cache + REST replay, for one cache key | `cache` holds a fetch (a promise); `fetch` is the state of each; `evicting` holds the rejections whose `catch` reaction is queued; `pc`, `tok`, `replayed`, `aborted` describe the attempts |
| `Invocation` | runtime executor + resilience executor, one call of `invoke` | `pc` is where the call is; `elapsed`, `begun` and `wake` are the clock of `execute()`; `att` says what became of each attempt, `records` what was handed to the recorder, `answer` what the caller got.  `DeadlineFires` is the timer's callback and the `catch` after it; an attempt it cut off stays `cancelled` until it ends by itself (`LateAnswer`).  `Expired` stands for the timer armed with the smaller of `requestTimeout` and the remaining budget |
| `ScriptEvaluation` | script evaluator, worker and bridge, one evaluation | `outcome` is how `evaluate()` settled (the flag `settled` with its promise), `inbox` the messages from the worker, `call` where each tool call is.  `Finish` is `finish()`: first come, first served.  What a nested invocation does is left open |
| `Shutdown` | `shutdown()` with requests, a script and the recorder (extends `ScriptEvaluation`) | `phase` is the await `shutdown()` is at; `stage` follows each execution from its start to its record's fate, with the recorder taken as `Recorder` promises it; `cut` names the waits that timed out and a step that threw; `stragglers` are the executions without a record when the drain returned |
| `MC*` | small instances | constants and symmetry only; `MCConfigLifecycle` enumerates the drafts |
| `QueuedRecorder_proofs`, `Invocation_proofs`, `TokenCache_proofs`, `SocketTransport_proofs`, `Shutdown_proofs`, `WorkflowRun_proofs`, `Adapters_proofs`, `ConfigLifecycle_proofs` | theorems about the module each is named after, in `QueuedRecorder_proofs` also about `AuditTrail`, in `WorkflowRun_proofs` also about `Catalog`, in `Adapters_proofs` about the six modules below it | see section 5 |

Definitions whose comment says *Mutant* are not part of any specification: each
is a plausible wrong version of the definition below it and shows, when it is
put in that definition's place, that some property can fail.

Some details decided while reading the code:

* `pumpPromise ??= pump()` runs the pump up to its first await inside
  `recordInvocation`; the restart in `pump`'s `finally` runs in the same
  synchronous block as the failed loop test and so never finds a record (it
  matters only if a logger throws).
* `pending.catch(...)` is registered before any caller awaits the promise, so
  its reaction precedes theirs; but it is a microtask of its own, and a caller
  that arrives in between shares the rejected promise.  `Evict` is therefore
  an action of its own.
* `invalidate` and the replay's `tokens.get` are in one synchronous run, so a
  replay never shares a token: it always requests one, and it drops whatever is
  cached, also a token another replay has just obtained.  `ReplayIsFresh` says that
  this request is later than the one refused and that nobody is handed an
  older one afterwards: an attempt that shared a token before the replay keeps it.
* Oracle and MongoDB read a row back in a second statement; if it was deleted
  in between, the conversion throws although the write is durable (`Reselect`).
* `Promise.race` settles an attempt at its deadline, but the attempt's own promise
  goes on.  Its late value or error goes nowhere: each race is over its own
  attempt.  (A late `onRequest` may still replace the request summary of the
  record, which is data this model leaves out.)
* The budget is checked when the backoff is chosen, not when it ends.  A sleep
  that ends late may start an attempt with no budget left, whose timer then
  fires at once: a call may overrun `maxElapsedTime` by the lateness of two
  timers, which is what `WithinBudget` allows.
* `findByKey` is called before the `try` of `invoke`: an unknown component, or a
  lookup that throws, is answered without a record.
* A script's nested call goes to the runtime executor directly, not through the
  server: `server.stop()` and `pendingRequests` do not see it.
* `server.stop(true)` closes connections; the handlers behind them go on.
* MongoDB creates a missing `execution_logs` collection on the first insert.

## 3. The runs

| run | instance | question |
|---|---|---|
| `recorder` | 4 records, one of three bytes; queue of 2 entries and 3 bytes; 2 attempts | one pump serves the queue, budgets, drain, order and fate of records (the refinement of `Recorder`), liveness |
| `audit_trail` | 3 records, queue of 1, 2 attempts, all five engines, flag on and off, table there or not | what is reported against what is stored |
| `audit_flag_off` | the same | violation: audit rows are written with the flag off |
| `catalog` | 2 clients with a request or a run each, 2 natural keys, a workflow of 2 steps of which one halts and one continues, 3 ids, four engines (PostgreSQL takes SQLite's path but for the code of an error) | integrity of the catalogue, and what a run executes while it changes |
| `lost_update` | 2 requests, PostgreSQL, required versions 1 and 2 | violation: two updates that require the same version both succeed |
| `token_cache` | 3 attempts, up to 6 token requests | the cache's properties and liveness |
| `invocation` | 9 policies (deadline, budget, both, neither; 0, 2 or 3 retries; fixed and exponential backoff), timers up to 2 units late, clock to 24 | one true record, budget, retries, and that every call with a deadline ends |
| `shutdown` | a script's request and a plain one, one call of the script | worker's life, records across the end of the process, liveness |
| `mid_drain` | the same | violation: a record is queued during the drain although nothing was cut short |
| `transport` | connect timeout 2, read timeout 3, timers up to 1 late, 3 pieces of body | guards, errors, timeouts and the end of every request |
| `adapters` | 2 clients, 2 step ids, 3 calls, all five engines, a component, a workflow and steps there or not | reading back, orphans, cascades, transactions |
| `config_lifecycle` | templates of up to three pieces at each place; expressions of up to three tokens of the whole language and up to six of a part of it; field rules with paths of up to three segments and payloads three levels deep | what registration accepts against what the runtime does |

Bounds.  The recorder's interesting cases need a record held by the pump, one
queued, one diverted, and one arriving; both budgets must be able to fill, and
a retry must be distinguishable from a last attempt: hence four records (three
where the database is added), a budget of two (one) and two attempts instead of
500, 32 MiB and four.  The proofs of section 5 hold for all values.  In the
catalogue every hazard found is a race of two requests, or of a request and a
run, on one key, with at most one re-creation of the key; `MaxId` and
`MaxVersion` bound these and guard `Create` and `Submit`.  Three attempts let
one replay race another while a third shares either's token.

The policies of `invocation` are such that each of the three ends of a retry
loop (success or permanent error, count, budget) is reached, with a budget that
runs out in an attempt, in a backoff, and exactly at a timeout.  The clock stops
at 24, above the end of the longest call that has a deadline, so that the bound
ends no such call; a call with neither deadline nor budget may wait for ever.  In
`shutdown` a nested call that is not awaited, one awaited, and one that outlives
its evaluation are one call in different behaviours; the plain request shows
what does not depend on scripts.

In `transport` the read timeout is longer than the connect timeout and the
lateness, so that a timer taken for the other shows; `MaxChunks` bounds `Data`,
and each piece leads to the same states as the one before but for the count.
In `adapters` a behaviour starts from any deployment in use and makes at most
`MaxCalls` calls: three are two in a transaction beside one outside, or an
update between two others.  A column has three values (absent, empty, other),
which is all that conversions tell apart.  In `config_lifecycle` three pieces
are a template before, inside and after another or after a fragment of one;
six tokens hold a chain of connectives, a negation of one, and nested
parentheses; three segments hold a wildcard below a wildcard.  The templates that
are a reference between two fragments (`Joined`) and the payloads that begin or
end with half a bracket make every kind of seam.

Deadlock is not checked (`CHECK_DEADLOCK FALSE`): the server may be idle for
ever once nothing is left to do; in `Catalog` a create waits when the ids of the
instance have run out, and in `Adapters` nothing is called after `MaxCalls`.

Symmetry is used for records and clients in the runs without liveness
properties.

### Fairness

* `QueuedRecorder`: a write the inner recorder started settles (drivers answer
  or error), `setTimeout` fires, the pump resumes.  Nothing forces a new record
  or a drain.
* `TokenCache`: the deadline of an attempt fires, an aborted signal rejects the
  request that carries it, the event loop runs ready code.  Nothing is assumed
  of the token or resource server: they may never answer.  This is
  `requestTimeout # 0` (the default is 60 s); with 0 there is no deadline, and
  the token request has no timeout of its own.
* `Invocation`: the lookup and the recorder settle, timers fire, time passes.
  Nothing is assumed of what the attempts talk to; hence `EveryInvocationEnds` is
  claimed only of policies with a deadline or a budget.
* `Shutdown`: timers fire; `server.stop(true)` and `db.disconnect()` settle or
  throw; messages between host and worker are delivered; nested invocations end,
  by their own deadlines, and their writes settle.  Nothing makes a script end,
  a request end, or the pump advance: the shutdown must end without them.
* `SocketTransport`: the request that was called for starts, time passes while a
  timer runs, and a due timer fires.  Nothing is assumed of the peer, of who
  reads the body, or of the caller's signal.
* The other modules are safety only.

## 4. What the runs show

All properties of the passing runs hold.  Some claim less than one might expect,
because the code does less; each of the following is a behaviour of the models.

*Engines without foreign keys.*  `NoDanglingStep`, `NoOrphan` and
`RunsWhatItNames` are about SQLite, PostgreSQL and Oracle.  On MongoDB and
Couchbase counting and acting are two statements: a delete between them leaves a
step without its component (although `mongodb-adapter.ts:331` wants a step to
"fail the way the SQL engines fail"), or without its workflow; a run may then miss
a component, or invoke another one created under the same natural key.  On
Couchbase `deleteComponent` and `updateComponent` resolve the id to a document
key and act on the key without CAS, so a component re-created in between is
deleted or overwritten: `IdentityKept` excludes that engine.  Nor is an update safe
from another there: the document is read, merged and replaced, and a field that the
call does not change goes back to what it was when the document was read.  The
model marks such a field as undone, and `ReadBack` excepts it until a call sets it.

*Overlapping deletes.*  Of two overlapping DELETEs of one component the second is
answered 404: `remove()` finds the row and `deleteComponent` no longer does.
`component-registry.service.ts:101` calls the operation idempotent, "a no-op, not
a 404"; that holds of deletes that follow each other.

*Lost answers.*  An insert that was committed and whose answer was lost is
retried, conflicts with itself on its primary key, and is reported by "Failed to
persist execution record after retries; record dropped" although it is stored; its
audit row is never written.  `ReportsMatchStore` therefore says "dropped means no
row" of SQLite alone.  MongoDB's index on `executionId` is not unique: there the
insert is repeated and the execution stored twice, so `OneRowPerExecution` claims
one row of executions on the other engines only, and one audit row on all.

*Workflows in the making.*  A workflow's steps are saved one by one after its name.
A run that overlaps the creation, or follows one that failed half-way, executes
the steps saved so far and reports success: `RunFollowsSteps` claims every step
of the definition only if all were there when the run began.

*Transactions.*  `adapter.ts:98` says nested transactions throw an AppError; on
SQLite BEGIN throws the driver's own error, also when the open transaction is
another caller's, and what other callers execute meanwhile falls into that
transaction and is undone with it.  `AllOrNothing` is about the engines that give
a transaction a connection of its own.  In MongoDB every error of a statement
passes through `guard`, which makes an AppError of it; the driver then does not
find the label by which `withTransaction` retries, so that only a failed commit is
retried.  No service calls `transaction()` yet.

*Configurations.*  An expression `{$env.X} == 1` is rejected as a rule (the schema
takes whatever begins with `{$env.` for a reference), while a rule that is exactly
one reference is accepted and then replaced by the variable's value, which is
parsed and seldom is an expression: `VerdictIsMeaning` excepts it.  `{$env.X}`
inside a longer text is no reference and resolves to `null`, since the bag's `env`
is empty.  Conditions are not searched for references.  The value of a variable is
itself read as a template, and nothing has checked it at registration.  A header
whose value came out with a `{$` is left out, and a uri with one fails.  Where may
it come from?  From payload or environment, or from a seam: `{` before a reference
whose value begins with `$`, a value ending in `{` before a `$`, or two values next to
each other (also around one that is empty).  `NoTemplateTextSent` shows that there
is no other source: it excepts a template only if it has a seam (`HasSeam`) and the
payload a string that could complete a bracket there (not `Unseamed`).  JSON inserted
for an object or an array completes none, but holds those of its strings and
keys.  So the accepted template `{{$context.a}}` is sent as `{$x}` when `a` is `$x`,
although `README.md:96` says that placeholder text can never leak into a payload and
`S/core/transform/resolve-template.ts:19` says it of headers too; TLC shows such a
behaviour as soon as the exception is taken out of `NoTemplateTextSent`.  A field
rule with a type refuses a payload without the field, also when it is not
`required`.  A view in which a field was redacted (`output.key` is
one such name) is rejected when it is submitted unchanged.

Disagreements between the code and what the repository says of it that a run
shows (each is a finding in `PROJECT.json`):

1. `README.md:403` says audit rows are written only with
   `ENABLE_DB_TRANSACTION_LOGS=true`; `recordInvocation` writes them whenever
   the table can be written, the flag only decides whether a failure counts.
2. `S/core/types.ts:38` says the required version must match the current one;
   the comparison is made on a row read earlier, and the statement that writes
   has no version in its condition.
3. `S/index.ts:71` says connections are stopped first so that nothing is queued
   during the drain.  An invocation a script started and did not wait for (or was
   cut off from by its deadline) goes on after the script's own request has
   ended, and queues its record during or after the drain; a record queued after
   it is lost with the process.  So may a request whose connection was closed by
   force, which the comment does not claim to cover.

What holds of the shutdown instead is `RecordsKept`: without a timeout or a
failed step, only such nested invocations lose their records.

## 5. What is proved

Every theorem is for all values of the constants that satisfy the module's named
assumptions: any number of records, clients, attempts, calls, keys, any timeouts
and budgets, any configurations and payloads.  The theorems of a module follow from
an inductive invariant, proved for the initial states and for every action.

**`QueuedRecorder_proofs`** (`RecorderAssumption`): `RecorderTyped`,
`QueueIsServed`, `MemoryBounded`, `BytesExact`, the action property
`DrainLosesNothing`, and `RecorderKeepsPromise`, that the recorder implements `Recorder`.  The invariants
checked by TLC are not inductive one by one.  That there is one pump is
preserved when a push starts one only because a missing pump means no record is
held and an empty queue (`PumpRunsWhenQueued`); that the pump moves a queued
record and no other needs `QueueHoldsQueued`; and the bound on attempts needs that
a record in backoff has an attempt left (`RetriesLeft`).  `RecorderInv` is their
conjunction.  The refinement uses it to show that the backlog (the held record,
then the queue) changes only at its ends.  For `BytesExact` the size of what is
queued is the cardinality of the set of its bytes (`Payload`), not a sum along
the queue: a push adds a record's bytes to the
set and to the counter, a shift takes them from both (`PayloadGrows`,
`PayloadShrinks`), and it is `QueueHoldsQueued` that keeps a record from being
counted twice.

**`QueuedRecorder_proofs`, the part about `AuditTrail`** (`RecorderAssumption`,
`EnginesAssumption`): `ReportsAreTrue` and `NothingIsDoubled`, for any set of the five
engines.  `AuditInv` adds to `RecorderInv`
four facts per record: a write whose `saveExecution` has returned is in progress,
with its row and without an audit row (`SavedOf`); no attempt leaves more than one row,
so there are no more rows than attempts, and fewer while an attempt has not
saved yet (`RowsOf`, with one row at most where the id is a key); an audit row
means that the record is settled and is not tried again (`AuditsOf`); and the
report agrees with the rows (`ReportOf`).  `audits <= 1` alone would not survive a
retry, whose audit row has a new id.  The recorder's own part is taken from
`RecorderInvStep`, so that only what is done to the rows is proved anew.

**`Invocation_proofs`** (`PolicyAssumption`, `TimeAssumption`): `InvocationTyped`,
`RecordHolds` (with its parts `OneRecord` and `RecordIsTrue`), `NoneAbandoned`,
`BudgetHolds` and the property `RetriesHold`.  `PowersAreNatural` (2^n is a natural
number for the exponents that occur) is assumed because the SMT backend has no
axioms for `^`; TLC evaluates it.  The invariant `IInv` adds to the properties what
connects them: attempts are numbered as they begin and only the last may run
(`Counted`); a backoff follows an error worth retrying and was chosen by `delayFor`
(`BackoffJustified`); a backoff was chosen with budget to spare, so that each
timer's lateness counts once (`Timely`: without it `WithinBudget` is not
inductive, since a backoff could start at any time); and nothing is recorded
before the end (`Recorded`).

**`TokenCache_proofs`** (`AttemptAssumption`): `NoPoisonStays`, `RequestsAreShared`,
`ReplaysAreFresh` and the action property `EvictionsAreOwn`.  Requests are numbered
as they start (`InOrder`) and never run out (`NumbersSuffice`: no more than attempts
begun and replayed).  `ReplayIsFresh` relates a replay to what every attempt is handed
later: what is cached is the latest request (`CachedIsLatest`), and whatever an
attempt holds was started (`HandedAreStarted`), hence is older than a request begun
now.  `SingleFlight` is a count and not inductive as it stands;
`EachIsOwed` makes it so: beyond the cached request, if that has not failed, there
are no more requests than replays and failures together, so that an attempt
which finds the cache empty may start one more.

**`SocketTransport_proofs`** (`TransportAssumption`, and `OffIsNoTime`: the number
that stands for an unarmed timer is no time a late one can show): `GuardHolds`, `ErrorsAreHeard`
and `TimeoutsAreTrue`.  `TimeoutMeansSilence` speaks of the moment a timer fires; what
makes it inductive is `Elapsed`: at every moment the time left on the armed timer
and the silence of the peer make up the timeout it was armed with, since every
byte that is heard arms it anew.

**`Shutdown_proofs`** (`RequestAssumption`, `CallAssumption`): `WorkersAreReclaimed` and
`ShutdownKeepsRecords`.  The evaluation's part (`EvalInv`) bounds the inbox by the
calls made and the one result (`Posted`, a count).  The other part (`StageInv`)
follows the order of `shutdown()`: before the disconnection nothing is
lost (`BeforeDisconnect`); without a timeout no request is in flight when the drain
begins, and every request's record is settled when it has returned (`Stopping`);
what is not settled after a drain that was waited for is a straggler's
(`Drained`, `KeptAtExit`).  `Unstarted` says that a call which has not reached the host
has no record.

**`WorkflowRun_proofs`** (`CatalogAssumption`): on every engine `RunTypes`,
`CreationsComplete` and `RunsFollowSteps`; on all but Couchbase the action property
`IdentityHolds`; with foreign keys `NoStepDangles` and `RunsAreTrue`; for any
clients whose requests and runs interleave.  A statement's effect is first
reduced to what it does to the tables and to its request (`Quiet`, `Rewrites`,
`Names`, `Adds`), which all the rest is proved about.

* `CreatedMeansComplete` is about a request that has ended; what is inductive is
  `Authors` with `Numbered`: a request that saves steps has saved the workflow's
  name, is the only one that does, and has a step left to save, and the steps
  saved so far are numbered from 1 to their count, so that whoever saves the last
  has saved all.
* A run is on its course (`OnCourse`): what it has executed is a prefix of what it
  read, each step of it succeeded or may fail, but for the one that halted it.  A
  run of a workflow that was complete reads all the steps because a complete
  workflow has no author left who could still be adding some (`FullStay`).
* With foreign keys (`OnTrueCourse`) the steps it has read are still stored, hence so
  are their components, and the natural key it looked up still means the component
  the step named; this needs that ids are unique and below the next one
  (`IdsUnique`), and that every step's component is stored (`NoneDangling`).
  Without foreign keys a deletion may fall between a look-up and the save or the
  invocation, and both properties exclude those engines.

**`Adapters_proofs`** (`StoreAssumption`, which says that step ids are none of the
names of tables and values): `FieldsReadBack`, `KeysHold`, and
the action properties `DeletionsTakeSteps` and `TransactionsAreWhole`, for any
clients, any step ids, any of the five engines and any number of calls, in
transactions and outside.  `CallEffects` shows, engine by engine, that every statement is an instance of one relation,
`Effect` (the call moves; nothing is written, or a transaction opens, or rows are
written under one of a few conditions on what the writer saw) that also `Clears`
(it removes a workflow only with what is left of its steps).  The invariant
`AdaptersInv` is then proved of `Effect` alone, of a transaction's end, and of a
new call:

* `GoodInv`: every row reads as it was meant, in the tables, in what a transaction
  has written, in the snapshot it may return to, and in the document a Couchbase
  call has read and will replace.  What was meant belongs to the tables and not to
  the document: it is read again when the document is replaced, and a field that
  differs by then is undone (`ReplaceDocument`), so that the theorem says just which
  fields may be lost.
* `KeyInv`, with foreign keys: the steps have their workflow and component in the
  tables and in the view of every transaction.  It is inductive because of the
  locks: a transaction that added a step holds the rows the step refers to
  (`keys`), and no other transaction has removed these, so that what two
  transactions have written can be committed in either order (`Merged`).
* `StepInv`: a step id is in one place (the insert still to come, one
  transaction, or the tables), since `generateId()` makes none twice: a step that
  was removed does not come back.
* `LeftInv`: of the steps a deletion found at its call, those still stored are
  those it has still to remove, which on MongoDB and Couchbase takes several
  statements.

`TransactionsAreWhole` follows from `Effect`: in a transaction that has its own
connection no statement writes to the tables.

**`ConfigLifecycle_proofs`** (`DraftsAreConfigs`, `PayloadAssumption`, `TextAssumption`:
names, indices and marks are different lexemes, though `$` may be a name as well,
and a payload is a JSON value not deeper than `Depth`): `ResubmissionsKeep`, `TemplatesAreResolved`, `RefusalsNameTheFirst` and
`VerdictsAreMeanings`, for texts and expressions of any length, rules of any depth,
any payloads and any environment.

* `ShownInv` says that what was shown is the view of the configuration it came from;
  each of the three masks is then refused where it stands for something
  (`OnlyAsItWas`).
* `SentInv` adds that the stored template passed the scan.  The two scanners are
  recursive functions of the position in the text.  `RenderScans` and `AcceptScans`
  show that they satisfy their equations; from these `AcceptedIsRendered` goes
  backward through the text: if the first scan accepts from a position on, what
  the second produces from there has no bracket, and begins as the text does unless
  a reference stands there.  The text between two candidates has none
  (`PieceHasNoBracket`), an accepted candidate is a path, what a path leads to is a
  value of the payload or a word (`ReachedIsClosed`, `ReachedIsClean`), and texts
  without a bracket have none when they are joined unless one ends in `{` and
  the next begins with `$` (`ConcatHasNoPair`): a template without a seam or a
  payload whose strings complete none rules that out.
* `RefusalInv` adds that the stored field rules passed their checks.  `WalkFinds` is
  the step of the induction: if one place further the walk returns the first of
  the wrong instances that begin there, then it does so here.  `Wrong`, the
  reference definition, mentions no order; that its first element by `Precedes` is
  unique is `TheFirstIsOne`.
* `VerdictInv` adds that the stored expressions parse.  All the rest is
  `ExpressionsMean`: for every sequence of tokens and every scope the grammar gives at
  most one meaning, gives one exactly when the parser accepts, and then it is the
  value the parser returns.  It has three parts.  *Sound* (`ParserIsSound`): what a
  production parses from a token on has, over the tokens it consumed, the value it
  returned; by induction from the end of the text, and within a position from the
  tightest production to the loosest (`Rank`).  *Complete* (`ParserIsComplete`): if a
  stretch of tokens has a value as a production, and the token after it does not
  continue that production (`Continues`), the parser reads just that stretch; by
  induction on the stretch's length.  *Independent of values* (`AllGoAlike`):
  registration parses over an empty scope and an invocation over a payload, but
  whether a text parses, and how far, is the same in both.  Chains of `&&` and `||`
  are the delicate case: the grammar builds them from the left and the model of the
  loop from the right.  `ChainsGrowInFront` and `ChainsSplit` take a chain from its
  other end, since both connectives are associative (`JoinIsAssociative`).  The tokens
  are the ones `Path` and `Literal` list; the proof uses of them only that no symbol
  is among them.

The library's induction theorems cannot be used, so the module proves its own for
a property given as a set of naturals (`LeastElement`, `SetInduction`,
`BoundedInduction`), from the well-foundedness of `<`.  A recursive function is only
what its equation says if some function satisfies it; that is an induction of its own
for each of them (`LookupSteps`, `ScansEnd`, `WalkIsDefined`).  The functions of the
parser call each other, and so do the grammar's productions: `RecursionHasSolution`
shows once that an equation whose right side looks only at arguments of lower rank
has a solution, and `ParserIsDefined` and `MeaningIsDefined` give the ranks.

### Model-checked only

* Liveness (`EveryRecordSettles`, `EveryAttemptEnds`, `EveryInvocationEnds`,
  `EveryCallEnds`, `CallsAreAnswered`, `SignalEndsProcess`): it needs reasoning about
  ENABLED, which the provers do not do.

## 6. Not modelled, and the plan

Every safety property of a passing run is a theorem.  Nothing states yet what an
answer of 500 means for the caller when the row of an autocommitted write was deleted
before it was read back (`Reselect` models it).

Left out for good: logging, formatting and the response envelopes; TLS material
and configuration, which are read once at the start; URL building and the
decoding of bodies; the tokenizer's characters; predicates written as scripts;
scrubbing of recorded values; pagination and list pages; renaming and schema
migration; the SQL dialects beyond what a statement does atomically; and which
values flow through a workflow's context from step to step.
