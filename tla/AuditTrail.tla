----------------------------- MODULE AuditTrail -----------------------------
(***************************************************************************)
(* The queued recorder over DbExecutionRepository and the five engines:    *)
(* what the executions and execution_logs tables hold, next to what the    *)
(* recorder reports.  A write is two awaits, saveExecution and then log;   *)
(* either may fail before or after the engine made it durable.             *)
(***************************************************************************)
EXTENDS QueuedRecorder

CONSTANT Engines   \* the engines this deployment may run on

ASSUME EnginesAssumption ==
  Engines \subseteq {"sqlite", "postgres", "oracle", "mongodb", "couchbase"}

VARIABLES engine,      \* the engine DATABASE_URL selects
          auditLogs,   \* auditEnabled()
          auditTable,  \* whether execution_logs was provisioned
          rows,        \* rows of each record in executions
          audits,      \* rows of each record in execution_logs
          saved        \* the records whose saveExecution has returned

dbVars == <<engine, auditLogs, auditTable, rows, audits, saved>>
vars == <<recVars, dbVars>>

ATypeOK ==
  /\ TypeOK
  /\ engine \in Engines
  /\ auditLogs \in BOOLEAN
  /\ auditTable \in BOOLEAN
  /\ rows \in [Entry -> 0 .. MaxAttempts]
  /\ audits \in [Entry -> 0 .. MaxAttempts]
  /\ saved \subseteq Entry

\* The startup probe demands the table when the flag is on; SQLite's bootstrap
\* always creates it.
Provisioned == auditLogs \/ engine = "sqlite" => auditTable

AInit ==
  /\ Init
  /\ engine \in Engines
  /\ auditLogs \in BOOLEAN
  /\ auditTable \in BOOLEAN
  /\ Provisioned
  /\ rows = [e \in Entry |-> 0]
  /\ audits = [e \in Entry |-> 0]
  /\ saved = {}

-----------------------------------------------------------------------------
\* The ways an insert next to n rows of the record can end, as the pair of the
\* rows there are then and of what the adapter answers.
Inserted(n) == [rows |-> n + 1, ok |-> TRUE]
Refused(n) == [rows |-> n, ok |-> FALSE]
Unacknowledged(n) == [rows |-> n + 1, ok |-> FALSE]

\* In process: the insert and its answer are one synchronous call.
SqliteSaveExecution(n) ==
  {Refused(n)} \cup {o \in {Inserted(n)} : n = 0}

\* Mutant: the execution id is not a key.
PostgresInsertUnkeyed(n) == {Refused(n), Inserted(n), Unacknowledged(n)}

\* INSERT ... RETURNING: the connection may be lost after the commit.
PostgresSaveExecution(n) ==
  {Refused(n)} \cup {o \in {Inserted(n), Unacknowledged(n)} : n = 0}

\* An autocommitted INSERT and then a SELECT that may fail on its own.
OracleSaveExecution(n) ==
  {Refused(n)} \cup {o \in {Inserted(n), Unacknowledged(n)} : n = 0}

\* The execution id is the document key; an insert's timeout is ambiguous.
CouchbaseSaveExecution(n) ==
  {Refused(n)} \cup {o \in {Inserted(n), Unacknowledged(n)} : n = 0}

\* insertOne and then findOne; the index on executionId is not unique.
MongoSaveExecution(n) ==
  {Refused(n), Inserted(n), Unacknowledged(n)}

saveExecution(n) ==
  CASE engine = "sqlite" -> SqliteSaveExecution(n)
    [] engine = "postgres" -> PostgresSaveExecution(n)
    [] engine = "oracle" -> OracleSaveExecution(n)
    [] engine = "couchbase" -> CouchbaseSaveExecution(n)
    [] engine = "mongodb" -> MongoSaveExecution(n)

\* The audit row has an id of its own, made anew for each write, and so never
\* conflicts.  MongoDB creates a missing collection, the others refuse.
SqliteSaveExecutionLog(n) == {Inserted(n), Refused(n)}
MongoSaveExecutionLog(n) == {Inserted(n), Refused(n), Unacknowledged(n)}
PostgresSaveExecutionLog(n) ==
  {Refused(n)} \cup {o \in {Inserted(n), Unacknowledged(n)} : auditTable}
OracleSaveExecutionLog(n) ==
  {Refused(n)} \cup {o \in {Inserted(n), Unacknowledged(n)} : auditTable}
CouchbaseSaveExecutionLog(n) ==
  {Refused(n)} \cup {o \in {Inserted(n), Unacknowledged(n)} : auditTable}

saveExecutionLog(n) ==
  CASE engine = "sqlite" -> SqliteSaveExecutionLog(n)
    [] engine = "postgres" -> PostgresSaveExecutionLog(n)
    [] engine = "oracle" -> OracleSaveExecutionLog(n)
    [] engine = "couchbase" -> CouchbaseSaveExecutionLog(n)
    [] engine = "mongodb" -> MongoSaveExecutionLog(n)

-----------------------------------------------------------------------------
InnerWrite == {e \in Entry : stage[e] \in {"writing", "direct"}}

\* recordInvocation's first await returns.
SaveReturns(e) ==
  /\ e \in InnerWrite \ saved
  /\ \E o \in saveExecution(rows[e]) : o.ok /\ rows' = [rows EXCEPT ![e] = o.rows]
  /\ saved' = saved \cup {e}
  /\ UNCHANGED <<recVars, engine, auditLogs, auditTable, audits>>

\* It throws: the write has failed, with or without the row.
SaveThrows(e) ==
  /\ e \in InnerWrite \ saved
  /\ \E o \in saveExecution(rows[e]) : ~o.ok /\ rows' = [rows EXCEPT ![e] = o.rows]
  /\ WriteSettles(e, "error")
  /\ UNCHANGED <<engine, auditLogs, auditTable, audits, saved>>

\* The audit row is written, whatever the flag says.
LogReturns(e) ==
  /\ e \in saved
  /\ \E o \in saveExecutionLog(audits[e]) : o.ok /\ audits' = [audits EXCEPT ![e] = o.rows]
  /\ saved' = saved \ {e}
  /\ WriteSettles(e, "ok")
  /\ UNCHANGED <<engine, auditLogs, auditTable, rows>>

\* Mutant: no failure of the audit row is reported.
LogThrowsSilently(e) ==
  /\ e \in saved
  /\ \E o \in saveExecutionLog(audits[e]) : ~o.ok /\ audits' = [audits EXCEPT ![e] = o.rows]
  /\ saved' = saved \ {e}
  /\ WriteSettles(e, "ok")
  /\ UNCHANGED <<engine, auditLogs, auditTable, rows>>

\* The audit row fails: AuditWriteError with the flag on, a return with it off.
LogThrows(e) ==
  /\ e \in saved
  /\ \E o \in saveExecutionLog(audits[e]) : ~o.ok /\ audits' = [audits EXCEPT ![e] = o.rows]
  /\ saved' = saved \ {e}
  /\ WriteSettles(e, IF auditLogs THEN "audit" ELSE "ok")
  /\ UNCHANGED <<engine, auditLogs, auditTable, rows>>

\* The recorder's own steps.
RecorderStep ==
  /\ \/ \E e \in Entry : Enqueue(e) \/ WriteDirectly(e) \/ BackoffElapses(e)
     \/ PumpResumes
     \/ DrainReturns \/ DrainWaits \/ DrainTimesOut
  /\ UNCHANGED dbVars

ANext ==
  \/ RecorderStep
  \/ \E e \in Entry : SaveReturns(e) \/ SaveThrows(e) \/ LogReturns(e) \/ LogThrows(e)

ASpec == AInit /\ [][ANext]_vars

-----------------------------------------------------------------------------
\* What the recorder says of a record is what the tables hold: "stored" means
\* the row, and the audit row if the operator asked for it; AuditWriteError
\* means the row is there ("the executions row was persisted").  "Record
\* dropped" means that there is none on SQLite only, which answers in process:
\* elsewhere the answer to an insert may be lost and its retries, or a record
\* that is not retried, fail beside the stored row.
ReportsMatchStore ==
  \A e \in Entry :
    /\ stage[e] \in {"stored", "auditLost"} => rows[e] > 0
    /\ stage[e] = "stored" /\ auditLogs => audits[e] > 0
    /\ stage[e] = "auditLost" => auditLogs
    /\ stage[e] = "dropped" /\ engine = "sqlite" => rows[e] = 0

\* Where the execution id is a key, no retry duplicates an execution.  On every
\* engine a record has at most one audit row, although its id is new at each
\* write: a write that reached the audit table is never retried; and it never has
\* one without its execution row.  (And the variables have their types.)
OneRowPerExecution ==
  /\ ATypeOK
  /\ \A e \in Entry :
       /\ engine # "mongodb" => rows[e] <= 1
       /\ audits[e] <= 1
       /\ audits[e] > 0 => rows[e] > 0

\* The README: audit rows "are written only when
\* ENABLE_DB_TRANSACTION_LOGS=true".
AuditOnlyWithFlag == ~auditLogs => \A e \in Entry : audits[e] = 0
=============================================================================
