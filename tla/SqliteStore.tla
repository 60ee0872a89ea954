---------------------------- MODULE SqliteStore ----------------------------
(***************************************************************************)
(* The SQLite adapter: bun:sqlite is synchronous, so a call is one action. *)
(***************************************************************************)
EXTENDS Store

\* `?? null` when a row is written, `nullable` when it is read.
SqliteColumn(v) == IF v = "undefined" THEN "NULL" ELSE v
SqliteField(row) ==
  IF row = None THEN "none" ELSE IF row.column = "NULL" THEN "undefined" ELSE row.column

SqliteComponents(t) == SqliteField(t["component"])
SqliteWorkflows(t) == SqliteField(t["workflow"])
SqliteSteps(t) == {s \in StepId : t[s] # None}
SqliteConfig(t) == SqliteField(t["config"])

SqliteSaveComponent(c) ==
  /\ Is(c, "saveComponent", "ready")
  /\ Insert(c, "component", Row(SqliteColumn(call[c].arg), call[c].arg), "conflict", "done")

SqliteUpdateComponent(c) ==
  /\ Is(c, "updateComponent", "ready")
  /\ LET column == IF call[c].arg = "unchanged" THEN View(c)["component"].column
                   ELSE SqliteColumn(call[c].arg)
     IN Change(c, "component", Row(column, Meant(c)), "done")

SqliteDeleteComponent(c) ==
  Is(c, "deleteComponent", "ready") /\ RemoveUnreferenced(c)

\* Not wrapped in translateSqliteError, as little as saveWorkflowStep.
SqliteSaveWorkflow(c) ==
  /\ Is(c, "saveWorkflow", "ready")
  /\ Insert(c, "workflow", Row(SqliteColumn(call[c].arg), call[c].arg), "raw", "done")

SqliteUpdateWorkflow(c) ==
  /\ Is(c, "updateWorkflow", "ready")
  /\ LET column == IF call[c].arg \in {"unchanged", "undefined"} THEN View(c)["workflow"].column
                   ELSE call[c].arg
     IN Change(c, "workflow", Row(column, Meant(c)), "done")

\* Mutant: no cascade (PRAGMA foreign_keys off).
SqliteDeleteWorkflowOnly(c) ==
  Is(c, "deleteWorkflow", "ready") /\ Remove(c, "workflow", {})

\* ON DELETE CASCADE
SqliteDeleteWorkflow(c) ==
  Is(c, "deleteWorkflow", "ready") /\ RemoveCascading(c)

SqliteSaveWorkflowStep(c) ==
  Is(c, "saveWorkflowStep", "ready") /\ InsertStep(c, Row("some", "some"), "raw", "done")

SqliteDeleteWorkflowSteps(c) ==
  Is(c, "deleteWorkflowSteps", "ready") /\ RemoveSteps(c, "done")

\* A select, then an update or an insert, without an await in between.
SqliteSetConfig(c) ==
  /\ Is(c, "setConfig", "ready")
  /\ Write(c, One("config", Row(call[c].arg, call[c].arg)))
  /\ Answer(c, "ok")

SqliteDeleteConfig(c) ==
  Is(c, "deleteConfig", "ready") /\ Remove(c, "config", {})

\* BEGIN on the one connection; it throws, outside the `try`, when a
\* transaction is already open, be it this caller's or another's.
SqliteBegin(c) ==
  /\ Is(c, "transaction", "ready")
  /\ \/ (\E d \in Client : tx[d].open) /\ Answer(c, "raw") /\ NoWrite
     \/ /\ \A d \in Client : ~tx[d].open
        /\ tx' = [tx EXCEPT ![c].open = TRUE, ![c].before = db]
        /\ Answer(c, "ok")
        /\ UNCHANGED db

\* translateSqliteError knows the constraints and passes the rest on.
SqliteTranslated(q) ==
  IF q.answer = "raw" /\ q.op # "transaction" THEN "conflict" ELSE q.answer

SqliteCommit(c) == UNCHANGED db
SqliteRollback(c) == db' = tx[c].before

SqliteCall(c) ==
  /\ engine = "sqlite"
  /\ \/ SqliteSaveComponent(c) \/ SqliteUpdateComponent(c) \/ SqliteDeleteComponent(c)
     \/ SqliteSaveWorkflow(c) \/ SqliteUpdateWorkflow(c) \/ SqliteDeleteWorkflow(c)
     \/ SqliteSaveWorkflowStep(c) \/ SqliteDeleteWorkflowSteps(c)
     \/ SqliteSetConfig(c) \/ SqliteDeleteConfig(c) \/ SqliteBegin(c)
=============================================================================
