--------------------------- MODULE PostgresStore ---------------------------
(***************************************************************************)
(* The PostgreSQL adapter: a call is one statement, and every error passes *)
(* through `guard`, which makes an AppError of it.                         *)
(***************************************************************************)
EXTENDS Store

PostgresColumn(v) == IF v = "undefined" THEN "NULL" ELSE v
PostgresField(row) ==
  IF row = None THEN "none" ELSE IF row.column = "NULL" THEN "undefined" ELSE row.column

PostgresComponents(t) == PostgresField(t["component"])
PostgresWorkflows(t) == PostgresField(t["workflow"])
PostgresSteps(t) == {s \in StepId : t[s] # None}
PostgresConfig(t) == PostgresField(t["config"])

PostgresSaveComponent(c) ==
  /\ Is(c, "saveComponent", "ready")
  /\ Insert(c, "component", Row(PostgresColumn(call[c].arg), call[c].arg), "conflict", "done")

PostgresUpdateComponent(c) ==
  /\ Is(c, "updateComponent", "ready")
  /\ LET column == IF call[c].arg = "unchanged" THEN View(c)["component"].column
                   ELSE PostgresColumn(call[c].arg)
     IN Change(c, "component", Row(column, Meant(c)), "done")

PostgresDeleteComponent(c) ==
  Is(c, "deleteComponent", "ready") /\ RemoveUnreferenced(c)

PostgresSaveWorkflow(c) ==
  /\ Is(c, "saveWorkflow", "ready")
  /\ Insert(c, "workflow", Row(PostgresColumn(call[c].arg), call[c].arg), "conflict", "done")

PostgresUpdateWorkflow(c) ==
  /\ Is(c, "updateWorkflow", "ready")
  /\ LET column == IF call[c].arg \in {"unchanged", "undefined"} THEN View(c)["workflow"].column
                   ELSE call[c].arg
     IN Change(c, "workflow", Row(column, Meant(c)), "done")

PostgresDeleteWorkflow(c) ==
  Is(c, "deleteWorkflow", "ready") /\ RemoveCascading(c)

PostgresSaveWorkflowStep(c) ==
  Is(c, "saveWorkflowStep", "ready") /\ InsertStep(c, Row("some", "some"), "conflict", "done")

PostgresDeleteWorkflowSteps(c) ==
  Is(c, "deleteWorkflowSteps", "ready") /\ RemoveSteps(c, "done")

\* INSERT ... ON CONFLICT (key) DO UPDATE
PostgresSetConfig(c) ==
  /\ Is(c, "setConfig", "ready")
  /\ Free(c, {"config"})
  /\ Write(c, One("config", Row(call[c].arg, call[c].arg)))
  /\ Answer(c, "ok")

PostgresDeleteConfig(c) ==
  Is(c, "deleteConfig", "ready") /\ Remove(c, "config", {})

\* db.transaction: a connection of its own, and a method table built on it
\* whose own transaction() refuses.
PostgresBegin(c) ==
  /\ Is(c, "transaction", "ready")
  /\ \/ tx[c].open /\ Answer(c, "unsupported") /\ UNCHANGED tx
     \/ ~tx[c].open /\ tx' = [tx EXCEPT ![c].open = TRUE] /\ Answer(c, "ok")
  /\ UNCHANGED db

PostgresCall(c) ==
  /\ engine = "postgres"
  /\ \/ PostgresSaveComponent(c) \/ PostgresUpdateComponent(c) \/ PostgresDeleteComponent(c)
     \/ PostgresSaveWorkflow(c) \/ PostgresUpdateWorkflow(c) \/ PostgresDeleteWorkflow(c)
     \/ PostgresSaveWorkflowStep(c) \/ PostgresDeleteWorkflowSteps(c)
     \/ PostgresSetConfig(c) \/ PostgresDeleteConfig(c) \/ PostgresBegin(c)
=============================================================================
