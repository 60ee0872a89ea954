---------------------------- MODULE OracleStore ----------------------------
(***************************************************************************)
(* The Oracle adapter: a write and the SELECT that reads the row back are  *)
(* two statements, of which the first has committed outside a transaction. *)
(***************************************************************************)
EXTENDS Store

\* The database has no empty string.
OracleColumn(v) == IF v \in {"undefined", "empty"} THEN "NULL" ELSE v

\* Mutant: `maybe` without its `=== '' ? undefined`.
OracleFieldRaw(row) ==
  IF row = None THEN "none" ELSE IF row.column = "NULL" THEN "empty" ELSE row.column

\* str, maybe, num and parseJson: a NULL is undefined.
OracleField(row) ==
  IF row = None THEN "none" ELSE IF row.column = "NULL" THEN "undefined" ELSE row.column

OracleComponents(t) == OracleField(t["component"])
OracleWorkflows(t) == OracleField(t["workflow"])
OracleSteps(t) == {s \in StepId : t[s] # None}
OracleConfig(t) == OracleField(t["config"])

OracleSaveComponent(c) ==
  /\ Is(c, "saveComponent", "ready")
  /\ Insert(c, "component", Row(OracleColumn(call[c].arg), call[c].arg), "conflict", "reread")

OracleUpdateComponent(c) ==
  /\ Is(c, "updateComponent", "ready")
  /\ LET column == IF call[c].arg = "unchanged" THEN View(c)["component"].column
                   ELSE OracleColumn(call[c].arg)
     IN Change(c, "component", Row(column, Meant(c)), "reread")

OracleDeleteComponent(c) ==
  Is(c, "deleteComponent", "ready") /\ RemoveUnreferenced(c)

OracleSaveWorkflow(c) ==
  /\ Is(c, "saveWorkflow", "ready")
  /\ Insert(c, "workflow", Row(OracleColumn(call[c].arg), call[c].arg), "conflict", "reread")

OracleUpdateWorkflow(c) ==
  /\ Is(c, "updateWorkflow", "ready")
  /\ LET column == IF call[c].arg \in {"unchanged", "undefined"} THEN View(c)["workflow"].column
                   ELSE OracleColumn(call[c].arg)
     IN Change(c, "workflow", Row(column, Meant(c)), "reread")

OracleDeleteWorkflow(c) ==
  Is(c, "deleteWorkflow", "ready") /\ RemoveCascading(c)

OracleSaveWorkflowStep(c) ==
  Is(c, "saveWorkflowStep", "ready") /\ InsertStep(c, Row("some", "some"), "conflict", "reread")

OracleDeleteWorkflowSteps(c) ==
  Is(c, "deleteWorkflowSteps", "ready") /\ RemoveSteps(c, "done")

\* The row just written is read by id; the conversion of a missing row throws,
\* and `run` makes a DatabaseError of it.
OracleReread(c) ==
  LET item == CASE call[c].op \in {"saveComponent", "updateComponent"} -> "component"
                [] call[c].op \in {"saveWorkflow", "updateWorkflow"} -> "workflow"
                [] OTHER -> call[c].arg
  IN /\ call[c].at = "reread"
     /\ Answer(c, IF View(c)[item] = None THEN "error" ELSE "ok")
     /\ NoWrite

\* MERGE; the column is NOT NULL, so that an empty value is refused.
OracleSetConfig(c) ==
  /\ Is(c, "setConfig", "ready")
  /\ Free(c, {"config"})
  /\ \/ OracleColumn(call[c].arg) = "NULL" /\ Answer(c, "error") /\ NoWrite
     \/ /\ OracleColumn(call[c].arg) # "NULL"
        /\ Write(c, One("config", Row(call[c].arg, call[c].arg)))
        /\ Answer(c, "ok")

OracleDeleteConfig(c) ==
  Is(c, "deleteConfig", "ready") /\ Remove(c, "config", {})

\* A connection taken from the pool, lent to every method of the callback.
OracleBegin(c) ==
  /\ Is(c, "transaction", "ready")
  /\ \/ tx[c].open /\ Answer(c, "unsupported") /\ UNCHANGED tx
     \/ ~tx[c].open /\ tx' = [tx EXCEPT ![c].open = TRUE] /\ Answer(c, "ok")
  /\ UNCHANGED db

OracleCall(c) ==
  /\ engine = "oracle"
  /\ \/ OracleSaveComponent(c) \/ OracleUpdateComponent(c) \/ OracleDeleteComponent(c)
     \/ OracleSaveWorkflow(c) \/ OracleUpdateWorkflow(c) \/ OracleDeleteWorkflow(c)
     \/ OracleSaveWorkflowStep(c) \/ OracleDeleteWorkflowSteps(c) \/ OracleReread(c)
     \/ OracleSetConfig(c) \/ OracleDeleteConfig(c) \/ OracleBegin(c)
=============================================================================
