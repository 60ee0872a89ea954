---------------------------- MODULE MongoStore ----------------------------
(***************************************************************************)
(* The MongoDB adapter.  There are no foreign keys: the checks and the     *)
(* cascade are statements of their own.  `replicaSet` is what connect()    *)
(* learnt of the deployment.                                               *)
(***************************************************************************)
EXTENDS Store

CONSTANT ReplicaSet
ASSUME MongoAssumption == ReplicaSet \in BOOLEAN

\* BSON writes undefined as null; `?? undefined` when a document is read.
MongoColumn(v) == IF v = "undefined" THEN "NULL" ELSE v
MongoField(row) ==
  IF row = None THEN "none" ELSE IF row.column = "NULL" THEN "undefined" ELSE row.column

MongoComponents(t) == MongoField(t["component"])
MongoWorkflows(t) == MongoField(t["workflow"])
MongoSteps(t) == {s \in StepId : t[s] # None}
MongoConfig(t) == MongoField(t["config"])

MongoSaveComponent(c) ==
  /\ Is(c, "saveComponent", "ready")
  /\ Insert(c, "component", Row(MongoColumn(call[c].arg), call[c].arg), "conflict", "reread")

\* findOneAndUpdate with $set; the answer is the document after it.
MongoUpdateComponent(c) ==
  /\ Is(c, "updateComponent", "ready")
  /\ LET column == IF call[c].arg = "unchanged" THEN View(c)["component"].column
                   ELSE MongoColumn(call[c].arg)
     IN Change(c, "component", Row(column, Meant(c)), "done")

MongoDeleteComponent(c) ==
  \/ /\ Is(c, "deleteComponent", "ready")
     /\ IF StepsIn(View(c)) # {} THEN Answer(c, "conflict") ELSE Goto(c, "remove")
     /\ NoWrite
  \/ Is(c, "deleteComponent", "remove") /\ Remove(c, "component", {})

MongoSaveWorkflow(c) ==
  /\ Is(c, "saveWorkflow", "ready")
  /\ Insert(c, "workflow", Row(MongoColumn(call[c].arg), call[c].arg), "conflict", "reread")

MongoUpdateWorkflow(c) ==
  /\ Is(c, "updateWorkflow", "ready")
  /\ LET column == IF call[c].arg \in {"unchanged", "undefined"} THEN View(c)["workflow"].column
                   ELSE call[c].arg
     IN Change(c, "workflow", Row(column, Meant(c)), "done")

\* Mutant: the workflow first, its steps after it.
MongoDeleteWorkflowFirst(c) ==
  \/ Is(c, "deleteWorkflow", "ready") /\ Change(c, "workflow", None, "parent")
  \/ Is(c, "deleteWorkflow", "parent") /\ RemoveSteps(c, "done")

\* deleteMany on the steps, then deleteOne on the workflow.
MongoDeleteWorkflow(c) ==
  \/ Is(c, "deleteWorkflow", "ready") /\ RemoveSteps(c, "parent")
  \/ Is(c, "deleteWorkflow", "parent") /\ Remove(c, "workflow", {})

\* The component is counted, the workflow is not.
MongoSaveWorkflowStep(c) ==
  \/ /\ Is(c, "saveWorkflowStep", "ready")
     /\ IF View(c)["component"] = None THEN Answer(c, "conflict") ELSE Goto(c, "insert")
     /\ NoWrite
  \/ /\ Is(c, "saveWorkflowStep", "insert")
     /\ Insert(c, call[c].arg, Row("some", "some"), "conflict", "reread")

MongoDeleteWorkflowSteps(c) ==
  Is(c, "deleteWorkflowSteps", "ready") /\ RemoveSteps(c, "done")

MongoReread(c) ==
  LET item == CASE call[c].op = "saveComponent" -> "component"
                [] call[c].op = "saveWorkflow" -> "workflow"
                [] OTHER -> call[c].arg
  IN /\ call[c].at = "reread"
     /\ Answer(c, IF View(c)[item] = None THEN "error" ELSE "ok")
     /\ NoWrite

\* updateOne with upsert
MongoSetConfig(c) ==
  /\ Is(c, "setConfig", "ready")
  /\ Free(c, {"config"})
  /\ Write(c, One("config", Row(call[c].arg, call[c].arg)))
  /\ Answer(c, "ok")

MongoDeleteConfig(c) ==
  Is(c, "deleteConfig", "ready") /\ Remove(c, "config", {})

\* A session, if the deployment has transactions.
MongoBegin(c) ==
  /\ Is(c, "transaction", "ready")
  /\ \/ (tx[c].open \/ ~ReplicaSet) /\ Answer(c, "unsupported") /\ UNCHANGED tx
     \/ /\ ~tx[c].open /\ ReplicaSet
        /\ tx' = [tx EXCEPT ![c].open = TRUE, ![c].before = db]
        /\ Answer(c, "ok")
  /\ UNCHANGED db

MongoCall(c) ==
  /\ engine = "mongodb"
  /\ \/ MongoSaveComponent(c) \/ MongoUpdateComponent(c) \/ MongoDeleteComponent(c)
     \/ MongoSaveWorkflow(c) \/ MongoUpdateWorkflow(c) \/ MongoDeleteWorkflow(c)
     \/ MongoSaveWorkflowStep(c) \/ MongoDeleteWorkflowSteps(c) \/ MongoReread(c)
     \/ MongoSetConfig(c) \/ MongoDeleteConfig(c) \/ MongoBegin(c)
=============================================================================
