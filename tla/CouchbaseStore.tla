-------------------------- MODULE CouchbaseStore --------------------------
(***************************************************************************)
(* The Couchbase adapter: documents under natural keys, read and written   *)
(* one at a time and without CAS; transaction() always refuses.            *)
(***************************************************************************)
EXTENDS Store

\* JSON leaves out what is undefined; a document is returned as it is.
CouchbaseField(row) == IF row = None THEN "none" ELSE row.column

CouchbaseComponents(t) == CouchbaseField(t["component"])
CouchbaseWorkflows(t) == CouchbaseField(t["workflow"])
CouchbaseSteps(t) == {s \in StepId : t[s] # None}
CouchbaseConfig(t) == CouchbaseField(t["config"])

CouchbaseSaveComponent(c) ==
  /\ Is(c, "saveComponent", "ready")
  /\ Insert(c, "component", Row(call[c].arg, call[c].arg), "conflict", "done")

\* requireComponentKey, requireWorkflowKey: from the id to the document's key.
Resolve(c, item, next) ==
  /\ IF db[item] = None THEN Answer(c, "notFound") ELSE Goto(c, next)
  /\ NoWrite

\* get() and the merge of the changes into what it returned, whoever replaces the
\* document before this call does.
ReadDocument(c, item, column) ==
  /\ IF db[item] = None THEN Answer(c, "notFound")
     ELSE call' = [call EXCEPT ![c].at = "replace",
                     ![c].found = [column |-> column, meant |-> Meant(c)]]
  /\ NoWrite

\* replace(), without CAS: a field that the call left as it had read it is undone
\* if another call has set it since.
ReplaceDocument(c, item) ==
  LET read == call[c].found
      meant == IF Meant(c) = read.meant THEN read.meant ELSE "undone"
  IN Change(c, item, Row(read.column, meant), "done")

CouchbaseUpdateComponent(c) ==
  \/ Is(c, "updateComponent", "ready") /\ Resolve(c, "component", "insert")
  \/ /\ Is(c, "updateComponent", "insert")
     /\ ReadDocument(c, "component", IF call[c].arg = "unchanged" THEN db["component"].column
                                     ELSE call[c].arg)
  \/ Is(c, "updateComponent", "replace") /\ ReplaceDocument(c, "component")

CouchbaseDeleteComponent(c) ==
  \/ Is(c, "deleteComponent", "ready") /\ Resolve(c, "component", "count")
  \/ /\ Is(c, "deleteComponent", "count")
     /\ IF StepsIn(db) # {} THEN Answer(c, "conflict") ELSE Goto(c, "remove")
     /\ NoWrite
  \/ Is(c, "deleteComponent", "remove") /\ Remove(c, "component", {})

CouchbaseSaveWorkflow(c) ==
  /\ Is(c, "saveWorkflow", "ready")
  /\ Insert(c, "workflow", Row(call[c].arg, call[c].arg), "conflict", "done")

CouchbaseUpdateWorkflow(c) ==
  \/ Is(c, "updateWorkflow", "ready") /\ Resolve(c, "workflow", "insert")
  \/ /\ Is(c, "updateWorkflow", "insert")
     /\ ReadDocument(c, "workflow", IF call[c].arg \in {"unchanged", "undefined"}
                                    THEN db["workflow"].column ELSE call[c].arg)
  \/ Is(c, "updateWorkflow", "replace") /\ ReplaceDocument(c, "workflow")

\* The steps a query returned, removed one by one: the first that is already
\* gone ends the call.
RemoveQueried(c) ==
  \E s \in call[c].queried :
    \/ db[s] = None /\ Answer(c, "notFound") /\ NoWrite
    \/ /\ db[s] # None
       /\ Write(c, One(s, None))
       /\ call' = [call EXCEPT ![c].queried = @ \ {s}]

CouchbaseDeleteWorkflow(c) ==
  \/ Is(c, "deleteWorkflow", "ready") /\ Resolve(c, "workflow", "count")
  \/ /\ Is(c, "deleteWorkflow", "count")
     /\ call' = [call EXCEPT ![c].queried = StepsIn(db), ![c].at = "remove"]
     /\ NoWrite
  \/ /\ Is(c, "deleteWorkflow", "remove")
     /\ \/ RemoveQueried(c)
        \/ call[c].queried = {} /\ Remove(c, "workflow", {})

CouchbaseSaveWorkflowStep(c) ==
  \/ /\ Is(c, "saveWorkflowStep", "ready")
     /\ IF db["component"] = None THEN Answer(c, "conflict") ELSE Goto(c, "insert")
     /\ NoWrite
  \/ /\ Is(c, "saveWorkflowStep", "insert")
     /\ Insert(c, call[c].arg, Row("some", "some"), "conflict", "done")

CouchbaseDeleteWorkflowSteps(c) ==
  \/ /\ Is(c, "deleteWorkflowSteps", "ready")
     /\ call' = [call EXCEPT ![c].queried = StepsIn(db), ![c].at = "remove"]
     /\ NoWrite
  \/ /\ Is(c, "deleteWorkflowSteps", "remove")
     /\ \/ RemoveQueried(c)
        \/ call[c].queried = {} /\ Answer(c, "ok") /\ NoWrite

CouchbaseSetConfig(c) ==
  /\ Is(c, "setConfig", "ready")
  /\ Write(c, One("config", Row(call[c].arg, call[c].arg)))
  /\ Answer(c, "ok")

CouchbaseDeleteConfig(c) ==
  Is(c, "deleteConfig", "ready") /\ Remove(c, "config", {})

CouchbaseBegin(c) ==
  Is(c, "transaction", "ready") /\ Answer(c, "unsupported") /\ NoWrite

CouchbaseCall(c) ==
  /\ engine = "couchbase"
  /\ \/ CouchbaseSaveComponent(c) \/ CouchbaseUpdateComponent(c) \/ CouchbaseDeleteComponent(c)
     \/ CouchbaseSaveWorkflow(c) \/ CouchbaseUpdateWorkflow(c) \/ CouchbaseDeleteWorkflow(c)
     \/ CouchbaseSaveWorkflowStep(c) \/ CouchbaseDeleteWorkflowSteps(c)
     \/ CouchbaseSetConfig(c) \/ CouchbaseDeleteConfig(c) \/ CouchbaseBegin(c)
=============================================================================
