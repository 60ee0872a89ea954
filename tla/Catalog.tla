------------------------------- MODULE Catalog -------------------------------
(***************************************************************************)
(* The catalogue of components and workflows under concurrent requests:    *)
(* ComponentRegistryService and DbComponentRepository (create, update,     *)
(* remove), WorkflowService.create, and what the five engines do for them. *)
(*                                                                         *)
(* An action is one request's run between two awaits, or the database's    *)
(* execution of one statement; requests interleave at every await.         *)
(***************************************************************************)
EXTENDS Naturals, Sequences, FiniteSets

CONSTANTS Client,         \* the requests that can be in progress at once
          Key,            \* natural keys (service, action)
          WorkflowName,
          WorkflowSteps,  \* the natural keys a workflow's steps name, in order
          Engines,        \* the engines this deployment may run on
          MaxId,          \* bound: component ids ever made
          MaxVersion      \* bound: versions an update may ask for

ASSUME CatalogAssumption ==
  /\ Key # {} /\ WorkflowName # {}
  /\ WorkflowSteps \in Seq(Key)
  /\ Engines \subseteq {"sqlite", "postgres", "oracle", "mongodb", "couchbase"}
  /\ MaxId \in Nat
  /\ MaxVersion \in Nat

VARIABLES engine,      \* the engine DATABASE_URL selects
          rows,        \* the component stored under each natural key
          nextId,      \* generateId() for components
          workflows,   \* names in workflow_definitions
          steps,       \* workflow_steps: workflow, stepOrder and componentId
          req          \* the request each client has in progress

vars == <<engine, rows, nextId, workflows, steps, req>>

Absent == [id |-> 0, version |-> 0]
Row == [id : 1 .. MaxId, version : 1 .. MaxVersion + 1]
Order == 1 .. Len(WorkflowSteps)
Step == [wf : WorkflowName, order : Order, component : 1 .. MaxId]

\* Engines with foreign keys, and those whose adapter counts and then acts.
ForeignKeys == engine \in {"sqlite", "postgres", "oracle"}

\* A request: where it is, its parameters, and what it has read so far.
Request == [op : {"none", "create", "update", "delete", "workflow"},
            at : {"find", "apply", "get", "count", "write", "reselect",
                  "lookup", "saveStep", "insertStep", "done"},
            key : Key, version : 0 .. MaxVersion, wf : WorkflowName,
            found : Row \cup {Absent}, ids : Seq(1 .. MaxId \cup {0}),
            answer : {"none", "ok", "400", "404", "409", "500"}]

TypeOK ==
  /\ engine \in Engines
  /\ rows \in [Key -> Row \cup {Absent}]
  /\ nextId \in 1 .. MaxId + 1
  /\ workflows \subseteq WorkflowName
  /\ steps \subseteq Step
  /\ req \in [Client -> Request]

Fresh(op, at, k, v, w) ==
  [op |-> op, at |-> at, key |-> k, version |-> v, wf |-> w, found |-> Absent,
   ids |-> <<>>, answer |-> "none"]

Idle == Fresh("none", "done", CHOOSE k \in Key : TRUE, 0, CHOOSE w \in WorkflowName : TRUE)

Init ==
  /\ engine \in Engines
  /\ rows = [k \in Key |-> Absent]
  /\ nextId = 1
  /\ workflows = {}
  /\ steps = {}
  /\ req = [c \in Client |-> Idle]

-----------------------------------------------------------------------------
\* Request c, in operation op, is at place p.
Is(c, op, p) == req[c].op = op /\ req[c].at = p

Goto(c, p) == req' = [req EXCEPT ![c].at = p]

\* An answered request is forgotten, all but what was asked and answered.
Reply(c, a) ==
  req' = [req EXCEPT ![c] = [Idle EXCEPT !.op = req[c].op, !.wf = req[c].wf, !.answer = a]]

Exists(id) == \E k \in Key : rows[k].id = id /\ rows[k] # Absent
Referenced(id) == \E s \in steps : s.component = id

\* A valid request arrives.
Submit(c) ==
  /\ req[c].at = "done"
  /\ \E k \in Key, w \in WorkflowName :
       \/ req' = [req EXCEPT ![c] = Fresh("create", "write", k, 0, w)]
       \/ \E v \in 1 .. MaxVersion : req' = [req EXCEPT ![c] = Fresh("update", "find", k, v, w)]
       \/ req' = [req EXCEPT ![c] = Fresh("delete", "find", k, 0, w)]
       \/ req' = [req EXCEPT ![c] = Fresh("workflow", "find", k, 0, w)]
  /\ UNCHANGED <<engine, rows, nextId, workflows, steps>>

-----------------------------------------------------------------------------
\* create: one insert, refused when the natural key is taken.  Oracle and
\* MongoDB read the row back in a second statement.
Create(c) ==
  LET k == req[c].key
  IN /\ Is(c, "create", "write")
     /\ nextId <= MaxId
     /\ \/ /\ rows[k] # Absent
           /\ Reply(c, "409")
           /\ UNCHANGED <<rows, nextId>>
        \/ /\ rows[k] = Absent
           /\ rows' = [rows EXCEPT ![k] = [id |-> nextId, version |-> 1]]
           /\ nextId' = nextId + 1
           /\ \/ engine \in {"oracle", "mongodb"}
                 /\ req' = [req EXCEPT ![c].at = "reselect", ![c].found = rows'[k]]
              \/ engine \notin {"oracle", "mongodb"} /\ Reply(c, "ok")
     /\ UNCHANGED <<engine, workflows, steps>>

\* The row just written is read by id: if it is gone, its conversion throws.
Reselect(c) ==
  /\ req[c].at = "reselect"
  /\ Reply(c, IF Exists(req[c].found.id) THEN "ok" ELSE "500")
  /\ UNCHANGED <<engine, rows, nextId, workflows, steps>>

\* update: read by natural key and compare the version, before the write.
FindToUpdate(c) ==
  /\ Is(c, "update", "find")
  /\ LET found == rows[req[c].key]
     IN \/ found = Absent /\ Reply(c, "404")
        \/ found # Absent /\ found.version # req[c].version /\ Reply(c, "409")
        \/ /\ found # Absent /\ found.version = req[c].version
           /\ req' = [req EXCEPT ![c].at = "apply", ![c].found = found]
  /\ UNCHANGED <<engine, rows, nextId, workflows, steps>>

\* Mutant: the update is applied to whatever the natural key holds now.
UpdateByKey(c) ==
  LET k == req[c].key
  IN /\ Is(c, "update", "apply")
     /\ rows' = [rows EXCEPT ![k] = [id |-> req[c].found.id, version |-> req[c].found.version + 1]]
     /\ Reply(c, "ok")
     /\ UNCHANGED <<engine, nextId, workflows, steps>>

\* updateComponent as one statement WHERE id = found.id: nothing compares the
\* version again.  Oracle reads the row back afterwards.
UpdateById(c) ==
  LET f == req[c].found
  IN /\ Is(c, "update", "apply")
     /\ engine # "couchbase"
     /\ \/ ~Exists(f.id) /\ Reply(c, "404") /\ UNCHANGED rows
        \/ /\ Exists(f.id)
           /\ rows' = [k \in Key |-> IF rows[k].id = f.id
                                     THEN [rows[k] EXCEPT !.version = f.version + 1]
                                     ELSE rows[k]]
           /\ \/ engine = "oracle" /\ Goto(c, "reselect")
              \/ engine # "oracle" /\ Reply(c, "ok")
     /\ UNCHANGED <<engine, nextId, workflows, steps>>

\* Couchbase: resolve the id to a document key, get the document, replace it.
CouchbaseResolve(c) ==
  LET f == req[c].found
  IN /\ engine = "couchbase"
     /\ req[c].op \in {"update", "delete"} /\ req[c].at = "apply"
     /\ \/ ~Exists(f.id) /\ Reply(c, "404")
        \/ Exists(f.id) /\ Goto(c, IF req[c].op = "update" THEN "get" ELSE "count")
     /\ UNCHANGED <<engine, rows, nextId, workflows, steps>>

CouchbaseGet(c) ==
  LET current == rows[req[c].key]
  IN /\ Is(c, "update", "get")
     /\ \/ current = Absent /\ Reply(c, "404")
        \/ /\ current # Absent
           /\ req' = [req EXCEPT ![c].at = "write",
                        ![c].found = [current EXCEPT !.version = req[c].found.version + 1]]
     /\ UNCHANGED <<engine, rows, nextId, workflows, steps>>

CouchbaseReplace(c) ==
  LET k == req[c].key
  IN /\ Is(c, "update", "write")
     /\ \/ rows[k] = Absent /\ Reply(c, "404") /\ UNCHANGED rows
        \/ /\ rows[k] # Absent
           /\ rows' = [rows EXCEPT ![k] = req[c].found]
           /\ Reply(c, "ok")
     /\ UNCHANGED <<engine, nextId, workflows, steps>>

-----------------------------------------------------------------------------
\* remove: a missing row is answered at once as deleted.
FindToDelete(c) ==
  /\ Is(c, "delete", "find")
  /\ LET found == rows[req[c].key]
     IN \/ found = Absent /\ Reply(c, "ok")
        \/ found # Absent /\ req' = [req EXCEPT ![c].at = "apply", ![c].found = found]
  /\ UNCHANGED <<engine, rows, nextId, workflows, steps>>

Without(id) == [k \in Key |-> IF rows[k].id = id THEN Absent ELSE rows[k]]

\* Mutant: no foreign key.
DeleteUnchecked(c) ==
  /\ Is(c, "delete", "apply") /\ engine # "couchbase"
  /\ rows' = Without(req[c].found.id)
  /\ Reply(c, "ok")
  /\ UNCHANGED <<engine, nextId, workflows, steps>>

\* deleteComponent as one statement that the foreign key may refuse.
DeleteById(c) ==
  LET id == req[c].found.id
  IN /\ Is(c, "delete", "apply")
     /\ ForeignKeys
     /\ \/ ~Exists(id) /\ Reply(c, "404") /\ UNCHANGED rows
        \/ Exists(id) /\ Referenced(id) /\ Reply(c, "409") /\ UNCHANGED rows
        \/ Exists(id) /\ ~Referenced(id) /\ rows' = Without(id) /\ Reply(c, "ok")
     /\ UNCHANGED <<engine, nextId, workflows, steps>>

\* MongoDB and Couchbase count the referencing steps, and then delete.
CountReferences(c) ==
  /\ \/ engine = "mongodb" /\ Is(c, "delete", "apply")
     \/ Is(c, "delete", "count")
  /\ \/ Referenced(req[c].found.id) /\ Reply(c, "409")
     \/ ~Referenced(req[c].found.id) /\ Goto(c, "write")
  /\ UNCHANGED <<engine, rows, nextId, workflows, steps>>

MongoDelete(c) ==
  LET id == req[c].found.id
  IN /\ engine = "mongodb" /\ Is(c, "delete", "write")
     /\ \/ ~Exists(id) /\ Reply(c, "404") /\ UNCHANGED rows
        \/ Exists(id) /\ rows' = Without(id) /\ Reply(c, "ok")
     /\ UNCHANGED <<engine, nextId, workflows, steps>>

\* Couchbase removes the document key, whichever component is there by then.
CouchbaseRemove(c) ==
  LET k == req[c].key
  IN /\ engine = "couchbase" /\ Is(c, "delete", "write")
     /\ \/ rows[k] = Absent /\ Reply(c, "404") /\ UNCHANGED rows
        \/ rows[k] # Absent /\ rows' = [rows EXCEPT ![k] = Absent] /\ Reply(c, "ok")
     /\ UNCHANGED <<engine, nextId, workflows, steps>>

-----------------------------------------------------------------------------
\* WorkflowService.create: is the name taken?
FindWorkflow(c) ==
  /\ Is(c, "workflow", "find")
  /\ \/ req[c].wf \in workflows /\ Reply(c, "409")
     \/ /\ req[c].wf \notin workflows
        /\ req' = [req EXCEPT ![c].at = "lookup", ![c].ids = [i \in Order |-> 0]]
  /\ UNCHANGED <<engine, rows, nextId, workflows, steps>>

\* Promise.all over the steps: one lookup answers, in any order; the first
\* unknown component rejects the request.
LookupComponent(c) ==
  /\ Is(c, "workflow", "lookup")
  /\ \E i \in {j \in Order : req[c].ids[j] = 0} :
       LET component == rows[WorkflowSteps[i]]
       IN \/ component = Absent /\ Reply(c, "400")
          \/ /\ component # Absent
             /\ req' = [req EXCEPT
                  ![c].ids[i] = component.id,
                  ![c].at = IF \A j \in Order \ {i} : req[c].ids[j] # 0 THEN "write" ELSE "lookup"]
  /\ UNCHANGED <<engine, rows, nextId, workflows, steps>>

\* saveWorkflow: the name is unique on every engine; SQLite's adapter does not
\* translate the violation, which surfaces as an internal error.
SaveWorkflow(c) ==
  /\ Is(c, "workflow", "write")
  /\ \/ /\ req[c].wf \in workflows
        /\ Reply(c, IF engine = "sqlite" THEN "500" ELSE "409")
        /\ UNCHANGED workflows
     \/ /\ req[c].wf \notin workflows
        /\ workflows' = workflows \cup {req[c].wf}
        /\ Goto(c, "saveStep")
  /\ UNCHANGED <<engine, rows, nextId, steps>>

\* The step that request c saves next.
SavedBy(c) == {s \in steps : s.wf = req[c].wf}
NextStep(c) ==
  LET i == Cardinality(SavedBy(c)) + 1
  IN [wf |-> req[c].wf, order |-> i, component |-> req[c].ids[i]]

\* Mutant: the response does not wait for the steps after the first.
InsertStepAndReply(c) ==
  /\ steps' = steps \cup {NextStep(c)}
  /\ Reply(c, "ok")

InsertStep(c) ==
  /\ steps' = steps \cup {NextStep(c)}
  /\ IF NextStep(c).order = Len(WorkflowSteps) THEN Reply(c, "ok") ELSE Goto(c, "saveStep")

\* saveWorkflowStep: the insert of a foreign key, or a count before it.
SaveWorkflowStep(c) ==
  /\ Is(c, "workflow", "saveStep")
  /\ \/ /\ ~Exists(NextStep(c).component)
        /\ Reply(c, IF engine = "sqlite" THEN "500" ELSE "409")
        /\ UNCHANGED steps
     \/ Exists(NextStep(c).component) /\ ForeignKeys /\ InsertStep(c)
     \/ Exists(NextStep(c).component) /\ ~ForeignKeys /\ Goto(c, "insertStep") /\ UNCHANGED steps
  /\ UNCHANGED <<engine, rows, nextId, workflows>>

InsertCheckedStep(c) ==
  /\ Is(c, "workflow", "insertStep")
  /\ InsertStep(c)
  /\ UNCHANGED <<engine, rows, nextId, workflows>>

Update(c) == FindToUpdate(c) \/ UpdateById(c) \/ CouchbaseGet(c) \/ CouchbaseReplace(c)
Remove(c) == FindToDelete(c) \/ DeleteById(c) \/ CountReferences(c)
               \/ MongoDelete(c) \/ CouchbaseRemove(c)
CreateWorkflow(c) == FindWorkflow(c) \/ LookupComponent(c) \/ SaveWorkflow(c)
                       \/ SaveWorkflowStep(c) \/ InsertCheckedStep(c)

Serve(c) ==
  Submit(c) \/ Create(c) \/ Reselect(c) \/ CouchbaseResolve(c)
    \/ Update(c) \/ Remove(c) \/ CreateWorkflow(c)

Next == \E c \in Client : Serve(c)

Spec == Init /\ [][Next]_vars

-----------------------------------------------------------------------------
\* "a transaction would commit a workflow whose steps point at nothing": on
\* the engines with foreign keys no interleaving leaves such a step.
NoDanglingStep == ForeignKeys => \A s \in steps : Exists(s.component)

\* A component keeps its identity (Couchbase works by key): a delete removes the
\* very component that the request looked up, never one created under the same
\* natural key since; an id is never replaced under its key, nor does a deleted
\* one come back.
IdentityKept ==
  [][engine # "couchbase" => \A k \in Key : rows'[k] # rows[k] =>
       \/ /\ rows[k] # Absent /\ rows'[k] = Absent
          /\ \E c \in Client : /\ req[c].op = "delete" /\ req[c].at # "done"
                              /\ req[c].found.id = rows[k].id
                              /\ req'[c].answer = "ok"
       \/ rows[k] # Absent /\ rows'[k].id = rows[k].id
       \/ rows[k] = Absent /\ rows'[k].id = nextId]_vars

\* Two requests creating one workflow never both add steps to it, so that its
\* steps are a prefix of one request's.
OneAuthorPerWorkflow ==
  /\ \A c, d \in Client :
       /\ req[c].op = "workflow" /\ req[c].at \in {"saveStep", "insertStep"}
       /\ req[d].op = "workflow" /\ req[d].at \in {"saveStep", "insertStep"}
       /\ req[c].wf = req[d].wf
       => c = d
  /\ \A s, t \in steps : s.wf = t.wf /\ s.order = t.order => s = t

\* ... and a workflow reported as created has all of them.
CreatedMeansComplete ==
  /\ OneAuthorPerWorkflow
  /\ \A c \in Client : req[c].op = "workflow" /\ req[c].answer = "ok" =>
       \A i \in Order : \E s \in steps : s.wf = req[c].wf /\ s.order = i

\* "Required version for optimistic concurrency control. Must match current
\* version": when an update is carried out, the component still has the
\* version that the request requires.
UpdateMatchesCurrent ==
  [][\A c \in Client :
       req[c].op = "update" /\ req[c].at # "done" /\ req'[c].answer = "ok" =>
         rows[req[c].key].version = req[c].version]_vars
=============================================================================
