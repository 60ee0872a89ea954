------------------------------ MODULE Adapters ------------------------------
(***************************************************************************)
(* DBAdapter: clients that call one of the five adapters, with and without *)
(* a transaction.  A call made inside a transaction is made by its         *)
(* callback, which throws as soon as a call of its own fails.              *)
(***************************************************************************)
EXTENDS SqliteStore, PostgresStore, OracleStore, MongoStore, CouchbaseStore

Networked == engine # "sqlite"

\* A deployment in use: a component and a workflow may be there, and its steps.
Init ==
  /\ engine \in Engines
  /\ db \in {[i \in Item |-> IF i \in present THEN Row("some", "some") ELSE None] :
               present \in {p \in SUBSET (Parents \cup StepId) :
                             p \cap StepId # {} => Parents \subseteq p}}
  /\ call = [c \in Client |-> Idle]
  /\ tx = [c \in Client |-> NoTx]
  /\ made = StepsIn(db)
  /\ calls = 0

Arguments(op) ==
  CASE op \in {"saveComponent", "saveWorkflow"} -> Optional
    [] op \in {"updateComponent", "updateWorkflow"} -> Optional \cup {"unchanged"}
    [] op = "saveWorkflowStep" -> StepId \ made
    [] op = "setConfig" -> {"empty", "some"}
    [] OTHER -> {"unchanged"}

Submit(c) ==
  /\ call[c].at = "done"
  /\ calls < MaxCalls
  /\ tx[c].open => call[c].answer = "ok"
  /\ \E op \in Op \cup {"transaction"} : \E arg \in Arguments(op) :
       /\ call' = [call EXCEPT ![c] = [Idle EXCEPT !.op = op, !.arg = arg, !.at = "ready",
                                                   !.steps = StepsIn(View(c))]]
       /\ made' = made \cup ({arg} \cap StepId)
  /\ calls' = calls + 1
  /\ UNCHANGED <<engine, db, tx>>

\* A statement that was not executed: connection lost, deadlock victim, write
\* conflict of a MongoDB transaction.
StatementFails(c) ==
  /\ Networked
  /\ call[c].at # "done"
  /\ Answer(c, "error")
  /\ NoWrite

EngineCall(c) ==
  \/ SqliteCall(c) \/ PostgresCall(c) \/ OracleCall(c) \/ MongoCall(c) \/ CouchbaseCall(c)

Execute(c) ==
  (EngineCall(c) \/ StatementFails(c)) /\ UNCHANGED <<engine, made, calls>>

-----------------------------------------------------------------------------
InCallback(c) == tx[c].open /\ call[c].at = "done"
End(c, answer) ==
  /\ tx' = [tx EXCEPT ![c] = NoTx]
  /\ call' = [call EXCEPT ![c] = [Idle EXCEPT !.op = "transaction", !.answer = answer]]
  /\ UNCHANGED <<engine, made, calls>>

\* The callback returned.
Commit(c) ==
  /\ InCallback(c) /\ call[c].answer = "ok"
  /\ IF engine = "sqlite" THEN SqliteCommit(c) ELSE db' = Over(tx[c].delta, db)
  /\ End(c, "ok")

\* The commit was sent and its answer lost.
CommitUnanswered(c) ==
  /\ InCallback(c) /\ call[c].answer = "ok" /\ Networked
  /\ UNCHANGED db \/ db' = Over(tx[c].delta, db)
  /\ End(c, "error")

\* The callback threw: always after a call of its own failed, and perhaps for
\* a reason of its own.
Rollback(c) ==
  /\ InCallback(c)
  /\ IF engine = "sqlite" THEN SqliteRollback(c) ELSE UNCHANGED db
  /\ End(c, CASE call[c].answer = "ok" -> "error"
              [] engine = "sqlite" -> SqliteTranslated(call[c])
              [] OTHER -> call[c].answer)

\* withTransaction runs the callback again when the commit met a transient
\* error.  Only then: of a statement's error `guard` has made an AppError, on
\* which the driver does not find the label it looks for.
MongoRetry(c) ==
  /\ InCallback(c) /\ call[c].answer = "ok" /\ engine = "mongodb"
  /\ tx' = [tx EXCEPT ![c] = [NoTx EXCEPT !.open = TRUE, !.before = db]]
  /\ call' = [call EXCEPT ![c] = [Idle EXCEPT !.op = "transaction", !.answer = "ok"]]
  /\ UNCHANGED <<engine, db, made, calls>>

Next == \E c \in Client :
  \/ Submit(c) \/ Execute(c)
  \/ Commit(c) \/ CommitUnanswered(c) \/ Rollback(c) \/ MongoRetry(c)

Spec == Init /\ [][Next]_vars

-----------------------------------------------------------------------------
(* Every variable keeps its type; only Couchbase stores an absent field by   *)
(* leaving it out, the others store a NULL, and only there is a field undone. *)
TypeOK ==
  /\ engine \in Engines
  /\ db \in Tables
  /\ engine # "couchbase" =>
       \A i \in Item : db[i].column # "undefined" /\ db[i].meant # "undone"
  /\ call \in [Client -> Call]
  /\ \A c \in Client :
       /\ tx[c].open \in BOOLEAN
       /\ tx[c].delta \in [DOMAIN tx[c].delta -> UNION {{None}, Rows}]
       /\ DOMAIN tx[c].delta \subseteq Item
       /\ tx[c].keys \subseteq Parents
  /\ made \subseteq StepId
  /\ calls \in 0 .. MaxCalls

Components(t) ==
  CASE engine = "sqlite" -> SqliteComponents(t)
    [] engine = "postgres" -> PostgresComponents(t)
    [] engine = "oracle" -> OracleComponents(t)
    [] engine = "mongodb" -> MongoComponents(t)
    [] engine = "couchbase" -> CouchbaseComponents(t)

Workflows(t) ==
  CASE engine = "sqlite" -> SqliteWorkflows(t)
    [] engine = "postgres" -> PostgresWorkflows(t)
    [] engine = "oracle" -> OracleWorkflows(t)
    [] engine = "mongodb" -> MongoWorkflows(t)
    [] engine = "couchbase" -> CouchbaseWorkflows(t)

Config(t) ==
  CASE engine = "sqlite" -> SqliteConfig(t)
    [] engine = "postgres" -> PostgresConfig(t)
    [] engine = "oracle" -> OracleConfig(t)
    [] engine = "mongodb" -> MongoConfig(t)
    [] engine = "couchbase" -> CouchbaseConfig(t)

Steps(t) ==
  CASE engine = "sqlite" -> SqliteSteps(t)
    [] engine = "postgres" -> PostgresSteps(t)
    [] engine = "oracle" -> OracleSteps(t)
    [] engine = "mongodb" -> MongoSteps(t)
    [] engine = "couchbase" -> CouchbaseSteps(t)

(* The five adapters are interchangeable: an optional field reads as the     *)
(* last call that set it and was not rolled back left it, whatever other     *)
(* calls and transactions wrote to its row; absent stays absent.  Two        *)
(* engines are apart.  Oracle, which has no empty string, reads one as       *)
(* absent.  Couchbase's updates replace whole documents without CAS, so that *)
(* one which overlaps another may put back a field that it does not change:  *)
(* such a field is undone, and excepted until a call sets it again.  (And    *)
(* the variables have their types.)                                          *)
ReadBack ==
  /\ TypeOK
  /\ LET read == [component |-> Components(db), workflow |-> Workflows(db), config |-> Config(db)]
     IN \A i \in DOMAIN read : db[i] # None /\ db[i].meant # "undone" =>
          read[i] = IF engine = "oracle" /\ db[i].meant = "empty" THEN "undefined"
                    ELSE db[i].meant

(* On the engines with foreign keys no committed step is without its        *)
(* workflow or its component, nor is one a transaction is working with,      *)
(* however calls and transactions overlap.  (MongoDB and Couchbase count and *)
(* then act: there a step may be orphaned.)                                  *)
NoOrphan ==
  engine \in {"sqlite", "postgres", "oracle"} =>
    \A t \in {db} \cup {View(c) : c \in Client} : Steps(t) # {} => Complete(t)

(* On every engine deleteWorkflow has removed all the steps the workflow had *)
(* when it was called by the time it removes the workflow, so that one that  *)
(* fails half-way can be repeated.                                           *)
WorkflowTakesItsSteps ==
  [][\A c \in Client :
       (/\ call[c].op = "deleteWorkflow" /\ call[c].at # "done" /\ call'[c] # call[c]
        /\ View(c)["workflow"] # None /\ View(c)'["workflow"] = None)
         => call[c].steps \cap Steps(View(c))' = {}]_vars

(* Inside a transaction of PostgreSQL, Oracle or MongoDB no method writes to *)
(* the tables; its end applies all of its writes, and only them, or none.    *)
AllOrNothing ==
  [][\A c \in Client : Networked /\ tx[c].open /\ call'[c] # call[c] =>
       \/ db' = db
       \/ ~tx'[c].open /\ db' = Over(tx[c].delta, db)]_vars
=============================================================================
