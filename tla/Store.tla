------------------------------- MODULE Store -------------------------------
(***************************************************************************)
(* What the five adapters of DBAdapter share: the tables, the calls in     *)
(* progress and the transactions.  The tables hold one component, one      *)
(* workflow, its steps and one configuration key; a stored row is reduced  *)
(* to one optional column.  An action is one statement.                    *)
(***************************************************************************)
EXTENDS Naturals, FiniteSets

CONSTANTS Client,    \* callers of the adapter
          StepId,    \* workflow_steps.id
          Engines,   \* the engines this deployment may run on
          MaxCalls   \* bound: calls made in a behaviour

ASSUME StoreAssumption ==
  /\ Engines \subseteq {"sqlite", "postgres", "oracle", "mongodb", "couchbase"}
  /\ MaxCalls \in Nat
  /\ StepId \cap ({"component", "workflow", "config"}
                    \cup {"undefined", "empty", "some", "unchanged"}) = {}

VARIABLES engine,  \* the engine DATABASE_URL selects
          db,      \* what a new connection sees
          call,    \* the call each client has in progress
          tx,      \* the transaction each client has open
          made,    \* step ids that have been used: generateId() makes no id twice
          calls    \* calls made

vars == <<engine, db, call, tx, made, calls>>

\* An optional field: absent, the empty string, or something else.
Optional == {"undefined", "empty", "some"}
Column == Optional \cup {"NULL"}

\* A row: its optional column, and what the last call that set it meant it to read
\* as, "undone" once a call that did not set it has written an older value back.
None == [column |-> "none", meant |-> "none"]
Row(column, meant) == [column |-> column, meant |-> meant]
Rows == [column : Column, meant : Optional \cup {"undone"}]
Item == {"component", "workflow", "config"} \cup StepId
Tables == [Item -> {None} \cup Rows]

Op == {"saveComponent", "updateComponent", "deleteComponent",
       "saveWorkflow", "updateWorkflow", "deleteWorkflow",
       "saveWorkflowStep", "deleteWorkflowSteps", "setConfig", "deleteConfig"}

\* "raw" is an error that is not an AppError.
Answers == {"none", "ok", "notFound", "conflict", "unsupported", "error", "raw"}
Call == [op : Op \cup {"none", "transaction"}, arg : Optional \cup {"unchanged"} \cup StepId,
         at : {"ready", "reread", "insert", "count", "remove", "parent", "replace", "done"},
         found : {None} \cup Rows,   \* a document read, with the call's changes
         queried : SUBSET StepId, \* the steps a query returned
         steps : SUBSET StepId,   \* the workflow's steps when the call was made
         answer : Answers]
Idle == [op |-> "none", arg |-> "unchanged", at |-> "done", found |-> None,
         queried |-> {}, steps |-> {}, answer |-> "none"]

\* delta is what the transaction has written, keys the rows its inserts refer to.
NoTx == [open |-> FALSE, before |-> <<>>, delta |-> <<>>, keys |-> {}]

StepsIn(t) == {s \in StepId : t[s] # None}
Parents == {"workflow", "component"}
Complete(t) == \A p \in Parents : t[p] # None

\* Rows written over older ones, and a write of one row.
Over(new, old) ==
  [i \in DOMAIN new \cup DOMAIN old |-> IF i \in DOMAIN new THEN new[i] ELSE old[i]]
One(item, row) == [i \in {item} |-> row]

-----------------------------------------------------------------------------
Is(c, op, at) == call[c].op = op /\ call[c].at = at
Goto(c, at) == call' = [call EXCEPT ![c].at = at]
Answer(c, a) == call' = [call EXCEPT ![c].at = "done", ![c].answer = a]
Proceed(c, at) == IF at = "done" THEN Answer(c, "ok") ELSE Goto(c, at)

\* Mutant: Oracle's methods commit by themselves in a transaction too.
PrivateSqlOnly(c) == tx[c].open /\ engine \notin {"sqlite", "oracle"}

\* SQLite has one connection, so that every caller sees an open transaction.
Private(c) == tx[c].open /\ engine # "sqlite"

View(c) ==
  IF ~Private(c) THEN db
  ELSE Over(tx[c].delta, IF engine = "mongodb" THEN tx[c].before ELSE db)

\* No other transaction has written these rows; MongoDB also refuses to write
\* in a transaction what was committed since it began.  A statement whose rows
\* are not free waits, or fails (StatementFails).
Free(c, items) ==
  /\ \A d \in Client \ {c} : DOMAIN tx[d].delta \cap items = {}
  /\ engine = "mongodb" /\ Private(c) => \A i \in items : db[i] = tx[c].before[i]
Unneeded(c, item) == \A d \in Client \ {c} : item \notin tx[d].keys
Staying(c, items) ==
  \A d \in Client \ {c} : \A i \in items \cap DOMAIN tx[d].delta : tx[d].delta[i] # None

NoWrite == UNCHANGED <<db, tx>>
WriteUnder(c, rows, keys) ==
  IF Private(c)
  THEN /\ tx' = [tx EXCEPT ![c].delta = Over(rows, @), ![c].keys = @ \cup keys]
       /\ UNCHANGED db
  ELSE db' = Over(rows, db) /\ UNCHANGED tx
Write(c, rows) == WriteUnder(c, rows, {})

\* One statement each: an insert under a unique key, a change or a removal of
\* one row, a removal of several.
Insert(c, item, row, taken, next) ==
  /\ Free(c, {item})
  /\ \/ View(c)[item] # None /\ Answer(c, taken) /\ NoWrite
     \/ View(c)[item] = None /\ Write(c, One(item, row)) /\ Proceed(c, next)

Change(c, item, row, next) ==
  /\ Free(c, {item})
  /\ \/ View(c)[item] = None /\ Answer(c, "notFound") /\ NoWrite
     \/ View(c)[item] # None /\ Write(c, One(item, row)) /\ Proceed(c, next)

Gone(items) == [i \in items |-> None]
Remove(c, item, along) ==
  /\ Free(c, {item} \cup along) /\ Unneeded(c, item)
  /\ \/ View(c)[item] = None /\ Answer(c, "notFound") /\ NoWrite
     \/ View(c)[item] # None /\ Write(c, Gone({item} \cup along)) /\ Answer(c, "ok")

RemoveSteps(c, next) ==
  /\ Free(c, StepsIn(View(c)))
  /\ Write(c, Gone(StepsIn(View(c))))
  /\ Proceed(c, next)

\* The foreign keys of workflow_steps: a workflow takes its steps with it, a
\* step needs its workflow and its component, and a component is not deleted
\* under a step.
RemoveCascading(c) == Remove(c, "workflow", StepsIn(View(c)))

InsertStep(c, row, refused, next) ==
  LET s == call[c].arg
  IN /\ Free(c, {s}) /\ Staying(c, Parents)
     /\ \/ ~Complete(View(c)) /\ Answer(c, refused) /\ NoWrite
        \/ /\ Complete(View(c))
           /\ WriteUnder(c, One(s, row), Parents)
           /\ Proceed(c, next)

RemoveUnreferenced(c) ==
  LET held == View(c)["component"] # None /\ StepsIn(View(c)) # {}
  IN \/ ~held /\ Remove(c, "component", {})
     \/ /\ held /\ Free(c, {"component"} \cup StepsIn(View(c)))
        /\ Answer(c, "conflict") /\ NoWrite

\* What a call means to leave in the row, whatever the engine: an update of a
\* component applies every key that is in `changes`, undefined clearing the
\* field; an update of a workflow applies what is not undefined.
Meant(c) ==
  LET old == View(c)[IF call[c].op = "updateComponent" THEN "component" ELSE "workflow"].meant
      arg == call[c].arg
  IN IF arg = "unchanged" \/ (call[c].op = "updateWorkflow" /\ arg = "undefined") THEN old ELSE arg
=============================================================================
