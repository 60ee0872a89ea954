------------------------- MODULE WorkflowRun_proofs -------------------------
(***************************************************************************)
(* The catalogue and the runs of its workflows, for all clients, keys,     *)
(* workflows and bounds: on every engine the types, who adds the steps of  *)
(* a workflow, what a creation leaves, what becomes of a component and     *)
(* which steps a run executes; on the engines with foreign keys also that  *)
(* no step loses its component, and that runs execute what they name.      *)
(***************************************************************************)
EXTENDS WorkflowRun, FiniteSetTheorems, SequenceTheorems, TLAPS

\* What a request holds at each place.  Where there are foreign keys it does not
\* take the steps of the other engines.
WellFormed(r) ==
  /\ r.at # "done" => r.answer = "none"
  /\ r.at \in {"apply", "get", "count"} => r.found \in Row
  /\ r.op \in {"update", "delete"} /\ r.at = "write" => r.found \in Row
  /\ r.at \in {"apply", "get", "count", "reselect"} => r.op # "workflow"
  /\ r.op = "update" /\ r.at \in {"apply", "get"} => r.found.version <= MaxVersion
  /\ r.op = "update" /\ r.at \in {"get", "write"} => engine = "couchbase"
  /\ r.at \in {"saveStep", "insertStep"} => r.op = "workflow"
  /\ r.op = "workflow" /\ r.at \in {"lookup", "write", "saveStep", "insertStep"} =>
       r.ids \in [Order -> 0 .. MaxId]
  /\ r.op = "workflow" /\ r.at \in {"write", "saveStep", "insertStep"} =>
       Order # {} /\ \A i \in Order : r.ids[i] # 0
  /\ ForeignKeys => /\ r.at \notin {"get", "count", "insertStep"}
                    /\ r.op \in {"update", "delete"} => r.at # "write"

\* The steps of a workflow are numbered without a gap.
Saved(w) == {s \in steps : s.wf = w}
Numbered ==
  \A w \in WorkflowName :
    /\ \A s \in Saved(w) : s.order \in 1 .. Cardinality(Saved(w))
    /\ \A i \in 1 .. Cardinality(Saved(w)) : \E s \in Saved(w) : s.order = i

\* A request that saves steps has saved the workflow, is alone with it, and has
\* a step left to save; one that was answered "ok" has saved them all.
Saving(c) == req[c].at \in {"saveStep", "insertStep"}
Authors ==
  /\ \A s \in steps : s.wf \in workflows
  /\ \A s, t \in steps : s.wf = t.wf /\ s.order = t.order => s = t
  /\ \A c \in Client : Saving(c) =>
       req[c].wf \in workflows /\ Cardinality(Saved(req[c].wf)) < Len(WorkflowSteps)
  /\ \A c, d \in Client : Saving(c) /\ Saving(d) /\ req[c].wf = req[d].wf => c = d
  /\ \A c \in Client : req[c].op = "workflow" /\ req[c].answer = "ok" =>
       Cardinality(Saved(req[c].wf)) = Len(WorkflowSteps)

\* An id is under one key, and was made before.
IdsUnique ==
  /\ \A k \in Key : rows[k] = Absent \/ rows[k].id < nextId
  /\ \A j, k \in Key : rows[j] # Absent /\ rows[j].id = rows[k].id => j = k

NoneDangling == \A s \in steps : Exists(s.component)

CatalogInv ==
  /\ TypeOK
  /\ IsFiniteSet(steps)
  /\ \A c \in Client : WellFormed(req[c])
  /\ Numbered
  /\ Authors
  /\ ForeignKeys => IdsUnique /\ NoneDangling
-----------------------------------------------------------------------------
Entry == [step : Step, ran : 0 .. MaxId, ok : BOOLEAN]

\* A run has read the steps in their order, has executed a prefix of them, and
\* goes on only after a step that succeeded or may fail.  One of a workflow that
\* was complete reads all of its steps, as there is nobody left to add any.
OnCourse(r) ==
  /\ r.at \in {"find", "steps"} => r.read = <<>> /\ r.log = <<>> /\ r.answer = "none"
  /\ r.whole => IF r.at \in {"find", "steps"}
                THEN Cardinality(Saved(r.wf)) = Len(WorkflowSteps)
                ELSE Len(r.read) = Len(WorkflowSteps) \/ r.answer = "404"
  /\ r.at \in {"component", "invoke"} => Len(r.log) < Len(r.read) /\ r.answer = "none"
  /\ Len(r.log) <= Len(r.read)
  /\ \A i \in 1 .. Len(r.log) : r.log[i].step = r.read[i]
  /\ \A i \in 1 .. Len(r.log) :
       \/ r.log[i].ok
       \/ onFailure[r.log[i].step.order] = "continue"
       \/ i = Len(r.log) /\ r.answer = "failed"
  /\ r.answer = "ok" => Len(r.log) = Len(r.read)

\* With foreign keys what it has read stays stored, and between its two lookups
\* the step's component stays under the key that was found.
OnTrueCourse(r) ==
  /\ r.answer = "404" => r.read = <<>>
  /\ \A i \in 1 .. Len(r.read) : r.read[i] \in steps
  /\ r.at = "invoke" =>
       rows[r.key] # Absent /\ rows[r.key].id = r.read[Len(r.log) + 1].component
  /\ \A i \in 1 .. Len(r.log) : r.log[i].ran = r.log[i].step.component

RunInv ==
  /\ CatalogInv
  /\ onFailure \in OnFailures
  /\ run \in [Client -> Run]
  /\ \A c \in Client : OnCourse(run[c])
  /\ ForeignKeys => \A c \in Client : OnTrueCourse(run[c])

-----------------------------------------------------------------------------
(* The steps of a request, on every engine.                                *)

\* Request c goes on as r.
Takes(c, r) == r \in Request /\ WellFormed(r) /\ req' = [req EXCEPT ![c] = r]

\* The idle request and every fresh one are well formed.
LEMMA FreshRequests ==
  /\ Idle \in Request /\ Idle.at = "done" /\ Idle.answer = "none" /\ Idle.op = "none"
  /\ \A op \in {"create", "update", "delete", "workflow"}, at \in {"find", "write"},
       k \in Key, v \in 0 .. MaxVersion, w \in WorkflowName :
         Fresh(op, at, k, v, w) \in Request
<1>1. (CHOOSE k \in Key : TRUE) \in Key /\ (CHOOSE w \in WorkflowName : TRUE) \in WorkflowName
  BY CatalogAssumption
<1>2. 0 \in 0 .. MaxVersion
  BY CatalogAssumption
<1>3. Absent \in Row \cup {Absent} /\ <<>> \in Seq(1 .. MaxId \cup {0})
  OBVIOUS
<1> QED
  BY <1>1, <1>2, <1>3 DEF Idle, Fresh, Request

\* A request that is over is well formed, whatever it was.
LEMMA DoneIsWellFormed ==
  ASSUME NEW r, r.at = "done"
  PROVE  WellFormed(r)
BY DEF WellFormed

\* An answered request is over and remembers what was asked.
LEMMA ReplyTakes ==
  ASSUME TypeOK, NEW c \in Client,
         NEW a \in {"none", "ok", "400", "404", "409", "500"}, Reply(c, a)
  PROVE  \E r : /\ Takes(c, r) /\ r.at = "done" /\ r.answer = a
                /\ r.op = req[c].op /\ r.wf = req[c].wf
<1> DEFINE r == [Idle EXCEPT !.op = req[c].op, !.wf = req[c].wf, !.answer = a]
<1>1. ASSUME NEW i \in Request, i.at = "done", NEW q \in Request
      PROVE  LET n == [i EXCEPT !.op = q.op, !.wf = q.wf, !.answer = a]
             IN n \in Request /\ n.at = "done" /\ n.answer = a /\ n.op = q.op /\ n.wf = q.wf
  BY <1>1 DEF Request
<1>2. /\ r \in Request /\ r.at = "done" /\ r.answer = a
      /\ r.op = req[c].op /\ r.wf = req[c].wf
  BY <1>1, FreshRequests DEF TypeOK
<1>3. req' = [req EXCEPT ![c] = r]
  BY DEF Reply
<1> HIDE DEF r
<1> QED
  BY <1>2, <1>3, DoneIsWellFormed DEF Takes

\* A request that goes on to its next statement, with what it has.
LEMMA GotoTakes ==
  ASSUME TypeOK, NEW c \in Client, WellFormed(req[c]),
         NEW p \in {"apply", "get", "count", "write", "reselect", "saveStep", "insertStep"},
         Goto(c, p), WellFormed([req[c] EXCEPT !.at = p])
  PROVE  \E r : /\ Takes(c, r) /\ r.at = p /\ r.answer = req[c].answer
                /\ r.op = req[c].op /\ r.wf = req[c].wf
<1> DEFINE r == [req[c] EXCEPT !.at = p]
<1>1. req[c] \in Request
  BY DEF TypeOK
<1>2. /\ r \in Request /\ r.at = p /\ r.answer = req[c].answer
      /\ r.op = req[c].op /\ r.wf = req[c].wf
  BY <1>1 DEF Request
<1>3. req' = [req EXCEPT ![c] = r]
  BY DEF Goto, TypeOK
<1> QED
  BY <1>2, <1>3 DEF Takes

\* A request that goes on with what it has found.
LEMMA FoundTakes ==
  ASSUME TypeOK, NEW c \in Client, NEW p \in {"apply", "write", "reselect"},
         NEW f \in Row \cup {Absent},
         req' = [req EXCEPT ![c].at = p, ![c].found = f],
         WellFormed([req[c] EXCEPT !.at = p, !.found = f])
  PROVE  \E r : /\ Takes(c, r) /\ r.at = p /\ r.answer = req[c].answer
                /\ r.op = req[c].op /\ r.wf = req[c].wf
<1> DEFINE r == [req[c] EXCEPT !.at = p, !.found = f]
<1>1. req[c] \in Request
  BY DEF TypeOK
<1>2. /\ r \in Request /\ r.at = p /\ r.answer = req[c].answer
      /\ r.op = req[c].op /\ r.wf = req[c].wf
  BY <1>1 DEF Request
<1>3. req' = [req EXCEPT ![c] = r]
  BY DEF TypeOK
<1> QED
  BY <1>2, <1>3 DEF Takes

\* What a step of request c may do.  Most leave the tables as they are.
Quiet(c) ==
  /\ UNCHANGED <<rows, nextId, workflows, steps>>
  /\ \E r : /\ Takes(c, r)
            /\ r.at \in {"saveStep", "insertStep"} => Saving(c) /\ r.wf = req[c].wf
            /\ r.op = "workflow" => r.answer # "ok"

Creates(k) ==
  /\ rows[k] = Absent /\ nextId <= MaxId
  /\ rows' = [rows EXCEPT ![k] = [id |-> nextId, version |-> 1]]
  /\ nextId' = nextId + 1
Updates(f) ==
  /\ f.version <= MaxVersion /\ f.id # 0
  /\ rows' = [k \in Key |-> IF rows[k].id = f.id THEN [rows[k] EXCEPT !.version = f.version + 1]
                                                ELSE rows[k]]
  /\ UNCHANGED nextId
Replaces(k, f) ==
  engine = "couchbase" /\ rows' = [rows EXCEPT ![k] = f] /\ UNCHANGED nextId
Deletes(id) ==
  /\ id # 0 /\ (ForeignKeys => ~Referenced(id))
  /\ rows' = Without(id)
  /\ UNCHANGED nextId

\* One changes the components.
Rewrites(c) ==
  /\ UNCHANGED <<workflows, steps>>
  /\ \E r : /\ Takes(c, r)
            /\ r.at \notin {"saveStep", "insertStep"} /\ r.op # "workflow"
  /\ \/ \E k \in Key : Creates(k)
     \/ \E f \in Row : Updates(f)
     \/ \E k \in Key, f \in Row \cup {Absent} : Replaces(k, f)
     \/ \E id : Deletes(id)

\* One saves the workflow, and one of its steps.
Names(c) ==
  /\ UNCHANGED <<rows, nextId, steps>>
  /\ req[c].wf \notin workflows /\ workflows' = workflows \cup {req[c].wf}
  /\ Order # {}
  /\ \E r : Takes(c, r) /\ r.at = "saveStep" /\ r.wf = req[c].wf /\ r.answer # "ok"

Adds(c) ==
  /\ UNCHANGED <<rows, nextId, workflows>>
  /\ Saving(c)
  /\ \E s \in Step : \E r :
       /\ s.wf = req[c].wf /\ s.order = Cardinality(Saved(s.wf)) + 1
       /\ steps' = steps \cup {s}
       /\ ForeignKeys => Exists(s.component)
       /\ Takes(c, r) /\ r.wf = req[c].wf
       /\ \/ r.at = "saveStep" /\ r.answer # "ok" /\ s.order # Len(WorkflowSteps)
          \/ r.at = "done" /\ s.order = Len(WorkflowSteps)

Effects(c) == Quiet(c) \/ Rewrites(c) \/ Names(c) \/ Adds(c)

\* A request that is answered, with the tables as they are.
LEMMA QuietReply ==
  ASSUME TypeOK, NEW c \in Client,
         NEW a \in {"none", "ok", "400", "404", "409", "500"}, Reply(c, a),
         req[c].op = "workflow" => a # "ok",
         UNCHANGED <<rows, nextId, workflows, steps>>
  PROVE  Quiet(c)
<1> PICK r : /\ Takes(c, r) /\ r.at = "done" /\ r.answer = a
             /\ r.op = req[c].op /\ r.wf = req[c].wf
  BY ReplyTakes
<1> QED
  BY DEF Quiet

\* One that goes on, with the tables as they are.
LEMMA QuietGoto ==
  ASSUME TypeOK, NEW c \in Client, WellFormed(req[c]), req[c].at # "done",
         NEW p \in {"apply", "get", "count", "write", "reselect", "saveStep", "insertStep"},
         Goto(c, p), WellFormed([req[c] EXCEPT !.at = p]),
         p \in {"saveStep", "insertStep"} => Saving(c),
         UNCHANGED <<rows, nextId, workflows, steps>>
  PROVE  Quiet(c)
<1> PICK r : /\ Takes(c, r) /\ r.at = p /\ r.answer = req[c].answer
             /\ r.op = req[c].op /\ r.wf = req[c].wf
  BY GotoTakes
<1> QED
  BY DEF Quiet, WellFormed

\* One that goes on with what it found, with the tables as they are.
LEMMA QuietFound ==
  ASSUME TypeOK, NEW c \in Client, WellFormed(req[c]), req[c].at # "done",
         NEW p \in {"apply", "write", "reselect"}, NEW f \in Row \cup {Absent},
         req' = [req EXCEPT ![c].at = p, ![c].found = f],
         WellFormed([req[c] EXCEPT !.at = p, !.found = f]),
         UNCHANGED <<rows, nextId, workflows, steps>>
  PROVE  Quiet(c)
<1> PICK r : /\ Takes(c, r) /\ r.at = p /\ r.answer = req[c].answer
             /\ r.op = req[c].op /\ r.wf = req[c].wf
  BY FoundTakes
<1> QED
  BY DEF Quiet, WellFormed

\* A component is created.
LEMMA CreateEffects ==
  ASSUME CatalogInv, NEW c \in Client, Create(c)
  PROVE  Effects(c)
<1>1. TypeOK /\ req[c] \in Request /\ req[c].key \in Key /\ req[c].op = "create" /\ WellFormed(req[c])
  BY DEF CatalogInv, TypeOK, Create, Is, Request
<1> DEFINE k == req[c].key
           row == [id |-> nextId, version |-> 1]
<1>2. CASE rows[k] # Absent
  BY <1>1, <1>2, QuietReply DEF Create, Effects
<1>3. CASE rows[k] = Absent
  <2>1. Creates(k) /\ UNCHANGED <<workflows, steps>> /\ rows'[k] = row
    BY <1>1, <1>3 DEF Create, Creates, TypeOK
  <2>2. row \in Row
    BY <1>1, CatalogAssumption DEF TypeOK, Row, Create
  <2>3. \E r : Takes(c, r) /\ r.at \notin {"saveStep", "insertStep"} /\ r.op # "workflow"
    <3>1. CASE req' = [req EXCEPT ![c].at = "reselect", ![c].found = row]
      <4>0. req[c].answer = "none"
        BY <1>1 DEF Create, Is, WellFormed
      <4> HIDE DEF row
      <4>1. WellFormed([req[c] EXCEPT !.at = "reselect", !.found = row])
        BY <1>1, <4>0 DEF WellFormed, Request
      <4>2. PICK r : Takes(c, r) /\ r.at = "reselect" /\ r.op = req[c].op
        BY <1>1, <2>2, <3>1, <4>1, FoundTakes
      <4> QED
        BY <1>1, <4>2
    <3>2. CASE Reply(c, "ok")
      <4>1. PICK r : Takes(c, r) /\ r.at = "done" /\ r.op = req[c].op
        BY <1>1, <3>2, ReplyTakes
      <4> QED
        BY <1>1, <4>1
    <3> QED
      BY <1>3, <2>1, <3>1, <3>2 DEF Create
  <2> QED
    BY <1>1, <2>1, <2>3 DEF Rewrites, Effects
<1> QED
  BY <1>2, <1>3

\* A request arrives.
LEMMA SubmitEffects ==
  ASSUME CatalogInv, NEW c \in Client, Submit(c)
  PROVE  Effects(c)
<1>1. PICK op \in {"create", "update", "delete", "workflow"}, at \in {"find", "write"},
           k \in Key, v \in 0 .. MaxVersion, w \in WorkflowName :
        /\ req' = [req EXCEPT ![c] = Fresh(op, at, k, v, w)]
        /\ at = "write" => op = "create"
  BY CatalogAssumption DEF Submit
<1> DEFINE r == Fresh(op, at, k, v, w)
<1>2. r \in Request
  BY FreshRequests
<1>3. WellFormed(r) /\ r.at \notin {"saveStep", "insertStep"} /\ r.answer # "ok"
  BY <1>1 DEF WellFormed, Fresh
<1> HIDE DEF r
<1> QED
  BY <1>1, <1>2, <1>3 DEF Submit, Effects, Quiet, Takes, r

\* The component of an update or a deletion is looked up, and its row resolved,
\* counted on or read again.
LEMMA ReadEffects ==
  ASSUME CatalogInv, NEW c \in Client,
         \/ Reselect(c) \/ FindToUpdate(c) \/ FindToDelete(c)
         \/ CouchbaseResolve(c) \/ CouchbaseGet(c) \/ CountReferences(c)
  PROVE  Effects(c)
<1>1. /\ TypeOK /\ req[c] \in Request /\ req[c].key \in Key /\ WellFormed(req[c])
      /\ \A k \in Key : rows[k] \in Row \cup {Absent}
  BY DEF CatalogInv, TypeOK, Request
<1>2. /\ UNCHANGED <<rows, nextId, workflows, steps>> /\ req[c].op # "workflow"
      /\ req[c].at # "done"
  BY <1>1 DEF Reselect, FindToUpdate, FindToDelete, CouchbaseResolve, CouchbaseGet,
     CountReferences, Is, WellFormed
<1> DEFINE found == rows[req[c].key]
<1>3. CASE \E a \in {"ok", "404", "409", "500"} : Reply(c, a)
  BY <1>1, <1>2, <1>3, QuietReply DEF Effects
<1>4. CASE /\ found # Absent /\ req[c].at = "find" /\ req[c].op \in {"update", "delete"}
           /\ req[c].op = "update" => found.version = req[c].version
           /\ req' = [req EXCEPT ![c].at = "apply", ![c].found = found]
  <2>0. found \in Row /\ (req[c].op = "update" => found.version <= MaxVersion)
    BY <1>1, <1>4, CatalogAssumption DEF Request
  <2> HIDE DEF found
  <2>1. WellFormed([req[c] EXCEPT !.at = "apply", !.found = found])
    BY <1>1, <1>4, <2>0 DEF WellFormed, Request
  <2> QED
    BY <1>1, <1>2, <1>4, <2>1, QuietFound DEF Effects, found
<1>5. CASE CouchbaseResolve(c) /\ ~Reply(c, "404")
  <2>1. PICK p \in {"get", "count"} : /\ p = IF req[c].op = "update" THEN "get" ELSE "count"
                                     /\ Goto(c, p)
    BY <1>5 DEF CouchbaseResolve
  <2>2. WellFormed([req[c] EXCEPT !.at = p])
    BY <1>1, <1>5, <2>1 DEF WellFormed, Request, CouchbaseResolve, ForeignKeys
  <2> QED
    BY <1>1, <1>2, <2>1, <2>2, QuietGoto DEF Effects
<1>6. CASE CouchbaseGet(c) /\ ~Reply(c, "404")
  <2> DEFINE f == [found EXCEPT !.version = req[c].found.version + 1]
  <2>1. /\ req[c].found \in Row /\ req[c].found.version <= MaxVersion
        /\ found \in Row /\ engine = "couchbase"
    BY <1>1, <1>6 DEF CouchbaseGet, WellFormed, Is
  <2>2. f \in Row
    <3> HIDE DEF found
    <3> QED
      BY <2>1, CatalogAssumption DEF Row
  <2>3. req' = [req EXCEPT ![c].at = "write", ![c].found = f]
    BY <1>6 DEF CouchbaseGet
  <2> HIDE DEF f, found
  <2>4. WellFormed([req[c] EXCEPT !.at = "write", !.found = f])
    BY <1>1, <1>6, <2>1, <2>2 DEF WellFormed, Request, CouchbaseGet, Is, ForeignKeys
  <2> QED
    BY <1>1, <1>2, <2>2, <2>3, <2>4, QuietFound DEF Effects
<1>7. CASE CountReferences(c) /\ ~Reply(c, "409")
  <2>1. Goto(c, "write") /\ req[c].op = "delete" /\ req[c].at \in {"apply", "count"} /\ ~ForeignKeys
    BY <1>1, <1>7 DEF CountReferences, ForeignKeys, Is, WellFormed
  <2>2. WellFormed([req[c] EXCEPT !.at = "write"])
    BY <1>1, <2>1 DEF WellFormed, Request
  <2> QED
    BY <1>1, <1>2, <2>1, <2>2, QuietGoto DEF Effects
<1> QED
  BY <1>3, <1>4, <1>5, <1>6, <1>7 DEF Reselect, FindToUpdate, FindToDelete, CouchbaseResolve,
     CouchbaseGet, CountReferences, Is

\* A component is updated or deleted, or was gone.
LEMMA RewriteEffects ==
  ASSUME CatalogInv, NEW c \in Client,
         \/ UpdateById(c) \/ CouchbaseReplace(c)
         \/ DeleteById(c) \/ MongoDelete(c) \/ CouchbaseRemove(c)
  PROVE  Effects(c)
<1>1. /\ TypeOK /\ req[c] \in Request /\ req[c].key \in Key /\ WellFormed(req[c])
  BY DEF CatalogInv, TypeOK, Request
<1>2. /\ UNCHANGED <<nextId, workflows, steps>>
      /\ req[c].op \in {"update", "delete"}
      /\ req[c].found \in Row
  BY <1>1 DEF UpdateById, CouchbaseReplace, DeleteById, MongoDelete, CouchbaseRemove, Is, WellFormed
<1>3. req[c].found.id # 0
  BY <1>2, CatalogAssumption DEF Row
<1>4. CASE UNCHANGED rows /\ \E a \in {"404", "409"} : Reply(c, a)
  BY <1>1, <1>2, <1>4, QuietReply DEF Effects
<1>5. CASE Reply(c, "ok") \/ (Goto(c, "reselect") /\ req[c].op = "update" /\ req[c].at = "apply")
  <2>1. \E r : Takes(c, r) /\ r.at \notin {"saveStep", "insertStep"} /\ r.op # "workflow"
    <3>1. CASE Reply(c, "ok")
      <4>1. PICK r : Takes(c, r) /\ r.at = "done" /\ r.op = req[c].op
        BY <1>1, <3>1, ReplyTakes
      <4> QED
        BY <1>2, <4>1
    <3>2. CASE Goto(c, "reselect") /\ req[c].op = "update" /\ req[c].at = "apply"
      <4> DEFINE p == "reselect"
      <4>1. WellFormed([req[c] EXCEPT !.at = p])
        BY <1>1, <3>2 DEF WellFormed, Request
      <4>2. p \in {"apply", "get", "count", "write", "reselect", "saveStep", "insertStep"}
        OBVIOUS
      <4>3. Goto(c, p)
        BY <3>2
      <4> HIDE DEF p
      <4>4. PICK r : /\ Takes(c, r) /\ r.at = p /\ r.answer = req[c].answer
                     /\ r.op = req[c].op /\ r.wf = req[c].wf
        BY <1>1, <4>1, <4>2, <4>3, GotoTakes
      <4> QED
        BY <1>2, <4>4 DEF p
    <3> QED
      BY <1>5, <3>1, <3>2
  <2>2. CASE UpdateById(c) /\ ~UNCHANGED rows
    <3>1. Updates(req[c].found)
      BY <1>1, <1>3, <2>2 DEF UpdateById, Updates, WellFormed, Is
    <3> QED
      BY <1>2, <2>1, <3>1 DEF Rewrites, Effects
  <2>3. CASE CouchbaseReplace(c) /\ ~UNCHANGED rows
    <3>1. engine = "couchbase"
      BY <1>1, <2>3 DEF CouchbaseReplace, WellFormed, Is
    <3> QED
      BY <1>1, <1>2, <2>1, <2>3, <3>1 DEF CouchbaseReplace, Replaces, Rewrites, Effects
  <2>4. CASE (DeleteById(c) \/ MongoDelete(c)) /\ ~UNCHANGED rows
    <3>1. Deletes(req[c].found.id)
      BY <1>3, <2>4 DEF DeleteById, MongoDelete, Deletes, ForeignKeys
    <3> QED
      BY <1>2, <2>1, <3>1 DEF Rewrites, Effects
  <2>5. CASE CouchbaseRemove(c) /\ ~UNCHANGED rows
    <3>1. Replaces(req[c].key, Absent)
      BY <1>2, <2>5 DEF CouchbaseRemove, Replaces
    <3> QED
      BY <1>1, <1>2, <2>1, <3>1 DEF Rewrites, Effects
  <2>6. CASE UNCHANGED rows
    <3>1. PICK r : Takes(c, r) /\ r.at \notin {"saveStep", "insertStep"} /\ r.op # "workflow"
      BY <2>1
    <3> QED
      BY <1>2, <2>6, <3>1 DEF Quiet, Effects
  <2> QED
    BY <2>2, <2>3, <2>4, <2>5, <2>6
<1> QED
  BY <1>4, <1>5 DEF UpdateById, CouchbaseReplace, DeleteById, MongoDelete, CouchbaseRemove, Is

-----------------------------------------------------------------------------
\* A workflow's name is looked up, and then the component of each of its steps.
LEMMA LookupEffects ==
  ASSUME CatalogInv, NEW c \in Client, FindWorkflow(c) \/ LookupComponent(c)
  PROVE  Effects(c)
<1>1. /\ TypeOK /\ req[c] \in Request /\ WellFormed(req[c])
      /\ \A k \in Key : rows[k] \in Row \cup {Absent}
  BY DEF CatalogInv, TypeOK, Request
<1>2. /\ UNCHANGED <<rows, nextId, workflows, steps>> /\ req[c].op = "workflow"
      /\ req[c].answer = "none" /\ req[c].at \notin {"saveStep", "insertStep"}
  BY <1>1 DEF FindWorkflow, LookupComponent, Is, WellFormed
<1>3. CASE \E a \in {"400", "409"} : Reply(c, a)
  BY <1>1, <1>2, <1>3, QuietReply DEF Effects
<1>4. ASSUME NEW ids \in [Order -> 0 .. MaxId], NEW p \in {"lookup", "write"},
             p = "write" => Order # {} /\ \A i \in Order : ids[i] # 0,
             req' = [req EXCEPT ![c] = [req[c] EXCEPT !.ids = ids, !.at = p]]
      PROVE  Effects(c)
  <2> DEFINE r == [req[c] EXCEPT !.ids = ids, !.at = p]
  <2>1. ids \in Seq(1 .. MaxId \cup {0})
    <3>1. 0 .. MaxId = 1 .. MaxId \cup {0}
      BY CatalogAssumption
    <3>2. Len(WorkflowSteps) \in Nat
      BY CatalogAssumption
    <3> HIDE DEF r
    <3> QED
      BY <3>1, <3>2, SeqDef DEF Order
  <2>2. /\ r \in Request /\ r.ids = ids /\ r.at = p
        /\ r.op = "workflow" /\ r.answer = "none" /\ r.wf = req[c].wf
    BY <1>1, <1>2, <2>1 DEF Request
  <2>3. WellFormed(r)
    <3> HIDE DEF r
    <3> QED
      BY <1>4, <2>2 DEF WellFormed
  <2> HIDE DEF r
  <2>4. Takes(c, r)
    BY <1>4, <2>2, <2>3 DEF Takes, r
  <2> QED
    BY <1>2, <2>2, <2>4 DEF Quiet, Effects
<1>5. CASE FindWorkflow(c) /\ ~Reply(c, "409")
  <2> DEFINE ids == [i \in Order |-> 0]
  <2>1. ids \in [Order -> 0 .. MaxId]
    BY CatalogAssumption
  <2>2. req' = [req EXCEPT ![c].at = "lookup", ![c].ids = ids]
    BY <1>5 DEF FindWorkflow
  <2>3. req' = [req EXCEPT ![c] = [req[c] EXCEPT !.ids = ids, !.at = "lookup"]]
    BY <1>1, <2>2 DEF TypeOK, Request
  <2> HIDE DEF ids
  <2> QED
    BY <1>4, <2>1, <2>3
<1>6. CASE LookupComponent(c) /\ ~Reply(c, "400")
  <2>1. PICK i \in Order :
          LET component == rows[WorkflowSteps[i]]
          IN /\ component # Absent
             /\ req' = [req EXCEPT
                  ![c].ids[i] = component.id,
                  ![c].at = IF \A j \in Order \ {i} : req[c].ids[j] # 0 THEN "write" ELSE "lookup"]
    BY <1>6 DEF LookupComponent
  <2> DEFINE id == rows[WorkflowSteps[i]].id
             p == IF \A j \in Order \ {i} : req[c].ids[j] # 0 THEN "write" ELSE "lookup"
             ids == [req[c].ids EXCEPT ![i] = id]
  <2>2. id \in 1 .. MaxId /\ id # 0
    <3>1. WorkflowSteps[i] \in Key
      BY CatalogAssumption DEF Order
    <3> QED
      BY <1>1, <2>1, <3>1 DEF Row
  <2>3. req[c].ids \in [Order -> 0 .. MaxId]
    BY <1>1, <1>6 DEF LookupComponent, Is, WellFormed
  <2>4. req' = [req EXCEPT ![c] = [req[c] EXCEPT !.ids = ids, !.at = p]]
    BY <1>1, <2>1 DEF TypeOK, Request
  <2>5. p \in {"lookup", "write"} /\ (p = "write" => \A j \in Order \ {i} : req[c].ids[j] # 0)
    OBVIOUS
  <2> HIDE DEF id, p
  <2>6. ids \in [Order -> 0 .. MaxId] /\ ids[i] = id /\ \A j \in Order \ {i} : ids[j] = req[c].ids[j]
    BY <2>2, <2>3, CatalogAssumption
  <2> HIDE DEF ids
  <2> QED
    BY <1>4, <2>2, <2>4, <2>5, <2>6
<1> QED
  BY <1>3, <1>5, <1>6

\* A workflow is saved under its name, and then its steps one by one.
LEMMA SavingEffects ==
  ASSUME CatalogInv, NEW c \in Client,
         SaveWorkflow(c) \/ SaveWorkflowStep(c) \/ InsertCheckedStep(c)
  PROVE  Effects(c)
<1>1. /\ TypeOK /\ req[c] \in Request /\ WellFormed(req[c]) /\ req[c].wf \in WorkflowName
  BY DEF CatalogInv, TypeOK, Request
<1>2. /\ UNCHANGED <<rows, nextId>> /\ req[c].op = "workflow" /\ req[c].answer = "none"
      /\ req[c].ids \in [Order -> 0 .. MaxId] /\ \A i \in Order : req[c].ids[i] # 0
      /\ Order # {} /\ req[c].at # "done"
  BY <1>1 DEF SaveWorkflow, SaveWorkflowStep, InsertCheckedStep, Is, WellFormed
<1>3. CASE UNCHANGED <<workflows, steps>> /\ \E a \in {"409", "500"} : Reply(c, a)
  BY <1>1, <1>2, <1>3, QuietReply DEF Effects
<1>4. CASE SaveWorkflow(c) /\ req[c].wf \notin workflows
  <2> DEFINE p == "saveStep"
  <2>1. p \in {"apply", "get", "count", "write", "reselect", "saveStep", "insertStep"} /\ Goto(c, p)
    BY <1>4 DEF SaveWorkflow
  <2>2. WellFormed([req[c] EXCEPT !.at = p])
    BY <1>1, <1>2 DEF WellFormed, Request
  <2>3. /\ req[c].wf \notin workflows /\ workflows' = workflows \cup {req[c].wf} /\ UNCHANGED steps
    BY <1>4 DEF SaveWorkflow
  <2> HIDE DEF p
  <2>4. PICK r : /\ Takes(c, r) /\ r.at = p /\ r.answer = req[c].answer
                 /\ r.op = req[c].op /\ r.wf = req[c].wf
    BY <1>1, <2>1, <2>2, GotoTakes
  <2> QED
    BY <1>2, <2>3, <2>4 DEF Names, Effects, p
<1>5. CASE SaveWorkflowStep(c) /\ ~ForeignKeys /\ Goto(c, "insertStep") /\ UNCHANGED <<workflows, steps>>
  <2>1. WellFormed([req[c] EXCEPT !.at = "insertStep"])
    BY <1>1, <1>2, <1>5 DEF WellFormed, Request
  <2>2. Saving(c)
    BY <1>5 DEF SaveWorkflowStep, Is, Saving
  <2> QED
    BY <1>1, <1>2, <1>5, <2>1, <2>2, QuietGoto DEF Effects
<1>6. ASSUME InsertStep(c), Saving(c), UNCHANGED workflows,
             ForeignKeys => Exists(NextStep(c).component)
      PROVE  Effects(c)
  <2> DEFINE w == req[c].wf
             n == Cardinality(Saved(w))
             s == NextStep(c)
  <2>1. n \in Nat /\ n < Len(WorkflowSteps) /\ Len(WorkflowSteps) \in Nat
    <3>1. IsFiniteSet(Saved(w))
      BY FS_Subset DEF CatalogInv, Saved
    <3>2. n \in Nat
      BY <3>1, FS_CardinalityType
    <3> QED
      BY <1>6, <3>2, CatalogAssumption DEF CatalogInv, Authors
  <2>2. s = [wf |-> w, order |-> n + 1, component |-> req[c].ids[n + 1]]
    BY DEF NextStep, SavedBy, Saved
  <2> HIDE DEF n, s
  <2>3. n + 1 \in Order
    BY <2>1 DEF Order
  <2>4. s \in Step /\ s.wf = w /\ s.order = n + 1
    BY <1>1, <1>2, <2>2, <2>3, CatalogAssumption DEF Step
  <2>5. /\ steps' = steps \cup {s}
        /\ IF s.order = Len(WorkflowSteps) THEN Reply(c, "ok") ELSE Goto(c, "saveStep")
    BY <1>6 DEF InsertStep, s
  <2>6. \E r : /\ Takes(c, r) /\ r.wf = w
               /\ \/ r.at = "saveStep" /\ r.answer # "ok" /\ s.order # Len(WorkflowSteps)
                  \/ r.at = "done" /\ s.order = Len(WorkflowSteps)
    <3>1. CASE s.order = Len(WorkflowSteps)
      <4>1. PICK r : Takes(c, r) /\ r.at = "done" /\ r.wf = w
        BY <1>1, <2>5, <3>1, ReplyTakes
      <4> QED
        BY <3>1, <4>1
    <3>2. CASE s.order # Len(WorkflowSteps)
      <4> DEFINE p == "saveStep"
      <4>1. p \in {"apply", "get", "count", "write", "reselect", "saveStep", "insertStep"} /\ Goto(c, p)
        BY <2>5, <3>2
      <4>2. WellFormed([req[c] EXCEPT !.at = p])
        BY <1>1, <1>2 DEF WellFormed, Request
      <4> HIDE DEF p
      <4>3. PICK r : /\ Takes(c, r) /\ r.at = p /\ r.answer = req[c].answer
                     /\ r.op = req[c].op /\ r.wf = req[c].wf
        BY <1>1, <4>1, <4>2, GotoTakes
      <4> QED
        BY <1>2, <3>2, <4>3 DEF p
    <3> QED
      BY <3>1, <3>2
  <2>7. s.order = Cardinality(Saved(s.wf)) + 1 /\ (ForeignKeys => Exists(s.component))
    BY <1>6, <2>4 DEF n, s
  <2> QED
    BY <1>2, <1>6, <2>4, <2>5, <2>6, <2>7 DEF Adds, Effects
<1>7. SaveWorkflowStep(c) \/ InsertCheckedStep(c) => Saving(c) /\ UNCHANGED workflows
  BY DEF SaveWorkflowStep, InsertCheckedStep, Is, Saving
<1>8. InsertCheckedStep(c) => InsertStep(c) /\ ~ForeignKeys
  BY <1>1 DEF InsertCheckedStep, Is, WellFormed
<1>9. CASE SaveWorkflow(c)
  BY <1>3, <1>4, <1>9 DEF SaveWorkflow
<1>10. CASE SaveWorkflowStep(c)
  BY <1>3, <1>5, <1>6, <1>7, <1>10 DEF SaveWorkflowStep
<1> QED
  BY <1>6, <1>7, <1>8, <1>9, <1>10

\* Whatever a request's step does, it is one of the effects.
LEMMA ServeEffects ==
  ASSUME CatalogInv, NEW c \in Client, Serve(c)
  PROVE  Effects(c) /\ UNCHANGED engine
<1>1. UNCHANGED engine
  BY DEF Serve, Update, Remove, CreateWorkflow, Submit, Create, Reselect, FindToUpdate,
     UpdateById, CouchbaseResolve, CouchbaseGet, CouchbaseReplace, FindToDelete, DeleteById,
     CountReferences, MongoDelete, CouchbaseRemove, FindWorkflow, LookupComponent,
     SaveWorkflow, SaveWorkflowStep, InsertCheckedStep
<1> QED
  BY <1>1, SubmitEffects, CreateEffects, ReadEffects, RewriteEffects, LookupEffects, SavingEffects
     DEF Serve, Update, Remove, CreateWorkflow

-----------------------------------------------------------------------------
(* What the effects leave of the catalogue.                                *)

\* The requests stay well formed, and only c's changes.
LEMMA RequestsKeep ==
  ASSUME CatalogInv, UNCHANGED engine, NEW c \in Client, NEW r, Takes(c, r)
  PROVE  /\ req' \in [Client -> Request]
         /\ \A d \in Client : WellFormed(req[d])'
         /\ req'[c] = r /\ \A d \in Client \ {c} : req'[d] = req[d]
<1>1. req \in [Client -> Request] /\ \A d \in Client : WellFormed(req[d])
  BY DEF CatalogInv, TypeOK
<1>2. r \in Request /\ WellFormed(r) /\ req' = [req EXCEPT ![c] = r]
  BY DEF Takes
<1>3. req'[c] = r /\ \A d \in Client \ {c} : req'[d] = req[d]
  BY <1>1, <1>2
<1>4. ForeignKeys' = ForeignKeys
  BY DEF ForeignKeys
<1>5. ASSUME NEW d \in Client PROVE WellFormed(req[d])'
  <2>1. PICK q : q = req'[d] /\ WellFormed(q)
    BY <1>1, <1>2, <1>3
  <2>2. WellFormed(req'[d])
    BY <2>1
  <2> QED
    BY <1>4, <2>2 DEF WellFormed
<1> QED
  BY <1>1, <1>2, <1>3, <1>5

\* With the same steps, the numbering stays.
LEMMA SameSteps ==
  ASSUME CatalogInv, UNCHANGED steps
  PROVE  Numbered' /\ \A w : Saved(w)' = Saved(w)
BY DEF CatalogInv, Numbered, Saved

\* With foreign keys, a component that a step refers to stays under its key, and
\* steps are only added.
Stays ==
  /\ steps \subseteq steps'
  /\ \A k \in Key : rows[k] # Absent /\ Referenced(rows[k].id) =>
       rows'[k] # Absent /\ rows'[k].id = rows[k].id

\* A step that leaves the tables as they are keeps the invariant.
LEMMA QuietKeeps ==
  ASSUME CatalogInv, UNCHANGED engine, NEW c \in Client, Quiet(c)
  PROVE  CatalogInv' /\ Stays
<1>1. PICK r : /\ Takes(c, r)
               /\ r.at \in {"saveStep", "insertStep"} => Saving(c) /\ r.wf = req[c].wf
               /\ r.op = "workflow" => r.answer # "ok"
  BY DEF Quiet
<1>2. /\ req' \in [Client -> Request] /\ \A d \in Client : WellFormed(req[d])'
      /\ req'[c] = r /\ \A d \in Client \ {c} : req'[d] = req[d]
  BY <1>1, RequestsKeep
<1>3. UNCHANGED <<rows, nextId, workflows, steps>>
  BY DEF Quiet
<1>4. Numbered' /\ \A w : Saved(w)' = Saved(w)
  BY <1>3, SameSteps
<1>5. TypeOK' /\ IsFiniteSet(steps')
  BY <1>2, <1>3 DEF CatalogInv, TypeOK
<1>6. Authors'
  BY <1>1, <1>2, <1>3, <1>4 DEF CatalogInv, Authors, Saving
<1>7. ForeignKeys' => IdsUnique' /\ NoneDangling'
  BY <1>3 DEF CatalogInv, ForeignKeys, IdsUnique, NoneDangling, Exists
<1> QED
  BY <1>2, <1>3, <1>4, <1>5, <1>6, <1>7 DEF CatalogInv, Stays

\* A change of the components keeps the types, and with foreign keys the ids and
\* what the steps refer to.
LEMMA RowsKeep ==
  ASSUME CatalogInv, UNCHANGED <<engine, steps>>,
         \/ \E k \in Key : Creates(k)
         \/ \E f \in Row : Updates(f)
         \/ \E k \in Key, f \in Row \cup {Absent} : Replaces(k, f)
         \/ \E id : Deletes(id)
  PROVE  /\ rows' \in [Key -> Row \cup {Absent}] /\ nextId' \in 1 .. MaxId + 1
         /\ ForeignKeys => IdsUnique' /\ NoneDangling' /\ Stays
<1>1. /\ rows \in [Key -> Row \cup {Absent}] /\ nextId \in 1 .. MaxId + 1
      /\ ForeignKeys => IdsUnique /\ NoneDangling
      /\ \A k \in Key : rows[k] # Absent => rows[k].id # 0
      /\ Absent.id = 0 /\ MaxId \in Nat /\ MaxVersion \in Nat
  BY CatalogAssumption DEF CatalogInv, TypeOK, Absent, Row
<1>2. ASSUME NEW k \in Key, Creates(k)
      PROVE  /\ rows' \in [Key -> Row \cup {Absent}] /\ nextId' \in 1 .. MaxId + 1
             /\ ForeignKeys => IdsUnique' /\ NoneDangling' /\ Stays
  <2>1. [id |-> nextId, version |-> 1] \in Row
    BY <1>1, <1>2 DEF Creates, Row
  <2>2. \A j \in Key \ {k} : rows'[j] = rows[j]
    BY <1>1, <1>2 DEF Creates
  <2>3. rows'[k] = [id |-> nextId, version |-> 1] /\ rows[k] = Absent /\ nextId' = nextId + 1
    BY <1>1, <1>2 DEF Creates
  <2>4. rows'[k] # Absent /\ rows'[k].id = nextId
    BY <1>1, <2>3 DEF Absent
  <2>5. ForeignKeys => IdsUnique'
    BY <1>1, <2>2, <2>3, <2>4 DEF IdsUnique, Row
  <2> QED
    BY <1>1, <1>2, <2>1, <2>2, <2>3, <2>5 DEF Creates, NoneDangling, Exists, Stays
<1>3. ASSUME NEW f \in Row, Updates(f)
      PROVE  /\ rows' \in [Key -> Row \cup {Absent}] /\ nextId' \in 1 .. MaxId + 1
             /\ ForeignKeys => IdsUnique' /\ NoneDangling' /\ Stays
  <2>1. f.version + 1 \in 1 .. MaxVersion + 1
    BY <1>1, <1>3 DEF Updates, Row
  <2>2. \A k \in Key : /\ rows'[k] \in Row \cup {Absent} /\ rows'[k].id = rows[k].id
                       /\ rows[k] # Absent <=> rows'[k] # Absent
    BY <1>1, <1>3, <2>1 DEF Updates, Row
  <2>3. rows' \in [Key -> Row \cup {Absent}]
    BY <1>3, <2>2 DEF Updates
  <2> QED
    BY <1>1, <1>3, <2>2, <2>3 DEF Updates, IdsUnique, NoneDangling, Exists, Stays
<1>4. ASSUME NEW k \in Key, NEW f \in Row \cup {Absent}, Replaces(k, f)
      PROVE  /\ rows' \in [Key -> Row \cup {Absent}] /\ nextId' \in 1 .. MaxId + 1
             /\ ~ForeignKeys
  BY <1>1, <1>4 DEF Replaces, ForeignKeys
<1>5. ASSUME NEW id, Deletes(id)
      PROVE  /\ rows' \in [Key -> Row \cup {Absent}] /\ nextId' \in 1 .. MaxId + 1
             /\ ForeignKeys => IdsUnique' /\ NoneDangling' /\ Stays
  <2>1. \A k \in Key : rows'[k] = IF rows[k].id = id THEN Absent ELSE rows[k]
    BY <1>5 DEF Deletes, Without
  <2>2. ForeignKeys => \A s \in steps : s.component # id
    BY <1>5 DEF Deletes, Referenced
  <2>3. ForeignKeys => IdsUnique'
    BY <1>1, <1>5, <2>1 DEF Deletes, IdsUnique
  <2>4. rows' \in [Key -> Row \cup {Absent}]
    BY <1>1, <1>5 DEF Deletes, Without
  <2>5. ForeignKeys => NoneDangling'
    BY <1>1, <1>5, <2>1, <2>2 DEF Deletes, NoneDangling, Exists
  <2>6. ForeignKeys => Stays
    BY <1>1, <1>5, <2>1, <2>2 DEF Deletes, Stays, Referenced
  <2> QED
    BY <1>1, <1>5, <2>3, <2>4, <2>5, <2>6 DEF Deletes
<1> QED
  BY <1>2, <1>3, <1>4, <1>5

\* A change of the components keeps the invariant.
LEMMA RewritesKeep ==
  ASSUME CatalogInv, UNCHANGED engine, NEW c \in Client, Rewrites(c)
  PROVE  CatalogInv' /\ (ForeignKeys => Stays)
<1>1. PICK r : Takes(c, r) /\ r.at \notin {"saveStep", "insertStep"} /\ r.op # "workflow"
  BY DEF Rewrites
<1>2. /\ req' \in [Client -> Request] /\ \A d \in Client : WellFormed(req[d])'
      /\ req'[c] = r /\ \A d \in Client \ {c} : req'[d] = req[d]
  BY <1>1, RequestsKeep
<1>3. UNCHANGED <<workflows, steps>>
  BY DEF Rewrites
<1>4. Numbered' /\ \A w : Saved(w)' = Saved(w)
  BY <1>3, SameSteps
<1>5. /\ rows' \in [Key -> Row \cup {Absent}] /\ nextId' \in 1 .. MaxId + 1
      /\ ForeignKeys => IdsUnique' /\ NoneDangling' /\ Stays
  BY <1>3, RowsKeep DEF Rewrites
<1>6. TypeOK' /\ IsFiniteSet(steps')
  BY <1>2, <1>3, <1>5 DEF CatalogInv, TypeOK
<1>7. Authors'
  BY <1>1, <1>2, <1>3, <1>4 DEF CatalogInv, Authors, Saving
<1>8. ForeignKeys' = ForeignKeys
  BY DEF ForeignKeys
<1> QED
  BY <1>2, <1>4, <1>5, <1>6, <1>7, <1>8 DEF CatalogInv

\* A workflow saved under a name that was free keeps the invariant.
LEMMA NamesKeep ==
  ASSUME CatalogInv, UNCHANGED engine, NEW c \in Client, Names(c)
  PROVE  CatalogInv' /\ Stays
<1>1. PICK r : Takes(c, r) /\ r.at = "saveStep" /\ r.wf = req[c].wf /\ r.answer # "ok"
  BY DEF Names
<1>2. /\ req' \in [Client -> Request] /\ \A d \in Client : WellFormed(req[d])'
      /\ req'[c] = r /\ \A d \in Client \ {c} : req'[d] = req[d]
  BY <1>1, RequestsKeep
<1>3. /\ UNCHANGED <<rows, nextId, steps>> /\ req[c].wf \notin workflows
      /\ workflows' = workflows \cup {req[c].wf} /\ req[c].wf \in WorkflowName
  BY DEF Names, CatalogInv, TypeOK, Request
<1>4. Numbered' /\ \A w : Saved(w)' = Saved(w)
  BY <1>3, SameSteps
<1>5. TypeOK' /\ IsFiniteSet(steps')
  BY <1>2, <1>3 DEF CatalogInv, TypeOK
<1>6. Cardinality(Saved(r.wf)) < Len(WorkflowSteps)
  <2>1. Saved(r.wf) = {}
    BY <1>1, <1>3 DEF CatalogInv, Authors, Saved
  <2>2. Len(WorkflowSteps) \in Nat /\ Len(WorkflowSteps) # 0
    BY CatalogAssumption DEF Names, Order
  <2> QED
    BY <2>1, <2>2, FS_EmptySet
<1>7. Authors'
  BY <1>1, <1>2, <1>3, <1>4, <1>6 DEF CatalogInv, Authors, Saving
<1>8. ForeignKeys' => IdsUnique' /\ NoneDangling'
  BY <1>3 DEF CatalogInv, ForeignKeys, IdsUnique, NoneDangling, Exists
<1> QED
  BY <1>2, <1>3, <1>4, <1>5, <1>7, <1>8 DEF CatalogInv, Stays

\* The step that a request adds has the next number of its workflow, and nobody
\* else is adding any.
LEMMA AddsKeep ==
  ASSUME CatalogInv, UNCHANGED engine, NEW c \in Client, Adds(c)
  PROVE  CatalogInv' /\ Stays
<1>0. PICK s \in Step : \E r :
       /\ s.wf = req[c].wf /\ s.order = Cardinality(Saved(s.wf)) + 1
       /\ steps' = steps \cup {s}
       /\ ForeignKeys => Exists(s.component)
       /\ Takes(c, r) /\ r.wf = req[c].wf
       /\ \/ r.at = "saveStep" /\ r.answer # "ok" /\ s.order # Len(WorkflowSteps)
          \/ r.at = "done" /\ s.order = Len(WorkflowSteps)
  BY DEF Adds
<1>1. PICK r :
       /\ s.wf = req[c].wf /\ s.order = Cardinality(Saved(s.wf)) + 1
       /\ steps' = steps \cup {s}
       /\ ForeignKeys => Exists(s.component)
       /\ Takes(c, r) /\ r.wf = req[c].wf
       /\ \/ r.at = "saveStep" /\ r.answer # "ok" /\ s.order # Len(WorkflowSteps)
          \/ r.at = "done" /\ s.order = Len(WorkflowSteps)
  BY <1>0
<1>2. /\ req' \in [Client -> Request] /\ \A d \in Client : WellFormed(req[d])'
      /\ req'[c] = r /\ \A d \in Client \ {c} : req'[d] = req[d]
  BY <1>1, RequestsKeep
<1>3. UNCHANGED <<rows, nextId, workflows>> /\ Saving(c)
  BY DEF Adds
<1>4. TypeOK /\ IsFiniteSet(steps) /\ Numbered /\ Authors /\ s.wf \in WorkflowName
  BY DEF CatalogInv, Step
<1> DEFINE n == Cardinality(Saved(s.wf))
<1>5. IsFiniteSet(Saved(s.wf)) /\ n \in Nat
  BY <1>4, FS_Subset, FS_CardinalityType DEF Saved
<1>6. n < Len(WorkflowSteps) /\ Len(WorkflowSteps) \in Nat
  BY <1>1, <1>3, <1>4, CatalogAssumption DEF Authors
<1>7. \A t \in Saved(s.wf) : t.order # n + 1
  BY <1>4, <1>5 DEF Numbered
<1>8. s \notin Saved(s.wf)
  BY <1>1, <1>7
<1>9. Saved(s.wf)' = Saved(s.wf) \cup {s} /\ \A w : w # s.wf => Saved(w)' = Saved(w)
  BY <1>1 DEF Saved
<1>10. Cardinality(Saved(s.wf)') = n + 1
  BY <1>5, <1>8, <1>9, FS_AddElement
<1>11. s.order = n + 1
  BY <1>1
<1> HIDE DEF n
<1>12. Numbered'
  <2>1. ASSUME NEW t \in Saved(s.wf)' PROVE t.order \in 1 .. n + 1
    BY <1>4, <1>5, <1>9, <1>11, <2>1 DEF Numbered, n
  <2>2. ASSUME NEW i \in 1 .. n + 1 PROVE \E t \in Saved(s.wf)' : t.order = i
    <3>1. CASE i = n + 1
      BY <1>9, <1>11, <3>1
    <3>2. CASE i \in 1 .. n
      BY <1>4, <1>9, <3>2 DEF Numbered, n
    <3> QED
      BY <1>5, <3>1, <3>2
  <2>3. ASSUME NEW w \in WorkflowName, w # s.wf
        PROVE  /\ \A t \in Saved(w)' : t.order \in 1 .. Cardinality(Saved(w)')
               /\ \A i \in 1 .. Cardinality(Saved(w)') : \E t \in Saved(w)' : t.order = i
    BY <1>4, <1>9, <2>3 DEF Numbered
  <2> QED
    BY <1>10, <2>1, <2>2, <2>3 DEF Numbered
<1>13. Authors'
  <2>1. \A t \in steps' : t.wf \in workflows'
    BY <1>1, <1>3, <1>4 DEF Authors
  <2>2. \A t, u \in steps' : t.wf = u.wf /\ t.order = u.order => t = u
    BY <1>1, <1>4, <1>7, <1>11 DEF Authors, Saved
  <2>3. ASSUME NEW d \in Client, Saving(d)'
        PROVE  /\ req'[d].wf \in workflows'
               /\ Cardinality(Saved(req[d].wf)') < Len(WorkflowSteps)
               /\ Saving(d) /\ req'[d].wf = req[d].wf
    <3>1. CASE d = c
      BY <1>1, <1>2, <1>3, <1>4, <1>5, <1>6, <1>10, <1>11, <2>3, <3>1 DEF Saving, Authors
    <3>2. CASE d # c
      <4>1. Saving(d) /\ req'[d] = req[d]
        BY <1>2, <2>3, <3>2 DEF Saving
      <4>2. req[d].wf # s.wf
        BY <1>1, <1>3, <1>4, <3>2, <4>1 DEF Authors
      <4> QED
        BY <1>3, <1>4, <1>9, <4>1, <4>2 DEF Authors
    <3> QED
      BY <3>1, <3>2
  <2>4. ASSUME NEW d \in Client, req'[d].op = "workflow", req'[d].answer = "ok"
        PROVE  Cardinality(Saved(req[d].wf)') = Len(WorkflowSteps)
    <3>1. CASE d = c
      BY <1>1, <1>2, <1>10, <1>11, <2>4, <3>1
    <3>2. CASE d # c
      <4>1. req'[d] = req[d] /\ Cardinality(Saved(req[d].wf)) = Len(WorkflowSteps)
        BY <1>2, <1>4, <2>4, <3>2 DEF Authors
      <4>2. req[d].wf # s.wf
        BY <1>5, <1>6, <4>1 DEF n
      <4> QED
        BY <1>9, <4>1, <4>2
    <3> QED
      BY <3>1, <3>2
  <2>5. \A d, e \in Client : Saving(d)' /\ Saving(e)' /\ req'[d].wf = req'[e].wf => d = e
    BY <1>4, <2>3 DEF Authors
  <2>6. \A d \in Client : Saving(d)' =>
          req'[d].wf \in workflows' /\ Cardinality(Saved(req[d].wf)') < Len(WorkflowSteps)
    BY <2>3
  <2> QED
    BY <2>1, <2>2, <2>3, <2>4, <2>5, <2>6 DEF Authors
<1>14. TypeOK' /\ IsFiniteSet(steps')
  BY <1>1, <1>2, <1>3, <1>4, FS_AddElement DEF TypeOK
<1>15. ForeignKeys' => IdsUnique' /\ NoneDangling'
  BY <1>1, <1>3 DEF CatalogInv, ForeignKeys, IdsUnique, NoneDangling, Exists
<1> QED
  BY <1>1, <1>2, <1>3, <1>12, <1>13, <1>14, <1>15 DEF CatalogInv, Stays

\* A request's step keeps the catalogue's invariant; with foreign keys what the
\* steps refer to stays, and a workflow that has all of its steps keeps them.
LEMMA ServeKeeps ==
  ASSUME CatalogInv, NEW c \in Client, Serve(c)
  PROVE  /\ CatalogInv' /\ UNCHANGED engine /\ (ForeignKeys => Stays)
         /\ \A w \in WorkflowName : Cardinality(Saved(w)) = Len(WorkflowSteps) =>
              Cardinality(Saved(w)') = Len(WorkflowSteps)
<1>1. Effects(c) /\ UNCHANGED engine
  BY ServeEffects
<1>2. CatalogInv' /\ (ForeignKeys => Stays)
  BY <1>1, QuietKeeps, RewritesKeep, NamesKeep, AddsKeep DEF Effects
<1>3. ASSUME NEW w \in WorkflowName, Cardinality(Saved(w)) = Len(WorkflowSteps)
      PROVE  Saved(w)' = Saved(w)
  <2>1. CASE UNCHANGED steps
    BY <2>1 DEF Saved
  <2>2. CASE Adds(c)
    <3>1. PICK s \in Step : s.wf = req[c].wf /\ steps' = steps \cup {s} /\ Saving(c)
      BY <2>2 DEF Adds
    <3>2. s.wf # w
      <4>1. Cardinality(Saved(s.wf)) < Len(WorkflowSteps) /\ Len(WorkflowSteps) \in Nat
        BY <3>1, CatalogAssumption DEF CatalogInv, Authors
      <4> QED
        BY <1>3, <4>1
    <3> QED
      BY <3>1, <3>2 DEF Saved
  <2> QED
    BY <1>1, <2>1, <2>2 DEF Effects, Quiet, Rewrites, Names
<1> QED
  BY <1>1, <1>2, <1>3

-----------------------------------------------------------------------------
(* The runs.                                                               *)

\* A client without a run is on course.
LEMMA NoRunOnCourse ==
  /\ NoRun \in Run /\ OnCourse(NoRun) /\ OnTrueCourse(NoRun)
  /\ NoRun.log = <<>> /\ NoRun.read = <<>> /\ NoRun.answer = "none" /\ NoRun.at = "idle"
<1>1. (CHOOSE k \in Key : TRUE) \in Key /\ (CHOOSE w \in WorkflowName : TRUE) \in WorkflowName
  BY CatalogAssumption
<1>2. <<>> \in Seq(Step) /\ <<>> \in Seq(Entry) /\ Len(<<>>) = 0
  OBVIOUS
<1>3. FALSE \in BOOLEAN
  OBVIOUS
<1>4. NoRun \in Run
  BY <1>1, <1>2, <1>3 DEF NoRun, Run, Entry
<1>5. /\ NoRun.log = <<>> /\ NoRun.read = <<>> /\ NoRun.answer = "none" /\ NoRun.at = "idle"
      /\ NoRun.whole = FALSE
  BY DEF NoRun
<1> QED
  BY <1>2, <1>4, <1>5 DEF OnCourse, OnTrueCourse

\* Workflows that have all of their steps keep them.
FullStay ==
  \A w \in WorkflowName : Cardinality(Saved(w)) = Len(WorkflowSteps) =>
    Cardinality(Saved(w)') = Len(WorkflowSteps)

\* No step of another client takes a run off its course.
LEMMA StaysOnCourse ==
  ASSUME UNCHANGED onFailure, FullStay, NEW r \in Run, OnCourse(r)
  PROVE  OnCourse(r)'
<1>1. r.wf \in WorkflowName
  BY DEF Run
<1>2. /\ r.at \in {"find", "steps"} => r.read = <<>> /\ r.log = <<>> /\ r.answer = "none"
      /\ r.at \in {"component", "invoke"} => Len(r.log) < Len(r.read) /\ r.answer = "none"
      /\ Len(r.log) <= Len(r.read)
      /\ \A i \in 1 .. Len(r.log) : r.log[i].step = r.read[i]
      /\ r.answer = "ok" => Len(r.log) = Len(r.read)
  BY DEF OnCourse
<1>3. r.whole => IF r.at \in {"find", "steps"}
                 THEN Cardinality(Saved(r.wf)') = Len(WorkflowSteps)
                 ELSE Len(r.read) = Len(WorkflowSteps) \/ r.answer = "404"
  BY <1>1 DEF OnCourse, FullStay
<1>4. \A i \in 1 .. Len(r.log) :
       \/ r.log[i].ok
       \/ onFailure'[r.log[i].step.order] = "continue"
       \/ i = Len(r.log) /\ r.answer = "failed"
  BY DEF OnCourse
<1> QED
  BY <1>2, <1>3, <1>4 DEF OnCourse

\* With foreign keys what a run has read stays, and the component before it.
LEMMA StaysOnTrueCourse ==
  ASSUME Stays, rows \in [Key -> Row \cup {Absent}], NEW r \in Run, OnCourse(r), OnTrueCourse(r)
  PROVE  OnTrueCourse(r)'
<1>1. r.read \in Seq(Step) /\ r.log \in Seq(Entry) /\ r.key \in Key
  BY DEF Run, Entry
<1>2. \A i \in 1 .. Len(r.read) : r.read[i] \in steps'
  BY DEF OnTrueCourse, Stays
<1>3. ASSUME r.at = "invoke"
      PROVE  rows'[r.key] # Absent /\ rows'[r.key].id = r.read[Len(r.log) + 1].component
  <2>1. Len(r.log) + 1 \in 1 .. Len(r.read)
    BY <1>1, <1>3 DEF OnCourse
  <2>2. Referenced(rows[r.key].id)
    BY <1>3, <2>1 DEF OnTrueCourse, Referenced
  <2> QED
    BY <1>1, <1>3, <2>2 DEF OnTrueCourse, Stays
<1> QED
  BY <1>2, <1>3 DEF OnTrueCourse

\* Client c's run becomes r, beside a step of the catalogue or none.
LEMMA RunsKeep ==
  ASSUME RunInv, CatalogInv', UNCHANGED <<engine, onFailure>>,
         ForeignKeys => Stays, FullStay,
         NEW c \in Client, NEW r \in Run, run' = [run EXCEPT ![c] = r],
         OnCourse(r), ForeignKeys => OnTrueCourse(r)
  PROVE  RunInv'
<1>1. run' \in [Client -> Run] /\ run'[c] = r /\ \A d \in Client \ {c} : run'[d] = run[d]
  BY DEF RunInv
<1>2. ASSUME NEW d \in Client
      PROVE  OnCourse(run[d])' /\ (ForeignKeys => OnTrueCourse(run[d])')
  <2>1. PICK q \in Run : /\ q = run'[d] /\ OnCourse(q)
                         /\ ForeignKeys => OnTrueCourse(q)
    BY <1>1 DEF RunInv
  <2>2. OnCourse(q)'
    BY <2>1, StaysOnCourse
  <2>3. ForeignKeys => OnTrueCourse(q)'
    BY <2>1, StaysOnTrueCourse DEF RunInv, CatalogInv, TypeOK
  <2> QED
    BY <2>1, <2>2, <2>3 DEF OnCourse, OnTrueCourse
<1>3. ForeignKeys' = ForeignKeys
  BY DEF ForeignKeys
<1> QED
  BY <1>1, <1>2, <1>3 DEF RunInv

\* A step that leaves the catalogue as it is keeps its invariant.
LEMMA CatalogStutters ==
  ASSUME CatalogInv, UNCHANGED vars
  PROVE  CatalogInv'
<1>1. ForeignKeys' = ForeignKeys /\ \A w : Saved(w)' = Saved(w)
  BY DEF vars, ForeignKeys, Saved
<1>2. TypeOK' /\ IsFiniteSet(steps') /\ Numbered' /\ Authors'
  BY <1>1 DEF vars, CatalogInv, TypeOK, Numbered, Authors, Saving
<1>3. \A c \in Client : WellFormed(req[c])'
  BY <1>1 DEF vars, CatalogInv, WellFormed
<1>4. ForeignKeys' => IdsUnique' /\ NoneDangling'
  BY <1>1 DEF vars, CatalogInv, IdsUnique, NoneDangling, Exists
<1> QED
  BY <1>2, <1>3, <1>4 DEF CatalogInv

\* Client c's run becomes r, in a catalogue that stays as it is.
LEMMA RunMoves ==
  ASSUME RunInv, UNCHANGED <<vars, onFailure>>,
         NEW c \in Client, NEW r \in Run, run' = [run EXCEPT ![c] = r],
         OnCourse(r), ForeignKeys => OnTrueCourse(r)
  PROVE  RunInv'
<1>1. CatalogInv'
  BY CatalogStutters DEF RunInv
<1>2. Stays /\ FullStay /\ UNCHANGED engine
  BY DEF vars, Stays, FullStay, Saved
<1> QED
  BY <1>1, <1>2, RunsKeep

\* getWorkflowSteps returns the stored steps of the workflow, all of them.
LEMMA StepsAreStored ==
  ASSUME CatalogInv, NEW w \in WorkflowName
  PROVE  /\ StepsOf(w) \in Seq(Step)
         /\ Len(StepsOf(w)) = Cardinality(Saved(w))
         /\ \A i \in 1 .. Len(StepsOf(w)) : StepsOf(w)[i] \in steps
<1> DEFINE n == Cardinality(Saved(w))
           q == [i \in 1 .. n |-> CHOOSE s \in Saved(w) : s.order = i]
<1>1. n \in Nat
  BY FS_Subset, FS_CardinalityType DEF CatalogInv, Saved
<1>2. \A i \in 1 .. n : q[i] \in Saved(w)
  BY DEF CatalogInv, Numbered
<1>3. q \in [1 .. n -> Step] /\ \A i \in 1 .. n : q[i] \in steps
  BY <1>2 DEF Saved, CatalogInv, TypeOK
<1>4. StepsOf(w) = q
  BY DEF StepsOf, Saved
<1> HIDE DEF n, q
<1>5. StepsOf(w) \in Seq(Step) /\ Len(StepsOf(w)) = n
  BY <1>1, <1>3, <1>4
<1> QED
  BY <1>3, <1>4, <1>5 DEF n

\* A client's request keeps every run on course.
LEMMA RequestKeeps ==
  ASSUME RunInv, NEW c \in Client, ServeRequest(c)
  PROVE  RunInv'
<1>1. CatalogInv /\ Serve(c) /\ run' = [run EXCEPT ![c] = NoRun] /\ UNCHANGED onFailure
  BY DEF RunInv, ServeRequest
<1>2. CatalogInv' /\ UNCHANGED engine /\ (ForeignKeys => Stays) /\ FullStay
  BY <1>1, ServeKeeps DEF FullStay
<1> QED
  BY <1>1, <1>2, RunsKeep, NoRunOnCourse

\* An execution begins: the client's last request is forgotten.
LEMMA ExecuteKeeps ==
  ASSUME RunInv, NEW c \in Client, Execute(c)
  PROVE  RunInv'
<1>1. CatalogInv
  BY DEF RunInv
<1>2. PICK w \in WorkflowName :
        run' = [run EXCEPT ![c] = [NoRun EXCEPT !.at = "find", !.wf = w,
                                     !.whole = Len(StepsOf(w)) = Len(WorkflowSteps)]]
  BY DEF Execute
<1> DEFINE b == Len(StepsOf(w)) = Len(WorkflowSteps)
           r == [NoRun EXCEPT !.at = "find", !.wf = w, !.whole = b]
<1>3. b \in BOOLEAN /\ (b => Cardinality(Saved(w)) = Len(WorkflowSteps))
  BY <1>1, StepsAreStored
<1> HIDE DEF b
<1>4. /\ r \in Run /\ r.log = <<>> /\ r.read = <<>> /\ r.answer = "none" /\ r.at = "find"
      /\ r.wf = w /\ r.whole = b
  <2>1. ASSUME NEW m \in Run, m.log = <<>>, m.read = <<>>, m.answer = "none"
        PROVE  LET q == [m EXCEPT !.at = "find", !.wf = w, !.whole = b]
               IN /\ q \in Run /\ q.log = <<>> /\ q.read = <<>> /\ q.answer = "none"
                  /\ q.at = "find" /\ q.wf = w /\ q.whole = b
    BY <1>3, <2>1 DEF Run
  <2> QED
    BY <2>1, NoRunOnCourse
<1> HIDE DEF r
<1>5. OnCourse(r) /\ OnTrueCourse(r)
  <2>1. Len(<<>>) = 0
    OBVIOUS
  <2> QED
    BY <1>3, <1>4, <2>1 DEF OnCourse, OnTrueCourse
<1>6. Quiet(c)
  <2>1. Takes(c, Idle) /\ Idle.at = "done" /\ Idle.op = "none"
    BY FreshRequests, DoneIsWellFormed DEF Execute, Takes
  <2> QED
    BY <2>1 DEF Quiet, Execute
<1>7. UNCHANGED <<engine, steps, onFailure>>
  BY DEF Execute
<1>8. CatalogInv' /\ Stays
  BY <1>1, <1>6, <1>7, QuietKeeps
<1>9. FullStay
  BY <1>7 DEF FullStay, Saved
<1> QED
  BY <1>2, <1>4, <1>5, <1>7, <1>8, <1>9, RunsKeep DEF b, r

\* The workflow is found, or its run ends.
LEMMA FindKeeps ==
  ASSUME RunInv, NEW c \in Client, FindWorkflowByName(c)
  PROVE  RunInv'
<1>1. run[c] \in Run /\ OnCourse(run[c]) /\ (ForeignKeys => OnTrueCourse(run[c]))
  BY DEF RunInv
<1>2. PICK r : /\ run' = [run EXCEPT ![c] = r] /\ UNCHANGED <<vars, onFailure>>
               /\ run[c].at = "find"
               /\ \/ r = [run[c] EXCEPT !.at = "steps"]
                  \/ r = [run[c] EXCEPT !.at = "done", !.answer = "404"]
  BY DEF FindWorkflowByName, Becomes, Finish
<1>3. run[c].read = <<>> /\ run[c].log = <<>> /\ run[c].answer = "none" /\ Len(<<>>) = 0
  BY <1>1, <1>2 DEF OnCourse
<1>4. /\ r \in Run /\ r.log = <<>> /\ r.read = <<>> /\ r.whole = run[c].whole /\ r.wf = run[c].wf
      /\ \/ r.at = "steps" /\ r.answer = "none"
         \/ r.at = "done" /\ r.answer = "404"
  BY <1>1, <1>2, <1>3 DEF Run
<1>5. OnCourse(r) /\ OnTrueCourse(r)
  BY <1>1, <1>2, <1>3, <1>4 DEF OnCourse, OnTrueCourse
<1> QED
  BY <1>2, <1>4, <1>5, RunMoves

\* The steps are read, all that are stored by now.
LEMMA StepsKeep ==
  ASSUME RunInv, NEW c \in Client, GetWorkflowSteps(c)
  PROVE  RunInv'
<1>1. /\ run[c] \in Run /\ OnCourse(run[c]) /\ run[c].wf \in WorkflowName /\ CatalogInv
  BY DEF RunInv, Run
<1> DEFINE q == StepsOf(run[c].wf)
<1>2. PICK r : /\ run' = [run EXCEPT ![c] = r] /\ UNCHANGED <<vars, onFailure>>
               /\ run[c].at = "steps"
               /\ \/ q = <<>> /\ r = [run[c] EXCEPT !.at = "done", !.answer = "ok"]
                  \/ q # <<>> /\ r = [run[c] EXCEPT !.at = "component", !.read = q]
  BY DEF GetWorkflowSteps, Becomes, Finish
<1>3. /\ q \in Seq(Step) /\ \A i \in 1 .. Len(q) : q[i] \in steps
      /\ Len(q) = Cardinality(Saved(run[c].wf))
  BY <1>1, StepsAreStored
<1>4. q # <<>> => Len(q) > 0
  BY <1>3
<1> HIDE DEF q
<1>5. run[c].read = <<>> /\ run[c].log = <<>> /\ run[c].answer = "none" /\ Len(<<>>) = 0
  BY <1>1, <1>2 DEF OnCourse
<1>6. run[c].whole => Len(q) = Len(WorkflowSteps)
  BY <1>1, <1>2, <1>3, <1>5 DEF OnCourse
<1>7. /\ r \in Run /\ r.log = <<>> /\ r.read = q /\ r.whole = run[c].whole
      /\ \/ r.at = "component" /\ r.answer = "none" /\ q # <<>>
         \/ r.at = "done" /\ r.answer = "ok" /\ q = <<>>
  BY <1>1, <1>2, <1>3, <1>5 DEF Run
<1>8. OnCourse(r) /\ OnTrueCourse(r)
  BY <1>3, <1>4, <1>5, <1>6, <1>7 DEF OnCourse, OnTrueCourse
<1> QED
  BY <1>2, <1>7, <1>8, RunMoves

\* The step's component is looked up by its id: with foreign keys it is there.
LEMMA ComponentKeeps ==
  ASSUME RunInv, NEW c \in Client, GetComponent(c)
  PROVE  RunInv'
<1>1. /\ run[c] \in Run /\ OnCourse(run[c]) /\ (ForeignKeys => OnTrueCourse(run[c]))
      /\ run[c].read \in Seq(Step) /\ run[c].log \in Seq(Entry) /\ CatalogInv
  BY DEF RunInv, Run, Entry
<1>2. /\ run[c].at = "component" /\ run[c].answer = "none"
      /\ Len(run[c].log) < Len(run[c].read)
      /\ Len(run[c].log) + 1 \in 1 .. Len(run[c].read)
  <2>1. Len(run[c].read) \in Nat /\ Len(run[c].log) \in Nat
    BY <1>1
  <2>2. /\ run[c].at = "component" /\ run[c].answer = "none"
        /\ Len(run[c].log) < Len(run[c].read)
    BY <1>1 DEF GetComponent, OnCourse
  <2> QED
    BY <2>1, <2>2
<1>3. CASE ~Exists(Current(c).component) /\ Becomes(c, Finish(c, "404"))
  <2>1. ~ForeignKeys
    BY <1>1, <1>2, <1>3 DEF OnTrueCourse, Current, CatalogInv, NoneDangling
  <2> DEFINE r == [run[c] EXCEPT !.at = "done", !.answer = "404"]
  <2>2. /\ r \in Run /\ r.log = run[c].log /\ r.read = run[c].read /\ r.at = "done"
        /\ r.answer = "404"
    BY <1>1 DEF Run
  <2>3. run' = [run EXCEPT ![c] = r] /\ UNCHANGED <<vars, onFailure>>
    BY <1>3 DEF Becomes, Finish
  <2> HIDE DEF r
  <2>4. OnCourse(r)
    BY <1>1, <1>2, <2>2 DEF OnCourse
  <2> QED
    BY <2>1, <2>2, <2>3, <2>4, RunMoves
<1>4. ASSUME NEW k \in Key, rows[k] # Absent, rows[k].id = Current(c).component,
             Becomes(c, [run[c] EXCEPT !.at = "invoke", !.key = k])
      PROVE  RunInv'
  <2> DEFINE r == [run[c] EXCEPT !.at = "invoke", !.key = k]
  <2>1. /\ r \in Run /\ r.log = run[c].log /\ r.read = run[c].read /\ r.at = "invoke"
        /\ r.answer = "none" /\ r.whole = run[c].whole /\ r.key = k
    BY <1>1, <1>2 DEF Run
  <2>2. run' = [run EXCEPT ![c] = r] /\ UNCHANGED <<vars, onFailure>>
    BY <1>4 DEF Becomes
  <2> HIDE DEF r
  <2>3. OnCourse(r)
    BY <1>1, <1>2, <2>1 DEF OnCourse
  <2>4. ForeignKeys => OnTrueCourse(r)
    BY <1>1, <1>2, <1>4, <2>1 DEF OnTrueCourse, Current
  <2> QED
    BY <2>1, <2>2, <2>3, <2>4, RunMoves
<1> QED
  BY <1>3, <1>4 DEF GetComponent

\* The component is looked up by its natural key and invoked; what comes after
\* depends on the step's onFailure.
LEMMA InvokeKeeps ==
  ASSUME RunInv, NEW c \in Client, Invoke(c)
  PROVE  RunInv'
<1>1. /\ run[c] \in Run /\ OnCourse(run[c]) /\ (ForeignKeys => OnTrueCourse(run[c]))
      /\ run[c].read \in Seq(Step) /\ run[c].log \in Seq(Entry) /\ run[c].key \in Key
      /\ rows \in [Key -> Row \cup {Absent}] /\ onFailure \in [Order -> {"halt", "continue"}]
  BY RunAssumption DEF RunInv, Run, Entry, CatalogInv, TypeOK
<1>2. Len(run[c].read) \in Nat /\ Len(run[c].log) \in Nat
  BY <1>1
<1> DEFINE i == Len(run[c].log) + 1
           id == rows[run[c].key].id
<1>3. /\ i \in 1 .. Len(run[c].read) /\ run[c].answer = "none" /\ Current(c) = run[c].read[i]
      /\ ForeignKeys => id = Current(c).component
  BY <1>1, <1>2 DEF Invoke, OnCourse, OnTrueCourse, Current
<1>4. PICK ok \in BOOLEAN :
        LET log == Append(run[c].log, [step |-> Current(c), ran |-> id, ok |-> ok])
        IN run' = [run EXCEPT ![c] = After(c, [run[c] EXCEPT !.log = log])]
  BY DEF Invoke, Becomes
<1> DEFINE e == [step |-> Current(c), ran |-> id, ok |-> ok]
           log == Append(run[c].log, e)
           s == [run[c] EXCEPT !.log = log]
<1>5. Current(c) \in Step /\ Current(c).order \in Order
  <2>1. Current(c) \in Step
    BY <1>1, <1>3
  <2> QED
    BY <2>1 DEF Step
<1>6. id \in 0 .. MaxId
  BY <1>1, CatalogAssumption DEF Row, Absent
<1>7. /\ e \in Entry /\ e.step = Current(c) /\ e.ok = ok
      /\ ForeignKeys => e.ran = e.step.component
  BY <1>3, <1>4, <1>5, <1>6 DEF Entry
<1> HIDE DEF e
<1>8. /\ log \in Seq(Entry) /\ Len(log) = i /\ log[i] = e
      /\ \A j \in 1 .. Len(run[c].log) : log[j] = run[c].log[j]
  BY <1>1, <1>2, <1>7, AppendProperties
<1> HIDE DEF log
<1>9. PICK r : /\ run' = [run EXCEPT ![c] = r]
               /\ \/ /\ ~e.ok /\ onFailure[e.step.order] = "halt"
                     /\ r = [s EXCEPT !.at = "done", !.answer = "failed"]
                  \/ /\ e.ok \/ onFailure[e.step.order] # "halt"
                     /\ Len(s.log) = Len(s.read)
                     /\ r = [s EXCEPT !.at = "done", !.answer = "ok"]
                  \/ /\ e.ok \/ onFailure[e.step.order] # "halt"
                     /\ Len(s.log) # Len(s.read)
                     /\ r = [s EXCEPT !.at = "component"]
  <2>1. s.log = log /\ s.log[Len(s.log)] = e
    BY <1>1, <1>8 DEF Run
  <2>2. run' = [run EXCEPT ![c] = After(c, s)]
    BY <1>4 DEF log, e
  <2> HIDE DEF s
  <2> QED
    BY <2>1, <2>2 DEF After
<1>10. /\ s \in Run /\ s.log = log /\ s.read = run[c].read /\ s.answer = "none"
       /\ s.whole = run[c].whole
  BY <1>1, <1>3, <1>8 DEF Run, Entry
<1> HIDE DEF s
<1>11. /\ r \in Run /\ r.log = log /\ r.read = run[c].read /\ r.whole = run[c].whole
       /\ \/ ~e.ok /\ r.at = "done" /\ r.answer = "failed"
          \/ /\ e.ok \/ onFailure[e.step.order] = "continue"
             /\ \/ r.at = "done" /\ r.answer = "ok" /\ Len(log) = Len(r.read)
                \/ r.at = "component" /\ r.answer = "none" /\ Len(log) # Len(r.read)
  BY <1>1, <1>5, <1>7, <1>9, <1>10 DEF Run
<1>12. \A j \in 1 .. Len(log) :
         /\ log[j].step = run[c].read[j]
         /\ \/ log[j].ok
            \/ onFailure[log[j].step.order] = "continue"
            \/ j = Len(log) /\ r.answer = "failed"
         /\ ForeignKeys => log[j].ran = log[j].step.component
  <2>1. ASSUME NEW j \in 1 .. Len(run[c].log)
        PROVE  /\ log[j].step = run[c].read[j]
               /\ log[j].ok \/ onFailure[log[j].step.order] = "continue"
               /\ ForeignKeys => log[j].ran = log[j].step.component
    BY <1>1, <1>3, <1>8 DEF OnCourse, OnTrueCourse
  <2>2. /\ log[i].step = run[c].read[i]
        /\ log[i].ok \/ onFailure[log[i].step.order] = "continue" \/ r.answer = "failed"
        /\ ForeignKeys => log[i].ran = log[i].step.component
    BY <1>3, <1>7, <1>8, <1>11
  <2>3. \A j \in 1 .. Len(log) : j = i \/ j \in 1 .. Len(run[c].log)
    BY <1>2, <1>8
  <2> QED
    BY <1>8, <2>1, <2>2, <2>3
<1>13. run[c].whole => Len(run[c].read) = Len(WorkflowSteps)
  BY <1>1, <1>3 DEF OnCourse, Invoke
<1>14. OnCourse(r)
  <2>1. r.at \notin {"find", "steps", "invoke"}
    BY <1>11
  <2>2. r.at = "component" => Len(r.log) < Len(r.read) /\ r.answer = "none"
    BY <1>2, <1>3, <1>8, <1>11
  <2>3. Len(r.log) <= Len(r.read) /\ (r.answer = "ok" => Len(r.log) = Len(r.read))
    BY <1>2, <1>3, <1>8, <1>11
  <2> QED
    BY <1>11, <1>12, <1>13, <2>1, <2>2, <2>3 DEF OnCourse
<1>15. ForeignKeys => OnTrueCourse(r)
  BY <1>1, <1>11, <1>12 DEF OnTrueCourse
<1>16. UNCHANGED <<vars, onFailure>>
  BY DEF Invoke, Becomes
<1> QED
  BY <1>9, <1>11, <1>14, <1>15, <1>16, RunMoves

\* No step of a request or of a run breaks the invariant.
LEMMA RunPreserved == RunInv /\ [RunNext]_runVars => RunInv'
<1> SUFFICES ASSUME RunInv, [RunNext]_runVars
             PROVE  RunInv'
  OBVIOUS
<1>1. CASE RunNext
  BY <1>1, RequestKeeps, ExecuteKeeps, FindKeeps, StepsKeep, ComponentKeeps, InvokeKeeps
     DEF RunNext, RunStep
<1>2. CASE UNCHANGED runVars
  <2>1. CatalogInv'
    BY <1>2, CatalogStutters DEF runVars, RunInv
  <2>2. /\ run' = run /\ onFailure' = onFailure /\ rows' = rows /\ steps' = steps
        /\ ForeignKeys' = ForeignKeys
    BY <1>2 DEF runVars, vars, ForeignKeys
  <2>3. \A c \in Client : OnCourse(run[c])'
    BY <2>2 DEF RunInv, OnCourse, Saved
  <2>4. ForeignKeys => \A c \in Client : OnTrueCourse(run[c])'
    BY <2>2 DEF RunInv, OnTrueCourse
  <2> QED
    BY <2>1, <2>2, <2>3, <2>4 DEF RunInv
<1> QED
  BY <1>1, <1>2

\* An empty catalogue without runs satisfies the invariant.
LEMMA RunInitial == RunInit => RunInv
<1> SUFFICES ASSUME RunInit
             PROVE  RunInv
  OBVIOUS
<1>1. MaxId \in Nat
  BY CatalogAssumption
<1>2. TypeOK
  BY <1>1, FreshRequests DEF RunInit, Init, TypeOK
<1>3. steps = {} /\ IsFiniteSet(steps) /\ \A w : Saved(w) = {}
  BY FS_EmptySet DEF RunInit, Init, Saved
<1>4. IdsUnique /\ NoneDangling
  BY DEF RunInit, Init, IdsUnique, NoneDangling
<1>5. Numbered
  BY <1>3, FS_EmptySet DEF Numbered
<1>6. \A c \in Client : req[c] = Idle
  BY DEF RunInit, Init
<1>7. \A c \in Client : WellFormed(req[c])
  BY <1>6, FreshRequests, DoneIsWellFormed
<1>8. Authors
  BY <1>3, <1>6, FreshRequests DEF Authors, Saving
<1>9. \A c \in Client : run[c] = NoRun
  BY DEF RunInit
<1>10. run \in [Client -> Run] /\ onFailure \in OnFailures
  BY NoRunOnCourse DEF RunInit
<1> QED
  BY <1>2, <1>3, <1>4, <1>5, <1>7, <1>8, <1>9, <1>10, NoRunOnCourse DEF RunInv, CatalogInv

-----------------------------------------------------------------------------
\* On every engine, catalogue and runs stay consistent under any requests.
THEOREM RunSafety == RunSpec => []RunInv
BY RunInitial, RunPreserved, PTL DEF RunSpec

\* The types of the catalogue and of the runs.
THEOREM RunTypes == RunSpec => []RunTypeOK
<1>1. RunInv => RunTypeOK
  BY DEF RunInv, CatalogInv, RunTypeOK
<1> QED
  BY <1>1, RunSafety, PTL

\* With foreign keys no interleaving of requests leaves a step without component.
THEOREM NoStepDangles == RunSpec => []NoDanglingStep
<1>1. RunInv => NoDanglingStep
  BY DEF RunInv, CatalogInv, NoneDangling, NoDanglingStep
<1> QED
  BY <1>1, RunSafety, PTL

\* On every engine a workflow has one author, and one that was reported as
\* created has every step of its definition.
THEOREM CreationsComplete == RunSpec => []CreatedMeansComplete
<1>1. ASSUME RunInv PROVE CreatedMeansComplete
  <2>1. Authors /\ Numbered /\ Len(WorkflowSteps) \in Nat
    BY <1>1, CatalogAssumption DEF RunInv, CatalogInv
  <2>2. OneAuthorPerWorkflow
    BY <2>1 DEF Authors, OneAuthorPerWorkflow, Saving
  <2>3. ASSUME NEW c \in Client, req[c].op = "workflow", req[c].answer = "ok", NEW i \in Order
        PROVE  \E s \in steps : s.wf = req[c].wf /\ s.order = i
    <3>1. req[c].wf \in WorkflowName
      BY <1>1 DEF RunInv, CatalogInv, TypeOK, Request
    <3>2. i \in 1 .. Cardinality(Saved(req[c].wf))
      BY <2>1, <2>3 DEF Authors, Order
    <3>3. \E s \in Saved(req[c].wf) : s.order = i
      BY <2>1, <3>1, <3>2 DEF Numbered
    <3> QED
      BY <3>3 DEF Saved
  <2> QED
    BY <2>2, <2>3 DEF CreatedMeansComplete
<1> QED
  BY <1>1, RunSafety, PTL

\* On every engine a run executes the steps it read, in order, up to one that
\* halts it, and a run of a complete workflow that answers success all of them.
THEOREM RunsFollowSteps == RunSpec => []RunFollowsSteps
<1>1. ASSUME RunInv PROVE RunFollowsSteps
  <2>1. RunTypeOK
    BY <1>1 DEF RunInv, CatalogInv, RunTypeOK
  <2>2. ASSUME NEW c \in Client
        PROVE  LET r == run[c]
                   Tolerated(i) == r.log[i].ok \/ onFailure[r.log[i].step.order] = "continue"
               IN /\ Len(r.log) <= Len(r.read)
                  /\ \A i \in 1 .. Len(r.log) : r.log[i].step = r.read[i]
                  /\ \A i \in 1 .. Len(r.log) - 1 : Tolerated(i)
                  /\ r.answer = "ok" =>
                       /\ Len(r.log) = Len(r.read)
                       /\ \A i \in 1 .. Len(r.log) : Tolerated(i)
                       /\ r.whole => Len(r.log) = Len(WorkflowSteps)
    <3> DEFINE r == run[c]
    <3>1. r \in Run /\ OnCourse(r)
      BY <1>1 DEF RunInv
    <3>2. Len(r.log) \in Nat
      BY <3>1 DEF Run
    <3> HIDE DEF r
    <3>3. \A i \in 1 .. Len(r.log) : \/ r.log[i].ok
                                     \/ onFailure[r.log[i].step.order] = "continue"
                                     \/ i = Len(r.log) /\ r.answer = "failed"
      BY <3>1 DEF OnCourse
    <3>4. \A i \in 1 .. Len(r.log) - 1 : i \in 1 .. Len(r.log) /\ i # Len(r.log)
      BY <3>2
    <3>5. /\ Len(r.log) <= Len(r.read)
          /\ \A i \in 1 .. Len(r.log) : r.log[i].step = r.read[i]
          /\ r.answer = "ok" => /\ Len(r.log) = Len(r.read)
                                /\ r.whole => Len(r.log) = Len(WorkflowSteps)
      BY <3>1 DEF OnCourse
    <3> QED
      BY <3>3, <3>4, <3>5 DEF r
  <2> QED
    BY <2>1, <2>2 DEF RunFollowsSteps
<1> QED
  BY <1>1, RunSafety, PTL

\* With foreign keys a run executes the components that its steps name.
THEOREM RunsAreTrue == RunSpec => []RunsWhatItNames
<1>1. RunInv => RunsWhatItNames
  BY DEF RunInv, OnTrueCourse, RunsWhatItNames
<1> QED
  BY <1>1, RunSafety, PTL

\* What becomes of the component under key k.
Keeps(k) ==
  \/ /\ rows[k] # Absent /\ rows'[k] = Absent
     /\ \E c \in Client : /\ req[c].op = "delete" /\ req[c].at # "done"
                         /\ req[c].found.id = rows[k].id
                         /\ req'[c].answer = "ok"
  \/ rows[k] # Absent /\ rows'[k].id = rows[k].id
  \/ rows[k] = Absent /\ rows'[k].id = nextId

\* But on Couchbase, a request's step changes a component only as the identity
\* rules allow.
LEMMA ServeKeepsIdentity ==
  ASSUME CatalogInv, engine # "couchbase", NEW c \in Client, Serve(c),
         NEW k \in Key, rows'[k] # rows[k]
  PROVE  Keeps(k)
<1>1. /\ TypeOK /\ req[c] \in Request /\ req[c].key \in Key /\ WellFormed(req[c])
      /\ rows \in [Key -> Row \cup {Absent}]
  BY DEF CatalogInv, TypeOK, Request
<1>2. Absent.id = 0 /\ \A f \in Row : f.id # 0
  BY CatalogAssumption DEF Absent, Row
<1>3. CASE Create(c)
  BY <1>1, <1>3 DEF Create, Keeps
<1>4. CASE UpdateById(c)
  <2>1. req[c].found \in Row
    BY <1>1, <1>4 DEF UpdateById, Is, WellFormed
  <2>2. rows[k].id = req[c].found.id /\ rows'[k] = [rows[k] EXCEPT !.version = req[c].found.version + 1]
    BY <1>4 DEF UpdateById
  <2>3. rows[k] \in Row
    BY <1>1, <1>2, <2>1, <2>2
  <2> QED
    BY <1>2, <2>2, <2>3 DEF Keeps, Row
<1>5. CASE DeleteById(c) \/ MongoDelete(c)
  <2>1. /\ req[c].op = "delete" /\ req[c].at \in {"apply", "write"}
        /\ rows' = Without(req[c].found.id) /\ Reply(c, "ok")
    BY <1>5 DEF DeleteById, MongoDelete, Is
  <2>2. req[c].found \in Row
    BY <1>1, <2>1 DEF WellFormed
  <2>3. rows[k].id = req[c].found.id /\ rows'[k] = Absent
    BY <2>1 DEF Without
  <2>4. PICK r : Takes(c, r) /\ r.answer = "ok"
    BY <1>1, <2>1, ReplyTakes
  <2>5. req'[c].answer = "ok"
    BY <1>1, <2>4 DEF Takes, TypeOK
  <2> QED
    BY <1>2, <2>1, <2>2, <2>3, <2>5 DEF Keeps
<1>6. ~CouchbaseReplace(c) /\ ~CouchbaseRemove(c)
  BY <1>1 DEF CouchbaseReplace, CouchbaseRemove, Is, WellFormed
<1>7. Create(c) \/ UpdateById(c) \/ DeleteById(c) \/ MongoDelete(c) \/ UNCHANGED rows
  BY <1>6 DEF Serve, Update, Remove, CreateWorkflow, Submit, Reselect, FindToUpdate,
     CouchbaseResolve, CouchbaseGet, FindToDelete, CountReferences, FindWorkflow,
     LookupComponent, SaveWorkflow, SaveWorkflowStep, InsertCheckedStep
<1> QED
  BY <1>3, <1>4, <1>5, <1>7

\* But on Couchbase, no interleaving of requests and runs deletes another
\* component than the one asked for, or gives a component another id.
THEOREM IdentityHolds == RunSpec => IdentityKept
<1>1. RunInv /\ [RunNext]_runVars =>
        [engine # "couchbase" => \A k \in Key : rows'[k] # rows[k] => Keeps(k)]_vars
  <2> SUFFICES ASSUME RunInv, [RunNext]_runVars, engine # "couchbase",
                      NEW k \in Key, rows'[k] # rows[k]
               PROVE  Keeps(k)
    OBVIOUS
  <2>1. RunNext
    BY DEF runVars, vars
  <2>2. PICK c \in Client : ServeRequest(c) \/ RunStep(c)
    BY <2>1 DEF RunNext
  <2>3. Serve(c)
    BY <2>2 DEF ServeRequest, RunStep, Execute, FindWorkflowByName, GetWorkflowSteps, GetComponent,
       Invoke, Becomes, vars
  <2> QED
    BY <2>3, ServeKeepsIdentity DEF RunInv
<1> QED
  BY <1>1, RunSafety, PTL DEF RunSpec, IdentityKept, Keeps
=============================================================================
