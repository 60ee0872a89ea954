---------------------------- MODULE WorkflowRun ----------------------------
(***************************************************************************)
(* WorkflowService.execute beside the requests that change the catalogue:  *)
(* the workflow, its steps and the component of each step are read one     *)
(* after the other while components and workflows come and go.  A client   *)
(* has a catalogue request in progress, or a run.                          *)
(*                                                                         *)
(* What an invocation does is Invocation's subject: here it succeeds or    *)
(* fails.  Which values the steps contribute to the context is left out.   *)
(***************************************************************************)
EXTENDS Catalog

CONSTANT OnFailures   \* values of the steps' onFailure, by order

ASSUME RunAssumption == OnFailures \subseteq [Order -> {"halt", "continue"}]

VARIABLES onFailure,  \* that of the workflows' steps
          run         \* the execution each client has in progress

runVars == <<vars, onFailure, run>>

Run == [at : {"idle", "find", "steps", "component", "invoke", "done"},
        wf : WorkflowName,
        whole : BOOLEAN,          \* the workflow was complete when the run began
        read : Seq(Step),         \* what getWorkflowSteps returned
        key : Key,                \* service and action of the component found
        log : Seq([step : Step, ran : 0 .. MaxId, ok : BOOLEAN]),
        answer : {"none", "ok", "404", "failed"}]

NoRun == [at |-> "idle", wf |-> CHOOSE w \in WorkflowName : TRUE, whole |-> FALSE,
          read |-> <<>>, key |-> CHOOSE k \in Key : TRUE, log |-> <<>>, answer |-> "none"]

RunInit == Init /\ onFailure \in OnFailures /\ run = [c \in Client |-> NoRun]

-----------------------------------------------------------------------------
Running(c) == run[c].at \notin {"idle", "done"}
Finish(c, answer) == [run[c] EXCEPT !.at = "done", !.answer = answer]
Becomes(c, r) == run' = [run EXCEPT ![c] = r] /\ UNCHANGED <<vars, onFailure>>

StepsOf(w) ==
  LET saved == {s \in steps : s.wf = w}
  IN [i \in 1 .. Cardinality(saved) |-> CHOOSE s \in saved : s.order = i]

Current(c) == run[c].read[Len(run[c].log) + 1]

ServeRequest(c) ==
  /\ ~Running(c)
  /\ Serve(c)
  /\ run' = [run EXCEPT ![c] = NoRun]
  /\ UNCHANGED onFailure

\* POST /v1/workflows/:workflowName/execute, with an object as its body.
Execute(c) ==
  /\ ~Running(c) /\ req[c].at = "done"
  /\ \E w \in WorkflowName :
       run' = [run EXCEPT ![c] =
                 [NoRun EXCEPT !.at = "find", !.wf = w,
                    !.whole = Len(StepsOf(w)) = Len(WorkflowSteps)]]
  /\ req' = [req EXCEPT ![c] = Idle]
  /\ UNCHANGED <<engine, rows, nextId, workflows, steps, onFailure>>

FindWorkflowByName(c) ==
  /\ run[c].at = "find"
  /\ Becomes(c, IF run[c].wf \in workflows THEN [run[c] EXCEPT !.at = "steps"]
                ELSE Finish(c, "404"))

\* Whatever steps are saved by now: also those of a workflow being created, or
\* whose creation failed.
GetWorkflowSteps(c) ==
  /\ run[c].at = "steps"
  /\ LET read == StepsOf(run[c].wf)
     IN Becomes(c, IF read = <<>> THEN Finish(c, "ok")
                   ELSE [run[c] EXCEPT !.at = "component", !.read = read])

\* A missing component ends the run, whatever the step's onFailure.
GetComponent(c) ==
  /\ run[c].at = "component"
  /\ \/ /\ ~Exists(Current(c).component)
        /\ Becomes(c, Finish(c, "404"))
     \/ \E k \in Key :
          /\ rows[k] # Absent /\ rows[k].id = Current(c).component
          /\ Becomes(c, [run[c] EXCEPT !.at = "invoke", !.key = k])

\* Mutant: a failure always ends the loop, and never the request.
AfterBreak(c, r) ==
  IF Len(r.log) = Len(r.read) \/ ~r.log[Len(r.log)].ok
  THEN [r EXCEPT !.at = "done", !.answer = "ok"]
  ELSE [r EXCEPT !.at = "component"]

\* The rest of the loop's body, and the end of the loop.
After(c, r) ==
  LET last == r.log[Len(r.log)]
  IN IF ~last.ok /\ onFailure[last.step.order] = "halt"
     THEN [r EXCEPT !.at = "done", !.answer = "failed"]
     ELSE IF Len(r.log) = Len(r.read) THEN [r EXCEPT !.at = "done", !.answer = "ok"]
     ELSE [r EXCEPT !.at = "component"]

\* executor.invoke is given the natural key and looks the component up again.
Invoke(c) ==
  LET found == rows[run[c].key]
  IN /\ run[c].at = "invoke"
     /\ \E ok \in IF found = Absent THEN {FALSE} ELSE BOOLEAN :
          Becomes(c, After(c, [run[c] EXCEPT
            !.log = Append(@, [step |-> Current(c), ran |-> found.id, ok |-> ok])]))

RunStep(c) ==
  \/ Execute(c) \/ FindWorkflowByName(c) \/ GetWorkflowSteps(c)
  \/ GetComponent(c) \/ Invoke(c)

RunNext == \E c \in Client : ServeRequest(c) \/ RunStep(c)

RunSpec == RunInit /\ [][RunNext]_runVars

-----------------------------------------------------------------------------
(* Every variable keeps its type. *)
RunTypeOK == TypeOK /\ onFailure \in OnFailures /\ run \in [Client -> Run]

(* A run executes the steps it read in their order, each once, and none     *)
(* after one that failed and is to halt; it answers success only when all    *)
(* were executed and all failures were of steps that continue.  When the     *)
(* workflow was completely created before the run began, that is every step  *)
(* of its definition; a run that overlaps the creation, or follows one that  *)
(* failed, may answer success for fewer.  (And the variables have their      *)
(* types.)                                                                   *)
RunFollowsSteps ==
  RunTypeOK /\ \A c \in Client :
    LET r == run[c]
        Tolerated(i) == r.log[i].ok \/ onFailure[r.log[i].step.order] = "continue"
    IN /\ Len(r.log) <= Len(r.read)
       /\ \A i \in 1 .. Len(r.log) : r.log[i].step = r.read[i]
       /\ \A i \in 1 .. Len(r.log) - 1 : Tolerated(i)
       /\ r.answer = "ok" =>
            /\ Len(r.log) = Len(r.read)
            /\ \A i \in 1 .. Len(r.log) : Tolerated(i)
            /\ r.whole => Len(r.log) = Len(WorkflowSteps)

(* The component is looked up by id and invoked by natural key, two awaits   *)
(* later.  On the engines with foreign keys it is still the one the step     *)
(* names: a run there never misses a component and never runs another that   *)
(* was created under the same key, however many requests come between.       *)
RunsWhatItNames ==
  ForeignKeys => \A c \in Client :
    /\ \A i \in 1 .. Len(run[c].log) : run[c].log[i].ran = run[c].log[i].step.component
    /\ run[c].answer = "404" => run[c].read = <<>>
=============================================================================
