------------------------------ MODULE Shutdown ------------------------------
(***************************************************************************)
(* The end of the process: shutdown() in index.ts against the requests in  *)
(* flight, a script evaluation and the invocations it has started, and the *)
(* recorder that must have written their records before the database is    *)
(* closed.                                                                 *)
(*                                                                         *)
(* The recorder is taken at the level of Recorder: a backlog, one record   *)
(* held at a time, and records their invocations write themselves when the *)
(* queue is full.  Request Script runs the evaluation of ScriptEvaluation; *)
(* what the other requests run is not told apart.                          *)
(***************************************************************************)
EXTENDS ScriptEvaluation

CONSTANTS Request,  \* bound: the HTTP requests that may arrive
          Script    \* the request that invokes a script component

ASSUME RequestAssumption == IsFiniteSet(Request) /\ Script \in Request /\ Request \cap Call = {}

VARIABLES stage,      \* where each invocation, and then its record, is
          phase,      \* how far shutdown() is
          db,         \* the database connection
          stopped,    \* the server accepts no connections
          cut,        \* the waits that timed out, and whether a step threw
          stragglers  \* the invocations without a record when the drain returned

shutVars == <<stage, phase, db, stopped, cut, stragglers>>
vars == <<evalVars, shutVars>>

Execution == Request \cup Call

\* An invocation runs; its record is queued, held by the pump, or written by
\* the invocation itself ("direct"); it is then stored, given up while the
\* database was there, or lost because it was not.
TypeOK ==
  /\ EvalTypeOK
  /\ stage \in [Execution -> {"none", "running", "queued", "held", "direct",
                              "stored", "dropped", "lost"}]
  /\ phase \in {"up", "stopping", "forcing", "draining", "disconnecting", "exited"}
  /\ db \in {"open", "closed"}
  /\ stopped \in BOOLEAN
  /\ cut \subseteq {"stop", "drain", "threw"}
  /\ stragglers \subseteq Execution

Init ==
  /\ EvalInit
  /\ stage = [x \in Execution |-> "none"]
  /\ phase = "up"
  /\ db = "open"
  /\ stopped = FALSE
  /\ cut = {}
  /\ stragglers = {}

At(places) == {x \in Execution : stage[x] \in places}
Move(x, place) == stage' = [stage EXCEPT ![x] = place]
Alive == phase # "exited"
InFlight == Request \cap At({"running", "direct"})

-----------------------------------------------------------------------------
\* A request arrives while the server accepts connections.
Accept(r) ==
  /\ Alive /\ ~stopped /\ stage[r] = "none"
  /\ Move(r, "running")
  /\ UNCHANGED <<evalVars, phase, db, stopped, cut, stragglers>>

\* The host receives a nested call and invokes: the server is not asked.
StartNested(c) ==
  /\ Alive
  /\ HostInvokes(c)
  /\ Move(c, "running")
  /\ UNCHANGED <<phase, db, stopped, cut, stragglers>>

\* The other steps of the evaluation, which runs within its request.
Evaluation ==
  /\ Alive
  /\ stage[Script] = "running" \/ outcome # "none"
  /\ EvalStep
  /\ UNCHANGED shutVars

MayEnd(x) == stage[x] = "running" /\ (x = Script => outcome \in Outcome)

AnswerOf(x) == IF x \in Call THEN Reply(x) /\ UNCHANGED <<signal, outcome, worker, inbox>>
                             ELSE UNCHANGED evalVars

\* invoke ends: its record is queued and its caller answered at once.
EndQueued(x) ==
  /\ Alive /\ MayEnd(x)
  /\ Move(x, "queued")
  /\ AnswerOf(x)
  /\ UNCHANGED <<phase, db, stopped, cut, stragglers>>

\* invoke ends and finds the queue full: its caller waits for the write.
EndDirect(x) ==
  /\ Alive /\ MayEnd(x)
  /\ Move(x, "direct")
  /\ UNCHANGED <<evalVars, phase, db, stopped, cut, stragglers>>

\* The pump takes the next record when it holds none.
PumpTakes(x) ==
  /\ Alive /\ stage[x] = "queued" /\ At({"held"}) = {}
  /\ Move(x, "held")
  /\ UNCHANGED <<evalVars, phase, db, stopped, cut, stragglers>>

\* A write settles: stored, or given up; once the database is closed nothing
\* can be stored.
WriteSettles(x) ==
  /\ Alive /\ stage[x] \in {"held", "direct"}
  /\ \/ db = "open" /\ Move(x, "stored")
     \/ Move(x, IF db = "open" THEN "dropped" ELSE "lost")
  /\ IF stage[x] = "direct" THEN AnswerOf(x) ELSE UNCHANGED evalVars
  /\ UNCHANGED <<phase, db, stopped, cut, stragglers>>

-----------------------------------------------------------------------------
Enter(next) == phase' = next

\* SIGTERM or SIGINT: server.stop() is called and raced with STOP_WAIT_MS.
\* Further signals find shuttingDown set.
Signal ==
  /\ phase = "up"
  /\ stopped' = TRUE
  /\ Enter("stopping")
  /\ UNCHANGED <<evalVars, stage, db, cut, stragglers>>

\* server.stop() resolves when no request is in flight.
StopReturns ==
  /\ phase = "stopping" /\ InFlight = {}
  /\ Enter("draining")
  /\ UNCHANGED <<evalVars, stage, db, stopped, cut, stragglers>>

\* STOP_WAIT_MS has passed: the connections of pending requests are closed,
\* which does not end the handlers behind them.
StopTimesOut ==
  /\ phase = "stopping"
  /\ IF InFlight = {} THEN Enter("draining") /\ cut' = cut
                      ELSE Enter("forcing") /\ cut' = cut \cup {"stop"}
  /\ UNCHANGED <<evalVars, stage, db, stopped, stragglers>>

ForceReturns ==
  /\ phase = "forcing"
  /\ Enter("draining")
  /\ UNCHANGED <<evalVars, stage, db, stopped, cut, stragglers>>

\* Mutant: the drain looks at the queue and not at the record being written.
DrainChecksQueue ==
  /\ phase = "draining" /\ At({"queued"}) = {}
  /\ stragglers' = At({"none", "running", "direct"})
  /\ Enter("disconnecting")
  /\ UNCHANGED <<evalVars, stage, db, stopped, cut>>

\* drain() returns: no record is queued or held.
DrainReturns ==
  /\ phase = "draining" /\ At({"queued", "held"}) = {}
  /\ stragglers' = At({"none", "running", "direct"})
  /\ Enter("disconnecting")
  /\ UNCHANGED <<evalVars, stage, db, stopped, cut>>

\* Mutant: the drain has no time limit.
DrainNeverTimesOut == FALSE /\ UNCHANGED vars

\* DRAIN_TIMEOUT_MS has passed.
DrainTimesOut ==
  /\ phase = "draining" /\ At({"queued", "held"}) # {}
  /\ cut' = cut \cup {"drain"}
  /\ Enter("disconnecting")
  /\ UNCHANGED <<evalVars, stage, db, stopped, stragglers>>

\* db.disconnect() closes the connection and later returns: exit.
Disconnect ==
  /\ phase = "disconnecting" /\ db = "open"
  /\ db' = "closed"
  /\ UNCHANGED <<evalVars, stage, phase, stopped, cut, stragglers>>

Exit ==
  /\ phase = "disconnecting" /\ db = "closed"
  /\ Enter("exited")
  /\ UNCHANGED <<evalVars, stage, db, stopped, cut, stragglers>>

\* A step of the shutdown throws: the process exits all the same.
Throws ==
  /\ phase \in {"stopping", "forcing", "disconnecting"}
  /\ cut' = cut \cup {"threw"}
  /\ Enter("exited")
  /\ UNCHANGED <<evalVars, stage, db, stopped, stragglers>>

ShutdownStep ==
  \/ Signal
  \/ StopReturns
  \/ StopTimesOut
  \/ ForceReturns
  \/ DrainReturns
  \/ DrainTimesOut
  \/ Disconnect
  \/ Exit
  \/ Throws

Next ==
  \/ \E r \in Request : Accept(r)
  \/ \E c \in Call : StartNested(c)
  \/ Evaluation
  \/ \E x \in Execution : EndQueued(x) \/ EndDirect(x) \/ PumpTakes(x) \/ WriteSettles(x)
  \/ ShutdownStep

\* Timers fire and the server's and the driver's promises settle; messages are
\* delivered; an invocation ends (each has a deadline) and its write settles.
\* Nothing makes a script end.
Fairness ==
  /\ WF_vars(StopReturns \/ StopTimesOut)
  /\ WF_vars(ForceReturns)
  /\ WF_vars(DrainReturns \/ DrainTimesOut)
  /\ WF_vars(Disconnect)
  /\ WF_vars(Exit)
  /\ WF_vars(Alive /\ HostReceivesResult /\ UNCHANGED shutVars)
  /\ \A c \in Call :
       /\ WF_vars(StartNested(c) \/ (Alive /\ HostAnswersAtOnce(c) /\ UNCHANGED shutVars))
       /\ WF_vars(Alive /\ WorkerReceives(c) /\ UNCHANGED shutVars)
       /\ WF_vars(EndQueued(c) \/ EndDirect(c))
       /\ WF_vars(WriteSettles(c))

Spec == Init /\ [][Next]_vars /\ Fairness

-----------------------------------------------------------------------------
\* index.ts 83-92, README.md 405: when neither wait timed out and no step threw,
\* every request that was accepted has its record stored, or given up while the
\* database was there; unless the drain timed out, a record is lost only of an
\* invocation that had not handed it to the queue when the drain returned.  (And
\* the variables have their types.)
RecordsKept ==
  /\ TypeOK
  /\ (phase = "exited" /\ cut = {}) =>
       \A x \in Execution : \/ stage[x] \in {"none", "stored", "dropped"}
                            \/ x \in Call \cap stragglers
  /\ "drain" \notin cut => At({"lost"}) \subseteq stragglers

\* script-evaluator.ts 79-105 with script-worker.ts 85-99: a call the script
\* awaits is answered, unless the evaluation or the process ends first.
CallsAreAnswered ==
  \A c \in Call :
    call[c] = "posted" ~> call[c] = "resolved" \/ outcome # "pending" \/ ~Alive

\* index.ts 83-101: a signal ends the process whatever requests, scripts and
\* writes do.
SignalEndsProcess == phase # "up" ~> phase = "exited"

\* index.ts 71: "Stop accepting connections first so nothing enqueues mid-drain",
\* where the requests in flight have all ended before the drain.
NothingEnqueuesMidDrain ==
  [][(phase = "draining" /\ cut = {}) =>
       \A x \in Execution : stage'[x] = "queued" => stage[x] = "queued"]_vars

=============================================================================
