--------------------------- MODULE Shutdown_proofs ---------------------------
(***************************************************************************)
(* The safety properties of a script evaluation and of the shutdown, for   *)
(* all requests and all calls the script may make.                         *)
(***************************************************************************)
EXTENDS Shutdown, FiniteSetTheorems, TLAPS

\* A worker posts each call and its result once.
Used == {c \in Call : call[c] # "none"}
Posted == Cardinality(Used) + (IF worker \in {"none", "running"} THEN 0 ELSE 1)

EvalTyped ==
  /\ signal \in BOOLEAN
  /\ outcome \in {"none", "pending"} \cup Outcome
  /\ worker \in {"none", "running", "finished", "terminated"}
  /\ inbox \in Seq(Call \cup {"ok", "error"})
  /\ call \in [Call -> {"none", "posted", "invoking", "replied", "resolved", "dropped"}]

EvalInv ==
  /\ EvalTyped
  /\ Len(inbox) <= Posted
  /\ outcome = "none" => worker = "none"
  /\ WorkerReclaimed

StageTyped ==
  /\ stage \in [Execution -> {"none", "running", "queued", "held", "direct",
                              "stored", "dropped", "lost"}]
  /\ phase \in {"up", "stopping", "forcing", "draining", "disconnecting", "exited"}
  /\ db \in {"open", "closed"}
  /\ stopped \in BOOLEAN
  /\ cut \subseteq {"stop", "drain", "threw"}
  /\ stragglers \subseteq Execution

\* Nothing is lost while the database is there.
BeforeDisconnect ==
  phase \notin {"disconnecting", "exited"} => db = "open" /\ At({"lost"}) = {}

\* The server is stopped first, and without a timeout the requests in flight end
\* before the drain and their records in it.
Stopping ==
  /\ phase # "up" => stopped
  /\ phase = "forcing" => "stop" \in cut
  /\ phase = "draining" /\ cut = {} => InFlight = {}
  /\ phase = "disconnecting" /\ cut = {} =>
       \A r \in Request : stage[r] \in {"none", "stored", "dropped"}

\* After a drain that was waited for, what is not settled is a straggler's.
Drained ==
  phase = "disconnecting" /\ "drain" \notin cut =>
    At({"none", "running", "direct", "queued", "held", "lost"}) \subseteq stragglers

KeptAtExit ==
  /\ (phase = "exited" /\ cut = {}) =>
       \A x \in Execution : \/ stage[x] \in {"none", "stored", "dropped"}
                            \/ x \in Call \cap stragglers
  /\ "drain" \notin cut => At({"lost"}) \subseteq stragglers

StageInv == StageTyped /\ BeforeDisconnect /\ Stopping /\ Drained /\ KeptAtExit

\* A nested invocation starts when its message is received.
Unstarted == \A c \in Call : call[c] \in {"none", "posted"} => stage[c] = "none"

ShutdownInv == EvalInv /\ StageInv /\ Unstarted
-----------------------------------------------------------------------------
\* The evaluator's type invariant: the inbox holds at most a reply per call and
\* the result.
LEMMA InboxBounded ==
  ASSUME EvalInv
  PROVE  EvalTypeOK
<1>1. Used \subseteq Call
  BY DEF Used
<1>2. Cardinality(Used) \in Nat /\ Cardinality(Call) \in Nat /\ Cardinality(Used) <= Cardinality(Call)
  BY <1>1, CallAssumption, FS_Subset, FS_CardinalityType
<1>3. Len(inbox) \in Nat
  BY DEF EvalInv, EvalTyped
<1>4. Len(inbox) <= Cardinality(Call) + 1
  BY <1>2, <1>3 DEF EvalInv, Posted
<1> QED
  BY <1>4 DEF EvalInv, EvalTyped, EvalTypeOK

\* A call that the worker makes is one more that it has made.
LEMMA OneMoreCall ==
  ASSUME EvalTyped, NEW c \in Call, call[c] = "none", call'[c] # "none",
         \A d \in Call \ {c} : call'[d] = call[d]
  PROVE  Cardinality(Used') = Cardinality(Used) + 1 /\ Cardinality(Used) \in Nat
<1>1. Used' = Used \cup {c} /\ c \notin Used /\ Used \subseteq Call
  BY DEF Used
<1> QED
  BY <1>1, CallAssumption, FS_Subset, FS_AddElement, FS_CardinalityType

\* A step that forgets no call and posts nothing keeps the bound on the inbox.
LEMMA PostsNothing ==
  ASSUME EvalInv, call' \in [Call -> {"none", "posted", "invoking", "replied", "resolved", "dropped"}],
         \A c \in Call : call[c] # "none" => call'[c] # "none",
         worker \notin {"none", "running"} => worker' \notin {"none", "running"},
         Len(inbox') \in Nat, Len(inbox') <= Len(inbox)
  PROVE  Len(inbox') <= Posted'
<1>1. Used \subseteq Used' /\ Used' \subseteq Call
  BY DEF Used
<1>2. /\ Cardinality(Used) \in Nat /\ Cardinality(Used') \in Nat
      /\ Cardinality(Used) <= Cardinality(Used')
  BY <1>1, CallAssumption, FS_Subset, FS_CardinalityType
<1>3. Len(inbox) \in Nat /\ Len(inbox) <= Posted
  BY DEF EvalInv, EvalTyped
<1> QED
  BY <1>2, <1>3 DEF Posted

\* The evaluation's own steps.
LEMMA EvalStepKeeps ==
  ASSUME EvalInv, EvalStep
  PROVE  EvalInv'
<1> USE DEF EvalInv, EvalTyped, WorkerReclaimed, Outcome
<1>1. ASSUME NEW m \in Call \cup {"ok", "error"}
      PROVE  /\ Append(inbox, m) \in Seq(Call \cup {"ok", "error"})
             /\ Len(Append(inbox, m)) = Len(inbox) + 1
  OBVIOUS
<1>2. ASSUME inbox # <<>>
      PROVE  /\ Tail(inbox) \in Seq(Call \cup {"ok", "error"})
             /\ Len(Tail(inbox)) \in Nat /\ Len(Tail(inbox)) <= Len(inbox)
             /\ Head(inbox) \in Call \cup {"ok", "error"}
  BY <1>2
<1>3. <<>> \in Seq(Call \cup {"ok", "error"}) /\ Len(<<>>) = 0 /\ Len(inbox) \in Nat /\ 0 <= Len(inbox)
  OBVIOUS
<1>4. Cardinality(Used) \in Nat
  BY CallAssumption, FS_Subset, FS_CardinalityType DEF Used
<1>5. CASE Evaluate
  <2>1. Len(inbox') <= Posted'
    BY <1>3, <1>5, PostsNothing DEF Evaluate
  <2> QED
    BY <1>5, <2>1 DEF Evaluate
<1>6. CASE Abort \/ WorkerBreaks
  <2>1. Len(inbox') <= Posted'
    BY <1>3, <1>6, PostsNothing DEF Abort, WorkerBreaks, Finish
  <2>2. signal' \in BOOLEAN /\ UNCHANGED <<inbox, call>>
    BY <1>6 DEF Abort, WorkerBreaks
  <2>3. /\ outcome' \in {"none", "pending"} \cup Outcome
        /\ worker' \in {"none", "running", "finished", "terminated"}
        /\ worker' \in {"running", "finished"} <=> outcome' = "pending"
        /\ outcome' = "none" => worker' = "none"
    BY <1>6 DEF Abort, WorkerBreaks, Finish
  <2> QED
    BY <2>1, <2>2, <2>3
<1>7. CASE WorkerEnds
  <2>1. PICK r \in {"ok", "error"} : inbox' = Append(inbox, r)
    BY <1>7 DEF WorkerEnds
  <2>2. Used' = Used
    BY <1>7 DEF WorkerEnds, Used
  <2>3. Posted' = Posted + 1
    BY <1>4, <1>7, <2>2 DEF WorkerEnds, Posted
  <2>4. Posted \in Nat /\ Len(inbox) <= Posted
    BY <1>4 DEF Posted
  <2> QED
    BY <1>1, <1>3, <1>7, <2>1, <2>3, <2>4 DEF WorkerEnds
<1>8. CASE HostReceivesResult
  <2>1. Len(inbox') <= Posted'
    BY <1>2, <1>8, PostsNothing DEF HostReceivesResult, Finish
  <2> QED
    BY <1>2, <1>8, <2>1 DEF HostReceivesResult, Finish
<1>9. CASE InboxLost
  <2>1. Len(inbox') <= Posted'
    BY <1>3, <1>9, PostsNothing DEF InboxLost
  <2> QED
    BY <1>3, <1>9, <2>1 DEF InboxLost
<1>10. ASSUME NEW c \in Call, WorkerCalls(c) PROVE EvalInv'
  <2>1. Cardinality(Used') = Cardinality(Used) + 1
    BY <1>10, OneMoreCall DEF WorkerCalls
  <2>2. Len(inbox') <= Len(inbox) + 1 /\ inbox' \in Seq(Call \cup {"ok", "error"})
    BY <1>1, <1>3, <1>10 DEF WorkerCalls
  <2>3. Len(inbox') \in Nat /\ Posted' = Posted + 1 /\ Posted \in Nat
    BY <1>4, <1>10, <2>1, <2>2 DEF WorkerCalls, Posted
  <2> QED
    BY <1>3, <1>10, <2>2, <2>3 DEF WorkerCalls
<1>11. ASSUME NEW c \in Call, HostAnswersAtOnce(c) PROVE EvalInv'
  <2>1. Len(inbox') <= Posted'
    BY <1>2, <1>11, PostsNothing DEF HostAnswersAtOnce, Reply
  <2> QED
    BY <1>2, <1>11, <2>1 DEF HostAnswersAtOnce, Reply
<1>12. ASSUME NEW c \in Call, WorkerReceives(c) PROVE EvalInv'
  <2>1. Len(inbox') <= Posted'
    BY <1>3, <1>12, PostsNothing DEF WorkerReceives
  <2> QED
    BY <1>12, <2>1 DEF WorkerReceives
<1> QED
  BY <1>5, <1>6, <1>7, <1>8, <1>9, <1>10, <1>11, <1>12 DEF EvalStep

\* A nested invocation starts, and is answered.
LEMMA NestedKeeps ==
  ASSUME EvalInv, NEW c \in Call,
         HostInvokes(c) \/ (Reply(c) /\ UNCHANGED <<signal, outcome, worker, inbox>>)
  PROVE  EvalInv'
<1> USE DEF EvalInv, EvalTyped, WorkerReclaimed, Outcome
<1>1. /\ call' \in [Call -> {"none", "posted", "invoking", "replied", "resolved", "dropped"}]
      /\ \A d \in Call : call[d] # "none" => call'[d] # "none"
      /\ UNCHANGED <<signal, outcome, worker>>
  BY DEF HostInvokes, Reply
<1>2. inbox' \in Seq(Call \cup {"ok", "error"}) /\ Len(inbox') \in Nat /\ Len(inbox') <= Len(inbox)
  BY DEF HostInvokes
<1>3. Len(inbox') <= Posted'
  BY <1>1, <1>2, PostsNothing
<1> QED
  BY <1>1, <1>2, <1>3

\* Steps elsewhere leave the evaluation as it is.
LEMMA EvalUntouched ==
  ASSUME EvalInv, UNCHANGED evalVars
  PROVE  EvalInv'
BY DEF EvalInv, EvalTyped, WorkerReclaimed, Posted, Used, evalVars

-----------------------------------------------------------------------------
\* Each step of a process that is alive leaves the evaluation's part intact.
LEMMA ShutdownKeepsEval ==
  ASSUME EvalInv, [Next]_vars
  PROVE  EvalInv'
<1>1. ASSUME NEW r \in Request, Accept(r) PROVE EvalInv'
  BY <1>1, EvalUntouched DEF Accept
<1>2. ASSUME NEW c \in Call, StartNested(c) PROVE EvalInv'
  BY <1>2, NestedKeeps DEF StartNested
<1>3. CASE Evaluation
  BY <1>3, EvalStepKeeps DEF Evaluation
<1>4. ASSUME NEW x, AnswerOf(x) PROVE EvalInv'
  BY <1>4, NestedKeeps, EvalUntouched DEF AnswerOf
<1>5. ASSUME NEW x \in Execution, EndQueued(x) \/ EndDirect(x) \/ PumpTakes(x) \/ WriteSettles(x)
      PROVE  EvalInv'
  BY <1>4, <1>5, EvalUntouched DEF EndQueued, EndDirect, PumpTakes, WriteSettles
<1>6. CASE ShutdownStep
  <2>1. UNCHANGED evalVars
    BY <1>6 DEF ShutdownStep, Signal, StopReturns, StopTimesOut, ForceReturns, DrainReturns,
       DrainTimesOut, Disconnect, Exit, Throws
  <2> QED
    BY <2>1, EvalUntouched
<1>7. CASE UNCHANGED vars
  BY <1>7, EvalUntouched DEF vars
<1> QED
  BY <1>1, <1>2, <1>3, <1>5, <1>6, <1>7 DEF Next

\* One invocation or its record moves on, in a process that is alive.
LEMMA MoveKeeps ==
  ASSUME StageInv, NEW x \in Execution, NEW place, Move(x, place), Alive,
         \/ stage[x] = "none" /\ place = "running" /\ (x \in Call \/ ~stopped)
         \/ stage[x] = "running" /\ place \in {"queued", "direct"}
         \/ stage[x] = "queued" /\ place = "held"
         \/ stage[x] \in {"held", "direct"} /\ place \in {"stored", "dropped"}
         \/ stage[x] \in {"held", "direct"} /\ place = "lost" /\ db = "closed",
         UNCHANGED <<phase, db, stopped, cut, stragglers>>
  PROVE  StageInv'
<1> USE DEF StageInv
<1>1. /\ stage'[x] = place /\ \A y \in Execution \ {x} : stage'[y] = stage[y]
      /\ place \in {"running", "queued", "direct", "held", "stored", "dropped", "lost"}
  BY DEF Move, StageTyped
<1>2. StageTyped'
  BY <1>1 DEF StageTyped, Move
<1>3. BeforeDisconnect'
  BY <1>1 DEF BeforeDisconnect, At
<1>4. Stopping'
  <2>1. ASSUME phase = "draining", cut = {} PROVE InFlight' = {}
    <3>1. x \in Request => stage[x] \notin {"running", "direct"} /\ stopped
      BY <2>1 DEF Stopping, InFlight, At
    <3>2. x \in Request => place \notin {"running", "direct"}
      BY <3>1, RequestAssumption
    <3> QED
      BY <1>1, <2>1, <3>2 DEF Stopping, InFlight, At
  <2>2. ASSUME phase = "disconnecting", cut = {}, NEW r \in Request
        PROVE  stage'[r] \in {"none", "stored", "dropped"}
    BY <1>1, <2>2, RequestAssumption DEF Stopping, Execution
  <2> QED
    BY <2>1, <2>2 DEF Stopping
<1>5. Drained'
  BY <1>1 DEF Drained, At
<1>6. KeptAtExit'
  <2>1. phase # "exited"
    BY DEF Alive
  <2>2. ASSUME "drain" \notin cut PROVE At({"lost"})' \subseteq stragglers
    <3>1. place = "lost" => x \in stragglers
      BY <2>1, <2>2 DEF BeforeDisconnect, Drained, StageTyped, At
    <3> QED
      BY <1>1, <2>2, <3>1 DEF KeptAtExit, At
  <2> QED
    BY <2>1, <2>2 DEF KeptAtExit
<1> QED
  BY <1>2, <1>3, <1>4, <1>5, <1>6

\* shutdown() itself moves no record.
LEMMA ShutdownStepKeeps ==
  ASSUME StageInv, ShutdownStep
  PROVE  StageInv'
<1> USE DEF StageInv, StageTyped, BeforeDisconnect, Stopping, Drained, KeptAtExit, At, Enter,
            InFlight, Execution
<1>1. CASE Signal
  BY <1>1 DEF Signal
<1>2. CASE StopReturns
  BY <1>2 DEF StopReturns
<1>3. CASE StopTimesOut
  BY <1>3 DEF StopTimesOut
<1>4. CASE ForceReturns
  BY <1>4 DEF ForceReturns
<1>5. CASE DrainReturns
  BY <1>5 DEF DrainReturns
<1>6. CASE DrainTimesOut
  BY <1>6 DEF DrainTimesOut
<1>7. CASE Disconnect
  BY <1>7 DEF Disconnect
<1>8. CASE Exit
  BY <1>8 DEF Exit
<1>9. CASE Throws
  BY <1>9 DEF Throws
<1> QED
  BY <1>1, <1>2, <1>3, <1>4, <1>5, <1>6, <1>7, <1>8, <1>9 DEF ShutdownStep

\* A nested call that has not reached the host has no record.
LEMMA UnstartedKept ==
  ASSUME EvalInv, StageInv, Unstarted, [Next]_vars
  PROVE  Unstarted'
<1> USE DEF EvalInv, EvalTyped, StageInv, StageTyped, Unstarted
<1>1. ASSUME UNCHANGED stage, \A c \in Call : call'[c] \in {"none", "posted"} => call[c] \in {"none", "posted"}
      PROVE  Unstarted'
  BY <1>1
<1>2. ASSUME NEW r \in Request, Accept(r) PROVE Unstarted'
  BY <1>2, RequestAssumption DEF Accept, Move, evalVars, Execution
<1>3. ASSUME NEW c \in Call, StartNested(c) PROVE Unstarted'
  BY <1>3 DEF StartNested, HostInvokes, Move
<1>4. CASE Evaluation
  <2>1. \A c \in Call : call'[c] \in {"none", "posted"} => call[c] \in {"none", "posted"}
    BY <1>4 DEF Evaluation, EvalStep, Evaluate, WorkerEnds, WorkerBreaks, HostReceivesResult,
       InboxLost, Abort, WorkerCalls, HostAnswersAtOnce, WorkerReceives, Reply
  <2> QED
    BY <1>1, <1>4, <2>1 DEF Evaluation, shutVars
<1>5. ASSUME NEW x \in Execution, EndQueued(x) \/ EndDirect(x) \/ PumpTakes(x) \/ WriteSettles(x)
      PROVE  Unstarted'
  <2>1. stage[x] # "none" /\ \A y \in Execution \ {x} : stage'[y] = stage[y]
    BY <1>5 DEF EndQueued, EndDirect, PumpTakes, WriteSettles, MayEnd, Move
  <2>2. AnswerOf(x) \/ UNCHANGED evalVars
    BY <1>5 DEF EndQueued, EndDirect, PumpTakes, WriteSettles
  <2>3. \A c \in Call : call'[c] \in {"none", "posted"} => call'[c] = call[c]
    BY <2>2 DEF AnswerOf, Reply, evalVars
  <2> QED
    BY <2>1, <2>3 DEF Execution
<1>6. CASE ShutdownStep
  BY <1>1, <1>6 DEF ShutdownStep, Signal, StopReturns, StopTimesOut, ForceReturns, DrainReturns,
     DrainTimesOut, Disconnect, Exit, Throws, evalVars
<1>7. CASE UNCHANGED vars
  BY <1>1, <1>7 DEF vars, evalVars, shutVars
<1> QED
  BY <1>2, <1>3, <1>4, <1>5, <1>6, <1>7 DEF Next

\* The running server satisfies the invariant.
LEMMA ShutdownInit == Init => ShutdownInv
<1> SUFFICES ASSUME Init
             PROVE  ShutdownInv
  OBVIOUS
<1>1. EvalInv
  <2>1. Used = {} /\ Cardinality({}) = 0
    BY FS_EmptySet DEF Init, EvalInit, Used
  <2>2. EvalTyped
    <3>1. signal \in BOOLEAN
      BY DEF Init, EvalInit
    <3>2. inbox \in Seq(Call \cup {"ok", "error"})
      BY DEF Init, EvalInit
    <3> QED
      BY <3>1, <3>2 DEF Init, EvalInit, EvalTyped
  <2>3. Len(inbox) <= Posted
    BY <2>1 DEF Init, EvalInit, Posted
  <2> QED
    BY <2>2, <2>3 DEF Init, EvalInit, EvalInv, WorkerReclaimed
<1>2. StageInv
  BY DEF Init, StageInv, StageTyped, BeforeDisconnect, Stopping, Drained, KeptAtExit, At
<1>3. Unstarted
  BY DEF Init, Unstarted, Execution
<1> QED
  BY <1>1, <1>2, <1>3 DEF ShutdownInv

\* No step breaks the invariant.
LEMMA ShutdownNext == ShutdownInv /\ [Next]_vars => ShutdownInv'
<1> SUFFICES ASSUME ShutdownInv, [Next]_vars
             PROVE  ShutdownInv'
  OBVIOUS
<1>1. EvalInv' /\ StageInv /\ Unstarted'
  BY ShutdownKeepsEval, UnstartedKept DEF ShutdownInv
<1>2. ASSUME NEW r \in Request, Accept(r) PROVE StageInv'
  BY <1>1, <1>2, MoveKeeps DEF Accept, Execution
<1>3. ASSUME NEW c \in Call, StartNested(c) PROVE StageInv'
  <2>1. stage[c] = "none"
    BY <1>3 DEF ShutdownInv, Unstarted, StartNested, HostInvokes
  <2> QED
    BY <1>1, <1>3, <2>1, MoveKeeps DEF StartNested, Execution
<1>4. ASSUME NEW x \in Execution, EndQueued(x) \/ EndDirect(x) \/ PumpTakes(x) PROVE StageInv'
  BY <1>1, <1>4, MoveKeeps DEF EndQueued, EndDirect, PumpTakes, MayEnd
<1>5. ASSUME NEW x \in Execution, WriteSettles(x) PROVE StageInv'
  BY <1>1, <1>5, MoveKeeps DEF WriteSettles, StageInv, StageTyped
<1>6. ASSUME ShutdownStep PROVE StageInv'
  BY <1>1, <1>6, ShutdownStepKeeps
<1>7. ASSUME Evaluation \/ UNCHANGED vars PROVE StageInv'
  BY <1>1, <1>7 DEF Evaluation, vars, shutVars, StageInv, StageTyped, BeforeDisconnect, Stopping,
     Drained, KeptAtExit, At, InFlight
<1> QED
  BY <1>1, <1>2, <1>3, <1>4, <1>5, <1>6, <1>7 DEF Next, ShutdownInv
-----------------------------------------------------------------------------
\* Evaluation, records and the stages of shutdown() stay consistent.
THEOREM ShutdownSafety == Spec => []ShutdownInv
BY ShutdownInit, ShutdownNext, PTL DEF Spec

\* However an evaluation ends, its worker is gone.
THEOREM WorkersAreReclaimed == Spec => []WorkerReclaimed
<1>1. ShutdownInv => WorkerReclaimed
  BY DEF ShutdownInv, EvalInv
<1> QED
  BY <1>1, ShutdownSafety, PTL

\* A shutdown loses no record that was handed over before its drain returned.
THEOREM ShutdownKeepsRecords == Spec => []RecordsKept
<1>1. ShutdownInv => RecordsKept
  BY InboxBounded DEF ShutdownInv, StageInv, StageTyped, KeptAtExit, RecordsKept, TypeOK
<1> QED
  BY <1>1, ShutdownSafety, PTL
=============================================================================
