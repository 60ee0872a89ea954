----------------------- MODULE SocketTransport_proofs -----------------------
(***************************************************************************)
(* The safety properties of a request over a socket, for all timeouts, all *)
(* latenesses of timers and bodies of any number of pieces.                *)
(***************************************************************************)
EXTENDS SocketTransport, TLAPS

\* Nothing has happened before the request starts.
Untouched ==
    promise = "new" =>
        /\ body = "none" /\ peer = "dialled" /\ request = "open"
        /\ silence = 0 /\ error = "none" /\ ~finished

\* The promise is resolved by the headers, and there is a body only after them.
Headers ==
    /\ promise = "resolved" <=> peer = "answered"
    /\ body # "none" => peer = "answered"

\* `finished`, a rejection and an error mean that the request is over.
Settled ==
    /\ Over <=> finished \/ promise = "rejected"
    /\ error # "none" => Over

\* An armed timer and the silence of the peer add up to the timeout.
Elapsed ==
    /\ connectTimer # Off => silence = ConnectTimeout - connectTimer
    /\ readTimer # Off => silence = ReadTimeout - readTimer

TransportInv ==
    /\ ExactlyOneGuard
    /\ ErrorIsHeard
    /\ TimeoutMeansSilence
    /\ Untouched
    /\ Headers
    /\ Settled
    /\ Elapsed
----------------------------------------------------------------------------
\* No timer is armed when both are off.
LEMMA BothOff == \A a, b, c : {a, b} = {c} <=> a = c /\ b = c
OBVIOUS

\* A request begins within its invariant.
LEMMA TransportInit == Init => TransportInv
<1> SUFFICES ASSUME Init
             PROVE  TransportInv
  OBVIOUS
<1>1. TypeOK
  <2>1. connectTimer \in Timers /\ readTimer \in Timers
    BY DEF Init, Timers
  <2>2. finished \in BOOLEAN
    BY DEF Init
  <2>3. chunks \in 0 .. MaxChunks /\ silence \in 0 .. ConnectTimeout + ReadTimeout + Lateness
    BY TransportAssumption DEF Init
  <2> QED
    BY <2>1, <2>2, <2>3 DEF Init, TypeOK
<1>2. promise = "new" /\ {connectTimer, readTimer} = {Off} /\ ~Over
  BY BothOff DEF Init, Over
<1>3. ExactlyOneGuard
  BY <1>1, <1>2 DEF ExactlyOneGuard
<1>4. ErrorIsHeard /\ TimeoutMeansSilence /\ Untouched /\ Headers /\ Settled /\ Elapsed
  BY <1>2 DEF Init, ErrorIsHeard, TimeoutMeansSilence, Untouched, Headers, Settled, Elapsed
<1> QED
  BY <1>3, <1>4 DEF TransportInv

\* No callback breaks the invariant.
LEMMA TransportStep == TransportInv /\ [Next]_vars => TransportInv'
<1> SUFFICES ASSUME TransportInv, [Next]_vars
             PROVE  TransportInv'
  OBVIOUS
<1> USE TransportAssumption, OffIsNoTime
    DEF TransportInv, ExactlyOneGuard, TypeOK, Timers, Over, Off, ErrorIsHeard,
        TimeoutMeansSilence, Untouched, Headers, Settled, Elapsed
<1>1. CASE RequestInvalid
  BY <1>1 DEF RequestInvalid
<1>2. CASE RequestStart
  <2>1. CASE signal = "aborted"
    BY <1>2, <2>1 DEF RequestStart, Abort, ClearTimers
  <2>2. CASE signal # "aborted"
    <3>1. connectTimer' = ConnectTimeout /\ readTimer' = Off /\ silence = 0
      BY <1>2, <2>2, BothOff DEF RequestStart
    <3>2. promise' = "pending" /\ request' = "open" /\ error' = "none" /\ ~finished' /\ finished' = finished
      BY <1>2, <2>2 DEF RequestStart
    <3>3. UNCHANGED <<signal, body, peer, chunks, silence>>
      BY <1>2, <2>2 DEF RequestStart
    <3>4. body = "none" /\ peer = "dialled" /\ ConnectTimeout # Off /\ ConnectTimeout - ConnectTimeout = 0
      BY <1>2 DEF RequestStart
    <3>5. TypeOK'
      <4>1. connectTimer' \in Timers /\ readTimer' \in Timers
        BY <3>1
      <4>2. finished' \in BOOLEAN
        BY <3>2
      <4>3. promise' \in {"new", "pending", "resolved", "rejected"} /\ request' \in {"open", "complete", "destroyed"}
        BY <3>2
      <4>4. error' \in {"none", "invalid", "connect", "read", "network", "aborted"}
        BY <3>2
      <4> QED
        BY <3>3, <4>1, <4>2, <4>3, <4>4
    <3>6. ExactlyOneGuard'
      BY <3>1, <3>2, <3>3, <3>4, <3>5
    <3> QED
      BY <3>1, <3>2, <3>3, <3>4, <3>6
  <2> QED
    BY <2>1, <2>2
<1>3. CASE Connect
  BY <1>3 DEF Connect, Live, ArmRead
<1>4. CASE AnswerWithoutBody
  BY <1>4 DEF AnswerWithoutBody, Live, ClearTimers
<1>5. CASE AnswerWithBody
  BY <1>5 DEF AnswerWithBody, Live, ArmRead
<1>6. CASE Data
  BY <1>6 DEF Data, Live, ArmRead
<1>7. CASE End
  BY <1>7 DEF End, Live, ClearTimers
<1>8. CASE NetworkError
  BY <1>8 DEF NetworkError, Live, Abort, ClearTimers
<1>9. CASE Cancel
  BY <1>9 DEF Cancel, Live, ClearTimers
<1>10. CASE SignalAborts
  <2>1. CASE finished \/ promise = "rejected"
    BY <1>10, <2>1 DEF SignalAborts
  <2>2. CASE ~(finished \/ promise = "rejected")
    BY <1>10, <2>2 DEF SignalAborts, Abort, ClearTimers
  <2> QED
    BY <2>1, <2>2
<1>11. CASE ConnectTimesOut
  BY <1>11 DEF ConnectTimesOut, Due, Abort, ClearTimers
<1>12. CASE ReadTimesOut
  BY <1>12 DEF ReadTimesOut, Due, Abort, ClearTimers
<1>13. CASE Tick
  BY <1>13 DEF Tick, Passed
<1>14. CASE UNCHANGED vars
  BY <1>14 DEF vars
<1> QED
  BY <1>1, <1>2, <1>3, <1>4, <1>5, <1>6, <1>7, <1>8, <1>9, <1>10, <1>11, <1>12, <1>13, <1>14 DEF Next

\* Timers, stages and what was heard of the peer stay consistent.
THEOREM TransportSafety == Spec => []TransportInv
BY TransportInit, TransportStep, PTL DEF Spec

\* Until a request is over exactly one of its timers runs; then none does.
THEOREM GuardHolds == Spec => []ExactlyOneGuard
<1>1. TransportInv => ExactlyOneGuard
  BY DEF TransportInv
<1> QED
  BY <1>1, TransportSafety, PTL

\* An error reaches the caller or the reader of the body.
THEOREM ErrorsAreHeard == Spec => []ErrorIsHeard
<1>1. TransportInv => ErrorIsHeard
  BY DEF TransportInv
<1> QED
  BY <1>1, TransportSafety, PTL

\* A timeout is only reported of a peer that was silent for as long.
THEOREM TimeoutsAreTrue == Spec => []TimeoutMeansSilence
<1>1. TransportInv => TimeoutMeansSilence
  BY DEF TransportInv
<1> QED
  BY <1>1, TransportSafety, PTL
=============================================================================
