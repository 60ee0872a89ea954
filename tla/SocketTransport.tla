-------------------------- MODULE SocketTransport --------------------------
(***************************************************************************)
(* timedRequest(): one HTTP request over a socket, with a timer on the     *)
(* connect phase and one on the gap between two pieces of the response.    *)
(* The promise settles when the headers are there; the body is a stream    *)
(* that is filled, ended or failed afterwards.  Everything here runs on    *)
(* the event loop: an action is one callback.                              *)
(*                                                                         *)
(* The peer may stop at any point.  Node's contract for a destroyed        *)
(* request (no further event but 'error', which finds `finished` set) is   *)
(* taken as given.                                                         *)
(***************************************************************************)
EXTENDS Integers

CONSTANTS
    ConnectTimeout,  \* timeouts.connectTimeout, in units of the model's clock
    ReadTimeout,     \* timeouts.readTimeout
    Lateness,        \* by how much the event loop may delay a timer
    MaxChunks        \* bound: pieces of body the peer sends

ASSUME TransportAssumption ==
    /\ ConnectTimeout \in Nat \ {0}
    /\ ReadTimeout \in Nat \ {0}
    /\ Lateness \in Nat
    /\ MaxChunks \in Nat

VARIABLES
    signal,        \* init.signal: "quiet" or "aborted"
    connectTimer,  \* time left, negative when late; Off when not armed
    readTimer,
    promise,       \* of timedRequest: "new", "pending", "resolved", "rejected"
    body,          \* the stream: "none", "open", "closed", "errored", "cancelled"
    finished,
    request,       \* the socket's request: "open", "complete", "destroyed"
    peer,          \* "dialled", "connected", "answered"
    chunks,        \* pieces of body received
    error,         \* what abort() was called with
    silence        \* time since the last event that came from the peer

vars == <<signal, connectTimer, readTimer, promise, body, finished, request,
          peer, chunks, error, silence>>

Off == -100
Timers == (-Lateness .. ConnectTimeout) \cup (-Lateness .. ReadTimeout) \cup {Off}
ASSUME OffIsNoTime == Off < -Lateness

TypeOK ==
    /\ signal \in {"quiet", "aborted"}
    /\ connectTimer \in Timers
    /\ readTimer \in Timers
    /\ promise \in {"new", "pending", "resolved", "rejected"}
    /\ body \in {"none", "open", "closed", "errored", "cancelled"}
    /\ finished \in BOOLEAN
    /\ request \in {"open", "complete", "destroyed"}
    /\ peer \in {"dialled", "connected", "answered"}
    /\ chunks \in 0 .. MaxChunks
    /\ error \in {"none", "invalid", "connect", "read", "network", "aborted"}
    /\ silence \in 0 .. ConnectTimeout + ReadTimeout + Lateness

\* A caller's deadline may have passed before the request is made.
Init ==
    /\ signal \in {"quiet", "aborted"}
    /\ connectTimer = Off
    /\ readTimer = Off
    /\ promise = "new"
    /\ body = "none"
    /\ finished = FALSE
    /\ request = "open"
    /\ peer = "dialled"
    /\ chunks = 0
    /\ error = "none"
    /\ silence = 0

ClearTimers == connectTimer' = Off /\ readTimer' = Off

\* Mutant: the read timer is armed once and not re-armed.
ArmReadOnce == readTimer' = IF readTimer = Off THEN ReadTimeout ELSE readTimer

ArmRead == readTimer' = ReadTimeout

\* Mutant: the error of a body is given to a promise that is already settled.
AbortDeaf(e) ==
    /\ finished' = TRUE
    /\ error' = e
    /\ ClearTimers
    /\ request' = "destroyed"
    /\ promise' = IF promise = "resolved" THEN promise ELSE "rejected"
    /\ UNCHANGED body

\* abort(): the first end wins.  An error goes to whoever can still hear it,
\* the reader of the body or the caller of timedRequest.
Abort(e) ==
    /\ finished' = TRUE
    /\ error' = e
    /\ ClearTimers
    /\ request' = "destroyed"
    /\ IF body = "open"
       THEN body' = "errored" /\ UNCHANGED promise
       ELSE promise' = "rejected" /\ UNCHANGED body

----------------------------------------------------------------------------
\* new URL(), new Headers() and http.request() throw on what they cannot use:
\* the promise is rejected before a timer exists.
RequestInvalid ==
    /\ promise = "new"
    /\ promise' = "rejected"
    /\ error' = "invalid"
    /\ request' = "destroyed"
    /\ UNCHANGED <<signal, connectTimer, readTimer, body, finished, peer, chunks, silence>>

\* The synchronous part, with a signal that is already aborted at its end.
RequestStart ==
    /\ promise = "new"
    /\ IF signal = "aborted"
       THEN Abort("aborted")
       ELSE /\ promise' = "pending"
            /\ connectTimer' = ConnectTimeout
            /\ UNCHANGED <<readTimer, body, finished, request, error>>
    /\ UNCHANGED <<signal, peer, chunks, silence>>

Live == promise \in {"pending", "resolved"} /\ request = "open" /\ ~finished

\* Mutant: 'connect' does not start the read timer.
ConnectUnguarded ==
    /\ Live
    /\ peer = "dialled"
    /\ peer' = "connected"
    /\ connectTimer' = Off
    /\ silence' = 0
    /\ UNCHANGED <<signal, readTimer, promise, body, finished, request, chunks, error>>

\* Mutant: 'connect' does not stop the connect timer.
ConnectKeepsTimer ==
    /\ Live
    /\ peer = "dialled"
    /\ peer' = "connected"
    /\ ArmRead
    /\ silence' = 0
    /\ UNCHANGED <<signal, connectTimer, promise, body, finished, request, chunks, error>>

Connect ==
    /\ Live
    /\ peer = "dialled"
    /\ peer' = "connected"
    /\ connectTimer' = Off
    /\ ArmRead
    /\ silence' = 0
    /\ UNCHANGED <<signal, promise, body, finished, request, chunks, error>>

\* Statuses 101, 204, 205, 304 and the answer to HEAD end with their headers.
AnswerWithoutBody ==
    /\ Live
    /\ peer = "connected"
    /\ peer' = "answered"
    /\ finished' = TRUE
    /\ ClearTimers
    /\ request' = "complete"
    /\ promise' = "resolved"
    /\ silence' = 0
    /\ UNCHANGED <<signal, body, chunks, error>>

AnswerWithBody ==
    /\ Live
    /\ peer = "connected"
    /\ peer' = "answered"
    /\ ArmRead
    /\ body' = "open"
    /\ promise' = "resolved"
    /\ silence' = 0
    /\ UNCHANGED <<signal, connectTimer, finished, request, chunks, error>>

Data ==
    /\ Live
    /\ body = "open"
    /\ chunks < MaxChunks
    /\ chunks' = chunks + 1
    /\ ArmRead
    /\ silence' = 0
    /\ UNCHANGED <<signal, connectTimer, promise, body, finished, request, peer, error>>

End ==
    /\ Live
    /\ body = "open"
    /\ finished' = TRUE
    /\ ClearTimers
    /\ body' = "closed"
    /\ request' = "complete"
    /\ silence' = 0
    /\ UNCHANGED <<signal, promise, peer, chunks, error>>

\* 'error' of the request or of the response.
NetworkError ==
    /\ Live
    /\ Abort("network")
    /\ UNCHANGED <<signal, peer, chunks, silence>>

\* The caller reads no further (the replay after a 401 does this).
Cancel ==
    /\ Live
    /\ body = "open"
    /\ body' = "cancelled"
    /\ finished' = TRUE
    /\ ClearTimers
    /\ request' = "destroyed"
    /\ UNCHANGED <<signal, promise, peer, chunks, error, silence>>

\* The caller's deadline or budget; after `finished` abort() does nothing.
SignalAborts ==
    /\ signal = "quiet"
    /\ promise # "new"
    /\ signal' = "aborted"
    /\ IF finished \/ promise = "rejected"
       THEN UNCHANGED <<connectTimer, readTimer, promise, body, finished, request, error>>
       ELSE Abort("aborted")
    /\ UNCHANGED <<peer, chunks, silence>>

Due(timer) == timer # Off /\ timer <= 0

ConnectTimesOut ==
    /\ Due(connectTimer)
    /\ Abort("connect")
    /\ UNCHANGED <<signal, peer, chunks, silence>>

ReadTimesOut ==
    /\ Due(readTimer)
    /\ Abort("read")
    /\ UNCHANGED <<signal, peer, chunks, silence>>

Passed(timer) == IF timer = Off THEN Off ELSE timer - 1
Tick ==
    /\ {connectTimer, readTimer} # {Off}
    /\ \A timer \in {connectTimer, readTimer} \ {Off} : timer > -Lateness
    /\ connectTimer' = Passed(connectTimer)
    /\ readTimer' = Passed(readTimer)
    /\ silence' = silence + 1
    /\ UNCHANGED <<signal, promise, body, finished, request, peer, chunks, error>>

Next ==
    \/ RequestInvalid \/ RequestStart \/ Connect
    \/ AnswerWithoutBody \/ AnswerWithBody \/ Data \/ End
    \/ NetworkError \/ Cancel \/ SignalAborts
    \/ ConnectTimesOut \/ ReadTimesOut \/ Tick

\* The event loop starts what was called for, and time passes; nothing is
\* assumed of the peer, of the reader or of the caller's signal.
Fairness ==
    /\ WF_vars(RequestStart)
    /\ WF_vars(ConnectTimesOut \/ ReadTimesOut)
    /\ WF_vars(Tick)

Spec == Init /\ [][Next]_vars /\ Fairness

----------------------------------------------------------------------------
Over == promise = "rejected" \/ (promise = "resolved" /\ body # "open")

\* From the moment a request is made until it is over exactly one timer guards
\* it, the connect timer before the connection and the read timer after it;
\* then none is left to fire, and a connection whose answer was not read to the
\* end is closed (`clearTimers`, `armRead`, `cancel`, timed-transport.ts).  (And
\* the variables have their types.)
ExactlyOneGuard ==
    /\ TypeOK
    /\ promise = "new" \/ Over => {connectTimer, readTimer} = {Off}
    /\ promise # "new" /\ ~Over =>
          ((connectTimer # Off) # (readTimer # Off)) /\ (connectTimer # Off) = (peer = "dialled")
    /\ Over => request # "open"

\* An error is never lost: it rejects the promise if the headers were not there,
\* and fails the body if they were, so a truncated body is not taken for a whole one.
ErrorIsHeard ==
    /\ error # "none" => promise = "rejected" \/ body = "errored"
    /\ body = "closed" => error = "none" /\ request = "complete"

\* "Read timed out" is only said of a peer that was silent for the whole read
\* timeout, "Connection timed out" of one that never connected: a slow answer
\* that keeps coming is not cut off by either.
TimeoutMeansSilence ==
    /\ error = "read" => silence >= ReadTimeout /\ peer # "dialled"
    /\ error = "connect" => silence >= ConnectTimeout /\ peer = "dialled"

\* A call ends even when the peer, the reader and the caller's deadline
\* (requestTimeout: 0) do nothing: "readTimeout then is the only stall protection".
EveryCallEnds == <>Over
=============================================================================
