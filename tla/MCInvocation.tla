---------------------------- MODULE MCInvocation ----------------------------
(* Policies with a deadline per attempt, a budget, both or neither, with and *)
(* without retries, that the registration schema admits.                     *)
EXTENDS Invocation

P(retryCount, backoff, requestTimeout, maxElapsedTime) ==
  [retryCount |-> retryCount, retryDelay |-> 1, backoff |-> backoff,
   requestTimeout |-> requestTimeout, maxElapsedTime |-> maxElapsedTime]

MCPolicy ==
  {P(0, "fixed", 0, 0), P(0, "fixed", 2, 0), P(0, "fixed", 0, 3),
   P(2, "fixed", 0, 0), P(2, "exponential", 1, 0), P(2, "fixed", 2, 4),
   P(3, "exponential", 1, 5), P(3, "exponential", 0, 7), P(3, "fixed", 1, 1)}

=============================================================================
