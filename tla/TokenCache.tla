----------------------------- MODULE TokenCache -----------------------------
(***************************************************************************)
(* AuthRuntime's token cache and the REST component's replay after a 401,  *)
(* for one OAuth2 client (one cache key).  An attempt is one run of        *)
(* RestComponent.execute under its own deadline; the retries of a call are *)
(* attempts of their own, and an attempt whose deadline has passed goes on *)
(* running until it meets its aborted signal.                              *)
(*                                                                         *)
(* The cache holds promises, so callers share fetches, not tokens.  The    *)
(* token and resource servers may answer anything at any time, or never.   *)
(***************************************************************************)
EXTENDS Naturals, FiniteSets

CONSTANT Attempt

ASSUME AttemptAssumption == IsFiniteSet(Attempt)

VARIABLES cache,     \* this.tokens.get(key): a fetch, or None
          fetch,     \* the state of each token request
          owner,     \* the attempt whose signal each token request carries
          evicting,  \* failed requests whose catch handler has yet to run
          pc,        \* where each attempt is
          tok,       \* the fetch each attempt awaits, or took its token from
          replayed,  \* the attempts that have replayed after a 401
          aborted    \* the attempts whose deadline has passed

vars == <<cache, fetch, owner, evicting, pc, tok, replayed, aborted>>

None == 0
Fetch == 1 .. 2 * Cardinality(Attempt)
Started == {f \in Fetch : fetch[f] # "none"}
Failed == {f \in Fetch : fetch[f] = "failed"}

TypeOK ==
  /\ cache \in Fetch \cup {None}
  /\ fetch \in [Fetch -> {"none", "pending", "ok", "failed"}]
  /\ owner \in [Started -> Attempt]
  /\ evicting \subseteq Failed
  /\ pc \in [Attempt -> {"new", "token", "sent", "cancel", "done"}]
  /\ tok \in [Attempt -> Fetch \cup {None}]
  /\ replayed \subseteq Attempt
  /\ aborted \subseteq Attempt

Init ==
  /\ cache = None
  /\ fetch = [f \in Fetch |-> "none"]
  /\ owner = <<>>
  /\ evicting = {}
  /\ pc = [a \in Attempt |-> "new"]
  /\ tok = [a \in Attempt |-> None]
  /\ replayed = {}
  /\ aborted = {}

-----------------------------------------------------------------------------
Goto(a, p) == pc' = [pc EXCEPT ![a] = p]

\* Mutant: the promise is cached only once it has resolved.
OAuth2TokenUncached(a, cached) ==
  LET f == Cardinality(Started) + 1
  IN /\ tok' = [tok EXCEPT ![a] = f]
     /\ cache' = None
     /\ fetch' = [fetch EXCEPT ![f] = "pending"]
     /\ owner' = [g \in Started \cup {f} |-> IF g = f THEN a ELSE owner[g]]

\* oauth2Token: share the cached promise, or start a request with this
\* attempt's signal and cache its promise at once.
oauth2Token(a, cached) ==
  \/ /\ cached # None
     /\ tok' = [tok EXCEPT ![a] = cached]
     /\ UNCHANGED <<cache, fetch, owner>>
  \/ /\ cached = None
     /\ LET f == Cardinality(Started) + 1
        IN /\ tok' = [tok EXCEPT ![a] = f]
           /\ cache' = f
           /\ fetch' = [fetch EXCEPT ![f] = "pending"]
           /\ owner' = [g \in Started \cup {f} |-> IF g = f THEN a ELSE owner[g]]

\* execute: the first send() begins with the token.
Start(a) ==
  /\ pc[a] = "new"
  /\ oauth2Token(a, cache)
  /\ Goto(a, "token")
  /\ UNCHANGED <<evicting, replayed, aborted>>

\* The token endpoint grants a token.
FetchGrants(f) ==
  /\ fetch[f] = "pending"
  /\ fetch' = [fetch EXCEPT ![f] = "ok"]
  /\ UNCHANGED <<cache, owner, evicting, pc, tok, replayed, aborted>>

\* Mutant: the request does not carry its owner's signal.
FetchFailsUnlessAborted(f) ==
  /\ fetch[f] = "pending" /\ owner[f] \notin aborted
  /\ fetch' = [fetch EXCEPT ![f] = "failed"]
  /\ evicting' = evicting \cup {f}
  /\ UNCHANGED <<cache, owner, pc, tok, replayed, aborted>>

\* The request rejects: an error answer, no connection, or its owner's abort.
FetchFails(f) ==
  /\ fetch[f] = "pending"
  /\ fetch' = [fetch EXCEPT ![f] = "failed"]
  /\ evicting' = evicting \cup {f}
  /\ UNCHANGED <<cache, owner, pc, tok, replayed, aborted>>

\* Mutants: the handler deletes whatever is cached, or nothing.
EvictAnything(f) ==
  /\ f \in evicting
  /\ evicting' = evicting \ {f}
  /\ cache' = None
  /\ UNCHANGED <<fetch, owner, pc, tok, replayed, aborted>>

EvictNothing(f) ==
  /\ f \in evicting
  /\ evicting' = evicting \ {f}
  /\ UNCHANGED <<cache, fetch, owner, pc, tok, replayed, aborted>>

\* pending.catch(...): the first reaction to the rejection, a microtask later.
Evict(f) ==
  /\ f \in evicting
  /\ evicting' = evicting \ {f}
  /\ cache' = IF cache = f THEN None ELSE cache
  /\ UNCHANGED <<fetch, owner, pc, tok, replayed, aborted>>

\* The awaited token is there: the request is sent (an aborted one only to be
\* rejected by the transport).
Send(a) ==
  /\ pc[a] = "token"
  /\ fetch[tok[a]] = "ok"
  /\ Goto(a, "sent")
  /\ UNCHANGED <<cache, fetch, owner, evicting, tok, replayed, aborted>>

\* The awaited token request has failed, and its catch handler has run.
TokenRejects(a) ==
  /\ pc[a] = "token"
  /\ tok[a] \in Failed \ evicting
  /\ Goto(a, "done")
  /\ UNCHANGED <<cache, fetch, owner, evicting, tok, replayed, aborted>>

\* The request ends: with an answer other than 401, a failure, the transport's
\* rejection of an aborted signal, or any answer to the replay.
Finish(a) ==
  /\ pc[a] = "sent"
  /\ Goto(a, "done")
  /\ UNCHANGED <<cache, fetch, owner, evicting, tok, replayed, aborted>>

\* The first answer is a 401: its body is cancelled, asynchronously.
Unauthorized(a) ==
  /\ pc[a] = "sent"
  /\ a \notin replayed
  /\ a \notin aborted
  /\ Goto(a, "cancel")
  /\ UNCHANGED <<cache, fetch, owner, evicting, tok, replayed, aborted>>

\* Mutant: the replay keeps the cached token.
ReplayAsIs(a) ==
  /\ pc[a] = "cancel"
  /\ oauth2Token(a, cache)
  /\ Goto(a, "token")
  /\ replayed' = replayed \cup {a}
  /\ UNCHANGED <<evicting, aborted>>

\* invalidate and the second send(), in one run of the event loop: the token
\* cached by now is dropped, whichever it is, and a new one is requested.
Replay(a) ==
  /\ pc[a] = "cancel"
  /\ oauth2Token(a, None)
  /\ Goto(a, "token")
  /\ replayed' = replayed \cup {a}
  /\ UNCHANGED <<evicting, aborted>>

\* The body's stream has failed meanwhile: cancel() rejects, and so does execute.
CancelRejects(a) ==
  /\ pc[a] = "cancel"
  /\ Goto(a, "done")
  /\ UNCHANGED <<cache, fetch, owner, evicting, tok, replayed, aborted>>

\* The attempt's deadline passes (ResilienceExecutor aborts its signal).
Deadline(a) ==
  /\ pc[a] \in {"token", "sent", "cancel"}
  /\ a \notin aborted
  /\ aborted' = aborted \cup {a}
  /\ UNCHANGED <<cache, fetch, owner, evicting, pc, tok, replayed>>

Next ==
  \/ \E a \in Attempt :
       \/ Start(a) \/ Send(a) \/ TokenRejects(a) \/ Finish(a)
       \/ Unauthorized(a) \/ Replay(a) \/ CancelRejects(a) \/ Deadline(a)
  \/ \E f \in Fetch : FetchGrants(f) \/ FetchFails(f) \/ Evict(f)

Spec == Init /\ [][Next]_vars

\* Nothing is asked of the servers: deadlines pass, an aborted signal rejects
\* the request that carries it, and the event loop runs what is ready.
Fairness ==
  /\ \A a \in Attempt :
       /\ WF_vars(Send(a))
       /\ WF_vars(TokenRejects(a))
       /\ WF_vars(Replay(a) \/ CancelRejects(a))
       /\ WF_vars(a \in aborted /\ Finish(a))
       /\ WF_vars(Deadline(a))
  /\ \A f \in Fetch :
       /\ WF_vars(f \in Started /\ owner[f] \in aborted /\ FetchFails(f))
       /\ WF_vars(Evict(f))

FairSpec == Spec /\ Fairness

-----------------------------------------------------------------------------
\* A failed token request does not stay in the cache for later callers: while
\* it is there, the handler that evicts it is about to run.
NoLastingPoison == cache \in Failed => cache \in evicting

\* A cached promise is dropped only because it has itself failed or because an
\* attempt got a 401: a late failure of an older request spares a newer token.
OnlyOwnFailureEvicts ==
  [][cache' # cache /\ cache # None =>
       \/ cache \in Failed
       \/ \E a \in Attempt : pc[a] = "cancel" /\ a \in replayed']_vars

\* "Single-flight": beyond the first token request, each one is owed to a
\* replay or to a failed request, however the callers interleave.  (And the
\* variables have their types.)
SingleFlight ==
  TypeOK /\ Cardinality(Started) <= 1 + Cardinality(replayed) + Cardinality(Failed)

\* A 401 is answered with a token request that the attempt starts itself, after
\* the one whose token was refused; and from then on no attempt, whether it begins
\* or replays, is handed a request older than that one.
ReplayIsFresh ==
  [][\A a \in replayed' :
       /\ a \notin replayed => owner'[tok'[a]] = a /\ tok'[a] > tok[a]
       /\ \A b \in Attempt : tok'[b] # tok[b] => tok'[b] >= tok'[a]]_vars

\* Whatever the servers do, each attempt that has started ends; one that waits
\* on another's token request is freed by that other attempt's deadline.
EveryAttemptEnds == \A a \in Attempt : pc[a] # "new" ~> pc[a] = "done"
=============================================================================
