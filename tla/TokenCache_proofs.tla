-------------------------- MODULE TokenCache_proofs --------------------------
(***************************************************************************)
(* The safety properties of the token cache, for any number of attempts.   *)
(***************************************************************************)
EXTENDS TokenCache, FiniteSetTheorems, TLAPS

Begun == {a \in Attempt : pc[a] # "new"}

\* Token requests are numbered as they start.
InOrder == Started = 1 .. Cardinality(Started)

\* An attempt starts one request at its beginning and one when it replays, so
\* the numbers suffice.
NumbersSuffice == Cardinality(Started) <= Cardinality(Begun) + Cardinality(replayed)

\* Every request that is neither the cached one nor failed was dropped by a replay.
Good == IF cache \in Started \ Failed THEN 1 ELSE 0
EachIsOwed == Cardinality(Started) <= Good + Cardinality(replayed) + Cardinality(Failed)

CachedIsStarted == cache # None => cache \in Started

\* What is cached is the latest request, and an attempt is handed one that was started.
CachedIsLatest == cache # None => cache = Cardinality(Started)
HandedAreStarted == \A a \in Attempt : tok[a] \in Started \cup {None}

\* An attempt replays once.
ReplaysOnce ==
  /\ replayed \subseteq Begun
  /\ \A a \in Attempt : pc[a] = "cancel" => a \notin replayed

CacheInv ==
  /\ TypeOK
  /\ InOrder
  /\ NumbersSuffice
  /\ EachIsOwed
  /\ CachedIsStarted
  /\ CachedIsLatest
  /\ HandedAreStarted
  /\ ReplaysOnce
  /\ NoLastingPoison
-----------------------------------------------------------------------------
\* The sets that are counted are finite.
LEMMA Finite ==
  ASSUME TypeOK
  PROVE  /\ IsFiniteSet(Fetch) /\ IsFiniteSet(Started) /\ IsFiniteSet(Failed)
         /\ IsFiniteSet(Begun) /\ IsFiniteSet(replayed)
         /\ Cardinality(Attempt) \in Nat /\ Cardinality(Started) \in Nat
         /\ Cardinality(Failed) \in Nat
         /\ Cardinality(Begun) \in Nat /\ Cardinality(replayed) \in Nat
<1>1. Cardinality(Attempt) \in Nat
  BY AttemptAssumption, FS_CardinalityType
<1>2. IsFiniteSet(Fetch)
  <2>1. 2 * Cardinality(Attempt) \in Int
    BY <1>1
  <2> QED
    BY <2>1, FS_Interval DEF Fetch
<1>3. IsFiniteSet(Started) /\ IsFiniteSet(Failed)
  BY <1>2, FS_Subset DEF Started, Failed
<1>4. IsFiniteSet(Begun) /\ IsFiniteSet(replayed)
  BY AttemptAssumption, FS_Subset DEF Begun, TypeOK
<1> QED
  BY <1>1, <1>2, <1>3, <1>4, FS_CardinalityType

\* The empty cache satisfies the invariant.
LEMMA CacheInit == Init => CacheInv
<1> SUFFICES ASSUME Init
             PROVE  CacheInv
  OBVIOUS
<1>1. Started = {} /\ Failed = {} /\ Begun = {}
  BY DEF Init, Started, Failed, Begun
<1>2. TypeOK
  <2>1. owner \in [Started -> Attempt]
    BY <1>1 DEF Init
  <2> QED
    BY <1>1, <2>1 DEF Init, TypeOK, None
<1>3. Cardinality({}) = 0 /\ 1 .. 0 = {}
  BY FS_EmptySet
<1>4. InOrder /\ NumbersSuffice /\ EachIsOwed
  BY <1>1, <1>3 DEF InOrder, NumbersSuffice, EachIsOwed, Good, Init
<1>5. CachedIsStarted /\ ReplaysOnce /\ NoLastingPoison /\ CachedIsLatest
      /\ HandedAreStarted
  BY <1>1 DEF CachedIsStarted, ReplaysOnce, NoLastingPoison, CachedIsLatest, HandedAreStarted, Init
<1> QED
  BY <1>2, <1>4, <1>5 DEF CacheInv

-----------------------------------------------------------------------------
\* An attempt that begins a step of its own leaves the counts as they are.
LEMMA Moves ==
  ASSUME CacheInv, NEW a \in Attempt, NEW p \in {"sent", "cancel", "done"},
         pc[a] # "new", Goto(a, p), p = "cancel" => a \notin replayed,
         UNCHANGED <<cache, fetch, owner, evicting, tok, replayed, aborted>>
  PROVE  CacheInv'
<1>1. Started' = Started /\ Failed' = Failed /\ Begun' = Begun
  BY DEF Started, Failed, Begun, Goto, CacheInv, TypeOK
<1>2. TypeOK'
  BY <1>1 DEF CacheInv, TypeOK, Goto
<1>3. InOrder' /\ NumbersSuffice' /\ EachIsOwed' /\ CachedIsStarted'
  BY <1>1 DEF CacheInv, InOrder, NumbersSuffice, EachIsOwed, Good, CachedIsStarted
<1>4. ReplaysOnce'
  BY <1>1 DEF CacheInv, TypeOK, ReplaysOnce, Goto
<1>5. NoLastingPoison' /\ CachedIsLatest' /\ HandedAreStarted'
  BY <1>1 DEF CacheInv, NoLastingPoison, CachedIsLatest, HandedAreStarted
<1> QED
  BY <1>2, <1>3, <1>4, <1>5 DEF CacheInv

\* What starting a request does to the requests and to the cache.
LEMMA NewRequest ==
  ASSUME CacheInv, NEW a \in Attempt, oauth2Token(a, None),
         Cardinality(Started) + 1 <= 2 * Cardinality(Attempt), UNCHANGED evicting
  PROVE  LET f == Cardinality(Started) + 1
         IN /\ f \in Fetch /\ f \notin Started /\ f # None
            /\ cache' = f
            /\ Started' = Started \cup {f}
            /\ Cardinality(Started') = f
            /\ Failed' = Failed
            /\ fetch' \in [Fetch -> {"none", "pending", "ok", "failed"}]
            /\ owner' \in [Started' -> Attempt] /\ owner'[f] = a
            /\ \A g \in Started : owner'[g] = owner[g]
            /\ tok' \in [Attempt -> Fetch \cup {None}] /\ tok'[a] = f
            /\ \A b \in Attempt \ {a} : tok'[b] = tok[b]
            /\ InOrder' /\ evicting' \subseteq Failed'
<1> DEFINE f == Cardinality(Started) + 1
<1>1. TypeOK /\ InOrder
  BY DEF CacheInv
<1>2. f \in Fetch /\ f # None /\ f \notin Started /\ f \in Nat
  <2>1. f \in 1 .. 2 * Cardinality(Attempt) /\ f \notin 1 .. Cardinality(Started)
        /\ f # 0 /\ f \in Nat
    BY <1>1, Finite
  <2> QED
    BY <1>1, <2>1 DEF InOrder, Fetch, None
<1>3. /\ tok' = [tok EXCEPT ![a] = f]
      /\ cache' = f
      /\ fetch' = [fetch EXCEPT ![f] = "pending"]
      /\ owner' = [g \in Started \cup {f} |-> IF g = f THEN a ELSE owner[g]]
  BY DEF oauth2Token
<1>4. Started' = Started \cup {f} /\ Failed' = Failed
  BY <1>1, <1>2, <1>3 DEF Started, Failed, TypeOK
<1>5. Cardinality(Started') = f
  BY <1>1, <1>2, <1>4, Finite, FS_AddElement
<1>6. InOrder'
  <2>1. 1 .. f = (1 .. Cardinality(Started)) \cup {f}
    BY <1>1, Finite
  <2> QED
    BY <1>1, <1>4, <1>5, <2>1 DEF InOrder
<1>7. owner' \in [Started' -> Attempt] /\ owner'[f] = a /\ \A g \in Started : owner'[g] = owner[g]
  BY <1>1, <1>2, <1>3, <1>4 DEF TypeOK
<1> QED
  BY <1>1, <1>2, <1>3, <1>4, <1>5, <1>6, <1>7 DEF TypeOK

\* An attempt that begins shares the cached request or starts one.
LEMMA StartKeeps ==
  ASSUME CacheInv, NEW a \in Attempt, Start(a)
  PROVE  CacheInv'
<1>1. TypeOK /\ pc[a] = "new" /\ a \notin Begun /\ a \notin replayed
  BY DEF CacheInv, Start, ReplaysOnce, Begun
<1>2. /\ pc' = [pc EXCEPT ![a] = "token"] /\ Begun' = Begun \cup {a}
      /\ UNCHANGED <<evicting, replayed, aborted>>
  BY <1>1 DEF Start, Goto, Begun, TypeOK
<1>3. Cardinality(Begun') = Cardinality(Begun) + 1
  BY <1>1, <1>2, Finite, FS_AddElement
<1>4. Cardinality(Begun') <= Cardinality(Attempt) /\ Cardinality(replayed) <= Cardinality(Begun)
  <2>1. Begun' \subseteq Attempt /\ replayed \subseteq Begun
    BY DEF Begun, CacheInv, ReplaysOnce
  <2> QED
    BY <1>1, <2>1, Finite, AttemptAssumption, FS_Subset
<1>5. ReplaysOnce' /\ CachedIsLatest' /\ HandedAreStarted' /\ TypeOK' /\ InOrder' /\ NumbersSuffice'
      /\ EachIsOwed' /\ CachedIsStarted' /\ NoLastingPoison'
  <2>1. CASE cache # None
    <3>1. UNCHANGED <<cache, fetch, owner>> /\ tok' = [tok EXCEPT ![a] = cache]
      BY <2>1 DEF Start, oauth2Token
    <3>2. Started' = Started /\ Failed' = Failed
      BY <3>1 DEF Started, Failed
    <3>3. TypeOK'
      BY <1>1, <1>2, <3>1, <3>2 DEF TypeOK
    <3>4. NumbersSuffice'
      BY <1>1, <1>2, <1>3, <3>2, Finite DEF CacheInv, NumbersSuffice
    <3>5. InOrder' /\ EachIsOwed' /\ CachedIsStarted' /\ NoLastingPoison'
      BY <1>2, <3>1, <3>2 DEF CacheInv, InOrder, EachIsOwed, Good, CachedIsStarted, NoLastingPoison
    <3>6. ReplaysOnce' /\ CachedIsLatest' /\ HandedAreStarted'
      BY <1>1, <1>2, <3>1, <3>2, <2>1
         DEF CacheInv, ReplaysOnce, CachedIsStarted, CachedIsLatest, HandedAreStarted, TypeOK
    <3> QED
      BY <3>3, <3>4, <3>5, <3>6
  <2>2. CASE cache = None
    <3> DEFINE f == Cardinality(Started) + 1
    <3>1. oauth2Token(a, None)
      BY <2>2 DEF Start
    <3>2. f <= 2 * Cardinality(Attempt)
      BY <1>1, <1>3, <1>4, Finite DEF CacheInv, NumbersSuffice
    <3>3. /\ f \in Fetch /\ f \notin Started /\ f # None
          /\ cache' = f
          /\ Started' = Started \cup {f}
          /\ Cardinality(Started') = f
          /\ Failed' = Failed
          /\ fetch' \in [Fetch -> {"none", "pending", "ok", "failed"}]
          /\ owner' \in [Started' -> Attempt] /\ owner'[f] = a
          /\ \A g \in Started : owner'[g] = owner[g]
          /\ tok' \in [Attempt -> Fetch \cup {None}] /\ tok'[a] = f
          /\ \A b \in Attempt \ {a} : tok'[b] = tok[b]
          /\ InOrder' /\ evicting' \subseteq Failed'
      BY <1>2, <3>1, <3>2, NewRequest
    <3> HIDE DEF f
    <3>4. TypeOK'
      BY <1>1, <1>2, <3>3 DEF TypeOK
    <3>5. NumbersSuffice'
      BY <1>1, <1>2, <1>3, <3>3, Finite DEF CacheInv, NumbersSuffice, f
    <3>6. EachIsOwed'
      <4>1. Cardinality(Started) <= Cardinality(replayed) + Cardinality(Failed)
        BY <1>1, <2>2, Finite DEF CacheInv, EachIsOwed, Good, Started, Fetch, None
      <4>2. Good' = 1
        BY <3>3 DEF Good, Failed, Started
      <4> QED
        BY <1>1, <1>2, <3>3, <4>1, <4>2, Finite DEF EachIsOwed, f
    <3>7. CachedIsStarted' /\ NoLastingPoison'
      BY <3>3 DEF CachedIsStarted, NoLastingPoison, Failed, Started
    <3>8. ReplaysOnce' /\ CachedIsLatest' /\ HandedAreStarted'
      BY <1>1, <1>2, <3>3 DEF CacheInv, ReplaysOnce, CachedIsLatest, HandedAreStarted, TypeOK
    <3> QED
      BY <3>3, <3>4, <3>5, <3>6, <3>7, <3>8
  <2> QED
    BY <2>1, <2>2
<1> QED
  BY <1>5 DEF CacheInv

\* A replay starts a request of its own, and only once.
LEMMA ReplayKeeps ==
  ASSUME CacheInv, NEW a \in Attempt, Replay(a)
  PROVE  CacheInv'
<1> DEFINE f == Cardinality(Started) + 1
<1>1. TypeOK /\ pc[a] = "cancel" /\ a \in Begun /\ a \notin replayed
  BY DEF CacheInv, Replay, ReplaysOnce, Begun
<1>2. /\ pc' = [pc EXCEPT ![a] = "token"] /\ Begun' = Begun
      /\ replayed' = replayed \cup {a}
      /\ UNCHANGED <<evicting, aborted>>
  BY <1>1 DEF Replay, Goto, Begun, TypeOK
<1>3. Cardinality(replayed') = Cardinality(replayed) + 1
  BY <1>1, <1>2, Finite, FS_AddElement
<1>4. Cardinality(Begun) <= Cardinality(Attempt) /\ Cardinality(replayed') <= Cardinality(Attempt)
  <2>1. Begun \subseteq Attempt /\ replayed' \subseteq Attempt
    BY <1>1, <1>2 DEF Begun, TypeOK
  <2> QED
    BY <1>1, <2>1, Finite, AttemptAssumption, FS_Subset
<1>5. oauth2Token(a, None)
  BY DEF Replay
<1>6. f <= 2 * Cardinality(Attempt)
  BY <1>1, <1>3, <1>4, Finite DEF CacheInv, NumbersSuffice
<1>7. /\ f \in Fetch /\ f \notin Started /\ f # None
      /\ cache' = f
      /\ Started' = Started \cup {f}
      /\ Cardinality(Started') = f
      /\ Failed' = Failed
      /\ fetch' \in [Fetch -> {"none", "pending", "ok", "failed"}]
      /\ owner' \in [Started' -> Attempt] /\ owner'[f] = a
      /\ \A g \in Started : owner'[g] = owner[g]
      /\ tok' \in [Attempt -> Fetch \cup {None}] /\ tok'[a] = f
      /\ \A b \in Attempt \ {a} : tok'[b] = tok[b]
      /\ InOrder' /\ evicting' \subseteq Failed'
  BY <1>2, <1>5, <1>6, NewRequest
<1> HIDE DEF f
<1>8. TypeOK'
  BY <1>1, <1>2, <1>7 DEF TypeOK
<1>9. NumbersSuffice'
  BY <1>1, <1>2, <1>3, <1>7, Finite DEF CacheInv, NumbersSuffice, f
<1>10. EachIsOwed'
  <2>1. Cardinality(Started) <= 1 + Cardinality(replayed) + Cardinality(Failed)
    BY <1>1, Finite DEF CacheInv, EachIsOwed, Good
  <2>2. Good' = 1
    BY <1>7 DEF Good, Failed, Started
  <2> QED
    BY <1>1, <1>3, <1>7, <2>1, <2>2, Finite DEF EachIsOwed, f
<1>11. CachedIsStarted' /\ NoLastingPoison'
  BY <1>7 DEF CachedIsStarted, NoLastingPoison, Failed, Started
<1>12. ReplaysOnce' /\ CachedIsLatest' /\ HandedAreStarted'
  BY <1>1, <1>2, <1>7 DEF CacheInv, ReplaysOnce, CachedIsLatest, HandedAreStarted, TypeOK
<1> QED
  BY <1>7, <1>8, <1>9, <1>10, <1>11, <1>12 DEF CacheInv

\* A token request is granted or fails, and a failed one is evicted.
LEMMA FetchKeeps ==
  ASSUME CacheInv, NEW f \in Fetch, FetchGrants(f) \/ FetchFails(f) \/ Evict(f)
  PROVE  CacheInv'
<1> USE DEF CacheInv
<1>1. CASE FetchGrants(f)
  <2>1. Started' = Started /\ Failed' = Failed /\ Begun' = Begun
    BY <1>1 DEF FetchGrants, Started, Failed, Begun, TypeOK
  <2>2. TypeOK'
    BY <1>1, <2>1 DEF FetchGrants, TypeOK
  <2> QED
    BY <1>1, <2>1, <2>2 DEF FetchGrants, InOrder, NumbersSuffice, EachIsOwed, Good,
       CachedIsStarted, ReplaysOnce, NoLastingPoison, CachedIsLatest, HandedAreStarted
<1>2. CASE FetchFails(f)
  <2>1. Started' = Started /\ Failed' = Failed \cup {f} /\ f \notin Failed /\ Begun' = Begun
    BY <1>2 DEF FetchFails, Started, Failed, Begun, TypeOK
  <2>2. TypeOK'
    BY <1>2, <2>1 DEF FetchFails, TypeOK
  <2>3. Cardinality(Failed') = Cardinality(Failed) + 1
    BY <2>1, Finite, FS_AddElement
  <2>4. EachIsOwed'
    BY <1>2, <2>1, <2>3, Finite DEF FetchFails, EachIsOwed, Good
  <2>5. ReplaysOnce'
    BY <1>2, <2>1 DEF FetchFails, ReplaysOnce
  <2> QED
    BY <1>2, <2>1, <2>2, <2>4, <2>5 DEF FetchFails, InOrder, NumbersSuffice, CachedIsStarted,
       NoLastingPoison, CachedIsLatest, HandedAreStarted
<1>3. CASE Evict(f)
  <2>1. Started' = Started /\ Failed' = Failed /\ Begun' = Begun /\ f \in Failed
    BY <1>3 DEF Evict, Started, Failed, Begun, TypeOK
  <2>2. TypeOK'
    BY <1>3, <2>1 DEF Evict, TypeOK
  <2>3. Good' = Good
    BY <1>3, <2>1 DEF Evict, Good, Started, Failed, Fetch, None
  <2>4. EachIsOwed'
    BY <1>3, <2>1, <2>3 DEF Evict, EachIsOwed
  <2>5. CachedIsStarted' /\ NoLastingPoison'
    BY <1>3, <2>1 DEF Evict, CachedIsStarted, NoLastingPoison, Failed, Fetch, None
  <2> QED
    BY <1>3, <2>1, <2>2, <2>4, <2>5
       DEF Evict, InOrder, NumbersSuffice, ReplaysOnce, CachedIsLatest, HandedAreStarted
<1> QED
  BY <1>1, <1>2, <1>3

\* No step of an attempt or of a token request breaks the invariant.
LEMMA CacheStep == CacheInv /\ [Next]_vars => CacheInv'
<1> SUFFICES ASSUME CacheInv, [Next]_vars
             PROVE  CacheInv'
  OBVIOUS
<1>1. ASSUME NEW a \in Attempt, Start(a) PROVE CacheInv'
  BY <1>1, StartKeeps
<1>2. ASSUME NEW a \in Attempt, Replay(a) PROVE CacheInv'
  BY <1>2, ReplayKeeps
<1>3. ASSUME NEW a \in Attempt, Send(a) \/ TokenRejects(a) \/ Finish(a) \/ CancelRejects(a)
      PROVE  CacheInv'
  BY <1>3, Moves DEF Send, TokenRejects, Finish, CancelRejects
<1>4. ASSUME NEW a \in Attempt, Unauthorized(a) PROVE CacheInv'
  BY <1>4, Moves DEF Unauthorized
<1>5. ASSUME NEW a \in Attempt, Deadline(a) PROVE CacheInv'
  <2>1. Started' = Started /\ Failed' = Failed /\ Begun' = Begun
    BY <1>5 DEF Deadline, Started, Failed, Begun
  <2> QED
    BY <1>5, <2>1 DEF Deadline, CacheInv, TypeOK, InOrder, NumbersSuffice, EachIsOwed, Good,
       CachedIsStarted, ReplaysOnce, NoLastingPoison, CachedIsLatest, HandedAreStarted
<1>6. ASSUME NEW f \in Fetch, FetchGrants(f) \/ FetchFails(f) \/ Evict(f) PROVE CacheInv'
  BY <1>6, FetchKeeps
<1>7. CASE UNCHANGED vars
  <2>1. Started' = Started /\ Failed' = Failed /\ Begun' = Begun
    BY <1>7 DEF vars, Started, Failed, Begun
  <2> QED
    BY <1>7, <2>1 DEF vars, CacheInv, TypeOK, InOrder, NumbersSuffice, EachIsOwed, Good,
       CachedIsStarted, ReplaysOnce, NoLastingPoison, CachedIsLatest, HandedAreStarted
<1> QED
  BY <1>1, <1>2, <1>3, <1>4, <1>5, <1>6, <1>7 DEF Next
-----------------------------------------------------------------------------
\* Each token request is cached, failed or was dropped by a replay.
THEOREM CacheSafety == Spec => []CacheInv
BY CacheInit, CacheStep, PTL DEF Spec

\* A failed request is not left in the cache for later callers.
THEOREM NoPoisonStays == Spec => []NoLastingPoison
<1>1. CacheInv => NoLastingPoison
  BY DEF CacheInv
<1> QED
  BY <1>1, CacheSafety, PTL

\* Beyond the first, each token request is owed to a replay or to a failure.
THEOREM RequestsAreShared == Spec => []SingleFlight
<1>1. CacheInv => SingleFlight
  <2> SUFFICES ASSUME CacheInv
               PROVE  SingleFlight
    OBVIOUS
  <2> QED
    BY Finite DEF CacheInv, SingleFlight, EachIsOwed, Good
<1> QED
  BY <1>1, CacheSafety, PTL

\* A replay starts a request later than the refused one, and whoever is handed a
\* request from then on is handed that one or a later one.
THEOREM ReplaysAreFresh == Spec => ReplayIsFresh
<1> DEFINE Fresh == \A a \in replayed' :
                      /\ a \notin replayed => owner'[tok'[a]] = a /\ tok'[a] > tok[a]
                      /\ \A b \in Attempt : tok'[b] # tok[b] => tok'[b] >= tok'[a]
<1>1. CacheInv /\ [Next]_vars => [Fresh]_vars
  <2> SUFFICES ASSUME CacheInv, Next
               PROVE  Fresh
    BY DEF vars
  <2> USE DEF CacheInv
  <2>1. \A b \in Attempt : tok[b] \in Nat /\ tok[b] <= Cardinality(Started)
    <3>1. \A g \in Started : g \in Nat /\ g <= Cardinality(Started)
      BY Finite DEF InOrder
    <3> QED
      BY <3>1, Finite DEF HandedAreStarted, None
  <2>2. ASSUME UNCHANGED <<tok, replayed>> PROVE Fresh
    BY <2>2
  <2>3. ASSUME NEW b \in Attempt, NEW f \in Nat, f >= Cardinality(Started),
               tok' = [tok EXCEPT ![b] = f], UNCHANGED replayed
        PROVE  Fresh
    BY <2>1, <2>3, Finite DEF TypeOK
  <2>4. ASSUME NEW a \in Attempt, Start(a) PROVE Fresh
    <3>1. CASE cache # None
      BY <2>3, <2>4, <3>1, Finite DEF Start, oauth2Token, CachedIsLatest
    <3>2. CASE cache = None
      <4> DEFINE f == Cardinality(Started) + 1
      <4>1. tok' = [tok EXCEPT ![a] = f] /\ UNCHANGED replayed
        BY <2>4, <3>2 DEF Start, oauth2Token
      <4>2. f \in Nat /\ f >= Cardinality(Started)
        BY Finite
      <4> HIDE DEF f, Fresh
      <4> QED
        BY <2>3, <4>1, <4>2
    <3> QED
      BY <3>1, <3>2
  <2>5. ASSUME NEW a \in Attempt, Replay(a) PROVE Fresh
    <3> DEFINE f == Cardinality(Started) + 1
    <3>1. tok' = [tok EXCEPT ![a] = f] /\ owner'[f] = a /\ replayed' = replayed \cup {a}
      BY <2>5, Finite DEF Replay, oauth2Token
    <3>2. f \in Nat /\ f > Cardinality(Started)
      BY Finite
    <3> HIDE DEF f
    <3>3. tok'[a] = f /\ \A b \in Attempt \ {a} : tok'[b] = tok[b]
      BY <3>1 DEF TypeOK
    <3>4. tok[a] < f /\ \A b \in Attempt : tok'[b] <= f
      BY <2>1, <3>2, <3>3, Finite
    <3>5. ASSUME NEW b \in replayed', b \notin replayed
          PROVE  owner'[tok'[b]] = b /\ tok'[b] > tok[b]
      BY <3>1, <3>2, <3>3, <3>4, <3>5
    <3>6. ASSUME NEW b \in replayed', NEW c \in Attempt, tok'[c] # tok[c]
          PROVE  tok'[c] >= tok'[b]
      <4>1. c = a /\ b \in Attempt
        BY <3>1, <3>3, <3>6 DEF TypeOK
      <4>2. tok'[b] \in Nat
        BY <2>1, <3>2, <3>3, <4>1
      <4> QED
        BY <3>2, <3>3, <3>4, <4>1, <4>2
    <3> QED
      BY <3>5, <3>6
  <2>6. ASSUME NEW a \in Attempt, Send(a) \/ TokenRejects(a) \/ Finish(a) \/ Unauthorized(a)
                                  \/ CancelRejects(a) \/ Deadline(a)
        PROVE  Fresh
    BY <2>2, <2>6 DEF Send, TokenRejects, Finish, Unauthorized, CancelRejects, Deadline
  <2>7. ASSUME NEW f \in Fetch, FetchGrants(f) \/ FetchFails(f) \/ Evict(f) PROVE Fresh
    BY <2>2, <2>7 DEF FetchGrants, FetchFails, Evict
  <2> HIDE DEF Fresh
  <2> QED
    BY <2>4, <2>5, <2>6, <2>7 DEF Next
<1> QED
  BY <1>1, CacheSafety, PTL DEF Spec, ReplayIsFresh

\* A late failure of an older request spares a newer token.
THEOREM EvictionsAreOwn == Spec => OnlyOwnFailureEvicts
<1> DEFINE Drop == cache' # cache /\ cache # None =>
                     \/ cache \in Failed
                     \/ \E a \in Attempt : pc[a] = "cancel" /\ a \in replayed'
<1>1. CacheInv /\ [Next]_vars => [Drop]_vars
  <2> SUFFICES ASSUME CacheInv, Next, cache' # cache, cache # None
               PROVE  \/ cache \in Failed
                      \/ \E a \in Attempt : pc[a] = "cancel" /\ a \in replayed'
    BY DEF vars
  <2>1. ASSUME NEW a \in Attempt, Replay(a) PROVE pc[a] = "cancel" /\ a \in replayed'
    BY <2>1 DEF Replay
  <2>2. ASSUME NEW f \in Fetch, Evict(f) PROVE cache \in Failed
    BY <2>2 DEF Evict, CacheInv, TypeOK
  <2>3. \A a \in Attempt : Start(a) => UNCHANGED cache
    BY DEF Start, oauth2Token
  <2>4. \A a \in Attempt : Send(a) \/ TokenRejects(a) \/ Finish(a) \/ Unauthorized(a)
                           \/ CancelRejects(a) \/ Deadline(a) => UNCHANGED cache
    BY DEF Send, TokenRejects, Finish, Unauthorized, CancelRejects, Deadline
  <2>5. \A f \in Fetch : FetchGrants(f) \/ FetchFails(f) => UNCHANGED cache
    BY DEF FetchGrants, FetchFails
  <2> QED
    BY <2>1, <2>2, <2>3, <2>4, <2>5 DEF Next
<1> QED
  BY <1>1, CacheSafety, PTL DEF Spec, OnlyOwnFailureEvicts
=============================================================================
