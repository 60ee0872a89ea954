--------------------------- MODULE Adapters_proofs ---------------------------
(***************************************************************************)
(* The five adapters for any clients, step ids and engines: what a read    *)
(* returns, what the foreign keys keep, that a deletion takes the steps of *)
(* its workflow, and that a transaction writes nothing before its end.     *)
(***************************************************************************)
EXTENDS Adapters, TLAPS

Stored == {None} \cup Rows
Delta == UNION {[items -> Stored] : items \in SUBSET Item}
Tx == [open : BOOLEAN, before : Tables \cup {<<>>}, delta : Delta, keys : SUBSET Parents]
Snapshot(c) == engine \in {"sqlite", "mongodb"} /\ tx[c].open

\* A transaction is open for its engine only, and without one nothing is kept.
TxInv ==
  /\ tx \in [Client -> Tx]
  /\ \A c \in Client :
       /\ ~tx[c].open => tx[c] = NoTx
       /\ engine = "sqlite" => tx[c].delta = <<>> /\ tx[c].keys = {}
       /\ engine = "couchbase" => ~tx[c].open
       /\ Snapshot(c) => tx[c].before \in Tables

\* What each call is given.
Asked(q) ==
  /\ q.op \in {"saveComponent", "saveWorkflow"} => q.arg \in Optional
  /\ q.op \in {"updateComponent", "updateWorkflow"} => q.arg \in Optional \cup {"unchanged"}
  /\ q.op = "saveWorkflowStep" => q.arg \in StepId
  /\ q.op = "setConfig" => q.arg \in {"empty", "some"}

\* A stored row reads as it was meant, unless it is undone.
Field(row) ==
  IF engine # "couchbase" /\ row.column = "NULL" THEN "undefined" ELSE row.column
Good(row) ==
  row # None =>
    /\ engine # "couchbase" => row.column # "undefined" /\ row.meant # "undone"
    /\ row.meant # "undone" =>
         Field(row) = IF engine = "oracle" /\ row.meant = "empty" THEN "undefined" ELSE row.meant
AllGood(t) == \A i \in DOMAIN t : Good(t[i])
Found(q) == Good(q.found) /\ (q.at = "replace" => q.found # None)
GoodInv ==
  /\ AllGood(db)
  /\ \A c \in Client :
       /\ AllGood(tx[c].delta) /\ Found(call[c])
       /\ Snapshot(c) => AllGood(tx[c].before)

\* With foreign keys steps have their workflow and their component, also as a
\* transaction sees them; who adds steps holds on to both, so that nobody else
\* has removed them.
HasKeys == engine \in {"sqlite", "postgres", "oracle"}
Sound(t) == StepsIn(t) # {} => Complete(t)
Adds(c, s) == s \in DOMAIN tx[c].delta /\ tx[c].delta[s] # None
Drops(c, p) == p \in DOMAIN tx[c].delta /\ tx[c].delta[p] = None
KeyInv ==
  /\ Sound(db)
  /\ \A c \in Client :
       /\ Sound(Over(tx[c].delta, db))
       /\ Snapshot(c) => Sound(tx[c].before)
       /\ \A s \in StepId : Adds(c, s) => tx[c].keys = Parents
       /\ \A p \in tx[c].keys, d \in Client \ {c} : ~Drops(d, p)

\* A step id is in one place: the insert that is to come, the transaction that
\* added it, or the tables.
Pending(q) == q.op = "saveWorkflowStep" /\ q.at \in {"ready", "insert"}
Awaits(c, s) == Pending(call[c]) /\ call[c].arg = s
Kept(s) == db[s] # None \/ \E c \in Client : Snapshot(c) /\ tx[c].before[s] # None
StepInv ==
  /\ \A s \in StepId : Kept(s) => s \in made
  /\ \A c \in Client : call[c].steps \subseteq made
  /\ \A c \in Client, s \in StepId :
       /\ Awaits(c, s) =>
            /\ s \in made /\ ~Kept(s)
            /\ \A d \in Client : /\ ~Adds(d, s) /\ s \notin call[d].steps
                                 /\ Awaits(d, s) => d = c
       /\ Adds(c, s) =>
            /\ s \in made /\ ~Kept(s)
            /\ \A d \in Client \ {c} : ~Adds(d, s) /\ s \notin call[d].steps

\* What is left of a workflow's steps once its deletion has got so far.
Left(c) == call[c].steps \cap StepsIn(View(c))
LeftInv ==
  \A c \in Client : call[c].op = "deleteWorkflow" =>
    /\ engine = "mongodb" /\ call[c].at = "parent" => Left(c) = {}
    /\ engine = "couchbase" /\ call[c].at = "remove" => Left(c) \subseteq call[c].queried

Typed ==
  /\ engine \in Engines /\ db \in Tables /\ made \subseteq StepId /\ calls \in 0 .. MaxCalls
  /\ call \in [Client -> Call] /\ \A c \in Client : Asked(call[c])
  /\ TxInv

AdaptersInv == Typed /\ GoodInv /\ (HasKeys => KeyInv) /\ StepInv /\ LeftInv

-----------------------------------------------------------------------------
(* Tables and what is written over them.                                   *)

\* Items are not steps, and every name of an item is one.
LEMMA Items ==
  /\ Parents \subseteq Item /\ StepId \subseteq Item /\ "config" \in Item
  /\ StepId \cap (Parents \cup {"config"}) = {}
  /\ "component" \in Parents /\ "workflow" \in Parents /\ "config" \notin Parents
  /\ "component" \notin StepId /\ "workflow" \notin StepId /\ "config" \notin StepId
BY StoreAssumption DEF Parents, Item

\* What is written is a function from items to rows.
LEMMA DeltaRows ==
  ASSUME NEW f \in Delta
  PROVE  DOMAIN f \subseteq Item /\ \A i \in DOMAIN f : f[i] \in Stored
BY DEF Delta

\* ... and every such function can be written.
LEMMA RowsAreDelta ==
  ASSUME NEW items \in SUBSET Item, NEW f \in [items -> Stored]
  PROVE  f \in Delta
BY DEF Delta

\* Tables with rows written over them.
LEMMA OverTables ==
  ASSUME NEW f \in Delta, NEW t \in Tables
  PROVE  /\ Over(f, t) \in Tables
         /\ \A i \in Item : Over(f, t)[i] = IF i \in DOMAIN f THEN f[i] ELSE t[i]
<1>1. DOMAIN f \subseteq Item /\ \A i \in DOMAIN f : f[i] \in Stored
  BY DeltaRows
<1>2. t \in [Item -> Stored]
  BY DEF Tables, Stored
<1>3. Over(f, t) \in [Item -> Stored]
  BY <1>1, <1>2 DEF Over
<1> QED
  BY <1>1, <1>2, <1>3 DEF Over, Tables, Stored

\* Writes over writes.
LEMMA OverDelta ==
  ASSUME NEW f \in Delta, NEW g \in Delta
  PROVE  /\ Over(f, g) \in Delta /\ DOMAIN Over(f, g) = DOMAIN f \cup DOMAIN g
         /\ \A i \in DOMAIN f \cup DOMAIN g : Over(f, g)[i] = IF i \in DOMAIN f THEN f[i] ELSE g[i]
<1>1. /\ DOMAIN f \subseteq Item /\ DOMAIN g \subseteq Item
      /\ \A i \in DOMAIN f : f[i] \in Stored
      /\ \A i \in DOMAIN g : g[i] \in Stored
  BY DeltaRows
<1>2. Over(f, g) \in [DOMAIN f \cup DOMAIN g -> Stored]
  BY <1>1 DEF Over
<1>3. DOMAIN f \cup DOMAIN g \in SUBSET Item
  BY <1>1
<1>4. Over(f, g) \in Delta
  BY <1>2, <1>3, RowsAreDelta
<1> QED
  BY <1>4 DEF Over

\* Nothing written changes nothing.
LEMMA OverNothing ==
  ASSUME NEW t \in Tables
  PROVE  <<>> \in Delta /\ DOMAIN <<>> = {} /\ Over(<<>>, t) = t
<1>1. DOMAIN <<>> = {}
  OBVIOUS
<1>2. <<>> \in [{} -> Stored]
  OBVIOUS
<1>3. <<>> \in Delta
  BY <1>2, RowsAreDelta
<1>4. t = [i \in Item |-> t[i]] /\ DOMAIN t = Item
  BY DEF Tables
<1>5. Over(<<>>, t) = [i \in Item |-> t[i]]
  BY <1>1, <1>4 DEF Over
<1> QED
  BY <1>1, <1>3, <1>4, <1>5

\* A write of one row.
LEMMA OneIsDelta ==
  ASSUME NEW item \in Item, NEW row \in Stored
  PROVE  One(item, row) \in Delta /\ DOMAIN One(item, row) = {item} /\ One(item, row)[item] = row
<1>1. One(item, row) \in [{item} -> Stored]
  BY DEF One
<1> QED
  BY <1>1, RowsAreDelta DEF One

\* The removal of several.
LEMMA GoneIsDelta ==
  ASSUME NEW items \in SUBSET Item
  PROVE  /\ Gone(items) \in Delta /\ DOMAIN Gone(items) = items
         /\ \A i \in items : Gone(items)[i] = None
<1>1. Gone(items) \in [items -> Stored]
  BY DEF Gone, Stored
<1> QED
  BY <1>1, RowsAreDelta DEF Gone

\* What the tables of a client are, and where there are foreign keys.
LEMMA Views ==
  ASSUME Typed, NEW c \in Client
  PROVE  /\ tx[c] \in Tx /\ tx[c].delta \in Delta
         /\ View(c) \in Tables
         /\ View(c) = IF engine = "mongodb" /\ tx[c].open THEN Over(tx[c].delta, tx[c].before)
                                                          ELSE Over(tx[c].delta, db)
<1>1. tx[c] \in Tx /\ tx[c].delta \in Delta /\ db \in Tables
  BY DEF Typed, TxInv, Tx
<1>2. ~Private(c) => tx[c].delta = <<>>
  BY DEF Typed, TxInv, Private, NoTx
<1>3. Over(<<>>, db) = db
  BY <1>1, OverNothing
<1>4. View(c) = IF engine = "mongodb" /\ tx[c].open THEN Over(tx[c].delta, tx[c].before)
                                                    ELSE Over(tx[c].delta, db)
  BY <1>2, <1>3 DEF View, Private
<1>5. engine = "mongodb" /\ tx[c].open => tx[c].before \in Tables
  BY DEF Typed, TxInv, Snapshot
<1> QED
  BY <1>1, <1>4, <1>5, OverTables

-----------------------------------------------------------------------------
(* What a statement may do, on every engine.                               *)

Places == {"ready", "reread", "insert", "count", "remove", "parent", "done"}

\* Call c goes on as q: nothing it was given changes, and an insert that was not
\* to come is not.
Moves(c, q) ==
  /\ q \in Call /\ Found(q)
  /\ call' = [call EXCEPT ![c] = q]
  /\ q.op = call[c].op /\ q.arg = call[c].arg /\ q.steps = call[c].steps
  /\ Pending(q) => Pending(call[c])

\* What it writes reads as it is meant; with foreign keys what it sees stays
\* sound, and the locks say that nobody else's does not; a step comes from the
\* one call that is to insert it.
Writes(c, q, rows, keys) ==
  /\ WriteUnder(c, rows, keys)
  /\ AllGood(rows)
  /\ HasKeys =>
       /\ Sound(Over(rows, View(c)))
       /\ \A s \in StepId : s \in DOMAIN rows /\ rows[s] # None => keys = Parents
       /\ keys # {} => Staying(c, Parents)
       /\ \A p \in Parents : p \in DOMAIN rows /\ rows[p] = None => Unneeded(c, p)
  /\ \A s \in StepId : s \in DOMAIN rows /\ rows[s] # None => Awaits(c, s) /\ ~Pending(q)

Opens(c) ==
  /\ ~tx[c].open /\ engine # "couchbase"
  /\ \/ tx' = [tx EXCEPT ![c].open = TRUE, ![c].before = db]
     \/ tx' = [tx EXCEPT ![c].open = TRUE] /\ engine \notin {"sqlite", "mongodb"}
  /\ UNCHANGED db

Effect(c) ==
  \E q : /\ Moves(c, q)
         /\ \/ NoWrite
            \/ Opens(c)
            \/ \E rows \in Delta, keys \in {{}, Parents} : Writes(c, q, rows, keys)

\* A deletion gets on with the workflow's steps, and takes the workflow last.
Clears(c) ==
  call[c].op = "deleteWorkflow" =>
    /\ engine = "mongodb" /\ call'[c].at = "parent" => Left(c)' = {}
    /\ engine = "couchbase" /\ call'[c].at = "remove" => Left(c)' \subseteq call'[c].queried
    /\ View(c)["workflow"] # None /\ View(c)'["workflow"] = None =>
         call[c].steps \cap Steps(View(c))' = {}

\* A call that is answered, or goes on to its next statement.
LEMMA PlaceMoves ==
  ASSUME Typed, GoodInv, NEW c \in Client, NEW at \in Places, NEW a \in Answers,
         \/ call' = [call EXCEPT ![c].at = at, ![c].answer = a]
         \/ call' = [call EXCEPT ![c].at = at],
         at \in {"ready", "insert"} => Pending(call[c]) \/ call[c].op # "saveWorkflowStep"
  PROVE  \E q : Moves(c, q) /\ q.at = at /\ q.queried = call[c].queried
<1>1. call \in [Client -> Call] /\ call[c] \in Call /\ Good(call[c].found)
  BY DEF Typed, GoodInv, Found
<1>2. PICK q : /\ call' = [call EXCEPT ![c] = q]
               /\ \/ q = [call[c] EXCEPT !.at = at, !.answer = a]
                  \/ q = [call[c] EXCEPT !.at = at]
  BY <1>1
<1>3. /\ q \in Call /\ q.at = at /\ q.op = call[c].op /\ q.arg = call[c].arg
      /\ q.steps = call[c].steps /\ q.found = call[c].found /\ q.queried = call[c].queried
  BY <1>1, <1>2 DEF Call, Places
<1>4. Pending(q) => Pending(call[c])
  BY <1>3 DEF Pending
<1>5. Found(q)
  BY <1>1, <1>3 DEF Found, Places
<1> QED
  BY <1>1, <1>2, <1>3, <1>4, <1>5 DEF Moves

\* It answers ...
LEMMA AnswerMoves ==
  ASSUME Typed, GoodInv, NEW c \in Client, NEW a \in Answers, Answer(c, a)
  PROVE  \E q : Moves(c, q) /\ q.at = "done" /\ q.queried = call[c].queried
<1> DEFINE at == "done"
<1>1. at \in Places /\ at \notin {"ready", "insert"} /\ call' = [call EXCEPT ![c].at = at, ![c].answer = a]
  BY DEF Places, Answer
<1> HIDE DEF at
<1>2. \E q : Moves(c, q) /\ q.at = at /\ q.queried = call[c].queried
  BY <1>1, PlaceMoves
<1> QED
  BY <1>2 DEF at

\* ... or proceeds.
LEMMA GotoMoves ==
  ASSUME Typed, GoodInv, NEW c \in Client, NEW at \in Places \ {"ready"}, Goto(c, at),
         at = "insert" => Pending(call[c]) \/ call[c].op # "saveWorkflowStep"
  PROVE  \E q : Moves(c, q) /\ q.at = at /\ q.queried = call[c].queried
<1>1. "none" \in Answers /\ call' = [call EXCEPT ![c].at = at]
  BY DEF Answers, Goto
<1> QED
  BY <1>1, PlaceMoves

\* After a write, one or the other.
LEMMA ProceedMoves ==
  ASSUME Typed, GoodInv, NEW c \in Client, NEW next \in {"done", "reread", "parent"},
         Proceed(c, next)
  PROVE  \E q : Moves(c, q) /\ q.at = next /\ ~Pending(q) /\ q.queried = call[c].queried
<1>1. next \in Places /\ next # "ready" /\ next # "insert" /\ "ok" \in Answers
  BY DEF Places, Answers
<1>2. Answer(c, "ok") \/ Goto(c, next)
  BY DEF Proceed
<1>3. \E q : Moves(c, q) /\ q.at = next /\ q.queried = call[c].queried
  BY <1>1, <1>2, AnswerMoves, GotoMoves DEF Proceed
<1> QED
  BY <1>1, <1>3 DEF Pending

\* A statement that writes nothing.
LEMMA AnswerEffect ==
  ASSUME Typed, GoodInv, NEW c \in Client, NEW a \in Answers, Answer(c, a), NoWrite
  PROVE  Effect(c)
<1>1. \E q : Moves(c, q)
  BY AnswerMoves
<1> QED
  BY <1>1 DEF Effect

\* ... nor is its call at its end.
LEMMA GotoEffect ==
  ASSUME Typed, GoodInv, NEW c \in Client, NEW at \in Places \ {"ready"}, Goto(c, at),
         at = "insert" => Pending(call[c]) \/ call[c].op # "saveWorkflowStep", NoWrite
  PROVE  Effect(c)
<1>1. \E q : Moves(c, q)
  BY GotoMoves
<1> QED
  BY <1>1 DEF Effect

\* A write without keys of steps.
LEMMA WriteEffect ==
  ASSUME Typed, GoodInv, NEW c \in Client, NEW next \in {"done", "reread", "parent"},
         NEW rows \in Delta, Write(c, rows), Proceed(c, next), AllGood(rows),
         HasKeys => /\ Sound(Over(rows, View(c)))
                    /\ \A p \in Parents : p \in DOMAIN rows /\ rows[p] = None => Unneeded(c, p),
         \A s \in StepId : s \in DOMAIN rows /\ rows[s] # None => Awaits(c, s) /\ ~HasKeys
  PROVE  Effect(c)
<1>1. PICK q : Moves(c, q) /\ ~Pending(q)
  BY ProceedMoves
<1>2. Writes(c, q, rows, {})
  BY <1>1 DEF Writes, Write
<1> QED
  BY <1>1, <1>2 DEF Effect

-----------------------------------------------------------------------------
(* The statements that the engines share.                                  *)

\* One row written over the tables.
LEMMA OneOver ==
  ASSUME NEW item \in Item, NEW row \in Stored, NEW t \in Tables
  PROVE  /\ One(item, row) \in Delta /\ DOMAIN One(item, row) = {item} /\ One(item, row)[item] = row
         /\ Over(One(item, row), t) \in Tables
         /\ \A i \in Item : Over(One(item, row), t)[i] = IF i = item THEN row ELSE t[i]
<1> DEFINE rows == One(item, row)
<1>1. rows \in Delta /\ DOMAIN rows = {item} /\ rows[item] = row
  BY OneIsDelta
<1> HIDE DEF rows
<1>2. /\ Over(rows, t) \in Tables
      /\ \A i \in Item : Over(rows, t)[i] = IF i = item THEN row ELSE t[i]
  BY <1>1, OverTables
<1> QED
  BY <1>1, <1>2 DEF rows

\* Several removed.
LEMMA GoneOver ==
  ASSUME NEW items \in SUBSET Item, NEW t \in Tables
  PROVE  /\ Gone(items) \in Delta /\ DOMAIN Gone(items) = items
         /\ \A i \in items : Gone(items)[i] = None
         /\ Over(Gone(items), t) \in Tables
         /\ \A i \in Item : Over(Gone(items), t)[i] = IF i \in items THEN None ELSE t[i]
BY GoneIsDelta, OverTables

\* A component, a workflow or a configuration key is written.
LEMMA PutEffect ==
  ASSUME Typed, GoodInv, HasKeys => KeyInv, NEW c \in Client,
         NEW next \in {"done", "reread", "parent"},
         NEW item \in Parents \cup {"config"}, NEW row \in Stored, HasKeys => row # None, Good(row),
         Write(c, One(item, row)), Proceed(c, next)
  PROVE  Effect(c)
<1> DEFINE rows == One(item, row)
<1>1. View(c) \in Tables /\ (engine # "mongodb" => View(c) = Over(tx[c].delta, db))
  BY Views
<1>2. item \in Item /\ item \notin StepId
  BY Items
<1> HIDE DEF rows
<1>3. /\ rows \in Delta /\ DOMAIN rows = {item} /\ rows[item] = row
      /\ \A i \in Item : Over(rows, View(c))[i] = IF i = item THEN row ELSE View(c)[i]
  <2>1. rows \in Delta /\ DOMAIN rows = {item} /\ rows[item] = row
    BY <1>2, OneIsDelta DEF rows
  <2> QED
    BY <1>1, <2>1, OverTables
<1>4. AllGood(rows)
  BY <1>3 DEF AllGood
<1>5. HasKeys => Sound(Over(rows, View(c)))
  <2>1. HasKeys => Sound(View(c))
    BY <1>1 DEF HasKeys, KeyInv
  <2>2. StepsIn(Over(rows, View(c))) = StepsIn(View(c))
    BY <1>2, <1>3, Items DEF StepsIn
  <2>3. HasKeys /\ Complete(View(c)) => Complete(Over(rows, View(c)))
    BY <1>3, Items DEF Complete
  <2> QED
    BY <2>1, <2>2, <2>3 DEF Sound
<1>6. /\ HasKeys => \A p \in Parents : p \in DOMAIN rows => rows[p] # None
      /\ \A s \in StepId : s \notin DOMAIN rows
  BY <1>2, <1>3
<1> QED
  BY <1>3, <1>4, <1>5, <1>6, WriteEffect DEF rows

\* ... inserted, if there was none,
LEMMA InsertEffect ==
  ASSUME Typed, GoodInv, HasKeys => KeyInv, NEW c \in Client,
         NEW next \in {"done", "reread"}, NEW taken \in Answers,
         NEW item \in Parents, NEW row \in Stored, row # None, Good(row),
         Insert(c, item, row, taken, next)
  PROVE  Effect(c)
<1>1. \/ Answer(c, taken) /\ NoWrite
      \/ Write(c, One(item, row)) /\ Proceed(c, next)
  BY DEF Insert
<1> QED
  BY <1>1, AnswerEffect, PutEffect

\* ... or changed, if there is one.
LEMMA ChangeEffect ==
  ASSUME Typed, GoodInv, HasKeys => KeyInv, NEW c \in Client,
         NEW next \in {"done", "reread"},
         NEW item \in Parents, NEW row,
         View(c)[item] # None => row \in Stored /\ (HasKeys => row # None) /\ Good(row),
         Change(c, item, row, next)
  PROVE  Effect(c)
<1>1. \/ Answer(c, "notFound") /\ NoWrite
      \/ View(c)[item] # None /\ Write(c, One(item, row)) /\ Proceed(c, next)
  BY DEF Change
<1>2. "notFound" \in Answers
  BY DEF Answers
<1> QED
  BY <1>1, <1>2, AnswerEffect, PutEffect

\* A row is removed; with foreign keys a parent is removed with its steps only.
LEMMA RemoveEffect ==
  ASSUME Typed, GoodInv, HasKeys => KeyInv, NEW c \in Client,
         NEW item \in Parents \cup {"config"}, NEW along \in SUBSET StepId,
         HasKeys /\ item \in Parents /\ View(c)[item] # None => StepsIn(View(c)) \subseteq along,
         Remove(c, item, along)
  PROVE  Effect(c)
<1> DEFINE items == {item} \cup along
           rows == Gone(items)
<1>1. View(c) \in Tables /\ (engine # "mongodb" => View(c) = Over(tx[c].delta, db))
  BY Views
<1>2. items \in SUBSET Item /\ item \notin StepId
  BY Items
<1>3. /\ rows \in Delta /\ DOMAIN rows = items
      /\ \A i \in items : rows[i] = None
      /\ \A i \in Item : Over(rows, View(c))[i] = IF i \in items THEN None ELSE View(c)[i]
  BY <1>1, <1>2, GoneOver
<1> HIDE DEF rows
<1>4. CASE View(c)[item] = None
  <2>1. "notFound" \in Answers
    BY DEF Answers
  <2> QED
    BY <1>4, <2>1, AnswerEffect DEF Remove
<1>5. CASE View(c)[item] # None
  <2>1. Write(c, rows) /\ Proceed(c, "done") /\ Unneeded(c, item)
    BY <1>5 DEF Remove, rows, Proceed
  <2>2. AllGood(rows)
    BY <1>3 DEF AllGood, Good
  <2>3. HasKeys => Sound(Over(rows, View(c)))
    <3>1. HasKeys => Sound(View(c))
      BY <1>1 DEF HasKeys, KeyInv
    <3>2. StepsIn(Over(rows, View(c))) = StepsIn(View(c)) \ along
      BY <1>2, <1>3, Items DEF StepsIn
    <3>3. item = "config" /\ Complete(View(c)) => Complete(Over(rows, View(c)))
      BY <1>3, Items DEF Complete
    <3> QED
      BY <1>5, <3>1, <3>2, <3>3 DEF Sound
  <2>4. \A p \in Parents : p \in DOMAIN rows => p = item
    BY <1>3, Items
  <2>5. \A s \in StepId : s \in DOMAIN rows => rows[s] = None
    BY <1>3
  <2> QED
    BY <1>3, <2>1, <2>2, <2>3, <2>4, <2>5, WriteEffect
<1> QED
  BY <1>4, <1>5

\* All the steps are removed.
LEMMA RemoveStepsEffect ==
  ASSUME Typed, GoodInv, NEW c \in Client, NEW next \in {"done", "parent"}, RemoveSteps(c, next)
  PROVE  Effect(c)
<1> DEFINE items == StepsIn(View(c))
           rows == Gone(items)
<1>1. View(c) \in Tables
  BY Views
<1>2. items \in SUBSET Item /\ items \in SUBSET StepId
  BY Items DEF StepsIn
<1>3. /\ rows \in Delta /\ DOMAIN rows = items
      /\ \A i \in items : rows[i] = None
      /\ \A i \in Item : Over(rows, View(c))[i] = IF i \in items THEN None ELSE View(c)[i]
  BY <1>1, <1>2, GoneOver
<1>4. Write(c, rows) /\ Proceed(c, next)
  BY DEF RemoveSteps
<1> HIDE DEF rows
<1>5. AllGood(rows)
  BY <1>3 DEF AllGood, Good
<1>6. Sound(Over(rows, View(c)))
  BY <1>3, Items DEF Sound, StepsIn
<1>7. \A p \in Parents : p \notin DOMAIN rows
  BY <1>2, <1>3, Items
<1> QED
  BY <1>3, <1>4, <1>5, <1>6, <1>7, WriteEffect

\* A step is inserted under its foreign keys ...
LEMMA InsertStepEffect ==
  ASSUME Typed, GoodInv, NEW c \in Client, NEW next \in {"done", "reread"},
         NEW refused \in Answers, Pending(call[c]), NEW row \in Stored, row # None, Good(row),
         InsertStep(c, row, refused, next)
  PROVE  Effect(c)
<1> DEFINE s == call[c].arg
           rows == One(s, row)
<1>1. View(c) \in Tables
  BY Views
<1>2. s \in StepId /\ s \in Item
  BY Items DEF Typed, Asked, Pending
<1>3. /\ rows \in Delta /\ DOMAIN rows = {s} /\ rows[s] = row
      /\ \A i \in Item : Over(rows, View(c))[i] = IF i = s THEN row ELSE View(c)[i]
  BY <1>1, <1>2, OneOver
<1>4. CASE Answer(c, refused) /\ NoWrite
  BY <1>4, AnswerEffect
<1>5. CASE ~(Answer(c, refused) /\ NoWrite)
  <2>1. Complete(View(c)) /\ WriteUnder(c, rows, Parents) /\ Proceed(c, next) /\ Staying(c, Parents)
    BY <1>5 DEF InsertStep
  <2> HIDE DEF rows
  <2>2. PICK q : Moves(c, q) /\ ~Pending(q)
    BY <2>1, ProceedMoves
  <2>3. AllGood(rows)
    BY <1>3 DEF AllGood
  <2>4. Sound(Over(rows, View(c)))
    BY <1>2, <1>3, <2>1, Items DEF Sound, Complete
  <2>5. \A p \in Parents : p \notin DOMAIN rows
    BY <1>2, <1>3, Items
  <2>6. Writes(c, q, rows, Parents)
    BY <1>3, <2>1, <2>2, <2>3, <2>4, <2>5 DEF Writes, Awaits
  <2> QED
    BY <1>3, <2>2, <2>6 DEF Effect
<1> QED
  BY <1>4, <1>5

\* ... or without any.
LEMMA LooseStepEffect ==
  ASSUME Typed, GoodInv, ~HasKeys, NEW c \in Client, NEW next \in {"done", "reread"},
         NEW taken \in Answers, Pending(call[c]), NEW row \in Stored, row # None, Good(row),
         Insert(c, call[c].arg, row, taken, next)
  PROVE  Effect(c)
<1> DEFINE s == call[c].arg
           rows == One(s, row)
<1>1. s \in StepId /\ s \in Item
  BY Items DEF Typed, Asked, Pending
<1>2. rows \in Delta /\ DOMAIN rows = {s} /\ rows[s] = row
  BY <1>1, OneIsDelta
<1>3. CASE Answer(c, taken) /\ NoWrite
  BY <1>3, AnswerEffect
<1>4. CASE Write(c, rows) /\ Proceed(c, next)
  <2>1. Write(c, rows) /\ Proceed(c, next)
    BY <1>4
  <2> HIDE DEF rows
  <2>2. AllGood(rows)
    BY <1>2 DEF AllGood
  <2>3. \A t \in StepId : t \in DOMAIN rows => Awaits(c, t)
    BY <1>2 DEF Awaits
  <2> QED
    BY <1>2, <2>1, <2>2, <2>3, WriteEffect
<1> QED
  BY <1>3, <1>4 DEF Insert

\* A component is deleted where a foreign key may refuse it.
LEMMA RemoveUnreferencedEffect ==
  ASSUME Typed, GoodInv, HasKeys => KeyInv, NEW c \in Client, RemoveUnreferenced(c)
  PROVE  Effect(c)
<1>1. "component" \in Parents \cup {"config"} /\ {} \in SUBSET StepId /\ "conflict" \in Answers
  BY DEF Parents, Answers
<1>2. CASE Answer(c, "conflict") /\ NoWrite
  BY <1>1, <1>2, AnswerEffect
<1>3. CASE /\ Remove(c, "component", {})
           /\ ~(View(c)["component"] # None /\ StepsIn(View(c)) # {})
  BY <1>1, <1>3, RemoveEffect
<1> QED
  BY <1>2, <1>3 DEF RemoveUnreferenced

\* A workflow is deleted with its steps.
LEMMA RemoveCascadingEffect ==
  ASSUME Typed, GoodInv, HasKeys => KeyInv, NEW c \in Client, RemoveCascading(c)
  PROVE  Effect(c)
<1>1. "workflow" \in Parents \cup {"config"} /\ StepsIn(View(c)) \in SUBSET StepId
  BY DEF Parents, StepsIn
<1> QED
  BY <1>1, RemoveEffect DEF RemoveCascading

-----------------------------------------------------------------------------
(* What is stored of a field, and what a client sees after a write.        *)

\* How an engine stores a field.
Col(v) ==
  IF engine = "couchbase" THEN v
  ELSE IF v = "undefined" \/ (engine = "oracle" /\ v = "empty") THEN "NULL" ELSE v

\* A row that is saved reads as it is meant.
LEMMA SavedRow ==
  ASSUME NEW v \in Optional
  PROVE  Row(Col(v), v) \in Stored /\ Row(Col(v), v) # None /\ Good(Row(Col(v), v))
BY DEF Optional, Col, Row, Rows, Stored, Column, None, Good, Field

\* What a client sees reads as it is meant.
LEMMA ViewGood ==
  ASSUME Typed, GoodInv, NEW c \in Client
  PROVE  \A i \in Item : View(c)[i] \in Stored /\ Good(View(c)[i])
<1>1. /\ tx[c].delta \in Delta /\ View(c) \in Tables
      /\ View(c) = IF engine = "mongodb" /\ tx[c].open THEN Over(tx[c].delta, tx[c].before)
                                                       ELSE Over(tx[c].delta, db)
  BY Views
<1>2. db \in Tables /\ (engine = "mongodb" /\ tx[c].open => tx[c].before \in Tables)
  BY DEF Typed, TxInv, Snapshot
<1>3. \A t \in Tables : DOMAIN t = Item
  BY DEF Tables
<1>4. AllGood(db) /\ AllGood(tx[c].delta) /\ (engine = "mongodb" /\ tx[c].open => AllGood(tx[c].before))
  BY DEF GoodInv, Snapshot
<1>5. ASSUME NEW i \in Item PROVE Good(View(c)[i])
  <2>1. CASE engine = "mongodb" /\ tx[c].open
    <3>1. View(c)[i] = IF i \in DOMAIN tx[c].delta THEN tx[c].delta[i] ELSE tx[c].before[i]
      BY <1>1, <1>2, <2>1, OverTables
    <3> QED
      BY <1>2, <1>3, <1>4, <2>1, <3>1 DEF AllGood
  <2>2. CASE ~(engine = "mongodb" /\ tx[c].open)
    <3>1. View(c)[i] = IF i \in DOMAIN tx[c].delta THEN tx[c].delta[i] ELSE db[i]
      BY <1>1, <1>2, <2>2, OverTables
    <3> QED
      BY <1>2, <1>3, <1>4, <3>1 DEF AllGood
  <2> QED
    BY <2>1, <2>2
<1> QED
  BY <1>1, <1>5 DEF Tables, Stored

\* A row that is updated, too.
LEMMA UpdatedRow ==
  ASSUME Typed, GoodInv, NEW c \in Client,
         NEW item \in Parents, View(c)[item] # None,
         \/ call[c].op = "updateComponent" /\ item = "component"
         \/ call[c].op = "updateWorkflow" /\ item = "workflow",
         NEW column,
         column = IF call[c].arg = "unchanged"
                     \/ (call[c].op = "updateWorkflow" /\ call[c].arg = "undefined")
                  THEN View(c)[item].column ELSE Col(call[c].arg)
  PROVE  /\ Row(column, Meant(c)) \in Stored /\ Row(column, Meant(c)) # None
         /\ Good(Row(column, Meant(c)))
<1>1. View(c)[item] \in Stored /\ Good(View(c)[item])
  BY ViewGood, Items
<1>2. call[c].arg \in Optional \cup {"unchanged"}
  BY DEF Typed, Asked
<1>3. CASE call[c].arg = "unchanged" \/ (call[c].op = "updateWorkflow" /\ call[c].arg = "undefined")
  <2>1. Meant(c) = View(c)[item].meant /\ column = View(c)[item].column
    BY <1>3 DEF Meant
  <2>2. Row(column, Meant(c)) = View(c)[item]
    BY <1>1, <2>1 DEF Stored, Rows, Row
  <2> QED
    BY <1>1, <2>2
<1>4. CASE ~(call[c].arg = "unchanged" \/ (call[c].op = "updateWorkflow" /\ call[c].arg = "undefined"))
  <2>1. Meant(c) = call[c].arg /\ column = Col(call[c].arg) /\ call[c].arg \in Optional
    BY <1>2, <1>4 DEF Meant
  <2> QED
    BY <2>1, SavedRow
<1> QED
  BY <1>3, <1>4

\* Writes over writes over tables.
LEMMA OverOver ==
  ASSUME NEW f \in Delta, NEW g \in Delta, NEW t \in Tables
  PROVE  Over(f, Over(g, t)) = Over(Over(f, g), t)
<1>1. Over(g, t) \in Tables /\ Over(f, g) \in Delta
  BY OverTables, OverDelta
<1>2. Over(f, Over(g, t)) \in Tables /\ Over(Over(f, g), t) \in Tables
  BY <1>1, OverTables
<1>3. ASSUME NEW i \in Item
      PROVE  Over(f, Over(g, t))[i] = Over(Over(f, g), t)[i]
  <2>1. Over(f, Over(g, t))[i] = IF i \in DOMAIN f THEN f[i] ELSE Over(g, t)[i]
    BY <1>1, OverTables
  <2>2. Over(g, t)[i] = IF i \in DOMAIN g THEN g[i] ELSE t[i]
    BY OverTables
  <2>3. Over(Over(f, g), t)[i] = IF i \in DOMAIN Over(f, g) THEN Over(f, g)[i] ELSE t[i]
    BY <1>1, OverTables
  <2>4. /\ DOMAIN Over(f, g) = DOMAIN f \cup DOMAIN g
        /\ \A j \in DOMAIN f \cup DOMAIN g : Over(f, g)[j] = IF j \in DOMAIN f THEN f[j] ELSE g[j]
    BY OverDelta
  <2> QED
    BY <2>1, <2>2, <2>3, <2>4
<1> QED
  BY <1>2, <1>3 DEF Tables

\* A client sees what it has written.
LEMMA ViewAfter ==
  ASSUME Typed, UNCHANGED engine, NEW c \in Client, NEW rows \in Delta, NEW keys,
         WriteUnder(c, rows, keys)
  PROVE  View(c)' = Over(rows, View(c))
<1>1. /\ tx \in [Client -> Tx] /\ tx[c] \in Tx /\ tx[c].delta \in Delta /\ db \in Tables
  BY DEF Typed, TxInv, Tx
<1>2. CASE Private(c)
  <2>1. UNCHANGED db /\ tx' = [tx EXCEPT ![c].delta = Over(rows, @), ![c].keys = @ \cup keys]
    BY <1>2 DEF WriteUnder
  <2>2. /\ tx'[c].delta = Over(rows, tx[c].delta) /\ tx'[c].before = tx[c].before
        /\ tx'[c].open = tx[c].open
    BY <1>1, <2>1 DEF Tx
  <2>3. engine = "mongodb" => tx[c].before \in Tables
    BY <1>2 DEF Private, Typed, TxInv, Snapshot
  <2>4. View(c)' = Over(Over(rows, tx[c].delta), IF engine = "mongodb" THEN tx[c].before ELSE db)
    BY <1>2, <2>1, <2>2 DEF View, Private
  <2>5. View(c) = Over(tx[c].delta, IF engine = "mongodb" THEN tx[c].before ELSE db)
    BY <1>2 DEF View
  <2> QED
    BY <1>1, <2>3, <2>4, <2>5, OverOver
<1>3. CASE ~Private(c)
  BY <1>3 DEF WriteUnder, View, Private
<1> QED
  BY <1>2, <1>3

\* ... and what it saw, if it wrote nothing.
LEMMA ViewStays ==
  ASSUME UNCHANGED engine, NoWrite, NEW c \in Client
  PROVE  View(c)' = View(c)
BY DEF NoWrite, View, Private

\* The engines list the stored steps.
LEMMA StepsAre ==
  ASSUME Typed
  PROVE  \A t : Steps(t) = StepsIn(t)
BY StoreAssumption DEF Typed, Steps, SqliteSteps, PostgresSteps, OracleSteps, MongoSteps, CouchbaseSteps, StepsIn

\* ... also after a step of the system.
LEMMA StepsAreNext ==
  ASSUME Typed, UNCHANGED engine, NEW c \in Client
  PROVE  Steps(View(c))' = StepsIn(View(c)')
BY StoreAssumption DEF Typed, Steps, SqliteSteps, PostgresSteps, OracleSteps, MongoSteps, CouchbaseSteps, StepsIn

-----------------------------------------------------------------------------
(* The calls of each engine.                                               *)

\* Other calls than deleteWorkflow clear nothing.
LEMMA OthersClear ==
  ASSUME NEW c \in Client, call[c].op # "deleteWorkflow"
  PROVE  Clears(c)
BY DEF Clears

\* A call that is over, with the workflow as it was or without its steps.
LEMMA DoneClears ==
  ASSUME Typed, UNCHANGED engine, NEW c \in Client, call'[c].at = "done",
         \/ NoWrite
         \/ call[c].steps \cap StepsIn(View(c)') = {}
  PROVE  Clears(c)
<1>1. Steps(View(c))' = StepsIn(View(c)')
  BY StepsAreNext
<1>2. NoWrite => View(c)' = View(c)
  BY ViewStays
<1> QED
  BY <1>1, <1>2 DEF Clears

\* The cascade of a foreign key leaves none of the workflow's steps.
LEMMA CascadeClears ==
  ASSUME Typed, UNCHANGED engine, NEW c \in Client, RemoveCascading(c)
  PROVE  Clears(c)
<1>1. call'[c].at = "done"
  BY DEF RemoveCascading, Remove, Answer, Typed, Call
<1>2. CASE NoWrite
  BY <1>1, <1>2, DoneClears
<1>3. CASE ~NoWrite
  <2> DEFINE items == {"workflow"} \cup StepsIn(View(c))
  <2>1. Write(c, Gone(items))
    BY <1>3 DEF RemoveCascading, Remove
  <2>2. items \in SUBSET Item
    BY Items DEF StepsIn
  <2>3. View(c) \in Tables
    BY Views
  <2> HIDE DEF items
  <2>4. /\ Gone(items) \in Delta
        /\ \A i \in Item : Over(Gone(items), View(c))[i] = IF i \in items THEN None ELSE View(c)[i]
    BY <2>2, <2>3, GoneOver
  <2>5. View(c)' = Over(Gone(items), View(c))
    BY <2>1, <2>4, ViewAfter DEF Write
  <2>6. StepsIn(View(c)') = {}
    BY <2>4, <2>5, Items DEF StepsIn, items
  <2> QED
    BY <1>1, <2>6, DoneClears
<1> QED
  BY <1>2, <1>3

\* A component or a workflow is saved.
LEMMA SaveEffects ==
  ASSUME AdaptersInv, NEW c \in Client, call[c].op \in {"saveComponent", "saveWorkflow"},
         NEW item \in Parents, NEW taken \in Answers, NEW next \in {"done", "reread"},
         NEW column, column = Col(call[c].arg),
         Insert(c, item, Row(column, call[c].arg), taken, next)
  PROVE  Effect(c) /\ Clears(c)
<1>1. Typed /\ GoodInv /\ (HasKeys => KeyInv) /\ call[c].arg \in Optional
  BY DEF AdaptersInv, Typed, Asked
<1> QED
  BY <1>1, SavedRow, InsertEffect, OthersClear

\* ... or updated.
LEMMA UpdateEffects ==
  ASSUME AdaptersInv, NEW c \in Client, NEW item \in Parents, NEW next \in {"done", "reread"},
         \/ call[c].op = "updateComponent" /\ item = "component"
         \/ call[c].op = "updateWorkflow" /\ item = "workflow",
         NEW column,
         column = IF call[c].arg = "unchanged"
                     \/ (call[c].op = "updateWorkflow" /\ call[c].arg = "undefined")
                  THEN View(c)[item].column ELSE Col(call[c].arg),
         Change(c, item, Row(column, Meant(c)), next)
  PROVE  Effect(c) /\ Clears(c)
<1>1. Typed /\ GoodInv /\ (HasKeys => KeyInv) /\ call[c].op # "deleteWorkflow"
  BY DEF AdaptersInv
<1>2. View(c)[item] # None =>
        /\ Row(column, Meant(c)) \in Stored /\ Row(column, Meant(c)) # None
        /\ Good(Row(column, Meant(c)))
  BY <1>1, UpdatedRow
<1> QED
  BY <1>1, <1>2, ChangeEffect, OthersClear

\* A configuration key is set or deleted.
LEMMA ConfigEffects ==
  ASSUME AdaptersInv, NEW c \in Client,
         \/ /\ call[c].op = "setConfig" /\ Answer(c, "ok")
            /\ engine = "oracle" => call[c].arg # "empty"
            /\ Write(c, One("config", Row(call[c].arg, call[c].arg)))
         \/ call[c].op = "deleteConfig" /\ Remove(c, "config", {})
  PROVE  Effect(c) /\ Clears(c)
<1>1. /\ Typed /\ GoodInv /\ (HasKeys => KeyInv) /\ call[c].op # "deleteWorkflow"
      /\ "config" \notin Parents
  BY Items DEF AdaptersInv
<1>2. CASE call[c].op = "deleteConfig" /\ Remove(c, "config", {})
  BY <1>1, <1>2, RemoveEffect, OthersClear
<1>3. CASE /\ call[c].op = "setConfig" /\ Answer(c, "ok")
           /\ engine = "oracle" => call[c].arg # "empty"
           /\ Write(c, One("config", Row(call[c].arg, call[c].arg)))
  <2>1. call[c].arg \in {"empty", "some"}
    BY <1>1, <1>3 DEF Typed, Asked
  <2>2. Row(call[c].arg, call[c].arg) = Row(Col(call[c].arg), call[c].arg) /\ call[c].arg \in Optional
    BY <1>3, <2>1 DEF Col, Optional
  <2>3. Proceed(c, "done")
    BY <1>3 DEF Proceed
  <2> QED
    BY <1>1, <1>3, <2>2, <2>3, SavedRow, PutEffect, OthersClear
<1> QED
  BY <1>2, <1>3

\* A step is inserted, under foreign keys or none, or all are removed.
LEMMA StepEffects ==
  ASSUME AdaptersInv, NEW c \in Client, NEW taken \in Answers, NEW next \in {"done", "reread"},
         \/ /\ call[c].op = "saveWorkflowStep" /\ call[c].at \in {"ready", "insert"}
            /\ \/ InsertStep(c, Row("some", "some"), taken, next)
               \/ ~HasKeys /\ Insert(c, call[c].arg, Row("some", "some"), taken, next)
         \/ call[c].op = "deleteWorkflowSteps" /\ RemoveSteps(c, "done")
  PROVE  Effect(c) /\ Clears(c)
<1>1. Typed /\ GoodInv /\ (HasKeys => KeyInv) /\ call[c].op # "deleteWorkflow"
  BY DEF AdaptersInv
<1>2. Row("some", "some") = Row(Col("some"), "some") /\ "some" \in Optional
  BY DEF Col, Optional
<1>3. CASE call[c].op = "deleteWorkflowSteps" /\ RemoveSteps(c, "done")
  BY <1>1, <1>3, RemoveStepsEffect, OthersClear
<1>4. CASE /\ call[c].op = "saveWorkflowStep" /\ call[c].at \in {"ready", "insert"}
           /\ \/ InsertStep(c, Row("some", "some"), taken, next)
              \/ ~HasKeys /\ Insert(c, call[c].arg, Row("some", "some"), taken, next)
  <2>1. Pending(call[c])
    BY <1>4 DEF Pending
  <2> QED
    BY <1>1, <1>2, <1>4, <2>1, SavedRow, InsertStepEffect, LooseStepEffect, OthersClear
<1> QED
  BY <1>3, <1>4

\* With foreign keys, a component is deleted under none of its steps and a
\* workflow with its own.
LEMMA DeleteEffects ==
  ASSUME AdaptersInv, UNCHANGED engine, NEW c \in Client,
         \/ call[c].op = "deleteComponent" /\ RemoveUnreferenced(c)
         \/ call[c].op = "deleteWorkflow" /\ RemoveCascading(c)
  PROVE  Effect(c) /\ Clears(c)
<1>1. Typed /\ GoodInv /\ (HasKeys => KeyInv)
  BY DEF AdaptersInv
<1> QED
  BY <1>1, RemoveUnreferencedEffect, RemoveCascadingEffect, CascadeClears, OthersClear

\* A transaction begins, or is refused.
LEMMA BeginEffects ==
  ASSUME AdaptersInv, NEW c \in Client, NEW a \in Answers, call[c].op = "transaction",
         Answer(c, a), NoWrite \/ Opens(c)
  PROVE  Effect(c) /\ Clears(c)
<1>1. Typed /\ GoodInv /\ call[c].op # "deleteWorkflow"
  BY DEF AdaptersInv
<1> QED
  BY <1>1, AnswerMoves, OthersClear DEF Effect

\* The row just written is read.
LEMMA RereadEffects ==
  ASSUME AdaptersInv, UNCHANGED engine, NEW c \in Client, NEW a \in Answers, Answer(c, a), NoWrite
  PROVE  Effect(c) /\ Clears(c)
<1>1. Typed /\ GoodInv
  BY DEF AdaptersInv
<1>2. call'[c].at = "done"
  BY <1>1 DEF Answer, Typed, Call
<1> QED
  BY <1>1, <1>2, AnswerEffect, DoneClears

\* bun:sqlite.
LEMMA SqliteEffects ==
  ASSUME AdaptersInv, UNCHANGED engine, NEW c \in Client, SqliteCall(c)
  PROVE  Effect(c) /\ Clears(c)
<1>1. /\ engine = "sqlite" /\ Asked(call[c]) /\ "component" \in Parents /\ "workflow" \in Parents
      /\ {"conflict", "raw", "unsupported", "ok", "error"} \subseteq Answers
      /\ \A v : SqliteColumn(v) = Col(v)
  BY Items DEF AdaptersInv, Typed, SqliteCall, Col, Answers, SqliteColumn
<1>2. CASE SqliteSaveComponent(c) \/ SqliteSaveWorkflow(c)
  BY <1>1, <1>2, SaveEffects DEF SqliteSaveComponent, SqliteSaveWorkflow, Is
<1>3. CASE SqliteUpdateComponent(c)
  BY <1>1, <1>3, UpdateEffects DEF SqliteUpdateComponent, Is
<1>4. CASE SqliteUpdateWorkflow(c)
  <2>1. call[c].op = "updateWorkflow" /\ call[c].arg \in Optional \cup {"unchanged"}
    BY <1>1, <1>4 DEF SqliteUpdateWorkflow, Is, Asked
  <2> DEFINE column == IF call[c].arg \in {"unchanged", "undefined"}
                       THEN View(c)["workflow"].column ELSE call[c].arg
  <2>2. Change(c, "workflow", Row(column, Meant(c)), "done")
    BY <1>4 DEF SqliteUpdateWorkflow
  <2>3. column = IF call[c].arg = "unchanged"
                    \/ (call[c].op = "updateWorkflow" /\ call[c].arg = "undefined")
                 THEN View(c)["workflow"].column ELSE Col(call[c].arg)
    BY <1>1, <2>1 DEF Col
  <2> HIDE DEF column
  <2> QED
    BY <1>1, <2>1, <2>2, <2>3, UpdateEffects
<1>5. CASE SqliteDeleteComponent(c) \/ SqliteDeleteWorkflow(c)
  BY <1>5, DeleteEffects DEF SqliteDeleteComponent, SqliteDeleteWorkflow, Is
<1>6. CASE SqliteSaveWorkflowStep(c) \/ SqliteDeleteWorkflowSteps(c)
  BY <1>1, <1>6, StepEffects DEF SqliteSaveWorkflowStep, SqliteDeleteWorkflowSteps, Is
<1>7. CASE SqliteSetConfig(c) \/ SqliteDeleteConfig(c)
  BY <1>1, <1>7, ConfigEffects DEF SqliteSetConfig, SqliteDeleteConfig, Is
<1>8. CASE SqliteBegin(c)
  BY <1>1, <1>8, BeginEffects DEF SqliteBegin, Is, Opens, NoWrite
<1> QED
  BY <1>2, <1>3, <1>4, <1>5, <1>6, <1>7, <1>8 DEF SqliteCall

\* PostgreSQL.
LEMMA PostgresEffects ==
  ASSUME AdaptersInv, UNCHANGED engine, NEW c \in Client, PostgresCall(c)
  PROVE  Effect(c) /\ Clears(c)
<1>1. /\ engine = "postgres" /\ Asked(call[c]) /\ "component" \in Parents /\ "workflow" \in Parents
      /\ {"conflict", "raw", "unsupported", "ok", "error"} \subseteq Answers
      /\ \A v : PostgresColumn(v) = Col(v)
  BY Items DEF AdaptersInv, Typed, PostgresCall, Col, Answers, PostgresColumn
<1>2. CASE PostgresSaveComponent(c) \/ PostgresSaveWorkflow(c)
  BY <1>1, <1>2, SaveEffects DEF PostgresSaveComponent, PostgresSaveWorkflow, Is
<1>3. CASE PostgresUpdateComponent(c)
  BY <1>1, <1>3, UpdateEffects DEF PostgresUpdateComponent, Is
<1>4. CASE PostgresUpdateWorkflow(c)
  <2>1. call[c].op = "updateWorkflow" /\ call[c].arg \in Optional \cup {"unchanged"}
    BY <1>1, <1>4 DEF PostgresUpdateWorkflow, Is, Asked
  <2> DEFINE column == IF call[c].arg \in {"unchanged", "undefined"}
                       THEN View(c)["workflow"].column ELSE call[c].arg
  <2>2. Change(c, "workflow", Row(column, Meant(c)), "done")
    BY <1>4 DEF PostgresUpdateWorkflow
  <2>3. column = IF call[c].arg = "unchanged"
                    \/ (call[c].op = "updateWorkflow" /\ call[c].arg = "undefined")
                 THEN View(c)["workflow"].column ELSE Col(call[c].arg)
    BY <1>1, <2>1 DEF Col
  <2> HIDE DEF column
  <2> QED
    BY <1>1, <2>1, <2>2, <2>3, UpdateEffects
<1>5. CASE PostgresDeleteComponent(c) \/ PostgresDeleteWorkflow(c)
  BY <1>5, DeleteEffects DEF PostgresDeleteComponent, PostgresDeleteWorkflow, Is
<1>6. CASE PostgresSaveWorkflowStep(c) \/ PostgresDeleteWorkflowSteps(c)
  BY <1>1, <1>6, StepEffects DEF PostgresSaveWorkflowStep, PostgresDeleteWorkflowSteps, Is
<1>7. CASE PostgresSetConfig(c) \/ PostgresDeleteConfig(c)
  BY <1>1, <1>7, ConfigEffects DEF PostgresSetConfig, PostgresDeleteConfig, Is
<1>8. CASE PostgresBegin(c)
  BY <1>1, <1>8, BeginEffects DEF PostgresBegin, Is, Opens, NoWrite
<1> QED
  BY <1>2, <1>3, <1>4, <1>5, <1>6, <1>7, <1>8 DEF PostgresCall

\* Oracle.
LEMMA OracleEffects ==
  ASSUME AdaptersInv, UNCHANGED engine, NEW c \in Client, OracleCall(c)
  PROVE  Effect(c) /\ Clears(c)
<1>1. /\ engine = "oracle" /\ Asked(call[c]) /\ "component" \in Parents /\ "workflow" \in Parents
      /\ {"conflict", "raw", "unsupported", "ok", "error"} \subseteq Answers
      /\ \A v : OracleColumn(v) = Col(v)
  BY Items DEF AdaptersInv, Typed, OracleCall, Col, Answers, OracleColumn
<1>2. CASE OracleSaveComponent(c) \/ OracleSaveWorkflow(c)
  BY <1>1, <1>2, SaveEffects DEF OracleSaveComponent, OracleSaveWorkflow, Is
<1>3. CASE OracleUpdateComponent(c)
  BY <1>1, <1>3, UpdateEffects DEF OracleUpdateComponent, Is
<1>4. CASE OracleUpdateWorkflow(c)
  <2>1. call[c].op = "updateWorkflow" /\ call[c].arg \in Optional \cup {"unchanged"}
    BY <1>1, <1>4 DEF OracleUpdateWorkflow, Is, Asked
  <2> DEFINE column == IF call[c].arg \in {"unchanged", "undefined"}
                       THEN View(c)["workflow"].column ELSE OracleColumn(call[c].arg)
  <2>2. Change(c, "workflow", Row(column, Meant(c)), "reread")
    BY <1>4 DEF OracleUpdateWorkflow
  <2>3. column = IF call[c].arg = "unchanged"
                    \/ (call[c].op = "updateWorkflow" /\ call[c].arg = "undefined")
                 THEN View(c)["workflow"].column ELSE Col(call[c].arg)
    BY <1>1, <2>1 DEF Col
  <2> HIDE DEF column
  <2> QED
    BY <1>1, <2>1, <2>2, <2>3, UpdateEffects
<1>5. CASE OracleDeleteComponent(c) \/ OracleDeleteWorkflow(c)
  BY <1>5, DeleteEffects DEF OracleDeleteComponent, OracleDeleteWorkflow, Is
<1>6. CASE OracleSaveWorkflowStep(c) \/ OracleDeleteWorkflowSteps(c)
  BY <1>1, <1>6, StepEffects DEF OracleSaveWorkflowStep, OracleDeleteWorkflowSteps, Is
<1>7. CASE OracleSetConfig(c) \/ OracleDeleteConfig(c)
  <2>1. CASE Answer(c, "error") /\ NoWrite
    BY <1>1, <2>1, RereadEffects
  <2>2. CASE ~(Answer(c, "error") /\ NoWrite)
    <3>1. OracleSetConfig(c) => OracleColumn(call[c].arg) # "NULL"
      BY <2>2 DEF OracleSetConfig
    <3> QED
      BY <1>1, <1>7, <2>2, <3>1, ConfigEffects DEF OracleSetConfig, OracleDeleteConfig, OracleColumn, Is
  <2> QED
    BY <2>1, <2>2
<1>8. CASE OracleBegin(c)
  BY <1>1, <1>8, BeginEffects DEF OracleBegin, Is, Opens, NoWrite
<1>9. CASE OracleReread(c)
  BY <1>1, <1>9, RereadEffects DEF OracleReread
<1> QED
  BY <1>2, <1>3, <1>4, <1>5, <1>6, <1>7, <1>8, <1>9 DEF OracleCall

\* The workflow is removed when none of its steps are left.
LEMMA LastClears ==
  ASSUME Typed, UNCHANGED engine, NEW c \in Client, Left(c) = {}, Remove(c, "workflow", {})
  PROVE  Clears(c)
<1>1. call'[c].at = "done"
  BY DEF Remove, Answer, Typed, Call
<1>2. CASE NoWrite
  BY <1>1, <1>2, DoneClears
<1>3. CASE ~NoWrite
  <2> DEFINE items == {"workflow"} \cup {}
  <2>1. Write(c, Gone(items))
    BY <1>3 DEF Remove
  <2>2. items \in SUBSET Item /\ View(c) \in Tables
    BY Items, Views
  <2> HIDE DEF items
  <2>3. /\ Gone(items) \in Delta
        /\ \A i \in Item : Over(Gone(items), View(c))[i] = IF i \in items THEN None ELSE View(c)[i]
    BY <2>2, GoneOver
  <2>4. View(c)' = Over(Gone(items), View(c))
    BY <2>1, <2>3, ViewAfter DEF Write
  <2>5. StepsIn(View(c)') = StepsIn(View(c))
    BY <2>3, <2>4, Items DEF StepsIn, items
  <2> QED
    BY <1>1, <2>5, DoneClears DEF Left
<1> QED
  BY <1>2, <1>3

\* All the steps are removed, before the workflow is.
LEMMA StepsClear ==
  ASSUME Typed, UNCHANGED engine, NEW c \in Client, engine = "mongodb", RemoveSteps(c, "parent")
  PROVE  Clears(c)
<1> DEFINE items == StepsIn(View(c))
<1>1. items \in SUBSET Item /\ View(c) \in Tables /\ Write(c, Gone(items))
  BY Items, Views DEF StepsIn, RemoveSteps
<1> HIDE DEF items
<1>2. /\ Gone(items) \in Delta
      /\ \A i \in Item : Over(Gone(items), View(c))[i] = IF i \in items THEN None ELSE View(c)[i]
  BY <1>1, GoneOver
<1>3. View(c)' = Over(Gone(items), View(c))
  BY <1>1, <1>2, ViewAfter DEF Write
<1>4. StepsIn(View(c)') = {}
  BY <1>2, <1>3, Items DEF StepsIn, items
<1>5. Steps(View(c))' = StepsIn(View(c)')
  BY StepsAreNext
<1>6. Left(c)' = {}
  BY <1>4 DEF Left
<1> QED
  BY <1>4, <1>5, <1>6 DEF Clears

\* A call that is not a deletion of a workflow goes on.
LEMMA GotoEffects ==
  ASSUME AdaptersInv, NEW c \in Client, NEW at \in Places \ {"ready"}, Goto(c, at), NoWrite,
         call[c].op # "deleteWorkflow",
         at = "insert" => Pending(call[c]) \/ call[c].op # "saveWorkflowStep"
  PROVE  Effect(c) /\ Clears(c)
BY GotoEffect, OthersClear DEF AdaptersInv

\* MongoDB.
LEMMA MongoEffects ==
  ASSUME AdaptersInv, UNCHANGED engine, NEW c \in Client, MongoCall(c)
  PROVE  Effect(c) /\ Clears(c)
<1>1. /\ engine = "mongodb" /\ Asked(call[c]) /\ "component" \in Parents /\ "workflow" \in Parents
      /\ {"conflict", "unsupported", "ok", "error"} \subseteq Answers
      /\ {"remove", "insert"} \subseteq Places \ {"ready"}
      /\ \A v : MongoColumn(v) = Col(v)
  BY Items DEF AdaptersInv, Typed, MongoCall, Col, Answers, Places, MongoColumn
<1>2. CASE MongoSaveComponent(c) \/ MongoSaveWorkflow(c)
  BY <1>1, <1>2, SaveEffects DEF MongoSaveComponent, MongoSaveWorkflow, Is
<1>3. CASE MongoUpdateComponent(c)
  BY <1>1, <1>3, UpdateEffects DEF MongoUpdateComponent, Is
<1>4. CASE MongoUpdateWorkflow(c)
  <2>1. call[c].op = "updateWorkflow" /\ call[c].arg \in Optional \cup {"unchanged"}
    BY <1>1, <1>4 DEF MongoUpdateWorkflow, Is, Asked
  <2> DEFINE column == IF call[c].arg \in {"unchanged", "undefined"}
                       THEN View(c)["workflow"].column ELSE call[c].arg
  <2>2. Change(c, "workflow", Row(column, Meant(c)), "done")
    BY <1>4 DEF MongoUpdateWorkflow
  <2>3. column = IF call[c].arg = "unchanged"
                    \/ (call[c].op = "updateWorkflow" /\ call[c].arg = "undefined")
                 THEN View(c)["workflow"].column ELSE Col(call[c].arg)
    BY <1>1, <2>1 DEF Col
  <2> HIDE DEF column
  <2> QED
    BY <1>1, <2>1, <2>2, <2>3, UpdateEffects
<1>5. CASE MongoDeleteComponent(c)
  <2>1. call[c].op = "deleteComponent" /\ ~HasKeys
    BY <1>1, <1>5 DEF MongoDeleteComponent, Is, HasKeys
  <2>2. CASE Answer(c, "conflict") /\ NoWrite
    BY <1>1, <2>2, RereadEffects
  <2>3. CASE Goto(c, "remove") /\ NoWrite
    BY <1>1, <2>1, <2>3, GotoEffects
  <2>4. CASE Remove(c, "component", {})
    BY <1>1, <2>1, <2>4, RemoveEffect, OthersClear DEF AdaptersInv
  <2> QED
    BY <1>5, <2>2, <2>3, <2>4 DEF MongoDeleteComponent
<1>6. CASE MongoDeleteWorkflow(c)
  <2>1. call[c].op = "deleteWorkflow" /\ ~HasKeys /\ Typed
    BY <1>1, <1>6 DEF MongoDeleteWorkflow, Is, HasKeys, AdaptersInv
  <2>2. CASE RemoveSteps(c, "parent")
    BY <1>1, <2>1, <2>2, RemoveStepsEffect, StepsClear DEF AdaptersInv
  <2>3. CASE call[c].at = "parent" /\ Remove(c, "workflow", {})
    <3>1. Left(c) = {}
      BY <1>1, <2>1, <2>3 DEF AdaptersInv, LeftInv
    <3> QED
      BY <1>1, <2>1, <2>3, <3>1, RemoveEffect, LastClears DEF AdaptersInv
  <2> QED
    BY <1>6, <2>2, <2>3 DEF MongoDeleteWorkflow, Is
<1>7. CASE MongoSaveWorkflowStep(c)
  <2>1. /\ call[c].op = "saveWorkflowStep" /\ call[c].at \in {"ready", "insert"} /\ ~HasKeys
        /\ Pending(call[c])
    BY <1>1, <1>7 DEF MongoSaveWorkflowStep, Is, HasKeys, Pending
  <2>2. CASE Answer(c, "conflict") /\ NoWrite
    BY <1>1, <2>2, RereadEffects
  <2>3. CASE Goto(c, "insert") /\ NoWrite
    BY <1>1, <2>1, <2>3, GotoEffects
  <2>4. CASE Insert(c, call[c].arg, Row("some", "some"), "conflict", "reread")
    BY <1>1, <2>1, <2>4, StepEffects
  <2> QED
    BY <1>7, <2>2, <2>3, <2>4 DEF MongoSaveWorkflowStep
<1>8. CASE MongoDeleteWorkflowSteps(c)
  BY <1>1, <1>8, StepEffects DEF MongoDeleteWorkflowSteps, Is
<1>9. CASE MongoReread(c)
  BY <1>1, <1>9, RereadEffects DEF MongoReread
<1>10. CASE MongoSetConfig(c) \/ MongoDeleteConfig(c)
  BY <1>1, <1>10, ConfigEffects DEF MongoSetConfig, MongoDeleteConfig, Is
<1>11. CASE MongoBegin(c)
  BY <1>1, <1>11, BeginEffects DEF MongoBegin, Is, Opens, NoWrite
<1> QED
  BY <1>2, <1>3, <1>4, <1>5, <1>6, <1>7, <1>8, <1>9, <1>10, <1>11 DEF MongoCall

\* Couchbase has no transactions.
LEMMA CouchbaseView ==
  ASSUME Typed, engine = "couchbase", NEW c \in Client
  PROVE  View(c) = db /\ ~Private(c) /\ ~HasKeys
BY DEF Typed, TxInv, View, Private, HasKeys

\* A document is looked for.
LEMMA ResolveEffects ==
  ASSUME AdaptersInv, UNCHANGED engine, NEW c \in Client, NEW at \in {"insert", "count"},
         NEW item, Resolve(c, item, at), call[c].op # "saveWorkflowStep", engine = "couchbase"
  PROVE  Effect(c) /\ Clears(c)
<1>1. /\ Typed /\ GoodInv /\ NoWrite /\ "notFound" \in Answers /\ at \in Places \ {"ready"}
      /\ at # "remove" /\ at # "parent"
  BY DEF AdaptersInv, Resolve, Answers, Places
<1>2. CASE Answer(c, "notFound")
  BY <1>1, <1>2, RereadEffects
<1>3. CASE Goto(c, at)
  <2>1. Effect(c)
    BY <1>1, <1>3, GotoEffect
  <2>2. call'[c].at = at
    BY <1>1, <1>3 DEF Goto, Typed, Call
  <2>3. View(c)' = View(c)
    BY <1>1, ViewStays
  <2> QED
    BY <1>1, <2>1, <2>2, <2>3 DEF Clears
<1> QED
  BY <1>2, <1>3 DEF Resolve

\* A document is read, and what it is to be is worked out.
LEMMA ReadEffects ==
  ASSUME AdaptersInv, UNCHANGED engine, NEW c \in Client, engine = "couchbase", NEW item \in Parents,
         \/ call[c].op = "updateComponent" /\ item = "component"
         \/ call[c].op = "updateWorkflow" /\ item = "workflow",
         NEW column,
         column = IF call[c].arg = "unchanged"
                     \/ (call[c].op = "updateWorkflow" /\ call[c].arg = "undefined")
                  THEN db[item].column ELSE call[c].arg,
         ReadDocument(c, item, column)
  PROVE  Effect(c) /\ Clears(c)
<1>1. /\ Typed /\ GoodInv /\ NoWrite /\ "notFound" \in Answers /\ call[c].op # "deleteWorkflow"
      /\ View(c) = db /\ Col(call[c].arg) = call[c].arg
      /\ call \in [Client -> Call] /\ call[c] \in Call
  BY CouchbaseView DEF AdaptersInv, ReadDocument, Answers, Col, Typed
<1>2. CASE Answer(c, "notFound")
  BY <1>1, <1>2, RereadEffects
<1>3. CASE db[item] # None
  <2> DEFINE row == [column |-> column, meant |-> Meant(c)]
  <2>1. row \in Stored /\ row # None /\ Good(row)
    BY <1>1, <1>3, UpdatedRow DEF Row
  <2> DEFINE q == [call[c] EXCEPT !.at = "replace", !.found = row]
  <2>2. call' = [call EXCEPT ![c] = q]
    BY <1>1, <1>3 DEF ReadDocument
  <2>3. row \in {None} \cup Rows
    BY <2>1 DEF Stored
  <2> HIDE DEF row
  <2>4. /\ q \in Call /\ q.at = "replace" /\ q.op = call[c].op /\ q.arg = call[c].arg
        /\ q.steps = call[c].steps /\ q.found = row
    BY <1>1, <2>3 DEF Call
  <2> HIDE DEF q
  <2>5. Moves(c, q)
    BY <2>1, <2>2, <2>4 DEF Moves, Pending, Found
  <2> QED
    BY <1>1, <2>5, OthersClear DEF Effect
<1> QED
  BY <1>2, <1>3 DEF ReadDocument

\* It is replaced by what was worked out, marked undone where that is stale.
LEMMA ReplaceEffects ==
  ASSUME AdaptersInv, UNCHANGED engine, NEW c \in Client, engine = "couchbase",
         NEW item \in Parents, call[c].at = "replace", call[c].op # "deleteWorkflow",
         ReplaceDocument(c, item)
  PROVE  Effect(c) /\ Clears(c)
<1> DEFINE read == call[c].found
           meant == IF Meant(c) = read.meant THEN read.meant ELSE "undone"
           row == Row(read.column, meant)
<1>1. Typed /\ GoodInv /\ ~HasKeys
  BY CouchbaseView DEF AdaptersInv
<1>2. read \in Rows /\ read # None /\ Good(read)
  BY <1>1 DEF Typed, Call, GoodInv, Found
<1>3. row \in Stored
  BY <1>2 DEF Rows, Stored, Row
<1>4. Good(row)
  BY <1>2 DEF Good, Row, Field
<1>5. Change(c, item, row, "done")
  BY DEF ReplaceDocument
<1> HIDE DEF row
<1> QED
  BY <1>1, <1>3, <1>4, <1>5, ChangeEffect, OthersClear

\* The steps are asked for.
LEMMA QueryEffects ==
  ASSUME AdaptersInv, UNCHANGED engine, NEW c \in Client, engine = "couchbase", NoWrite,
         call' = [call EXCEPT ![c].queried = StepsIn(db), ![c].at = "remove"]
  PROVE  Effect(c) /\ Clears(c)
<1>1. /\ Typed /\ GoodInv /\ View(c) = db /\ View(c)' = View(c)
      /\ call \in [Client -> Call] /\ call[c] \in Call
  BY CouchbaseView, ViewStays DEF AdaptersInv, Typed
<1> DEFINE q == [call[c] EXCEPT !.queried = StepsIn(db), !.at = "remove"]
<1>2. call' = [call EXCEPT ![c] = q] /\ call'[c] = q
  BY <1>1
<1>3. StepsIn(db) \subseteq StepId
  BY DEF StepsIn
<1>4. /\ q \in Call /\ q.at = "remove" /\ q.op = call[c].op /\ q.arg = call[c].arg
      /\ q.steps = call[c].steps /\ q.found = call[c].found /\ q.queried = StepsIn(db)
  BY <1>1, <1>3 DEF Call
<1> HIDE DEF q
<1>5. Moves(c, q)
  BY <1>1, <1>2, <1>4 DEF Moves, Pending, GoodInv, Found
<1>6. Left(c)' \subseteq StepsIn(db)
  BY <1>1 DEF Left, StepsIn
<1> QED
  BY <1>1, <1>2, <1>4, <1>5, <1>6 DEF Effect, Clears

\* One of them is removed.
LEMMA QueriedEffects ==
  ASSUME AdaptersInv, UNCHANGED engine, NEW c \in Client, engine = "couchbase",
         call[c].at = "remove", RemoveQueried(c)
  PROVE  Effect(c) /\ Clears(c)
<1>1. /\ Typed /\ GoodInv /\ View(c) = db /\ ~Private(c) /\ ~HasKeys /\ "notFound" \in Answers
      /\ call \in [Client -> Call] /\ call[c] \in Call /\ call[c].queried \subseteq StepId
  BY CouchbaseView DEF AdaptersInv, Typed, Answers, Call
<1>2. CASE Answer(c, "notFound") /\ NoWrite
  BY <1>1, <1>2, RereadEffects
<1>3. CASE ~(Answer(c, "notFound") /\ NoWrite)
  <2>1. PICK s \in call[c].queried :
          Write(c, One(s, None)) /\ call' = [call EXCEPT ![c].queried = @ \ {s}]
    BY <1>3 DEF RemoveQueried
  <2> DEFINE q == [call[c] EXCEPT !.queried = @ \ {s}]
             rows == One(s, None)
  <2>2. s \in StepId /\ s \in Item /\ None \in Stored /\ View(c) \in Tables
    BY <1>1, Items, Views DEF Stored
  <2>3. /\ rows \in Delta /\ DOMAIN rows = {s} /\ rows[s] = None
        /\ \A i \in Item : Over(rows, View(c))[i] = IF i = s THEN None ELSE View(c)[i]
    <3>1. rows \in Delta /\ DOMAIN rows = {s} /\ rows[s] = None
      BY <2>2, OneIsDelta
    <3> HIDE DEF rows
    <3> QED
      BY <2>2, <3>1, OverTables
  <2>4. call' = [call EXCEPT ![c] = q] /\ call'[c] = q
    BY <1>1, <2>1
  <2>5. /\ q \in Call /\ q.at = "remove" /\ q.op = call[c].op /\ q.arg = call[c].arg
        /\ q.steps = call[c].steps /\ q.found = call[c].found /\ q.queried = call[c].queried \ {s}
    BY <1>1 DEF Call
  <2> HIDE DEF q, rows
  <2>6. Moves(c, q) /\ ~Pending(q)
    BY <1>1, <2>4, <2>5 DEF Moves, Pending, GoodInv, Found
  <2>7. Writes(c, q, rows, {})
    BY <1>1, <2>1, <2>3 DEF Writes, Write, rows, AllGood, Good
  <2>8. View(c)' = Over(rows, View(c))
    BY <1>1, <2>1, <2>3, ViewAfter DEF Write, rows
  <2>9. /\ View(c)'["workflow"] = View(c)["workflow"]
        /\ StepsIn(View(c)') = StepsIn(View(c)) \ {s}
    BY <2>2, <2>3, <2>8, Items DEF StepsIn
  <2>10. call[c].op = "deleteWorkflow" => Left(c)' \subseteq q.queried
    <3>1. call[c].op = "deleteWorkflow" => Left(c) \subseteq call[c].queried
      BY DEF AdaptersInv, LeftInv
    <3>2. Left(c)' = Left(c) \ {s}
      BY <2>4, <2>5, <2>9 DEF Left
    <3> QED
      BY <2>5, <3>1, <3>2
  <2> QED
    BY <2>3, <2>4, <2>5, <2>6, <2>7, <2>9, <2>10 DEF Effect, Clears
<1> QED
  BY <1>2, <1>3

\* The Couchbase adapter.
LEMMA CouchbaseEffects ==
  ASSUME AdaptersInv, UNCHANGED engine, NEW c \in Client, CouchbaseCall(c)
  PROVE  Effect(c) /\ Clears(c)
<1>1. /\ engine = "couchbase" /\ Typed /\ GoodInv /\ ~HasKeys /\ View(c) = db
      /\ "component" \in Parents /\ "workflow" \in Parents
      /\ {"conflict", "unsupported", "ok", "notFound"} \subseteq Answers
      /\ {"remove", "insert"} \subseteq Places \ {"ready"}
      /\ \A v : v = Col(v)
  BY Items, CouchbaseView DEF AdaptersInv, CouchbaseCall, Col, Answers, Places
<1>2. CASE CouchbaseSaveComponent(c) \/ CouchbaseSaveWorkflow(c)
  BY <1>1, <1>2, SaveEffects DEF CouchbaseSaveComponent, CouchbaseSaveWorkflow, Is
<1>3. CASE CouchbaseUpdateComponent(c)
  <2>1. call[c].op = "updateComponent"
    BY <1>3 DEF CouchbaseUpdateComponent, Is
  <2>2. CASE Resolve(c, "component", "insert")
    BY <1>1, <2>1, <2>2, ResolveEffects
  <2>3. CASE ReadDocument(c, "component", IF call[c].arg = "unchanged" THEN db["component"].column
                                          ELSE call[c].arg)
    BY <1>1, <2>1, <2>3, ReadEffects
  <2>4. CASE call[c].at = "replace" /\ ReplaceDocument(c, "component")
    BY <1>1, <2>1, <2>4, ReplaceEffects
  <2> QED
    BY <1>3, <2>2, <2>3, <2>4 DEF CouchbaseUpdateComponent, Is
<1>4. CASE CouchbaseUpdateWorkflow(c)
  <2>1. call[c].op = "updateWorkflow"
    BY <1>4 DEF CouchbaseUpdateWorkflow, Is
  <2>2. CASE Resolve(c, "workflow", "insert")
    BY <1>1, <2>1, <2>2, ResolveEffects
  <2>3. CASE ReadDocument(c, "workflow", IF call[c].arg \in {"unchanged", "undefined"}
                                         THEN db["workflow"].column ELSE call[c].arg)
    BY <1>1, <2>1, <2>3, ReadEffects
  <2>4. CASE call[c].at = "replace" /\ ReplaceDocument(c, "workflow")
    BY <1>1, <2>1, <2>4, ReplaceEffects
  <2> QED
    BY <1>4, <2>2, <2>3, <2>4 DEF CouchbaseUpdateWorkflow, Is
<1>5. CASE CouchbaseDeleteComponent(c)
  <2>1. call[c].op = "deleteComponent"
    BY <1>5 DEF CouchbaseDeleteComponent, Is
  <2>2. CASE Resolve(c, "component", "count")
    BY <1>1, <2>1, <2>2, ResolveEffects
  <2>3. CASE Answer(c, "conflict") /\ NoWrite
    BY <1>1, <2>3, RereadEffects
  <2>4. CASE Goto(c, "remove") /\ NoWrite
    BY <1>1, <2>1, <2>4, GotoEffects
  <2>5. CASE Remove(c, "component", {})
    BY <1>1, <2>1, <2>5, RemoveEffect, OthersClear
  <2> QED
    BY <1>5, <2>2, <2>3, <2>4, <2>5 DEF CouchbaseDeleteComponent
<1>6. CASE CouchbaseDeleteWorkflow(c)
  <2>1. call[c].op = "deleteWorkflow"
    BY <1>6 DEF CouchbaseDeleteWorkflow, Is
  <2>2. CASE Resolve(c, "workflow", "count")
    BY <1>1, <2>1, <2>2, ResolveEffects
  <2>3. CASE call' = [call EXCEPT ![c].queried = StepsIn(db), ![c].at = "remove"] /\ NoWrite
    BY <1>1, <2>3, QueryEffects
  <2>4. CASE call[c].at = "remove" /\ RemoveQueried(c)
    BY <1>1, <2>4, QueriedEffects
  <2>5. CASE call[c].at = "remove" /\ call[c].queried = {} /\ Remove(c, "workflow", {})
    <3>1. Left(c) = {}
      BY <1>1, <2>1, <2>5 DEF AdaptersInv, LeftInv
    <3> QED
      BY <1>1, <2>5, <3>1, RemoveEffect, LastClears
  <2> QED
    BY <1>6, <2>2, <2>3, <2>4, <2>5 DEF CouchbaseDeleteWorkflow, Is
<1>7. CASE CouchbaseSaveWorkflowStep(c)
  <2>1. /\ call[c].op = "saveWorkflowStep" /\ call[c].at \in {"ready", "insert"}
        /\ Pending(call[c])
    BY <1>7 DEF CouchbaseSaveWorkflowStep, Is, Pending
  <2>2. CASE Answer(c, "conflict") /\ NoWrite
    BY <1>1, <2>2, RereadEffects
  <2>3. CASE Goto(c, "insert") /\ NoWrite
    BY <1>1, <2>1, <2>3, GotoEffects
  <2>4. CASE Insert(c, call[c].arg, Row("some", "some"), "conflict", "done")
    BY <1>1, <2>1, <2>4, StepEffects
  <2> QED
    BY <1>7, <2>2, <2>3, <2>4 DEF CouchbaseSaveWorkflowStep
<1>8. CASE CouchbaseDeleteWorkflowSteps(c)
  <2>1. CASE call' = [call EXCEPT ![c].queried = StepsIn(db), ![c].at = "remove"] /\ NoWrite
    BY <1>1, <2>1, QueryEffects
  <2>2. CASE call[c].at = "remove" /\ RemoveQueried(c)
    BY <1>1, <2>2, QueriedEffects
  <2>3. CASE Answer(c, "ok") /\ NoWrite
    BY <1>1, <2>3, RereadEffects
  <2> QED
    BY <1>8, <2>1, <2>2, <2>3 DEF CouchbaseDeleteWorkflowSteps, Is
<1>9. CASE CouchbaseSetConfig(c) \/ CouchbaseDeleteConfig(c)
  BY <1>1, <1>9, ConfigEffects DEF CouchbaseSetConfig, CouchbaseDeleteConfig, Is
<1>10. CASE CouchbaseBegin(c)
  BY <1>1, <1>10, BeginEffects DEF CouchbaseBegin, Is
<1> QED
  BY <1>2, <1>3, <1>4, <1>5, <1>6, <1>7, <1>8, <1>9, <1>10 DEF CouchbaseCall

\* A client's step, on every engine.
LEMMA CallEffects ==
  ASSUME AdaptersInv, NEW c \in Client, Execute(c)
  PROVE  Effect(c) /\ Clears(c)
<1>1. "error" \in Answers /\ UNCHANGED engine
  BY DEF Answers, Execute
<1>2. CASE StatementFails(c)
  BY <1>1, <1>2, RereadEffects DEF StatementFails
<1>3. CASE EngineCall(c)
  BY <1>1, <1>3, SqliteEffects, PostgresEffects, OracleEffects, MongoEffects, CouchbaseEffects
    DEF EngineCall
<1> QED
  BY <1>2, <1>3 DEF Execute

-----------------------------------------------------------------------------
(* Every step keeps the invariant: first the steps of calls.               *)

\* What a write leaves as it was.
LEMMA WhatIsWritten ==
  ASSUME Typed, NEW c \in Client, NEW rows, NEW keys, WriteUnder(c, rows, keys)
  PROVE  /\ DOMAIN tx' = Client /\ \A d \in Client \ {c} : tx'[d] = tx[d]
         /\ Private(c) =>
              /\ db' = db /\ tx[c].open /\ engine # "sqlite"
              /\ tx'[c].delta = Over(rows, tx[c].delta) /\ tx'[c].keys = tx[c].keys \cup keys
              /\ tx'[c].before = tx[c].before /\ tx'[c].open = tx[c].open
         /\ ~Private(c) => db' = Over(rows, db) /\ tx' = tx /\ tx[c].delta = <<>> /\ View(c) = db
<1>1. tx \in [Client -> Tx]
  BY DEF Typed, TxInv
<1>2. ~Private(c) => tx[c].delta = <<>> /\ View(c) = db
  BY DEF Typed, TxInv, Private, NoTx, View
<1>3. CASE Private(c)
  <2>1. db' = db /\ tx' = [tx EXCEPT ![c].delta = Over(rows, @), ![c].keys = @ \cup keys]
    BY <1>3 DEF WriteUnder
  <2> QED
    BY <1>1, <1>3, <2>1 DEF Private, Tx
<1>4. CASE ~Private(c)
  BY <1>1, <1>2, <1>4 DEF WriteUnder
<1> QED
  BY <1>3, <1>4

\* The other calls are as they were.
LEMMA MovedCalls ==
  ASSUME Typed, NEW c \in Client, NEW q, Moves(c, q)
  PROVE  /\ call' \in [Client -> Call] /\ call'[c] = q
         /\ \A d \in Client \ {c} : call'[d] = call[d]
         /\ \A d \in Client : /\ call'[d].op = call[d].op /\ call'[d].arg = call[d].arg
                              /\ call'[d].steps = call[d].steps
BY DEF Typed, Moves

\* The variables keep their types.
LEMMA TypedKept ==
  ASSUME AdaptersInv, NEW c \in Client, Effect(c), UNCHANGED <<engine, made, calls>>
  PROVE  Typed'
<1>1. Typed
  BY DEF AdaptersInv
<1>2. PICK q : /\ Moves(c, q)
               /\ \/ NoWrite
                  \/ Opens(c)
                  \/ \E rows \in Delta, keys \in {{}, Parents} : Writes(c, q, rows, keys)
  BY DEF Effect
<1>3. call' \in [Client -> Call] /\ \A d \in Client : Asked(call'[d])
  <2>1. \A d \in Client : call'[d].op = call[d].op /\ call'[d].arg = call[d].arg
    BY <1>1, <1>2, MovedCalls
  <2>2. \A d \in Client : Asked(call[d])
    BY <1>1 DEF Typed
  <2>3. call' \in [Client -> Call]
    BY <1>1, <1>2, MovedCalls
  <2> QED
    BY <2>1, <2>2, <2>3 DEF Asked
<1>4. db' \in Tables /\ TxInv'
  <2>1. tx \in [Client -> Tx] /\ db \in Tables
    BY <1>1 DEF Typed, TxInv
  <2>2. CASE NoWrite
    BY <1>1, <2>2 DEF NoWrite, Typed, TxInv, Snapshot
  <2>3. CASE Opens(c)
    <3>1. tx[c] \in Tx /\ tx[c].delta = <<>> /\ tx[c].keys = {}
      BY <1>1, <2>1, <2>3 DEF Typed, TxInv, Opens, NoTx
    <3>2. PICK w : /\ tx' = [tx EXCEPT ![c] = w]
                   /\ \/ w = [tx[c] EXCEPT !.open = TRUE, !.before = db]
                      \/ w = [tx[c] EXCEPT !.open = TRUE] /\ engine \notin {"sqlite", "mongodb"}
      BY <2>1, <2>3 DEF Opens
    <3>3. /\ w \in Tx /\ w.open /\ w.delta = <<>> /\ w.keys = {}
          /\ engine \in {"sqlite", "mongodb"} => w.before = db
      BY <2>1, <3>1, <3>2 DEF Tx
    <3>4. db' = db /\ engine # "couchbase" /\ tx' \in [Client -> Tx]
      BY <2>1, <2>3, <3>2, <3>3 DEF Opens
    <3>5. \A d \in Client : tx'[d] = IF d = c THEN w ELSE tx[d]
      BY <2>1, <3>2
    <3> HIDE DEF AdaptersInv
    <3> QED
      BY <1>1, <2>1, <3>3, <3>4, <3>5 DEF Typed, TxInv, Snapshot
  <2>4. ASSUME NEW rows \in Delta, NEW keys \in {{}, Parents}, Writes(c, q, rows, keys)
        PROVE  db' \in Tables /\ TxInv'
    <3>1. WriteUnder(c, rows, keys)
      BY <2>4 DEF Writes
    <3>2. CASE ~Private(c)
      <4>1. db' = Over(rows, db) /\ tx' = tx
        BY <1>1, <3>1, <3>2, WhatIsWritten
      <4> QED
        BY <1>1, <2>1, <4>1, OverTables DEF Typed, TxInv, Snapshot
    <3>3. CASE Private(c)
      <4>1. /\ db' = db /\ tx[c].open /\ engine # "sqlite" /\ tx'[c].open = tx[c].open
            /\ tx'[c].before = tx[c].before
            /\ \A d \in Client \ {c} : tx'[d] = tx[d]
        BY <1>1, <3>1, <3>3, WhatIsWritten
      <4>2. tx' = [tx EXCEPT ![c].delta = Over(rows, @), ![c].keys = @ \cup keys]
        BY <3>1, <3>3 DEF WriteUnder
      <4>3. tx[c] \in Tx /\ tx[c].delta \in Delta
        BY <2>1 DEF Tx
      <4>4. Over(rows, tx[c].delta) \in Delta
        BY <4>3, OverDelta
      <4>5. [tx[c] EXCEPT !.delta = Over(rows, tx[c].delta), !.keys = tx[c].keys \cup keys] \in Tx
        BY <4>3, <4>4 DEF Tx
      <4>6. tx' \in [Client -> Tx]
        BY <2>1, <4>2, <4>5
      <4> QED
        BY <1>1, <2>1, <4>1, <4>6 DEF Typed, TxInv, Snapshot
    <3> QED
      BY <3>2, <3>3
  <2> QED
    BY <1>2, <2>2, <2>3, <2>4
<1> QED
  BY <1>1, <1>3, <1>4 DEF Typed

\* Good rows written over good rows.
LEMMA OverGood ==
  ASSUME NEW f, NEW g, AllGood(f), AllGood(g)
  PROVE  AllGood(Over(f, g))
BY DEF AllGood, Over

\* Whatever is stored reads as it was meant.
LEMMA GoodKept ==
  ASSUME AdaptersInv, NEW c \in Client, Effect(c), UNCHANGED <<engine, made, calls>>
  PROVE  GoodInv'
<1>1. Typed /\ GoodInv /\ tx \in [Client -> Tx]
  BY DEF AdaptersInv, Typed, TxInv
<1>2. PICK q : /\ Moves(c, q)
               /\ \/ NoWrite
                  \/ Opens(c)
                  \/ \E rows \in Delta, keys \in {{}, Parents} : Writes(c, q, rows, keys)
  BY DEF Effect
<1>3. \A row : Good(row)' <=> Good(row)
  BY DEF Good, Field
<1>4. \A t : AllGood(t)' <=> AllGood(t)
  BY <1>3 DEF AllGood
<1>5. \A d \in Client : Found(call[d])'
  BY <1>1, <1>2, <1>3, MovedCalls DEF Moves, GoodInv, Found
<1>6. /\ AllGood(db')
      /\ \A d \in Client : AllGood(tx'[d].delta) /\ (Snapshot(d)' => AllGood(tx'[d].before))
  <2>1. CASE NoWrite
    BY <1>1, <2>1 DEF NoWrite, GoodInv, Snapshot
  <2>2. CASE Opens(c)
    <3>1. /\ db' = db /\ tx'[c].delta = tx[c].delta /\ \A d \in Client \ {c} : tx'[d] = tx[d]
          /\ engine \in {"sqlite", "mongodb"} => tx'[c].before = db
      BY <1>1, <2>2 DEF Opens, Tx
    <3> QED
      BY <1>1, <3>1 DEF GoodInv, Snapshot
  <2>3. ASSUME NEW rows \in Delta, NEW keys \in {{}, Parents}, Writes(c, q, rows, keys)
        PROVE  /\ AllGood(db')
               /\ \A d \in Client : AllGood(tx'[d].delta) /\ (Snapshot(d)' => AllGood(tx'[d].before))
    <3>1. WriteUnder(c, rows, keys) /\ AllGood(rows)
      BY <2>3 DEF Writes
    <3>2. AllGood(Over(rows, db)) /\ AllGood(Over(rows, tx[c].delta))
      BY <1>1, <3>1, OverGood DEF GoodInv
    <3>3. CASE ~Private(c)
      <4>1. db' = Over(rows, db) /\ tx' = tx
        BY <1>1, <3>1, <3>3, WhatIsWritten
      <4> QED
        BY <1>1, <3>2, <4>1 DEF GoodInv, Snapshot
    <3>4. CASE Private(c)
      <4>1. /\ db' = db /\ \A d \in Client \ {c} : tx'[d] = tx[d]
            /\ tx'[c].delta = Over(rows, tx[c].delta) /\ tx'[c].before = tx[c].before
            /\ tx'[c].open = tx[c].open
        BY <1>1, <3>1, <3>4, WhatIsWritten
      <4> QED
        BY <1>1, <3>2, <4>1 DEF GoodInv, Snapshot
    <3> QED
      BY <3>3, <3>4
  <2> QED
    BY <1>2, <2>1, <2>2, <2>3
<1> QED
  BY <1>4, <1>3, <1>5, <1>6 DEF GoodInv

\* Two transactions' writes are sound together, when each is and neither
\* removes a parent while the other adds steps.
LEMMA Merged ==
  ASSUME NEW f \in Delta, NEW g \in Delta, NEW t \in Tables,
         Sound(Over(f, t)), Sound(Over(g, t)),
         \A s \in StepId, p \in Parents :
           /\ s \in DOMAIN f /\ f[s] # None => ~(p \in DOMAIN g /\ g[p] = None)
           /\ s \in DOMAIN g /\ g[s] # None => ~(p \in DOMAIN f /\ f[p] = None)
  PROVE  Sound(Over(f, Over(g, t)))
<1> DEFINE u == Over(g, t)
           w == Over(f, Over(g, t))
<1>1. /\ u \in Tables
      /\ \A i \in Item : u[i] = IF i \in DOMAIN g THEN g[i] ELSE t[i]
      /\ \A i \in Item : Over(f, t)[i] = IF i \in DOMAIN f THEN f[i] ELSE t[i]
  BY OverTables
<1>2. \A i \in Item : w[i] = IF i \in DOMAIN f THEN f[i] ELSE u[i]
  BY <1>1, OverTables
<1> HIDE DEF w, u
<1>3. ASSUME NEW s \in StepId, w[s] # None, NEW p \in Parents
      PROVE  w[p] # None
  <2>1. s \in Item /\ p \in Item
    BY Items
  <2>2. Over(f, t)[s] # None => Over(f, t)[p] # None
    BY DEF Sound, StepsIn, Complete
  <2>3. u[s] # None => u[p] # None
    BY DEF Sound, StepsIn, Complete, u
  <2>4. s \in DOMAIN f /\ f[s] # None => ~(p \in DOMAIN g /\ g[p] = None)
    OBVIOUS
  <2>5. s \in DOMAIN g /\ g[s] # None => ~(p \in DOMAIN f /\ f[p] = None)
    OBVIOUS
  <2> QED
    BY <1>1, <1>2, <1>3, <2>1, <2>2, <2>3, <2>4, <2>5
<1> QED
  BY <1>3 DEF Sound, StepsIn, Complete, w

\* The foreign keys hold.
LEMMA KeysKept ==
  ASSUME AdaptersInv, HasKeys, NEW c \in Client, Effect(c), UNCHANGED <<engine, made, calls>>
  PROVE  KeyInv'
<1>1. Typed /\ KeyInv /\ tx \in [Client -> Tx] /\ db \in Tables
  BY DEF AdaptersInv, Typed, TxInv
<1>2. PICK q : /\ Moves(c, q)
               /\ \/ NoWrite
                  \/ Opens(c)
                  \/ \E rows \in Delta, keys \in {{}, Parents} : Writes(c, q, rows, keys)
  BY DEF Effect
<1>3. CASE NoWrite
  BY <1>1, <1>3 DEF NoWrite, KeyInv, Snapshot, Adds, Drops
<1>4. CASE Opens(c)
  <2>1. /\ db' = db /\ tx'[c].delta = tx[c].delta /\ tx'[c].keys = tx[c].keys
        /\ \A d \in Client \ {c} : tx'[d] = tx[d]
        /\ engine \in {"sqlite", "mongodb"} => tx'[c].before = db
    BY <1>1, <1>4 DEF Opens, Tx
  <2>2. \A d \in Client : tx'[d].delta = tx[d].delta /\ tx'[d].keys = tx[d].keys
    BY <2>1
  <2> QED
    BY <1>1, <2>1, <2>2 DEF KeyInv, Snapshot, Adds, Drops
<1>5. ASSUME NEW rows \in Delta, NEW keys \in {{}, Parents}, Writes(c, q, rows, keys)
      PROVE  KeyInv'
  <2>1. /\ WriteUnder(c, rows, keys)
        /\ Sound(Over(rows, View(c)))
        /\ \A s \in StepId : s \in DOMAIN rows /\ rows[s] # None => keys = Parents
        /\ keys = Parents => Staying(c, Parents)
        /\ \A p \in Parents : p \in DOMAIN rows /\ rows[p] = None => Unneeded(c, p)
    BY <1>5 DEF Writes, Parents
  <2>2. /\ \A d \in Client \ {c}, p \in Parents : keys = Parents => ~Drops(d, p)
        /\ \A d \in Client \ {c}, p \in Parents : p \in DOMAIN rows /\ rows[p] = None => p \notin tx[d].keys
    BY <2>1 DEF Staying, Unneeded, Drops
  <2>3. /\ \A d \in Client : tx[d].delta \in Delta /\ tx[d].keys \subseteq Parents
        /\ View(c) = Over(tx[c].delta, db)
    BY <1>1, Views DEF Tx, HasKeys
  <2>4. CASE ~Private(c)
    <3>1. db' = Over(rows, db) /\ tx' = tx /\ tx[c].delta = <<>> /\ View(c) = db
      BY <1>1, <2>1, <2>4, WhatIsWritten
    <3>2. ASSUME NEW d \in Client
          PROVE  Sound(Over(tx[d].delta, Over(rows, db)))
      <4>1. CASE d = c
        BY <1>1, <2>1, <3>1, <4>1, OverTables, OverNothing
      <4>2. CASE d # c
        <5>1. ASSUME NEW s \in StepId, NEW p \in Parents
              PROVE  /\ Adds(d, s) => ~(p \in DOMAIN rows /\ rows[p] = None)
                     /\ s \in DOMAIN rows /\ rows[s] # None => ~Drops(d, p)
          BY <1>1, <2>1, <2>2, <4>2 DEF KeyInv
        <5>2. Sound(Over(tx[d].delta, db)) /\ Sound(Over(rows, db))
          BY <1>1, <2>1, <3>1 DEF KeyInv
        <5> QED
          BY <1>1, <2>3, <5>1, <5>2, Merged DEF Adds, Drops
      <4> QED
        BY <4>1, <4>2
    <3> QED
      BY <1>1, <2>1, <3>1, <3>2 DEF KeyInv, Snapshot, Adds, Drops
  <2>5. CASE Private(c)
    <3>1. /\ db' = db /\ engine # "sqlite"
          /\ tx'[c].delta = Over(rows, tx[c].delta) /\ tx'[c].keys = tx[c].keys \cup keys
          /\ \A d \in Client \ {c} : tx'[d] = tx[d]
      BY <1>1, <2>1, <2>5, WhatIsWritten
    <3>2. /\ DOMAIN tx'[c].delta = DOMAIN rows \cup DOMAIN tx[c].delta
          /\ \A i \in DOMAIN tx'[c].delta :
               tx'[c].delta[i] = IF i \in DOMAIN rows THEN rows[i] ELSE tx[c].delta[i]
      BY <3>1 DEF Over
    <3>3. Sound(Over(tx'[c].delta, db))
      BY <1>1, <2>1, <2>3, <3>1, OverOver
    <3>4. \A d \in Client : Sound(Over(tx'[d].delta, db'))
      BY <1>1, <3>1, <3>3 DEF KeyInv
    <3>5. \A d \in Client : ~Snapshot(d)'
      BY <3>1 DEF Snapshot, HasKeys
    <3>6. ASSUME NEW d \in Client, NEW s \in StepId, Adds(d, s)'
          PROVE  tx'[d].keys = Parents
      <4>1. CASE d # c
        BY <1>1, <3>1, <3>6, <4>1 DEF KeyInv, Adds
      <4>2. CASE d = c /\ s \in DOMAIN rows
        BY <2>1, <2>3, <3>1, <3>2, <3>6, <4>2 DEF Adds
      <4>3. CASE d = c /\ s \notin DOMAIN rows
        <5>1. Adds(c, s)
          BY <3>2, <3>6, <4>3 DEF Adds
        <5> QED
          BY <1>1, <3>1, <4>3, <5>1 DEF KeyInv
      <4> QED
        BY <4>1, <4>2, <4>3
    <3>7. ASSUME NEW e \in Client, NEW p \in tx'[e].keys, NEW d \in Client \ {e}, Drops(d, p)'
          PROVE  FALSE
      <4>1. CASE e = c
        <5>1. Drops(d, p)
          BY <3>1, <3>7, <4>1 DEF Drops
        <5>2. p \in tx[c].keys \/ (keys = Parents /\ p \in Parents)
          BY <3>1, <4>1
        <5> QED
          BY <1>1, <2>2, <4>1, <5>1, <5>2 DEF KeyInv
      <4>2. CASE e # c /\ d # c
        BY <1>1, <3>1, <3>7, <4>2 DEF KeyInv, Drops
      <4>3. CASE e # c /\ d = c
        <5>1. p \in tx[e].keys /\ p \in Parents
          BY <2>3, <3>1, <4>3
        <5>2. Drops(c, p) \/ (p \in DOMAIN rows /\ rows[p] = None)
          BY <3>2, <3>7, <4>3 DEF Drops
        <5> QED
          BY <1>1, <2>2, <4>3, <5>1, <5>2 DEF KeyInv
      <4> QED
        BY <4>1, <4>2, <4>3
    <3> QED
      BY <1>1, <3>1, <3>4, <3>5, <3>6, <3>7 DEF KeyInv
  <2> QED
    BY <2>4, <2>5
<1> QED
  BY <1>2, <1>3, <1>4, <1>5

\* A step stays in its one place.
LEMMA StepsKept ==
  ASSUME AdaptersInv, NEW c \in Client, Effect(c), UNCHANGED <<engine, made, calls>>
  PROVE  StepInv'
<1>1. Typed /\ StepInv /\ tx \in [Client -> Tx] /\ db \in Tables
  BY DEF AdaptersInv, Typed, TxInv
<1>2. PICK q : /\ Moves(c, q)
               /\ \/ NoWrite
                  \/ Opens(c)
                  \/ \E rows \in Delta, keys \in {{}, Parents} : Writes(c, q, rows, keys)
  BY DEF Effect
<1>3. /\ \A d \in Client : call'[d].steps = call[d].steps
      /\ \A d \in Client, s \in StepId : Awaits(d, s)' => Awaits(d, s)
      /\ ~Pending(q) => \A s \in StepId : ~Awaits(c, s)'
  <2>1. /\ call'[c] = q
        /\ \A d \in Client \ {c} : call'[d] = call[d]
        /\ \A d \in Client : call'[d].arg = call[d].arg /\ call'[d].steps = call[d].steps
    BY <1>1, <1>2, MovedCalls
  <2>2. Pending(q) => Pending(call[c])
    BY <1>2 DEF Moves
  <2> QED
    BY <2>1, <2>2 DEF Awaits, Pending
<1>4. CASE NoWrite \/ Opens(c)
  <2>1. db' = db /\ \A d \in Client : tx'[d].delta = tx[d].delta
    BY <1>1, <1>4 DEF NoWrite, Opens, Tx
  <2>2. \A s \in StepId : Kept(s)' => Kept(s)
    <3>1. CASE NoWrite
      BY <3>1 DEF NoWrite, Kept, Snapshot
    <3>2. CASE Opens(c)
      <4>1. /\ \A d \in Client \ {c} : tx'[d] = tx[d]
            /\ engine \in {"sqlite", "mongodb"} => tx'[c].before = db
        BY <1>1, <3>2 DEF Opens, Tx
      <4> QED
        BY <2>1, <4>1 DEF Kept, Snapshot
    <3> QED
      BY <1>4, <3>1, <3>2
  <2>3. \A d \in Client, s \in StepId : Adds(d, s)' <=> Adds(d, s)
    BY <2>1 DEF Adds
  <2> QED
    BY <1>1, <1>3, <2>2, <2>3 DEF StepInv
<1>5. ASSUME NEW rows \in Delta, NEW keys \in {{}, Parents}, Writes(c, q, rows, keys)
      PROVE  StepInv'
  <2>1. /\ WriteUnder(c, rows, keys)
        /\ \A s \in StepId : s \in DOMAIN rows /\ rows[s] # None => Awaits(c, s) /\ ~Pending(q)
    BY <1>5 DEF Writes
  <2>2. tx[c].delta \in Delta
    BY <1>1 DEF Tx
  <2>3. CASE ~Private(c)
    <3>1. db' = Over(rows, db) /\ tx' = tx
      BY <1>1, <2>1, <2>3, WhatIsWritten
    <3>2. \A s \in StepId : Kept(s)' => Kept(s) \/ (Awaits(c, s) /\ ~Pending(q))
      <4>1. \A s \in StepId : db'[s] = IF s \in DOMAIN rows THEN rows[s] ELSE db[s]
        BY <1>1, <3>1, OverTables, Items
      <4> QED
        BY <2>1, <3>1, <4>1 DEF Kept, Snapshot
    <3>3. \A d \in Client, s \in StepId : Adds(d, s)' <=> Adds(d, s)
      BY <3>1 DEF Adds
    <3> QED
      BY <1>1, <1>3, <3>2, <3>3 DEF StepInv
  <2>4. CASE Private(c)
    <3>1. /\ db' = db /\ tx'[c].delta = Over(rows, tx[c].delta) /\ tx'[c].before = tx[c].before
          /\ tx'[c].open = tx[c].open
          /\ \A d \in Client \ {c} : tx'[d] = tx[d]
      BY <1>1, <2>1, <2>4, WhatIsWritten
    <3>2. \A s \in StepId : Kept(s)' => Kept(s)
      BY <3>1 DEF Kept, Snapshot
    <3>3. \A d \in Client, s \in StepId :
            Adds(d, s)' => Adds(d, s) \/ (d = c /\ Awaits(c, s) /\ ~Pending(q))
      <4>1. /\ DOMAIN tx'[c].delta = DOMAIN rows \cup DOMAIN tx[c].delta
            /\ \A i \in DOMAIN tx'[c].delta :
                 tx'[c].delta[i] = IF i \in DOMAIN rows THEN rows[i] ELSE tx[c].delta[i]
        BY <3>1 DEF Over
      <4> QED
        BY <2>1, <3>1, <4>1 DEF Adds
    <3> QED
      BY <1>1, <1>3, <3>2, <3>3 DEF StepInv
  <2> QED
    BY <2>3, <2>4
<1> QED
  BY <1>2, <1>4, <1>5

\* The other deletions get no further steps to remove.
LEMMA LeftKept ==
  ASSUME AdaptersInv, NEW c \in Client, Effect(c), Clears(c), UNCHANGED <<engine, made, calls>>
  PROVE  LeftInv'
<1>1. Typed /\ LeftInv /\ StepInv /\ tx \in [Client -> Tx] /\ db \in Tables
  BY DEF AdaptersInv, Typed, TxInv
<1>2. PICK q : /\ Moves(c, q)
               /\ \/ NoWrite
                  \/ Opens(c)
                  \/ \E rows \in Delta, keys \in {{}, Parents} : Writes(c, q, rows, keys)
  BY DEF Effect
<1>3. /\ \A d \in Client \ {c} : call'[d] = call[d]
      /\ call'[c].op = call[c].op
  BY <1>1, <1>2, MovedCalls
<1>4. ASSUME NEW d \in Client \ {c}
      PROVE  Left(d)' \subseteq Left(d)
  <2>1. CASE NoWrite
    BY <1>3, <2>1, ViewStays DEF Left
  <2>2. CASE Opens(c)
    <3>1. db' = db /\ tx'[d] = tx[d]
      BY <1>1, <2>2 DEF Opens
    <3> QED
      BY <1>3, <3>1 DEF Left, View, Private
  <2>3. ASSUME NEW rows \in Delta, NEW keys \in {{}, Parents}, Writes(c, q, rows, keys)
        PROVE  Left(d)' \subseteq Left(d)
    <3>1. /\ WriteUnder(c, rows, keys)
          /\ \A s \in StepId : s \in DOMAIN rows /\ rows[s] # None => Awaits(c, s)
      BY <2>3 DEF Writes
    <3>2. CASE Private(c)
      <4>1. db' = db /\ tx'[d] = tx[d]
        BY <1>1, <3>1, <3>2, WhatIsWritten
      <4> QED
        BY <1>3, <4>1 DEF Left, View, Private
    <3>3. CASE ~Private(c)
      <4>1. db' = Over(rows, db) /\ tx' = tx
        BY <1>1, <3>1, <3>3, WhatIsWritten
      <4>2. db' \in Tables /\ \A s \in StepId : db'[s] = IF s \in DOMAIN rows THEN rows[s] ELSE db[s]
        BY <1>1, <4>1, OverTables, Items
      <4>3. /\ tx[d].delta \in Delta
            /\ View(d) = IF engine = "mongodb" /\ tx[d].open THEN Over(tx[d].delta, tx[d].before)
                                                            ELSE Over(tx[d].delta, db)
        BY <1>1, Views
      <4>4. View(d)' = IF engine = "mongodb" /\ tx[d].open THEN Over(tx[d].delta, tx[d].before)
                                                          ELSE Over(tx[d].delta, db')
        <5>1. Typed'
          BY TypedKept
        <5>2. View(d)' = IF engine' = "mongodb" /\ tx'[d].open THEN Over(tx'[d].delta, tx'[d].before)
                                                             ELSE Over(tx'[d].delta, db')
          <6>1. ~Private(d)' => tx'[d].delta = <<>>
            BY <5>1 DEF Typed, TxInv, Private, NoTx
          <6>2. Over(<<>>, db') = db'
            BY <4>2, OverNothing
          <6> QED
            BY <6>1, <6>2 DEF View, Private
        <5> QED
          BY <4>1, <5>2
      <4>5. ASSUME NEW s \in StepId, View(d)'[s] # None, s \in call[d].steps
            PROVE  View(d)[s] # None
        <5>1. CASE engine = "mongodb" /\ tx[d].open
          BY <4>3, <4>4, <4>5, <5>1
        <5>2. CASE ~(engine = "mongodb" /\ tx[d].open)
          <6>1. s \in Item
            BY Items
          <6>2. View(d)'[s] = IF s \in DOMAIN tx[d].delta THEN tx[d].delta[s] ELSE db'[s]
            BY <4>2, <4>3, <4>4, <5>2, <6>1, OverTables
          <6>3. View(d)[s] = IF s \in DOMAIN tx[d].delta THEN tx[d].delta[s] ELSE db[s]
            BY <1>1, <4>3, <5>2, <6>1, OverTables
          <6>4. s \in DOMAIN rows => rows[s] = None
            BY <1>1, <3>1, <4>5 DEF StepInv
          <6> QED
            BY <4>2, <4>5, <6>2, <6>3, <6>4
        <5> QED
          BY <5>1, <5>2
      <4> QED
        BY <1>3, <4>5 DEF Left, StepsIn
    <3> QED
      BY <3>2, <3>3
  <2> QED
    BY <1>2, <2>1, <2>2, <2>3
<1> QED
  BY <1>1, <1>3, <1>4 DEF LeftInv, Clears

-----------------------------------------------------------------------------
(* The other steps, and the theorems.                                      *)

\* A client makes its next call.
LEMMA SubmitKeeps ==
  ASSUME AdaptersInv, NEW c \in Client, Submit(c)
  PROVE  AdaptersInv'
<1>1. /\ Typed /\ GoodInv /\ StepInv /\ LeftInv /\ (HasKeys => KeyInv)
      /\ call \in [Client -> Call] /\ made \subseteq StepId /\ db \in Tables
      /\ UNCHANGED <<engine, db, tx>>
  BY DEF AdaptersInv, Submit, Typed
<1>2. PICK op \in Op \cup {"transaction"} : \E arg \in Arguments(op) :
        /\ call' = [call EXCEPT ![c] = [Idle EXCEPT !.op = op, !.arg = arg, !.at = "ready",
                                                    !.steps = StepsIn(View(c))]]
        /\ made' = made \cup ({arg} \cap StepId)
  BY DEF Submit
<1>3. PICK arg \in Arguments(op) :
        /\ call' = [call EXCEPT ![c] = [Idle EXCEPT !.op = op, !.arg = arg, !.at = "ready",
                                                    !.steps = StepsIn(View(c))]]
        /\ made' = made \cup ({arg} \cap StepId)
  BY <1>2
<1> DEFINE q == [Idle EXCEPT !.op = op, !.arg = arg, !.at = "ready", !.steps = StepsIn(View(c))]
<1>4. StepsIn(View(c)) \subseteq StepId
  BY DEF StepsIn
<1>5. /\ arg \in Optional \cup {"unchanged"} \cup StepId
      /\ op \in {"saveComponent", "saveWorkflow"} => arg \in Optional
      /\ op \in {"updateComponent", "updateWorkflow"} => arg \in Optional \cup {"unchanged"}
      /\ op = "saveWorkflowStep" => arg \in StepId \ made
      /\ op = "setConfig" => arg \in {"empty", "some"}
  BY DEF Arguments, Optional
<1>6. /\ q \in Call /\ Asked(q) /\ q.found = None /\ q.at = "ready" /\ q.op = op /\ q.arg = arg
      /\ q.steps = StepsIn(View(c))
  BY <1>4, <1>5 DEF Call, Idle, Answers, Asked, Op
<1> HIDE DEF q
<1>7. /\ call' \in [Client -> Call] /\ call'[c] = q
      /\ \A d \in Client \ {c} : call'[d] = call[d]
  BY <1>1, <1>3, <1>6 DEF q
<1>8. Typed'
  <2>1. calls' \in 0 .. MaxCalls /\ made' \subseteq StepId
    BY <1>1, <1>3, StoreAssumption DEF Typed, Submit
  <2>2. \A d \in Client : Asked(call'[d])
    BY <1>1, <1>6, <1>7 DEF Typed
  <2>3. TxInv'
    BY <1>1 DEF Typed, TxInv, Snapshot
  <2> QED
    BY <1>1, <1>7, <2>1, <2>2, <2>3 DEF Typed
<1>9. GoodInv'
  <2>1. \A row : Good(row)' <=> Good(row)
    BY <1>1 DEF Good, Field
  <2>2. \A d \in Client : Found(call[d])'
    <3>1. Found(q) /\ \A d \in Client : Found(call[d])
      BY <1>1, <1>6 DEF GoodInv, Good, Found
    <3> QED
      BY <1>7, <2>1, <3>1 DEF Found
  <2>3. \A t : AllGood(t)' <=> AllGood(t)
    BY <2>1 DEF AllGood
  <2> QED
    BY <1>1, <2>1, <2>2, <2>3 DEF GoodInv, Snapshot
<1>10. HasKeys' => KeyInv'
  BY <1>1 DEF HasKeys, KeyInv, Snapshot, Adds, Drops
<1>11. StepInv'
  <2>1. /\ \A s \in StepId : Kept(s)' <=> Kept(s)
        /\ \A d \in Client, s \in StepId : Adds(d, s)' <=> Adds(d, s)
    BY <1>1 DEF Kept, Adds, Snapshot
  <2>2. \A s \in StepId : s \in StepsIn(View(c)) => Kept(s) \/ Adds(c, s)
    <3>1. /\ tx[c].delta \in Delta
          /\ View(c) = IF engine = "mongodb" /\ tx[c].open THEN Over(tx[c].delta, tx[c].before)
                                                          ELSE Over(tx[c].delta, db)
      BY <1>1, Views
    <3>2. engine = "mongodb" /\ tx[c].open => tx[c].before \in Tables
      BY <1>1 DEF Typed, TxInv, Snapshot
    <3>3. CASE engine = "mongodb" /\ tx[c].open
      <4>1. \A s \in StepId : View(c)[s] = IF s \in DOMAIN tx[c].delta THEN tx[c].delta[s]
                                                                     ELSE tx[c].before[s]
        BY <3>1, <3>2, <3>3, OverTables, Items
      <4> QED
        BY <3>3, <4>1 DEF Kept, Adds, Snapshot, StepsIn
    <3>4. CASE ~(engine = "mongodb" /\ tx[c].open)
      <4>1. \A s \in StepId : View(c)[s] = IF s \in DOMAIN tx[c].delta THEN tx[c].delta[s] ELSE db[s]
        BY <1>1, <3>1, <3>4, OverTables, Items
      <4> QED
        BY <4>1 DEF Kept, Adds, StepsIn
    <3> QED
      BY <3>3, <3>4
  <2>3. /\ made \subseteq made'
        /\ \A s \in StepId : Awaits(c, s)' => s \in made' /\ s \notin made
        /\ \A d \in Client \ {c}, s \in StepId : Awaits(d, s)' <=> Awaits(d, s)
    BY <1>3, <1>5, <1>6, <1>7 DEF Awaits, Pending
  <2>4. \A d \in Client : call'[d].steps = IF d = c THEN StepsIn(View(c)) ELSE call[d].steps
    BY <1>6, <1>7
  <2>5. \A s \in StepId : Kept(s) => s \in made
    BY <1>1 DEF StepInv
  <2>6. \A d \in Client, s \in StepId : Adds(d, s) => s \in made
    BY <1>1 DEF StepInv
  <2>7. \A d \in Client : call'[d].steps \subseteq made
    BY <1>1, <1>4, <2>2, <2>4, <2>5, <2>6 DEF StepInv
  <2>8. ASSUME NEW d \in Client, NEW s \in StepId, Awaits(d, s)'
        PROVE  /\ s \in made' /\ ~Kept(s)'
               /\ \A e \in Client : /\ ~Adds(e, s)' /\ s \notin call'[e].steps
                                    /\ Awaits(e, s)' => e = d
    <3>1. CASE d = c
      <4>1. s \notin made /\ s \in made'
        BY <2>3, <2>8, <3>1
      <4>2. \A e \in Client \ {c} : Awaits(e, s) => s \in made
        BY <1>1 DEF StepInv
      <4> QED
        BY <2>1, <2>3, <2>5, <2>6, <2>7, <3>1, <4>1, <4>2
    <3>2. CASE d # c
      <4>1. Awaits(d, s)
        BY <2>3, <2>8, <3>2
      <4>2. /\ s \in made /\ ~Kept(s)
            /\ \A e \in Client : ~Adds(e, s) /\ s \notin call[e].steps /\ (Awaits(e, s) => e = d)
        BY <1>1, <4>1 DEF StepInv
      <4> QED
        BY <2>1, <2>2, <2>3, <2>4, <3>2, <4>2
    <3> QED
      BY <3>1, <3>2
  <2>9. ASSUME NEW d \in Client, NEW s \in StepId, Adds(d, s)'
        PROVE  /\ s \in made' /\ ~Kept(s)'
               /\ \A e \in Client \ {d} : ~Adds(e, s)' /\ s \notin call'[e].steps
    <3>1. /\ s \in made /\ ~Kept(s)
          /\ \A e \in Client \ {d} : ~Adds(e, s) /\ s \notin call[e].steps
      BY <1>1, <2>1, <2>9 DEF StepInv
    <3> QED
      BY <2>1, <2>2, <2>3, <2>4, <3>1
  <2> QED
    BY <2>1, <2>3, <2>5, <2>7, <2>8, <2>9 DEF StepInv
<1>12. LeftInv'
  <2>1. \A d \in Client : View(d)' = View(d)
    BY <1>1 DEF View, Private
  <2> QED
    BY <1>1, <1>6, <1>7, <2>1 DEF LeftInv, Left
<1> QED
  BY <1>8, <1>9, <1>10, <1>11, <1>12 DEF AdaptersInv

\* A transaction is over, or begins anew: its writes are applied or dropped.
LEMMA EndKeeps ==
  ASSUME AdaptersInv, NEW c \in Client, tx[c].open, UNCHANGED <<engine, made, calls>>,
         NEW a \in Answers,
         call' = [call EXCEPT ![c] = [Idle EXCEPT !.op = "transaction", !.answer = a]],
         \/ tx' = [tx EXCEPT ![c] = NoTx]
         \/ tx' = [tx EXCEPT ![c] = [NoTx EXCEPT !.open = TRUE, !.before = db]] /\ engine = "mongodb",
         \/ db' = db
         \/ db' = Over(tx[c].delta, db)
         \/ engine = "sqlite" /\ db' = tx[c].before
  PROVE  AdaptersInv'
<1>1. /\ Typed /\ GoodInv /\ StepInv /\ LeftInv /\ (HasKeys => KeyInv)
      /\ call \in [Client -> Call] /\ db \in Tables /\ tx \in [Client -> Tx]
      /\ tx[c].delta \in Delta /\ <<>> \in Delta /\ DOMAIN <<>> = {}
      /\ engine = "sqlite" => tx[c].before \in Tables /\ tx[c].delta = <<>>
      /\ engine # "couchbase"
  BY OverNothing DEF AdaptersInv, Typed, TxInv, Tx, Snapshot
<1> DEFINE q == [Idle EXCEPT !.op = "transaction", !.answer = a]
<1>2. q \in Call /\ Asked(q) /\ q.found = None /\ q.op = "transaction" /\ q.steps = {}
      /\ q.at = "done"
  BY DEF Call, Idle, Answers, Asked, Optional
<1> HIDE DEF q
<1>3. /\ call' \in [Client -> Call] /\ call'[c] = q
      /\ \A d \in Client \ {c} : call'[d] = call[d]
  BY <1>1, <1>2 DEF q
<1>4. PICK w : /\ tx' = [tx EXCEPT ![c] = w]
               /\ w = NoTx \/ (w = [NoTx EXCEPT !.open = TRUE, !.before = db] /\ engine = "mongodb")
  OBVIOUS
<1>5. /\ w \in Tx /\ w.delta = <<>> /\ w.keys = {}
      /\ w.open => engine = "mongodb" /\ w.before = db
      /\ ~w.open => w = NoTx
  <2>1. CASE w = NoTx
    <3>1. NoTx \in Tx
      BY <1>1 DEF NoTx, Tx
    <3>2. NoTx.delta = <<>> /\ NoTx.keys = {} /\ NoTx.open = FALSE
      BY DEF NoTx
    <3>3. w \in Tx /\ w.delta = <<>> /\ w.keys = {} /\ w.open = FALSE
      BY <2>1, <3>1, <3>2, Zenon
    <3> QED
      BY <2>1, <3>3
  <2>2. CASE w = [NoTx EXCEPT !.open = TRUE, !.before = db] /\ engine = "mongodb"
    <3>1. w = [open |-> TRUE, before |-> db, delta |-> <<>>, keys |-> {}]
      BY <2>2 DEF NoTx
    <3>2. w.open = TRUE /\ w.before = db /\ w.delta = <<>> /\ w.keys = {}
      BY <3>1
    <3>3. db \in Tables \cup {<<>>} /\ <<>> \in Delta /\ {} \in SUBSET Parents
      BY <1>1
    <3>4. w \in Tx
      BY <3>1, <3>3 DEF Tx
    <3> QED
      BY <2>2, <3>2, <3>4, Zenon
  <2> QED
    BY <1>4, <2>1, <2>2
<1>6. /\ tx' \in [Client -> Tx] /\ tx'[c] = w
      /\ \A d \in Client \ {c} : tx'[d] = tx[d]
  BY <1>1, <1>4, <1>5
<1>7. db' \in Tables
  BY <1>1, OverTables
<1>8. Typed'
  <2>1. \A d \in Client : Asked(call'[d])
    BY <1>1, <1>2, <1>3 DEF Typed
  <2>2. TxInv'
    BY <1>1, <1>5, <1>6 DEF Typed, TxInv, Snapshot
  <2> QED
    BY <1>1, <1>3, <1>7, <2>1, <2>2 DEF Typed
<1>9. GoodInv'
  <2>1. \A row : Good(row)' <=> Good(row)
    BY DEF Good, Field
  <2>2. \A t : AllGood(t)' <=> AllGood(t)
    BY <2>1 DEF AllGood
  <2>3. \A d \in Client : Found(call[d])'
    <3>1. Found(q) /\ \A d \in Client : Found(call[d])
      BY <1>1, <1>2 DEF GoodInv, Good, Found
    <3> QED
      BY <1>3, <2>1, <3>1 DEF Found
  <2>4. AllGood(db')
    <3>1. AllGood(Over(tx[c].delta, db)) /\ AllGood(db) /\ (engine = "sqlite" => AllGood(tx[c].before))
      BY <1>1, OverGood DEF GoodInv, Snapshot
    <3> QED
      BY <3>1
  <2>5. \A d \in Client : AllGood(tx'[d].delta) /\ (Snapshot(d)' => AllGood(tx'[d].before))
    <3>1. AllGood(<<>>)
      BY <1>1 DEF AllGood
    <3> QED
      BY <1>1, <1>5, <1>6, <3>1 DEF GoodInv, Snapshot
  <2> QED
    BY <2>1, <2>2, <2>3, <2>4, <2>5 DEF GoodInv
<1>10. ASSUME HasKeys PROVE KeyInv'
  <2>1. KeyInv /\ tx[c].open /\ engine # "mongodb"
    BY <1>1, <1>10 DEF HasKeys
  <2>2. Sound(db')
    BY <2>1 DEF KeyInv, Snapshot
  <2>3. ASSUME NEW d \in Client
        PROVE  Sound(Over(tx'[d].delta, db'))
    <3>1. CASE d = c
      <4>1. Over(<<>>, db') = db'
        BY <1>7, OverNothing
      <4> QED
        BY <1>5, <1>6, <2>2, <3>1, <4>1
    <3>2. CASE d # c /\ db' = db
      BY <1>6, <2>1, <3>2 DEF KeyInv
    <3>3. CASE d # c /\ engine = "sqlite" /\ db' = tx[c].before
      <4>1. tx'[d].delta = <<>>
        BY <1>1, <1>6, <3>3 DEF Typed, TxInv
      <4>2. Over(<<>>, db') = db'
        BY <1>7, OverNothing
      <4> QED
        BY <2>2, <4>1, <4>2
    <3>4. CASE d # c /\ db' = Over(tx[c].delta, db)
      <4>1. tx[d].delta \in Delta
        BY <1>1 DEF Tx
      <4>2. Sound(Over(tx[d].delta, db)) /\ Sound(Over(tx[c].delta, db))
        BY <2>1 DEF KeyInv
      <4>3. \A s \in StepId, p \in Parents :
              /\ Adds(d, s) => ~Drops(c, p)
              /\ Adds(c, s) => ~Drops(d, p)
        BY <2>1, <3>4 DEF KeyInv
      <4>4. Sound(Over(tx[d].delta, Over(tx[c].delta, db)))
        BY <1>1, <4>1, <4>2, <4>3, Merged DEF Adds, Drops
      <4> QED
        BY <1>6, <3>4, <4>4
    <3> QED
      BY <3>1, <3>2, <3>3, <3>4
  <2>4. \A d \in Client : Snapshot(d)' => d # c
    BY <1>5, <1>6, <2>1 DEF Snapshot
  <2>5. \A i : ~Adds(c, i)' /\ ~Drops(c, i)'
    BY <1>1, <1>5, <1>6 DEF Adds, Drops
  <2>6. \A d \in Client \ {c} : \A i : (Adds(d, i)' <=> Adds(d, i)) /\ (Drops(d, i)' <=> Drops(d, i))
    BY <1>6 DEF Adds, Drops
  <2>7. \A d \in Client : Snapshot(d)' => Sound(tx'[d].before)
    BY <1>6, <2>1, <2>4 DEF KeyInv, Snapshot
  <2>8. \A d \in Client, s \in StepId : Adds(d, s)' => tx'[d].keys = Parents
    BY <1>6, <2>1, <2>5, <2>6 DEF KeyInv
  <2>9. \A e \in Client : \A p \in tx'[e].keys, d \in Client \ {e} : ~Drops(d, p)'
    BY <1>5, <1>6, <2>1, <2>5, <2>6 DEF KeyInv
  <2> QED
    BY <2>2, <2>3, <2>7, <2>8, <2>9 DEF KeyInv
<1>11. \A s \in StepId : db'[s] # None => Kept(s) \/ Adds(c, s)
  <2>1. \A s \in StepId :
          Over(tx[c].delta, db)[s] = IF s \in DOMAIN tx[c].delta THEN tx[c].delta[s] ELSE db[s]
    BY <1>1, OverTables, Items
  <2> QED
    BY <2>1 DEF Kept, Adds, Snapshot
<1>12. StepInv'
  <2>1. \A s \in StepId : Kept(s)' => Kept(s) \/ Adds(c, s)
    BY <1>5, <1>6, <1>11 DEF Kept, Snapshot
  <2>2. \A d \in Client, s \in StepId : Adds(d, s)' => d # c /\ Adds(d, s)
    BY <1>1, <1>5, <1>6 DEF Adds
  <2>3. \A d \in Client, s \in StepId : Awaits(d, s)' => d # c /\ Awaits(d, s)
    BY <1>2, <1>3 DEF Awaits, Pending
  <2>4. \A d \in Client : call'[d].steps \subseteq call[d].steps
    BY <1>2, <1>3
  <2> QED
    BY <1>1, <2>1, <2>2, <2>3, <2>4 DEF StepInv
<1>13. LeftInv'
  <2>1. ASSUME NEW d \in Client \ {c}, engine = "mongodb"
        PROVE  Left(d)' \subseteq Left(d)
    <3>1. /\ tx[d].delta \in Delta
          /\ View(d) = IF tx[d].open THEN Over(tx[d].delta, tx[d].before) ELSE Over(tx[d].delta, db)
          /\ tx[d].open => tx[d].before \in Tables
          /\ ~tx[d].open => tx[d].delta = <<>>
      BY <1>1, <2>1, Views DEF Typed, TxInv, NoTx, Snapshot
    <3>2. tx[d].open => View(d)' = View(d)
      BY <1>6, <2>1 DEF View, Private
    <3>3. ~tx[d].open => View(d)' = db' /\ View(d) = db
      BY <1>6, <2>1 DEF View, Private
    <3>4. \A s \in StepId : db'[s] # None => db[s] # None \/ Adds(c, s)
      <4>1. \A s \in StepId :
              Over(tx[c].delta, db)[s] = IF s \in DOMAIN tx[c].delta THEN tx[c].delta[s] ELSE db[s]
        BY <1>1, OverTables, Items
      <4> QED
        BY <2>1, <4>1 DEF Adds
    <3>5. \A s \in call[d].steps : s \in StepId => ~Adds(c, s)
      BY <1>1 DEF StepInv
    <3> QED
      BY <1>3, <3>2, <3>3, <3>4, <3>5 DEF Left, StepsIn
  <2>2. call'[c].op # "deleteWorkflow"
    BY <1>2, <1>3
  <2> QED
    BY <1>1, <1>3, <2>1, <2>2 DEF LeftInv
<1> QED
  BY <1>8, <1>9, <1>10, <1>12, <1>13 DEF AdaptersInv, HasKeys

\* A deployment in use has its foreign keys in order.
LEMMA InitKeeps == Init => AdaptersInv
<1> SUFFICES ASSUME Init PROVE AdaptersInv
  OBVIOUS
<1>1. PICK present \in SUBSET (Parents \cup StepId) :
        /\ present \cap StepId # {} => Parents \subseteq present
        /\ db = [i \in Item |-> IF i \in present THEN Row("some", "some") ELSE None]
  BY DEF Init
<1>2. /\ engine \in Engines /\ call = [c \in Client |-> Idle] /\ tx = [c \in Client |-> NoTx]
      /\ made = StepsIn(db) /\ calls = 0
  BY DEF Init
<1>3. Row("some", "some") \in Stored /\ Row("some", "some") # None /\ Good(Row("some", "some"))
  <2>1. "some" \in Optional /\ Col("some") = "some"
    BY DEF Optional, Col
  <2> QED
    BY <2>1, SavedRow
<1>4. /\ db \in Tables /\ DOMAIN db = Item
      /\ \A i \in Item : db[i] = IF i \in present THEN Row("some", "some") ELSE None
  BY <1>1, <1>3 DEF Tables, Stored
<1>5. <<>> \in Delta /\ DOMAIN <<>> = {} /\ Over(<<>>, db) = db
  BY <1>4, OverNothing
<1>6. NoTx \in Tx /\ Idle \in Call /\ Asked(Idle)
  BY <1>5 DEF NoTx, Tx, Idle, Call, Asked, Answers
<1>7. /\ \A c \in Client : tx[c] = NoTx /\ call[c] = Idle
      /\ ~NoTx.open /\ NoTx.delta = <<>> /\ NoTx.keys = {}
      /\ Idle.found = None /\ Idle.at = "done" /\ Idle.steps = {} /\ Idle.op = "none"
  BY <1>2 DEF NoTx, Idle
<1>8. Typed
  <2>1. made \subseteq StepId /\ calls \in 0 .. MaxCalls
    BY <1>2, StoreAssumption DEF StepsIn
  <2>2. TxInv
    BY <1>2, <1>6, <1>7 DEF TxInv, Snapshot
  <2> QED
    BY <1>2, <1>4, <1>6, <2>1, <2>2 DEF Typed
<1>9. GoodInv
  <2>1. AllGood(db)
    BY <1>3, <1>4 DEF AllGood, Good
  <2>2. AllGood(<<>>) /\ Good(None)
    BY <1>5 DEF AllGood, Good
  <2> QED
    BY <1>7, <2>1, <2>2 DEF GoodInv, Found, Snapshot
<1>10. KeyInv
  <2>1. Sound(db)
    <3>1. ASSUME NEW s \in StepId, db[s] # None, NEW p \in Parents PROVE db[p] # None
      <4>1. s \in present /\ p \in present /\ p \in Item
        BY <1>1, <1>4, <3>1, Items
      <4> QED
        BY <1>3, <1>4, <4>1
    <3> QED
      BY <3>1 DEF Sound, StepsIn, Complete
  <2> QED
    BY <1>5, <1>7, <2>1 DEF KeyInv, Snapshot, Adds, Drops
<1>11. StepInv
  <2>1. \A s \in StepId : Kept(s) => s \in made
    BY <1>2, <1>7 DEF Kept, Snapshot, StepsIn
  <2>2. \A c \in Client : \A s : ~Awaits(c, s) /\ ~Adds(c, s)
    BY <1>5, <1>7 DEF Awaits, Pending, Adds
  <2> QED
    BY <1>7, <2>1, <2>2 DEF StepInv
<1>12. LeftInv
  BY <1>7 DEF LeftInv
<1> QED
  BY <1>8, <1>9, <1>10, <1>11, <1>12 DEF AdaptersInv

\* The end of a transaction, in each of its ways.
LEMMA EndsKeep ==
  ASSUME AdaptersInv, NEW c \in Client,
         Commit(c) \/ CommitUnanswered(c) \/ Rollback(c) \/ MongoRetry(c)
  PROVE  AdaptersInv'
<1>1. /\ tx[c].open /\ UNCHANGED <<engine, made, calls>>
      /\ "ok" \in Answers /\ "error" \in Answers /\ "conflict" \in Answers
      /\ call[c].answer \in Answers
  BY DEF Commit, CommitUnanswered, Rollback, MongoRetry, InCallback, End, Answers,
         AdaptersInv, Typed, Call
<1>2. CASE Commit(c) \/ CommitUnanswered(c) \/ Rollback(c)
  <2>1. PICK a \in Answers : End(c, a)
    <3>1. CASE Commit(c) \/ CommitUnanswered(c)
      BY <1>1, <3>1 DEF Commit, CommitUnanswered
    <3>2. CASE Rollback(c)
      <4> DEFINE a == CASE call[c].answer = "ok" -> "error"
                        [] engine = "sqlite" -> SqliteTranslated(call[c])
                        [] OTHER -> call[c].answer
      <4>1. a \in Answers
        BY <1>1 DEF SqliteTranslated
      <4>2. End(c, a)
        BY <3>2 DEF Rollback
      <4> QED
        BY <4>1, <4>2
    <3> QED
      BY <1>2, <3>1, <3>2
  <2>2. \/ db' = db
        \/ db' = Over(tx[c].delta, db)
        \/ engine = "sqlite" /\ db' = tx[c].before
    BY <1>2 DEF Commit, CommitUnanswered, Rollback, SqliteCommit, SqliteRollback
  <2> QED
    BY <1>1, <2>1, <2>2, EndKeeps DEF End
<1>3. CASE MongoRetry(c)
  BY <1>1, <1>3, EndKeeps DEF MongoRetry
<1> QED
  BY <1>2, <1>3

\* No step leaves the invariant.
LEMMA NextKeeps ==
  ASSUME AdaptersInv, [Next]_vars
  PROVE  AdaptersInv'
<1>1. CASE UNCHANGED vars
  BY <1>1 DEF vars, AdaptersInv, Typed, TxInv, Asked, GoodInv, AllGood, Found, Good, Field, Snapshot,
              HasKeys, KeyInv, Adds, Drops, StepInv, Kept, Awaits, LeftInv, Left, View, Private
<1>2. ASSUME NEW c \in Client, Execute(c) PROVE AdaptersInv'
  <2>1. Effect(c) /\ Clears(c) /\ UNCHANGED <<engine, made, calls>>
    BY <1>2, CallEffects DEF Execute
  <2> QED
    BY <2>1, TypedKept, GoodKept, KeysKept, StepsKept, LeftKept DEF AdaptersInv, HasKeys
<1>3. CASE Next
  BY <1>2, <1>3, SubmitKeeps, EndsKeep DEF Next
<1> QED
  BY <1>1, <1>3

\* Nobody's call changes but the caller's, who writes no table while in a
\* transaction of another engine than SQLite.
LEMMA CallersStep ==
  ASSUME AdaptersInv, NEW c \in Client, Next, call'[c] # call[c]
  PROVE  Submit(c) \/ Execute(c) \/ Commit(c) \/ CommitUnanswered(c) \/ Rollback(c) \/ MongoRetry(c)
<1>1. PICK d \in Client :
        Submit(d) \/ Execute(d) \/ Commit(d) \/ CommitUnanswered(d) \/ Rollback(d) \/ MongoRetry(d)
  BY DEF Next
<1>2. Execute(d) /\ d # c => call'[c] = call[c]
  BY CallEffects, MovedCalls DEF Effect, AdaptersInv
<1>3. ~Execute(d) /\ d # c => call'[c] = call[c]
  BY <1>1 DEF Submit, Commit, CommitUnanswered, Rollback, MongoRetry, End, AdaptersInv, Typed
<1> QED
  BY <1>1, <1>2, <1>3

(* AdaptersInv holds in every reachable state, for any clients, steps and     *)
(* engines: tables, calls and transactions have their types, rows read as    *)
(* they were meant unless they are undone, the locks keep foreign keys sound, a step id is in one    *)
(* place, and a deletion only loses steps.                                   *)
THEOREM AdaptersSafety == Spec => []AdaptersInv
<1>1. Init => AdaptersInv
  BY InitKeeps
<1>2. AdaptersInv /\ [Next]_vars => AdaptersInv'
  BY NextKeeps
<1> QED
  BY <1>1, <1>2, PTL DEF Spec

(* An optional field that is saved and updated through any of the five       *)
(* adapters reads as the last call that set it and was not rolled back left  *)
(* it, absent staying absent, by DBAdapter's row-to-object conversions;      *)
(* apart are Oracle's empty string, and on Couchbase a field that an update  *)
(* has put back over what another call set since it had read the document.   *)
THEOREM FieldsReadBack == Spec => []ReadBack
<1>1. AdaptersInv => ReadBack
  <2> SUFFICES ASSUME AdaptersInv PROVE ReadBack
    OBVIOUS
  <2>1. Typed /\ GoodInv /\ tx \in [Client -> Tx] /\ db \in Tables
    BY DEF AdaptersInv, Typed, TxInv
  <2>2. \A i \in Item : db[i] \in Stored /\ Good(db[i])
    BY <2>1 DEF GoodInv, AllGood, Tables, Stored
  <2>3. TypeOK
    <3>1. engine # "couchbase" =>
            \A i \in Item : db[i].column # "undefined" /\ db[i].meant # "undone"
      BY <2>2 DEF Good, None
    <3>2. ASSUME NEW c \in Client
          PROVE  /\ tx[c].open \in BOOLEAN
                 /\ tx[c].delta \in [DOMAIN tx[c].delta -> UNION {{None}, Rows}]
                 /\ DOMAIN tx[c].delta \subseteq Item
                 /\ tx[c].keys \subseteq Parents
      <4>1. tx[c] \in Tx
        BY <2>1
      <4>2. PICK items \in SUBSET Item : tx[c].delta \in [items -> Stored]
        BY <4>1 DEF Tx, Delta
      <4>3. Stored = UNION {{None}, Rows}
        BY DEF Stored
      <4> QED
        BY <4>1, <4>2, <4>3 DEF Tx
    <3> QED
      BY <2>1, <3>1, <3>2 DEF TypeOK, Typed
  <2> DEFINE reads(row) == IF row = None THEN "none" ELSE Field(row)
  <2>4. /\ Components(db) = reads(db["component"])
        /\ Workflows(db) = reads(db["workflow"])
        /\ Config(db) = reads(db["config"])
    <3>1. engine \in {"sqlite", "postgres", "oracle", "mongodb", "couchbase"}
      BY <2>1, StoreAssumption DEF Typed
    <3>2. \A row : /\ engine = "sqlite" => SqliteField(row) = reads(row)
                   /\ engine = "postgres" => PostgresField(row) = reads(row)
                   /\ engine = "oracle" => OracleField(row) = reads(row)
                   /\ engine = "mongodb" => MongoField(row) = reads(row)
                   /\ engine = "couchbase" => CouchbaseField(row) = reads(row)
      BY DEF SqliteField, PostgresField, OracleField, MongoField, CouchbaseField, Field
    <3> HIDE DEF reads
    <3> QED
      BY <3>1, <3>2 DEF Components, Workflows, Config,
         SqliteComponents, SqliteWorkflows, SqliteConfig,
         PostgresComponents, PostgresWorkflows, PostgresConfig,
         OracleComponents, OracleWorkflows, OracleConfig,
         MongoComponents, MongoWorkflows, MongoConfig,
         CouchbaseComponents, CouchbaseWorkflows, CouchbaseConfig
  <2>5. \A i \in {"component", "workflow", "config"} : db[i] # None /\ db[i].meant # "undone" =>
          reads(db[i]) = IF engine = "oracle" /\ db[i].meant = "empty" THEN "undefined"
                         ELSE db[i].meant
    BY <2>2, Items DEF Good, Parents
  <2> HIDE DEF reads
  <2> DEFINE read == [component |-> Components(db), workflow |-> Workflows(db), config |-> Config(db)]
  <2>6. /\ DOMAIN read = {"component", "workflow", "config"}
        /\ \A i \in {"component", "workflow", "config"} : read[i] = reads(db[i])
    BY <2>4
  <2> QED
    BY <2>3, <2>5, <2>6 DEF ReadBack
<1> QED
  BY <1>1, AdaptersSafety, PTL

(* With foreign keys no step is without its workflow or its component, in    *)
(* the tables or in what a transaction sees, however inserts, cascades and   *)
(* commits of any clients interleave.                                        *)
THEOREM KeysHold == Spec => []NoOrphan
<1>1. AdaptersInv => NoOrphan
  <2> SUFFICES ASSUME AdaptersInv, engine \in {"sqlite", "postgres", "oracle"},
                      NEW t \in {db} \cup {View(c) : c \in Client}, Steps(t) # {}
               PROVE  Complete(t)
    BY DEF NoOrphan
  <2>1. Typed /\ KeyInv
    BY DEF AdaptersInv, HasKeys
  <2>2. Sound(t)
    <3>1. CASE t = db
      BY <2>1, <3>1 DEF KeyInv
    <3>2. ASSUME NEW c \in Client, t = View(c) PROVE Sound(t)
      <4>1. View(c) = Over(tx[c].delta, db)
        BY <2>1, Views
      <4> QED
        BY <2>1, <3>2, <4>1 DEF KeyInv
    <3> QED
      BY <3>1, <3>2
  <2> QED
    BY <2>1, <2>2, StepsAre DEF Sound
<1> QED
  BY <1>1, AdaptersSafety, PTL

(* deleteWorkflow never removes a workflow while one of the steps it had at  *)
(* the call is there, on any engine, whatever the other clients do.          *)
THEOREM DeletionsTakeSteps == Spec => WorkflowTakesItsSteps
<1> DEFINE Takes == \A c \in Client :
             (/\ call[c].op = "deleteWorkflow" /\ call[c].at # "done" /\ call'[c] # call[c]
              /\ View(c)["workflow"] # None /\ View(c)'["workflow"] = None)
               => call[c].steps \cap Steps(View(c))' = {}
<1>1. ASSUME AdaptersInv, [Next]_vars PROVE Takes
  <2> SUFFICES ASSUME NEW c \in Client, call[c].op = "deleteWorkflow", call[c].at # "done",
                      call'[c] # call[c],
                      View(c)["workflow"] # None, View(c)'["workflow"] = None
               PROVE  call[c].steps \cap Steps(View(c))' = {}
    OBVIOUS
  <2>1. Next
    BY <1>1 DEF vars
  <2>2. Execute(c)
    BY <1>1, <2>1, CallersStep DEF Submit, Commit, CommitUnanswered, Rollback, MongoRetry, InCallback
  <2>3. Clears(c)
    BY <1>1, <2>2, CallEffects
  <2> QED
    BY <2>3 DEF Clears
<1>2. AdaptersInv /\ [Next]_vars => [Takes]_vars
  BY <1>1
<1> QED
  BY <1>2, AdaptersSafety, PTL DEF Spec, WorkflowTakesItsSteps

(* In a transaction of PostgreSQL, Oracle or MongoDB no method writes to the *)
(* tables, and its end applies all that it wrote, or nothing.                *)
THEOREM TransactionsAreWhole == Spec => AllOrNothing
<1> DEFINE Whole == \A c \in Client : Networked /\ tx[c].open /\ call'[c] # call[c] =>
             \/ db' = db
             \/ ~tx'[c].open /\ db' = Over(tx[c].delta, db)
<1>1. ASSUME AdaptersInv, [Next]_vars PROVE Whole
  <2> SUFFICES ASSUME NEW c \in Client, Networked, tx[c].open, call'[c] # call[c]
               PROVE  \/ db' = db
                      \/ ~tx'[c].open /\ db' = Over(tx[c].delta, db)
    OBVIOUS
  <2>1. Next
    BY <1>1 DEF vars
  <2>2. Typed /\ tx \in [Client -> Tx] /\ engine # "sqlite" /\ Private(c)
    BY <1>1 DEF AdaptersInv, Typed, TxInv, Networked, Private
  <2>3. CASE Execute(c)
    <3>1. Effect(c)
      BY <1>1, <2>3, CallEffects
    <3>2. Opens(c) \/ NoWrite => db' = db
      BY DEF Opens, NoWrite
    <3>3. \A rows, keys : WriteUnder(c, rows, keys) => db' = db
      BY <2>2 DEF WriteUnder
    <3> QED
      BY <3>1, <3>2, <3>3 DEF Effect, Writes
  <2>4. CASE Submit(c) \/ MongoRetry(c)
    BY <2>4 DEF Submit, MongoRetry
  <2>5. CASE Commit(c) \/ CommitUnanswered(c) \/ Rollback(c)
    <3>1. tx'[c].open = FALSE
      BY <2>2, <2>5 DEF Commit, CommitUnanswered, Rollback, End, NoTx
    <3> QED
      BY <2>2, <2>5, <3>1 DEF Commit, CommitUnanswered, Rollback
  <2> QED
    BY <1>1, <2>1, <2>3, <2>4, <2>5, CallersStep
<1>2. AdaptersInv /\ [Next]_vars => [Whole]_vars
  BY <1>1
<1> QED
  BY <1>2, AdaptersSafety, PTL DEF Spec, AllOrNothing
=============================================================================
