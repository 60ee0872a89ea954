---------------------------- MODULE Expressions ----------------------------
(***************************************************************************)
(* The language of conditions and validation rules: its recursive descent  *)
(* parser, its evaluation, and, for comparison, its grammar with the value *)
(* of each production.  An expression is the sequence of its tokens; white *)
(* space and the spelling of literals are left out.                        *)
(***************************************************************************)
EXTENDS Templates

\* The tokens that begin with "{$", and the strings they stand for.
Path == [pathA |-> <<"{", "$", "context", ".", "a", "}">>,
         pathX |-> <<"{", "$", "env", ".", "X", "}">>,
         noRoot |-> <<"{", "$", "a", ".", "b", "}">>,
         noPath |-> <<"{", "$", " ", "}">>]
Literal == [one |-> Num(1), null |-> Null, true |-> Bool(TRUE), text |-> Text(<<"x">>)]
Operators == {"==", "!=", "<", ">="}

Source(e) ==
  FlattenSeq([i \in DOMAIN e |-> IF e[i] \in DOMAIN Path THEN Path[e[i]] ELSE <<e[i]>>])

IsRootedPath(s) == ParsesAsPath(s) /\ Head(Segments(s)) \in Roots   \* assertValidPath

\* The tokenizer throws at a path it cannot use, and at anything it does not know.
Tokenizes(e) ==
  \A i \in DOMAIN e :
    IF e[i] \in DOMAIN Path THEN IsRootedPath(Path[e[i]])
    ELSE e[i] \in DOMAIN Literal \cup Operators \cup {"exists", "&&", "||", "!", "(", ")"}

-----------------------------------------------------------------------------
(* What values do. *)

\* Strings that differ are not ordered here: the instances have one.
Compare(op, l, r) ==
  CASE op = "==" -> l = r
    [] op = "!=" -> l # r
    [] op = "<" -> l.t = "number" /\ r.t = "number" /\ l.n < r.n
    [] op = ">=" -> \/ l.t = "number" /\ r.t = "number" /\ l.n >= r.n
                    \/ l.t = "string" /\ r.t = "string" /\ l = r

Holds(v) == v \notin {Bool(FALSE), Null}            \* 0 and "" hold

\* A token's value: of a path that is missing, null.
Read(token, scope) ==
  IF token \in DOMAIN Literal THEN Literal[token]
  ELSE LET v == LookupPath(scope, Segments(Path[token]))
       IN IF v = Missing THEN Null ELSE v

-----------------------------------------------------------------------------
(* The parser and the evaluation of what it has parsed, in one: each function *)
(* returns the value of its production and the position after it, or Throws.  *)
(* parse stands for the functions that call each other.                       *)

Throws == [ok |-> FALSE, at |-> 0, value |-> FALSE]
Parsed(value, at) == [ok |-> TRUE, at |-> at, value |-> value]
Peek(e, i) == IF i \in DOMAIN e THEN e[i] ELSE "eof"

ParseValue(e, scope, parse, i) ==
  LET group == parse[<<"or", i + 1>>]
  IN CASE Peek(e, i) \in DOMAIN Path \cup DOMAIN Literal -> Parsed(Read(e[i], scope), i + 1)
       [] Peek(e, i) = "(" -> IF group.ok /\ Peek(e, group.at) = ")"
                              THEN Parsed(Bool(group.value), group.at + 1) ELSE Throws
       [] OTHER -> Throws

\* Mutant: what follows an operator is a comparison again.
ParseComparisonChain(e, parse, i) ==
  LET left == parse[<<"value", i>>]
      right == parse[<<"comparison", left.at + 1>>]
  IN CASE ~left.ok -> Throws
       [] Peek(e, left.at) = "exists" -> Parsed(left.value # Null, left.at + 1)
       [] Peek(e, left.at) \in Operators ->
            IF right.ok THEN Parsed(Compare(Peek(e, left.at), left.value, Bool(right.value)), right.at)
            ELSE Throws
       [] OTHER -> Parsed(Holds(left.value), left.at)

ParseComparison(e, parse, i) ==
  LET left == parse[<<"value", i>>]
      right == parse[<<"value", left.at + 1>>]
  IN CASE ~left.ok -> Throws
       [] left.ok /\ Peek(e, left.at) = "exists" -> Parsed(left.value # Null, left.at + 1)
       [] left.ok /\ Peek(e, left.at) \in Operators ->
            IF right.ok THEN Parsed(Compare(Peek(e, left.at), left.value, right.value), right.at)
            ELSE Throws
       [] OTHER -> Parsed(Holds(left.value), left.at)

ParseNot(e, parse, i) ==
  IF Peek(e, i) # "!" THEN parse[<<"comparison", i>>]
  ELSE LET operand == parse[<<"not", i + 1>>]
       IN IF operand.ok THEN Parsed(~operand.value, operand.at) ELSE Throws

\* The loops of parseAnd and parseOr take one operand and then the others: the
\* connectives are associative.
ParseAnd(e, parse, i) ==
  LET left == parse[<<"not", i>>]
      right == parse[<<"and", left.at + 1>>]
  IN IF ~left.ok \/ Peek(e, left.at) # "&&" THEN left
     ELSE IF right.ok THEN Parsed(left.value /\ right.value, right.at) ELSE Throws

ParseOr(e, parse, i) ==
  LET left == parse[<<"and", i>>]
      right == parse[<<"or", left.at + 1>>]
  IN IF ~left.ok \/ Peek(e, left.at) # "||" THEN left
     ELSE IF right.ok THEN Parsed(left.value \/ right.value, right.at) ELSE Throws

Productions == {"or", "and", "not", "comparison", "value"}

Parse(e, scope, parse, as, i) ==
  CASE as = "or" -> ParseOr(e, parse, i)
    [] as = "and" -> ParseAnd(e, parse, i)
    [] as = "not" -> ParseNot(e, parse, i)
    [] as = "comparison" -> ParseComparison(e, parse, i)
    [] as = "value" -> ParseValue(e, scope, parse, i)

ParseExpression(e, scope) ==
  LET parse[x \in Productions \X (1 .. Len(e) + 1)] == Parse(e, scope, parse, x[1], x[2])
      root == parse[<<"or", 1>>]
  IN IF e # <<>> /\ Tokenizes(e) /\ Peek(e, root.at) = "eof" THEN root ELSE Throws

\* assertValidExpression: whether an expression parses does not depend on values.
AcceptsExpression(e) == ParseExpression(e, Object(<<>>)).ok

EvaluatePredicate(e, scope) == ParseExpression(e, scope).value

-----------------------------------------------------------------------------
(* The grammar, as the values that a stretch of tokens has as a disjunction,*)
(* conjunction, negation, comparison or value.  It is not ambiguous: there   *)
(* is at most one, and none for what is no expression.                       *)

Pairs(L, R) == {<<l, r>> : l \in L, r \in R}

\* What the tokens from i to j mean, by what shorter stretches do.
Denotes(e, scope, means, as, i, j) ==
  LET At(S) == {k \in i + 1 .. j - 1 : e[k] \in S}
      Both(left, k, right) == Pairs(means[<<left, i, k - 1>>], means[<<right, k + 1, j>>])
  IN CASE as = "or" ->
            means[<<"and", i, j>>] \cup
            {p[1] \/ p[2] : p \in UNION {Both("or", k, "and") : k \in At({"||"})}}
       [] as = "and" ->
            means[<<"not", i, j>>] \cup
            {p[1] /\ p[2] : p \in UNION {Both("and", k, "not") : k \in At({"&&"})}}
       [] as = "not" ->
            IF i < j /\ e[i] = "!" THEN {~b : b \in means[<<"not", i + 1, j>>]}
            ELSE means[<<"comparison", i, j>>]
       [] as = "comparison" ->
            {Holds(v) : v \in means[<<"value", i, j>>]}
            \cup (IF i < j /\ e[j] = "exists"
                  THEN {v # Null : v \in means[<<"value", i, j - 1>>]} ELSE {})
            \cup UNION {{Compare(e[k], p[1], p[2]) : p \in Both("value", k, "value")} :
                          k \in At(Operators)}
       [] as = "value" ->
            IF i = j THEN IF Tokenizes(<<e[i]>>) /\ e[i] \in DOMAIN Path \cup DOMAIN Literal
                          THEN {Read(e[i], scope)} ELSE {}
            ELSE IF i + 1 < j /\ e[i] = "(" /\ e[j] = ")"
                 THEN {Bool(b) : b \in means[<<"or", i + 1, j - 1>>]} ELSE {}

Meaning(e, scope) ==
  LET n == Len(e)
      means[x \in Productions \X (1 .. n) \X (1 .. n)] ==
        Denotes(e, scope, means, x[1], x[2], x[3])
  IN IF n = 0 THEN {} ELSE means[<<"or", 1, n>>]
=============================================================================
