------------------------- MODULE MCConfigLifecycle -------------------------
(***************************************************************************)
(* Drafts that vary one part of a plain configuration: templates of up to  *)
(* three pieces, right and wrong, at each place; expressions of up to      *)
(* three tokens of the whole language, of up to six with the connectives   *)
(* or with parentheses; field rules with paths of up to three segments     *)
(* (and pairs of them, with a condition, a rule and an unset reference).    *)
(***************************************************************************)
EXTENDS ConfigLifecycle, TLC

Plain == [target |-> "payload", template |-> <<"x">>, password |-> <<"x">>,
          rule |-> <<>>, condition |-> <<>>, fields |-> {}]

MCIndices == <<"[0]", "[1]">>

MCEnv == "X" :> <<"x">> @@ "HOST" :> <<"x", "{", "$", "context", ".", "a", "}">>

Ref(root, rest) == <<"{", "$", root>> \o rest \o <<"}">>
Piece == {<<"x">>, <<"}">>, <<"{", "$">>, <<"{", "$", " ">>, Ref("context", <<".", "a">>),
          Ref("context", <<".", "a", "[1]">>), Ref("context", <<".", "b", ".", "a">>),
          Ref("context", <<".">>), Ref("b", <<>>), Ref("output", <<>>),
          Ref("env", <<".", "X">>), Ref("env", <<".", "UNSET">>), Ref("env", <<".", "HOST">>),
          Ref("env", <<".", "X", ".", "a">>), Mask, Redacted}
Texts == Piece \cup {p \o q : p, q \in Piece} \cup
         {p \o <<"x">> \o q : p, q \in Piece} \cup {p \o q \o <<"}">> : p, q \in Piece}

\* Text on both sides of a reference that its value may join.
Edge == {<<>>, <<"x">>, <<"{">>, <<"$", "x">>, <<"$", "x", "}">>, <<"}">>,
         Ref("context", <<".", "a">>), Ref("context", <<".", "b", ".", "a">>)}
Joined == {p \o Ref("context", <<".", "a">>) \o q : p, q \in Edge}

Tokens == DOMAIN Path \cup {"one", "null", "exists", "==", "<", "&&", "||", "!", "(", ")", "=~"}
UpTo(n, T) == UNION {[1 .. k -> T] : k \in 1 .. n}
Expression ==
  UpTo(3, Tokens) \cup UpTo(6, {"pathA", "&&", "||", "!"}) \cup
  UpTo(6, {"pathA", "(", ")", "!="}) \cup UpTo(5, {"pathA", "true", "exists", ">=", "!"})

Paths == {<<"a">> \o p : p \in SeqOf({"a", "[0]", "[1]", Each}, 2)} \cup {<<"context", "a">>}
Field == [path : Paths, required : BOOLEAN, type : {"any", "string", "array", "object"},
          min : 0 .. 1]

MCDrafts ==
  {[Plain EXCEPT !.target = t, !.template = s] : t \in {"uri", "header", "payload"},
                                                         s \in Texts \cup Joined}
  \cup {[Plain EXCEPT !.password = s] : s \in Piece}
  \cup {[Plain EXCEPT !.rule = e] : e \in Expression}
  \cup {[Plain EXCEPT !.condition = e] : e \in UpTo(3, Tokens)}
  \cup {[Plain EXCEPT !.fields = {f}] : f \in Field}
  \cup {[Plain EXCEPT !.fields = {f, g}, !.condition = <<"pathA">>, !.rule = <<"pathA">>,
                      !.password = Ref("env", <<".", "UNSET">>)] :
           f, g \in {h \in Field : Len(h.path) = 2 /\ h.required}}

Leaf == {Null, Num(0), Bool(FALSE), Text(<<>>), Text(<<"x">>), Text(<<"{", "$">>)}
Small == Leaf \cup {List(<<>>), Object(<<>>)} \cup {List(<<u>>) : u \in Leaf}
         \cup {List(<<u, Text(<<"x">>)>>) : u \in Leaf}
Deep == {List(<<List(<<>>), List(<<Num(0)>>)>>),
         List(<<Object("a" :> Num(0)), Object("b" :> Num(0))>>),
         Object("a" :> Null), Object("a" :> List(<<Null, Text(<<"x">>)>>)),
         List(<<List(<<Text(<<"x">>), Null>>), Null>>)}
MCPayloads == {Object(<<>>), Object("b" :> Object("a" :> Text(<<"x">>)))}
              \cup {Object("a" :> v) : v \in Small \cup Deep}
              \cup {Object("a" :> v) : v \in {Text(<<"$", "x">>), Text(<<"{">>),
                                              Object("{$" :> Null), List(<<Text(<<"$">>)>>)}}
              \cup {Object("a" :> Text(<<"{">>) @@ "b" :> Object("a" :> Text(<<"$", "x">>)))}
=============================================================================
