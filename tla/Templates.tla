----------------------------- MODULE Templates -----------------------------
(***************************************************************************)
(* Paths, templates, environment references and masks.  A string is a      *)
(* sequence of lexemes: "{", "$", "}", dots, names, array indices, and     *)
(* pieces of other text.  Two names in a row, but for the "$" of a bracket *)
(* "{$", are one name in the code and do not occur.  A value is a record   *)
(* whose field t is its JSON type; what has no value is Missing.  The key  *)
(* "{$" stands for those of an object's keys that hold a bracket, and      *)
(* `length`, which an array has too, is no name.                           *)
(***************************************************************************)
EXTENDS Integers, Sequences, SequencesExt, FiniteSetsExt

CONSTANTS Names,     \* the lexemes that are names
          Indices,   \* those of array indices, in their order
          Depth      \* how deep values are nested

Roots == {"context", "output", "env"}

ASSUME TextAssumption ==
  /\ Roots \subseteq Names
  /\ Indices \in Seq(STRING) /\ IsInjective(Indices)
  /\ Names \cap Range(Indices) = {}
  /\ (Names \cup Range(Indices)) \cap {"{", "{$", "}", ".", "*", "[*]"} = {}
  /\ Depth \in Nat

Null == [t |-> "null"]
Missing == [t |-> "missing"]
Text(s) == [t |-> "string", s |-> s]
Num(n) == [t |-> "number", n |-> n]
Bool(b) == [t |-> "boolean", b |-> b]
List(e) == [t |-> "array", e |-> e]
Object(f) == [t |-> "object", f |-> f]

\* The values some levels below v, and all of those below it or itself.
Children(v) ==
  CASE v.t = "object" -> {v.f[k] : k \in DOMAIN v.f}
    [] v.t = "array" -> Range(v.e)
    [] OTHER -> {}
Below(v) ==
  LET level[n \in 0 .. Depth] == IF n = 0 THEN {v} ELSE UNION {Children(u) : u \in level[n - 1]}
  IN UNION {level[n] : n \in 0 .. Depth}

\* The bracket that opens a reference, in a string and anywhere in a value.
OpensAt(s, i) == i < Len(s) /\ s[i] = "{" /\ s[i + 1] = "$"
HasBracket(s) == \E i \in DOMAIN s : OpensAt(s, i)
Bracketed(v) ==
  \E u \in Below(v) : \/ u.t = "string" /\ HasBracket(u.s)
                      \/ u.t = "object" /\ "{$" \in DOMAIN u.f

-----------------------------------------------------------------------------
(* Paths. *)

\* The grammar inside the brackets: a key after the start and after each dot,
\* anything else an index or a dot that a key follows.
IsPath(inner) ==
  /\ inner # <<>>
  /\ \A i \in 1 .. Len(inner) :
       \/ inner[i] \in Names /\ (i = 1 \/ inner[i - 1] = ".")
       \/ i > 1 /\ inner[i] = "." /\ i < Len(inner) /\ inner[i + 1] \in Names
       \/ i > 1 /\ inner[i] \in Range(Indices)

Inner(s) == SubSeq(s, 3, Len(s) - 1)

ParsesAsPath(s) ==
  Len(s) > 3 /\ OpensAt(s, 1) /\ s[Len(s)] = "}" /\ IsPath(Inner(s))

Segments(s) ==
  LET inner == Inner(s)
  IN FlattenSeq([i \in DOMAIN inner |-> IF inner[i] = "." THEN <<>> ELSE <<inner[i]>>])

\* One step of lookupPath, and of the walk of a field's path.
Child(v, segment) ==
  IF segment \in Range(Indices)
  THEN LET i == CHOOSE i \in DOMAIN Indices : Indices[i] = segment
       IN IF v.t = "array" /\ i <= Len(v.e) THEN v.e[i] ELSE Missing
  ELSE IF v.t = "object" /\ segment \in DOMAIN v.f THEN v.f[segment] ELSE Missing

LookupPath(scope, segments) ==
  LET value[i \in 0 .. Len(segments)] ==
        IF i = 0 THEN scope ELSE Child(value[i - 1], segments[i])
  IN value[Len(segments)]

-----------------------------------------------------------------------------
(* Templates. *)

\* What an embedded value becomes: String(v), or the JSON of an object or an array.
\* JSON begins and ends with a brace or a bracket of its own, and a quote stands
\* between its braces and the text of its strings and keys.
Shown(v) ==
  CASE v.t \in {"missing", "null"} -> <<"null">>
    [] v.t = "string" -> v.s
    [] v.t \in {"object", "array"} ->
         IF Bracketed(v) THEN <<"json", "{", "$", "json">> ELSE <<"json">>
    [] OTHER -> <<v.t>>

Earliest(at) == IF at = {} THEN 0 ELSE Min(at)     \* of positions; 0: there is none

\* The first candidate from i on runs from Opening to Closing (0: none).
Opening(s, i) == Earliest({j \in i .. Len(s) : OpensAt(s, j)})
Closing(s, i) ==
  IF Opening(s, i) = 0 THEN 0 ELSE Earliest({j \in Opening(s, i) .. Len(s) : s[j] = "}"})
Candidate(s, i) == SubSeq(s, Opening(s, i), Closing(s, i))

\* The loop of resolveString, whose cursor is i: a malformed candidate stays.
Render(s, scope) ==
  LET from[i \in 1 .. Len(s) + 1] ==
        IF Closing(s, i) = 0 THEN SubSeq(s, i, Len(s))
        ELSE SubSeq(s, i, Opening(s, i) - 1)
             \o (IF ParsesAsPath(Candidate(s, i))
                 THEN Shown(LookupPath(scope, Segments(Candidate(s, i)))) ELSE Candidate(s, i))
             \o from[Closing(s, i) + 1]
  IN from[1]

\* resolveTemplate for one string of a template.
ResolveString(s, scope) ==
  IF ParsesAsPath(s)
  THEN LET v == LookupPath(scope, Segments(s)) IN IF v = Missing THEN Null ELSE v
  ELSE Text(Render(s, scope))

\* Mutant: a bracket that is never closed passes.
AcceptsTemplateOpen(s) ==
  LET accepts[i \in 1 .. Len(s) + 1] ==
        \/ Closing(s, i) = 0
        \/ /\ ParsesAsPath(Candidate(s, i))
           /\ Head(Segments(Candidate(s, i))) \in Roots
           /\ accepts[Closing(s, i) + 1]
  IN accepts[1]

\* collectTemplateIssues reports nothing.
AcceptsTemplate(s) ==
  LET accepts[i \in 1 .. Len(s) + 1] ==
        \/ Opening(s, i) = 0
        \/ /\ Closing(s, i) # 0
           /\ ParsesAsPath(Candidate(s, i))
           /\ Head(Segments(Candidate(s, i))) \in Roots
           /\ accepts[Closing(s, i) + 1]
  IN accepts[1]

-----------------------------------------------------------------------------
(* Environment references: the whole string is one, or none is. *)

IsEnvRef(s) == ParsesAsPath(s) /\ Len(s) = 6 /\ s[3] = "env" /\ s[4] = "."
EnvName(s) == s[5]

Mask == <<"****">>
Redacted == <<"***">>

\* Mutant: only one of the two placeholders is known.
AcceptsEnvRefOneMask(s) ==
  s # Mask /\ (IsPrefix(<<"{", "$", "env", ".">>, s) => IsEnvRef(s))

\* collectEnvRefIssues reports nothing for this string.
AcceptsEnvRef(s) ==
  s \notin {Mask, Redacted} /\ (IsPrefix(<<"{", "$", "env", ".">>, s) => IsEnvRef(s))

MaskEnvRef(s) == IF IsEnvRef(s) THEN Mask ELSE s

\* resolveEnvRefsDetailed for one string; Unset when the variable is.
Unset == <<"unset">>
ResolveEnvRef(s, env) ==
  IF ~IsEnvRef(s) THEN s
  ELSE IF EnvName(s) \in DOMAIN env THEN env[EnvName(s)] ELSE Unset
=============================================================================
