----------------------------- MODULE FieldRules -----------------------------
(***************************************************************************)
(* The rules on the fields of an invocation's payload: which paths a rule  *)
(* may have, the walk over the values it reaches, and, for comparison, the *)
(* set of those values.  Quoted keys and the wording of messages are left  *)
(* out; a failure is the path that is reported.                            *)
(***************************************************************************)
EXTENDS Templates

Each == "[*]"
Types == {"string", "number", "boolean", "array", "object"}
Rule == [path : Seq(Names \cup Range(Indices) \cup {Each}),
         required : BOOLEAN, type : Types \cup {"any"}, min : Nat]

\* parseFieldPath, on a path whose dots are left out, and what the schema asks
\* of a field: a payload path and a constraint; lengths have their type.
AcceptsField(f) ==
  /\ f.path # <<>> /\ f.path[1] \in Names \ Roots
  /\ f.required \/ f.type # "any"
  /\ f.min > 0 => f.type \in {"array", "string"}

IsMissing(v) == v.t \in {"missing", "null"}
Size(v) == IF v.t = "array" THEN Len(v.e) ELSE IF v.t = "string" THEN Len(v.s) ELSE 0

\* checkTarget: a field with a type must have it, also when it is not required.
Violates(f, v) ==
  \/ f.required /\ IsMissing(v)
  \/ f.type \notin {"any", v.t}
  \/ Size(v) < f.min

NoFailure == <<>>

\* Mutant: the walk ends at the first element, wrong or not.
FailureAtOne(f, payload, walk, at) ==
  LET v == LookupPath(payload, at)
      segment == f.path[Len(at) + 1]
  IN IF Len(at) = Len(f.path) THEN IF Violates(f, v) THEN at ELSE NoFailure
     ELSE IF segment # Each THEN walk[Append(at, segment)]
     ELSE IF v.t # "array" THEN Append(at, "*")
     ELSE IF v.e = <<>> THEN NoFailure
     ELSE walk[Append(at, Indices[1])]

\* walkTargets at the place it has got to: depth first, and the first element
\* that fails ends the walk.
FailureAt(f, payload, walk, at) ==
  LET v == LookupPath(payload, at)
      segment == f.path[Len(at) + 1]
      wrong == {i \in DOMAIN v.e : walk[Append(at, Indices[i])] # NoFailure}
  IN IF Len(at) = Len(f.path) THEN IF Violates(f, v) THEN at ELSE NoFailure
     ELSE IF segment # Each THEN walk[Append(at, segment)]
     ELSE IF v.t # "array" THEN Append(at, "*")
     ELSE IF wrong = {} THEN NoFailure
     ELSE walk[Append(at, Indices[Min(wrong)])]

\* The places a walk along f's path may get to.
Places(f) == {at \in Seq(Names \cup Range(Indices)) : Len(at) <= Len(f.path)}

FieldFailure(f, payload) ==
  LET walk[at \in Places(f)] == FailureAt(f, payload, walk, at) IN walk[<<>>]

-----------------------------------------------------------------------------
(* For comparison: the instances of a rule's path in a payload, the indices  *)
(* of an array in the place of each wildcard, cut short at a wildcard that   *)
(* stands for no array.                                                      *)

Instances(path, payload) ==
  LET Fits(p) ==
        \A i \in DOMAIN p :
          LET above == LookupPath(payload, SubSeq(p, 1, i - 1))
          IN IF path[i] # Each THEN p[i] = path[i]
             ELSE IF above.t = "array"
                  THEN p[i] \in {Indices[j] : j \in DOMAIN above.e}
                  ELSE p[i] = "*" /\ i = Len(p)
      Steps(i) == IF path[i] = Each THEN Range(Indices) \cup {"*"} ELSE {path[i]}
  IN {p \in UNION {{q \in [1 .. n -> UNION {Steps(i) : i \in DOMAIN path}] :
                      \A i \in 1 .. n : q[i] \in Steps(i)} : n \in DOMAIN path} :
        Fits(p) /\ (Len(p) = Len(path) \/ p[Len(p)] = "*")}

Wrong(f, payload) ==
  {p \in Instances(f.path, payload) : p[Len(p)] = "*" \/ Violates(f, LookupPath(payload, p))}

\* The order of the walk: that of the first index in which two paths differ.
\* Two instances of one path have no other difference.
Precedes(p, q) ==
  \E i \in DOMAIN p \cap DOMAIN q :
    /\ SubSeq(p, 1, i - 1) = SubSeq(q, 1, i - 1)
    /\ \E j, k \in DOMAIN Indices : j < k /\ p[i] = Indices[j] /\ q[i] = Indices[k]
=============================================================================
