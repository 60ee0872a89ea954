----------------------- MODULE ConfigLifecycle_proofs -----------------------
(***************************************************************************)
(* A configuration from registration to invocation, for all drafts,        *)
(* payloads, variables, names and indices: what resubmission keeps, which  *)
(* text is sent, what a refusal names, and that a condition is decided by  *)
(* its meaning: the parser of expressions reads the grammar, all of it and *)
(* nothing else.  What recursive functions over texts, paths and           *)
(* expressions compute is proved by induction over sets of naturals.       *)
(***************************************************************************)
EXTENDS ConfigLifecycle, SequenceTheorems, WellFoundedInduction, TLAPS

LessThan == {p \in Nat \X Nat : p[1] < p[2]}

\* A set of naturals has a least element.
LEMMA LeastElement ==
  ASSUME NEW T \in SUBSET Nat, T # {}
  PROVE  \E n \in T : \A m \in T : n <= m
<1>1. LessThan = OpToRel(<, Nat)
  BY DEF LessThan, OpToRel
<1>2. IsWellFoundedOn(LessThan, Nat)
  BY <1>1, NatLessThanWellFounded
<1>3. PICK n \in T : \A m \in T : <<m, n>> \notin LessThan
  BY <1>2, WFMin
<1>4. ASSUME NEW m \in T PROVE n <= m
  <2>1. <<m, n>> \in Nat \X Nat /\ <<m, n>>[1] = m /\ <<m, n>>[2] = n
    OBVIOUS
  <2> QED
    BY <1>3, <2>1 DEF LessThan
<1> QED
  BY <1>4

\* Induction over the naturals, for a property given as a set.
LEMMA SetInduction ==
  ASSUME NEW T, 0 \in T, \A n \in Nat : n \in T => n + 1 \in T
  PROVE  \A n \in Nat : n \in T
<1> SUFFICES ASSUME Nat \ T # {} PROVE FALSE
  OBVIOUS
<1>1. PICK n \in Nat \ T : \A m \in Nat \ T : n <= m
  BY LeastElement
<1>2. n # 0 /\ n - 1 \in Nat /\ n - 1 \notin Nat \ T
  BY <1>1
<1>3. n - 1 + 1 \in T
  BY <1>2
<1> QED
  BY <1>1, <1>3

-----------------------------------------------------------------------------
(* Resubmission.                                                           *)

\* The mask as a rule is one token.
LEMMA SourceOfMask == Source(Mask) = Mask
<1> DEFINE m == <<"****">>
           e == [i \in DOMAIN m |-> IF m[i] \in DOMAIN Path THEN Path[m[i]] ELSE <<m[i]>>]
<1>1. DOMAIN m = {1} /\ m[1] = "****" /\ "****" \notin DOMAIN Path
  BY DEF Path
<1>2. e = <<m>>
  BY <1>1
<1> HIDE DEF e
<1>3. Len(e) = 1 /\ e[1] = m
  BY <1>2
<1> DEFINE flatten[i \in 1 .. Len(e)] == IF i = 1 THEN e[i] ELSE flatten[i - 1] \o e[i]
<1>4. \E f : f = [i \in 1 .. Len(e) |-> IF i = 1 THEN e[i] ELSE f[i - 1] \o e[i]]
  <2> DEFINE f == [i \in {1} |-> m]
  <2>1. f = [i \in 1 .. Len(e) |-> IF i = 1 THEN e[i] ELSE f[i - 1] \o e[i]]
    BY <1>3
  <2> QED
    BY <2>1
<1>5. flatten = [i \in 1 .. Len(e) |-> IF i = 1 THEN e[i] ELSE flatten[i - 1] \o e[i]]
  BY <1>4
<1> HIDE DEF flatten
<1>6. flatten[Len(e)] = m
  BY <1>3, <1>5
<1> USE DEF flatten
<1>7. FlattenSeq(e) = flatten[Len(e)]
  BY <1>3 DEF FlattenSeq
<1> QED
  BY <1>6, <1>7 DEF Source, Mask, e

\* What was shown, submitted again, is accepted only as it is stored.
LEMMA OnlyAsItWas ==
  ASSUME NEW c \in Config, NEW p \in {View(c).password, c.password},
         Accepts([View(c) EXCEPT !.password = p])
  PROVE  [View(c) EXCEPT !.password = p] = c
<1> DEFINE d == [View(c) EXCEPT !.password = p]
<1>1. /\ View(c).template = MaskEnvRef(c.template) /\ View(c).password = Redacted
      /\ View(c).rule = IF IsEnvRef(Source(c.rule)) THEN Mask ELSE c.rule
  BY DEF View, Config
<1>2. d = [c EXCEPT !.template = View(c).template, !.password = p, !.rule = View(c).rule]
  BY DEF View, Config
<1>3. d.template = View(c).template /\ d.password = p /\ d.rule = View(c).rule
  BY <1>2 DEF Config
<1> HIDE DEF d
<1>4. AcceptsEnvRef(d.template) /\ AcceptsEnvRef(d.password) /\ AcceptsEnvRef(Source(d.rule))
  BY DEF Accepts, AcceptsText, d
<1>5. d.template = c.template
  BY <1>1, <1>3, <1>4 DEF MaskEnvRef, AcceptsEnvRef
<1>6. d.password = c.password
  BY <1>1, <1>3, <1>4 DEF AcceptsEnvRef
<1>7. d.rule = c.rule
  BY <1>1, <1>3, <1>4, SourceOfMask DEF AcceptsEnvRef
<1> QED
  BY <1>2, <1>3, <1>5, <1>6, <1>7 DEF Config, d

\* What is stored was a configuration, and what was shown is its view.
ShownInv ==
  /\ draft \in Config
  /\ stored # None => stored \in Config
  /\ shown # None => from \in Config /\ shown = View(from)
  /\ ResubmissionKeepsConfig

\* It holds initially.
LEMMA ShownInit == Init => ShownInv
  BY DraftsAreConfigs DEF Init, ShownInv, ResubmissionKeepsConfig, None, Idle, Ended

\* The inductive step of ShownInv.
LEMMA ShownKept == ShownInv /\ [Next]_vars => ShownInv'
<1> SUFFICES ASSUME ShownInv, [Next]_vars PROVE ShownInv'
  OBVIOUS
<1>1. CASE Submit
  BY <1>1 DEF ShownInv, Submit, Store, ResubmissionKeepsConfig, Ended
<1>2. CASE Get
  BY <1>2 DEF ShownInv, Get, ResubmissionKeepsConfig, Ended
<1>3. CASE Resubmit
  <2>1. PICK p \in {shown.password, from.password} :
          Store([shown EXCEPT !.password = p], "resubmit")
    BY <1>3 DEF Resubmit
  <2>2. from \in Config /\ shown = View(from)
    BY <1>3 DEF ShownInv, Resubmit
  <2> DEFINE d == [shown EXCEPT !.password = p]
  <2>3. Accepts(d) => d = from
    BY <2>2, OnlyAsItWas
  <2> HIDE DEF d
  <2>4. /\ stored' = stored \/ stored' = from
        /\ last' = Ended("resubmit", "accepted") => stored' = from
    <3>1. IF Accepts(d) THEN stored' = d /\ last' = Ended("resubmit", "accepted")
                        ELSE last' = Ended("resubmit", "rejected") /\ UNCHANGED stored
      BY <2>1 DEF Store, d
    <3>2. Ended("resubmit", "accepted") # Ended("resubmit", "rejected")
      BY DEF Ended
    <3> QED
      BY <2>3, <3>1, <3>2
  <2>5. UNCHANGED <<draft, shown, from>>
    BY <2>1 DEF Store
  <2> QED
    BY <2>2, <2>4, <2>5 DEF ShownInv, ResubmissionKeepsConfig
<1>4. CASE Invoke
  <2>1. PICK payload \in Payloads : last' = Invocation(stored, payload)
    BY <1>4 DEF Invoke
  <2>2. last'.op = "invoke"
    BY <2>1 DEF Invocation
  <2>3. last' # Ended("resubmit", "accepted")
    BY <2>2 DEF Ended
  <2> QED
    BY <1>4, <2>3 DEF ShownInv, Invoke, ResubmissionKeepsConfig
<1>5. CASE Respond
  BY <1>5 DEF ShownInv, Respond, ResubmissionKeepsConfig, Ended, Idle
<1>6. CASE UNCHANGED vars
  BY <1>6 DEF vars, ShownInv, ResubmissionKeepsConfig
<1> QED
  BY <1>1, <1>2, <1>3, <1>4, <1>5, <1>6 DEF Next

\* Submitting what a read API showed stores nothing or what was there, for any
\* configuration: no mask or placeholder takes the place of what it hides.
THEOREM ResubmissionsKeep == Spec => []ResubmissionKeepsConfig
<1>1. Init => ShownInv
  BY ShownInit
<1>2. ShownInv => ResubmissionKeepsConfig
  BY DEF ShownInv
<1> QED
  BY <1>1, <1>2, ShownKept, PTL DEF Spec

-----------------------------------------------------------------------------
(* Texts and paths.                                                        *)

\* Induction up to a bound.
LEMMA BoundedInduction ==
  ASSUME NEW n \in Nat, NEW T, 0 \in T, \A k \in 0 .. n - 1 : k \in T => k + 1 \in T
  PROVE  n \in T
<1> DEFINE U == {k \in Nat : k <= n => k \in T}
<1>1. 0 \in U
  OBVIOUS
<1>2. ASSUME NEW k \in Nat, k \in U PROVE k + 1 \in U
  <2>1. CASE k + 1 <= n
    <3>1. k \in 0 .. n - 1 /\ k \in T
      BY <1>2, <2>1
    <3> QED
      BY <3>1
  <2>2. CASE ~(k + 1 <= n)
    BY <2>2
  <2> QED
    BY <2>1, <2>2
<1> HIDE DEF U
<1>3. n \in U
  BY <1>1, <1>2, SetInduction
<1> QED
  BY <1>3 DEF U

\* Flattening sequences gives a sequence.
LEMMA FlattenIsSeq ==
  ASSUME NEW S, NEW seqs \in Seq(Seq(S)) PROVE FlattenSeq(seqs) \in Seq(S)
<1> DEFINE n == Len(seqs)
           flatten[i \in 1 .. n] == IF i = 1 THEN seqs[i] ELSE flatten[i - 1] \o seqs[i]
           Flat(f, k) == \A i \in 1 .. k : f[i] = IF i = 1 THEN seqs[i] ELSE f[i - 1] \o seqs[i]
           T == {k \in Nat : \E f \in [1 .. k -> Seq(S)] : Flat(f, k)}
<1>1. n \in Nat /\ \A i \in 1 .. n : seqs[i] \in Seq(S)
  OBVIOUS
<1> HIDE DEF n, flatten
<1>2. 0 \in T
  <2>1. [i \in 1 .. 0 |-> <<>>] \in [1 .. 0 -> Seq(S)] /\ Flat([i \in 1 .. 0 |-> <<>>], 0)
    OBVIOUS
  <2> QED
    BY <2>1
<1>3. ASSUME NEW k \in 0 .. n - 1, k \in T PROVE k + 1 \in T
  <2>1. PICK f \in [1 .. k -> Seq(S)] : Flat(f, k)
    BY <1>3
  <2> DEFINE last1 == IF k = 0 THEN seqs[1] ELSE f[k] \o seqs[k + 1]
             h == [i \in 1 .. k + 1 |-> IF i = k + 1 THEN last1 ELSE f[i]]
  <2>2. last1 \in Seq(S)
    <3>1. seqs[k + 1] \in Seq(S) /\ (k # 0 => f[k] \in Seq(S))
      BY <1>1
    <3> QED
      BY <3>1
  <2>3. h \in [1 .. k + 1 -> Seq(S)]
    BY <2>2
  <2>4. ASSUME NEW i \in 1 .. k + 1
        PROVE  h[i] = IF i = 1 THEN seqs[i] ELSE h[i - 1] \o seqs[i]
    <3>1. CASE i = k + 1
      BY <3>1
    <3>2. CASE i # k + 1
      <4>1. i \in 1 .. k /\ h[i] = f[i]
        BY <3>2
      <4>2. f[i] = IF i = 1 THEN seqs[i] ELSE f[i - 1] \o seqs[i]
        BY <2>1, <4>1
      <4>3. i # 1 => i - 1 \in 1 .. k /\ h[i - 1] = f[i - 1]
        BY <4>1
      <4> QED
        BY <4>1, <4>2, <4>3
    <3> QED
      BY <3>1, <3>2
  <2>5. Flat(h, k + 1)
    BY <2>4
  <2>6. k + 1 \in Nat
    BY <1>1
  <2> HIDE DEF h, Flat
  <2> QED
    BY <2>3, <2>5, <2>6
<1>4. n \in T
  <2> HIDE DEF T
  <2> QED
    BY <1>1, <1>2, <1>3, BoundedInduction
<1>5. PICK f \in [1 .. n -> Seq(S)] : Flat(f, n)
  BY <1>4
<1>6. f = [i \in 1 .. n |-> IF i = 1 THEN seqs[i] ELSE f[i - 1] \o seqs[i]]
  BY <1>5
<1>7. flatten = [i \in 1 .. n |-> IF i = 1 THEN seqs[i] ELSE flatten[i - 1] \o seqs[i]]
  BY <1>6 DEF flatten
<1>8. Flat(flatten, n)
  BY <1>7
<1>9. ASSUME n # 0 PROVE flatten[n] \in Seq(S)
  <2> DEFINE A == {k \in 0 .. n : k # 0 => flatten[k] \in Seq(S)}
  <2>1. 0 \in A
    BY <1>1
  <2>2. ASSUME NEW k \in 0 .. n - 1, k \in A PROVE k + 1 \in A
    <3>1. PICK i \in 1 .. n : i = k + 1
      BY <1>1
    <3>2. flatten[i] = IF i = 1 THEN seqs[i] ELSE flatten[i - 1] \o seqs[i]
      BY <1>8
    <3>3. i # 1 => i - 1 = k /\ flatten[k] \in Seq(S)
      BY <2>2, <3>1
    <3>4. flatten[i] \in Seq(S)
      BY <1>1, <3>2, <3>3
    <3> QED
      BY <3>1, <3>4
  <2> HIDE DEF A
  <2>3. n \in A
    BY <1>1, <2>1, <2>2, BoundedInduction
  <2> QED
    BY <1>9, <2>3 DEF A
<1>10. CASE n = 0
  BY <1>10 DEF FlattenSeq, n
<1>11. CASE n # 0
  <2>1. FlattenSeq(seqs) = flatten[n]
    BY <1>11 DEF FlattenSeq, flatten, n
  <2> QED
    BY <1>9, <1>11, <2>1
<1> QED
  BY <1>10, <1>11

\* The values that a path goes through, after each of its segments.
Through(f, scope, segments) ==
  f[0] = scope /\ \A i \in 1 .. Len(segments) : f[i] = Child(f[i - 1], segments[i])

\* lookupPath goes through such values, whatever the scope.
LEMMA LookupSteps ==
  ASSUME NEW scope, NEW S, NEW segments \in Seq(S)
  PROVE  \E f : Through(f, scope, segments) /\ LookupPath(scope, segments) = f[Len(segments)]
<1> DEFINE n == Len(segments)
           value[i \in 0 .. n] == IF i = 0 THEN scope ELSE Child(value[i - 1], segments[i])
           Goes(f, k) == /\ f = [i \in 0 .. k |-> f[i]] /\ f[0] = scope
                         /\ \A i \in 1 .. k : f[i] = Child(f[i - 1], segments[i])
           T == {k \in Nat : \E f : Goes(f, k)}
<1>1. n \in Nat
  OBVIOUS
<1> HIDE DEF n, value
<1>2. 0 \in T
  <2>1. Goes([i \in 0 .. 0 |-> scope], 0)
    OBVIOUS
  <2> QED
    BY <2>1
<1>3. ASSUME NEW k \in 0 .. n - 1, k \in T PROVE k + 1 \in T
  <2>1. PICK f : Goes(f, k)
    BY <1>3
  <2> DEFINE h == [i \in 0 .. k + 1 |-> IF i = k + 1 THEN Child(f[k], segments[i]) ELSE f[i]]
  <2>2. h = [i \in 0 .. k + 1 |-> h[i]] /\ h[0] = scope
    BY <1>1, <2>1
  <2>3. ASSUME NEW i \in 1 .. k + 1 PROVE h[i] = Child(h[i - 1], segments[i])
    <3>1. CASE i = k + 1
      BY <3>1
    <3>2. CASE i # k + 1
      <4>1. i \in 1 .. k /\ h[i] = f[i] /\ h[i - 1] = f[i - 1]
        BY <3>2
      <4> QED
        BY <2>1, <4>1
    <3> QED
      BY <3>1, <3>2
  <2> HIDE DEF h
  <2>4. Goes(h, k + 1)
    BY <2>2, <2>3
  <2>5. k + 1 \in Nat
    BY <1>1
  <2> HIDE DEF Goes
  <2> QED
    BY <2>4, <2>5
<1>4. n \in T
  <2> HIDE DEF T
  <2> QED
    BY <1>1, <1>2, <1>3, BoundedInduction
<1>5. PICK f : Goes(f, n)
  BY <1>4
<1>6. f = [i \in 0 .. n |-> IF i = 0 THEN scope ELSE Child(f[i - 1], segments[i])]
  <2>1. \A i \in 0 .. n : f[i] = IF i = 0 THEN scope ELSE Child(f[i - 1], segments[i])
    BY <1>1, <1>5
  <2> QED
    BY <1>5, <2>1
<1>7. value = [i \in 0 .. n |-> IF i = 0 THEN scope ELSE Child(value[i - 1], segments[i])]
  BY <1>6 DEF value
<1>8. Through(value, scope, segments)
  BY <1>1, <1>7 DEF Through, n
<1>9. LookupPath(scope, segments) = value[n]
  BY DEF LookupPath, value, n
<1> QED
  BY <1>8, <1>9 DEF n

\* What holds of the scope and of the children of what it holds of holds of
\* what a path leads to.
LEMMA LookupStays ==
  ASSUME NEW S, NEW segments \in Seq(S), NEW V, NEW scope \in V,
         \A v \in V : \A s \in S : Child(v, s) \in V
  PROVE  LookupPath(scope, segments) \in V
<1>1. PICK f : Through(f, scope, segments) /\ LookupPath(scope, segments) = f[Len(segments)]
  BY LookupSteps
<1> DEFINE A == {k \in 0 .. Len(segments) : f[k] \in V}
<1>2. 0 \in A
  BY <1>1 DEF Through
<1>3. ASSUME NEW k \in 0 .. Len(segments) - 1, k \in A PROVE k + 1 \in A
  <2>1. PICK i \in 1 .. Len(segments) : i = k + 1
    OBVIOUS
  <2>2. f[i] = Child(f[k], segments[i]) /\ segments[i] \in S
    BY <1>1, <2>1 DEF Through
  <2> QED
    BY <1>3, <2>1, <2>2
<1> HIDE DEF A
<1>4. Len(segments) \in A
  BY <1>2, <1>3, BoundedInduction
<1> QED
  BY <1>1, <1>4 DEF A

\* A path that is empty leads to the scope.
LEMMA LookupOfEmpty == ASSUME NEW scope PROVE LookupPath(scope, <<>>) = scope
<1>1. <<>> \in Seq({}) /\ Len(<<>>) = 0
  OBVIOUS
<1>2. PICK f : Through(f, scope, <<>>) /\ LookupPath(scope, <<>>) = f[Len(<<>>)]
  BY <1>1, LookupSteps
<1> QED
  BY <1>1, <1>2 DEF Through

\* A path that is longer by one segment leads to a child of what it led to before.
LEMMA LookupOfLonger ==
  ASSUME NEW scope, NEW S, NEW segments \in Seq(S), NEW s \in S
  PROVE  LookupPath(scope, Append(segments, s)) = Child(LookupPath(scope, segments), s)
<1> DEFINE n == Len(segments)
           longer == Append(segments, s)
<1>1. n \in Nat /\ longer \in Seq(S) /\ Len(longer) = n + 1 /\ longer[n + 1] = s
      /\ \A i \in 1 .. n : longer[i] = segments[i]
  BY AppendProperties
<1> HIDE DEF longer
<1>2. PICK f : Through(f, scope, longer) /\ LookupPath(scope, longer) = f[Len(longer)]
  BY <1>1, LookupSteps
<1>3. PICK g : Through(g, scope, segments) /\ LookupPath(scope, segments) = g[n]
  BY LookupSteps
<1> DEFINE A == {k \in 0 .. n : f[k] = g[k]}
<1> HIDE DEF n
<1>4. 0 \in A
  BY <1>1, <1>2, <1>3 DEF Through
<1>5. ASSUME NEW k \in 0 .. n - 1, k \in A PROVE k + 1 \in A
  <2>1. PICK i \in 1 .. n : i = k + 1
    BY <1>1
  <2>2. f[i] = Child(f[i - 1], longer[i]) /\ g[i] = Child(g[i - 1], segments[i])
    BY <1>1, <1>2, <1>3, <2>1 DEF Through, n
  <2>3. f[i - 1] = g[i - 1]
    BY <1>5, <2>1
  <2> QED
    BY <1>1, <2>1, <2>2, <2>3
<1> HIDE DEF A
<1>6. n \in A
  BY <1>1, <1>4, <1>5, BoundedInduction
<1>7. f[n + 1] = Child(f[n], longer[n + 1])
  <2>1. PICK i \in 1 .. Len(longer) : i = n + 1
    BY <1>1
  <2>2. f[i] = Child(f[i - 1], longer[i]) /\ i - 1 = n
    BY <1>1, <1>2, <2>1 DEF Through
  <2> QED
    BY <2>1, <2>2
<1> QED
  BY <1>1, <1>2, <1>3, <1>6, <1>7 DEF A, longer

\* A path's segments are its lexemes but for the dots.
LEMMA SegmentsAreText == ASSUME NEW s \in Seq(STRING) PROVE Segments(s) \in Seq(STRING)
<1> DEFINE inner == Inner(s)
           kept == [i \in DOMAIN inner |-> IF inner[i] = "." THEN <<>> ELSE <<inner[i]>>]
<1>1. \A i \in 3 .. Len(s) - 1 : s[i] \in STRING
  BY ElementOfSeq
<1>2. inner \in Seq(STRING)
  BY <1>1, SubSeqProperties DEF Inner
<1> HIDE DEF inner
<1>3. DOMAIN inner = 1 .. Len(inner) /\ Len(inner) \in Nat
  BY <1>2, LenProperties
<1>4. \A i \in DOMAIN inner : inner[i] \in STRING
  BY <1>2, <1>3, ElementOfSeq
<1>5. ASSUME NEW i \in DOMAIN inner PROVE kept[i] \in Seq(STRING)
  <2>1. inner[i] \in STRING
    BY <1>4
  <2>2. <<inner[i]>> \in Seq(STRING) /\ <<>> \in Seq(STRING)
    BY <2>1
  <2> QED
    BY <2>2
<1>6. kept \in Seq(Seq(STRING))
  BY <1>3, <1>5, SeqDef
<1> QED
  BY <1>6, FlattenIsSeq DEF Segments, inner

\* What is below a value is there level by level.
LEMMA BelowByLevels ==
  ASSUME NEW v
  PROVE  \E f : /\ Below(v) = UNION {f[n] : n \in 0 .. Depth} /\ f[0] = {v}
               /\ \A n \in 1 .. Depth : f[n] = UNION {Children(u) : u \in f[n - 1]}
<1> DEFINE level[n \in 0 .. Depth] ==
             IF n = 0 THEN {v} ELSE UNION {Children(u) : u \in level[n - 1]}
           Goes(f, k) == /\ f = [i \in 0 .. k |-> f[i]] /\ f[0] = {v}
                         /\ \A i \in 1 .. k : f[i] = UNION {Children(u) : u \in f[i - 1]}
           T == {k \in Nat : \E f : Goes(f, k)}
<1>1. Depth \in Nat
  BY TextAssumption
<1> HIDE DEF level
<1>2. 0 \in T
  <2>1. Goes([i \in 0 .. 0 |-> {v}], 0)
    OBVIOUS
  <2> QED
    BY <2>1
<1>3. ASSUME NEW k \in 0 .. Depth - 1, k \in T PROVE k + 1 \in T
  <2>1. PICK f : Goes(f, k)
    BY <1>3
  <2> DEFINE h == [i \in 0 .. k + 1 |->
                     IF i = k + 1 THEN UNION {Children(u) : u \in f[k]} ELSE f[i]]
  <2>2. h = [i \in 0 .. k + 1 |-> h[i]] /\ h[0] = {v}
    BY <1>1, <2>1
  <2>3. ASSUME NEW i \in 1 .. k + 1 PROVE h[i] = UNION {Children(u) : u \in h[i - 1]}
    <3>1. CASE i = k + 1
      BY <3>1
    <3>2. CASE i # k + 1
      <4>1. i \in 1 .. k /\ h[i] = f[i] /\ h[i - 1] = f[i - 1]
        BY <3>2
      <4> QED
        BY <2>1, <4>1
    <3> QED
      BY <3>1, <3>2
  <2> HIDE DEF h
  <2>4. Goes(h, k + 1)
    BY <2>2, <2>3
  <2>5. k + 1 \in Nat
    BY <1>1
  <2> HIDE DEF Goes
  <2> QED
    BY <2>4, <2>5
<1>4. Depth \in T
  <2> HIDE DEF T
  <2> QED
    BY <1>1, <1>2, <1>3, BoundedInduction
<1>5. PICK f : Goes(f, Depth)
  BY <1>4
<1>6. f = [n \in 0 .. Depth |-> IF n = 0 THEN {v} ELSE UNION {Children(u) : u \in f[n - 1]}]
  <2>1. ASSUME NEW n \in 0 .. Depth
        PROVE  f[n] = IF n = 0 THEN {v} ELSE UNION {Children(u) : u \in f[n - 1]}
    <3>1. CASE n = 0
      BY <1>5, <3>1
    <3>2. CASE n # 0
      <4>1. n \in 1 .. Depth
        BY <1>1, <3>2
      <4> QED
        BY <1>5, <3>2, <4>1
    <3> QED
      BY <3>1, <3>2
  <2> QED
    BY <1>5, <2>1
<1>7. level = [n \in 0 .. Depth |->
                 IF n = 0 THEN {v} ELSE UNION {Children(u) : u \in level[n - 1]}]
  BY <1>6 DEF level
<1>8. level[0] = {v}
  BY <1>1, <1>7
<1>9. Below(v) = UNION {level[n] : n \in 0 .. Depth}
  BY DEF Below, level
<1>10. ASSUME NEW n \in 1 .. Depth PROVE level[n] = UNION {Children(u) : u \in level[n - 1]}
  <2>1. n \in 0 .. Depth /\ n # 0
    BY <1>1
  <2> QED
    BY <1>7, <2>1
<1> QED
  BY <1>8, <1>9, <1>10

\* A payload is one of the values below itself.
LEMMA BelowHoldsItself == ASSUME NEW v PROVE v \in Below(v)
<1>1. Depth \in Nat
  BY TextAssumption
<1>2. 0 \in 0 .. Depth
  BY <1>1
<1> QED
  BY <1>2, BelowByLevels

\* What is below a value is in any set of values that holds their children.
LEMMA BelowIsWithin ==
  ASSUME NEW S, NEW v \in S, \A u \in S : Children(u) \subseteq S
  PROVE  Below(v) \subseteq S
<1>1. PICK f : /\ Below(v) = UNION {f[n] : n \in 0 .. Depth} /\ f[0] = {v}
               /\ \A n \in 1 .. Depth : f[n] = UNION {Children(u) : u \in f[n - 1]}
  BY BelowByLevels
<1>2. Depth \in Nat
  BY TextAssumption
<1> DEFINE T == {n \in Nat : n <= Depth => f[n] \subseteq S}
<1>3. 0 \in T
  BY <1>1
<1>4. ASSUME NEW n \in Nat, n \in T PROVE n + 1 \in T
  <2> SUFFICES ASSUME n + 1 <= Depth PROVE f[n + 1] \subseteq S
    OBVIOUS
  <2>1. n + 1 \in 1 .. Depth /\ f[n] \subseteq S
    BY <1>2, <1>4
  <2>2. f[n + 1] = UNION {Children(u) : u \in f[n + 1 - 1]} /\ n + 1 - 1 = n
    BY <1>1, <2>1
  <2>3. f[n + 1] = UNION {Children(u) : u \in f[n]}
    BY <2>2
  <2> QED
    BY <2>1, <2>3
<1>5. \A n \in Nat : n \in T
  <2> HIDE DEF T
  <2> QED
    BY <1>3, <1>4, SetInduction
<1> QED
  BY <1>1, <1>2, <1>5

\* A path into a payload leads to nothing but what is below it.
LEMMA ChildIsBelow ==
  ASSUME NEW p \in Payloads, NEW v \in Below(p), NEW s
  PROVE  Child(v, s) \in {Missing} \cup Below(p)
<1>1. Children(v) \subseteq Below(p)
  BY PayloadAssumption
<1>2. CASE s \in Range(Indices)
  <2> DEFINE i == CHOOSE i \in DOMAIN Indices : Indices[i] = s
  <2>1. i \in DOMAIN Indices
    BY <1>2 DEF Range
  <2>2. DOMAIN Indices = 1 .. Len(Indices)
    <3>1. Indices \in Seq(STRING)
      BY TextAssumption
    <3> QED
      BY <3>1, LenProperties
  <2>3. ASSUME v.t = "array", i <= Len(v.e) PROVE v.e[i] \in Children(v)
    <3>1. v.e \in Seq(Range(v.e))
      BY <2>3, PayloadAssumption
    <3>2. i \in DOMAIN v.e
      BY <2>1, <2>2, <2>3, <3>1, LenProperties
    <3>3. v.e[i] \in Range(v.e)
      BY <3>2 DEF Range
    <3>4. Children(v) = Range(v.e)
      BY <2>3 DEF Children
    <3> QED
      BY <3>3, <3>4
  <2>4. Child(v, s) = IF v.t = "array" /\ i <= Len(v.e) THEN v.e[i] ELSE Missing
    BY <1>2 DEF Child
  <2> HIDE DEF i
  <2> QED
    BY <1>1, <2>3, <2>4
<1>3. CASE s \notin Range(Indices)
  BY <1>1, <1>3 DEF Child, Children
<1> QED
  BY <1>2, <1>3

\* What is missing has no children.
LEMMA ChildOfMissing == ASSUME NEW s PROVE Child(Missing, s) = Missing
  BY DEF Child, Missing

\* What a template's paths can lead to.
Reached(p) == {Missing, Null, Object(<<>>), Scope(p)} \cup Below(p)

\* One segment further the value is again one of these.
LEMMA ReachedIsClosed ==
  ASSUME NEW p \in Payloads, NEW v \in Reached(p), NEW s \in STRING
  PROVE  Child(v, s) \in Reached(p)
<1>1. p \in Below(p)
  BY BelowHoldsItself
<1>2. CASE v \in Below(p)
  BY <1>2, ChildIsBelow DEF Reached
<1>3. CASE v \in {Missing, Null}
  BY <1>3 DEF Child, Missing, Null, Reached
<1>4. CASE v = Object(<<>>)
  BY <1>4 DEF Child, Object, Reached
<1>5. CASE v = Scope(p)
  <2> DEFINE f == [context |-> p, env |-> Object(<<>>), output |-> Null]
  <2>1. v.t = "object" /\ v.f = f /\ DOMAIN f = {"context", "env", "output"}
    BY <1>5 DEF Scope, Object
  <2>2. Child(v, s) \in {Missing, f["context"], f["env"], f["output"]}
    BY <2>1 DEF Child
  <2>3. Child(v, s) \in {Missing, p, Object(<<>>), Null}
    BY <2>2
  <2> QED
    BY <1>1, <2>3 DEF Reached
<1> QED
  BY <1>2, <1>3, <1>4, <1>5 DEF Reached

\* What a template's path leads to: no text but the payload's.
LEMMA PathsReach ==
  ASSUME NEW p \in Payloads, NEW s \in Seq(STRING)
  PROVE  LookupPath(Scope(p), Segments(s)) \in Reached(p)
<1>1. Scope(p) \in Reached(p)
  BY DEF Reached
<1> QED
  BY <1>1, SegmentsAreText, ReachedIsClosed, LookupStays

\* The first of some positions, or 0.
LEMMA FirstOfThem ==
  ASSUME NEW at \in SUBSET (Nat \ {0})
  PROVE  \/ Earliest(at) = 0 /\ at = {}
         \/ Earliest(at) # 0 /\ Earliest(at) \in at /\ \A j \in at : Earliest(at) <= j
<1>1. CASE at = {}
  BY <1>1 DEF Earliest
<1>2. CASE at # {}
  <2>1. PICK m \in at : \A j \in at : m <= j
    BY <1>2, LeastElement
  <2>2. Min(at) \in at /\ \A j \in at : Min(at) <= j
    BY <2>1 DEF Min
  <2>3. Earliest(at) = Min(at)
    BY <1>2 DEF Earliest
  <2> QED
    BY <2>2, <2>3
<1> QED
  BY <1>1, <1>2

\* No bracket opens from i to k.
NoneOpens(s, i, k) == \A j \in i .. k : ~OpensAt(s, j)

\* Where a candidate is, and that no bracket opens before it.
LEMMA CandidateIsNext ==
  ASSUME NEW s \in Seq(STRING), NEW i \in 1 .. Len(s) + 1
  PROVE  /\ Opening(s, i) = 0 => Closing(s, i) = 0 /\ NoneOpens(s, i, Len(s))
         /\ Closing(s, i) # 0 =>
              /\ Opening(s, i) \in i .. Len(s) /\ Closing(s, i) \in i + 1 .. Len(s)
              /\ OpensAt(s, Opening(s, i)) /\ s[Closing(s, i)] = "}"
              /\ Closing(s, i) > Opening(s, i)
              /\ NoneOpens(s, i, Opening(s, i) - 1)
<1> DEFINE open == Opening(s, i)
           close == Closing(s, i)
           opens == {j \in i .. Len(s) : OpensAt(s, j)}
<1>1. open = Earliest(opens) /\ opens \in SUBSET (Nat \ {0})
  BY DEF Opening
<1>2. \/ open = 0 /\ opens = {}
      \/ open # 0 /\ open \in opens /\ \A j \in opens : open <= j
  <2> HIDE DEF opens, open
  <2> QED
    BY <1>1, FirstOfThem
<1>3. close = IF open = 0 THEN 0 ELSE Earliest({j \in open .. Len(s) : s[j] = "}"})
  BY DEF Closing
<1> HIDE DEF open, close
<1>4. CASE open = 0
  BY <1>2, <1>3, <1>4 DEF open, close, NoneOpens
<1>5. CASE open # 0
  <2> DEFINE closes == {j \in open .. Len(s) : s[j] = "}"}
  <2>1. open \in i .. Len(s) /\ OpensAt(s, open)
    BY <1>2, <1>5
  <2>2. NoneOpens(s, i, open - 1)
    BY <1>2, <1>5, <2>1 DEF NoneOpens
  <2>3. closes \in SUBSET (Nat \ {0}) /\ close = Earliest(closes)
    <3>1. open \in Nat \ {0}
      BY <2>1
    <3>2. open .. Len(s) \subseteq Nat \ {0}
      BY <3>1
    <3> QED
      BY <1>3, <1>5, <3>2
  <2>4. close # 0 => close \in closes
    <3> HIDE DEF closes
    <3> QED
      BY <2>3, FirstOfThem
  <2>5. close # 0 => close \in open .. Len(s) /\ s[close] = "}" /\ close # open
    BY <2>1, <2>4 DEF OpensAt
  <2>6. close # 0 => close \in i + 1 .. Len(s) /\ close > open
    <3>1. open \in i .. Len(s) /\ (close # 0 => close \in open .. Len(s) /\ close # open)
      BY <2>1, <2>5
    <3> QED
      BY <3>1
  <2> QED
    BY <1>5, <2>1, <2>2, <2>5, <2>6 DEF open, close
<1> QED
  BY <1>4, <1>5

\* A function that goes on from behind the end of a candidate, if there is one:
\* end[i] is the end of the candidate after i.
Scans(f, n, end, a, G) ==
  \A i \in 1 .. n + 1 : f[i] = IF end[i] = 0 THEN a[i] ELSE G[i][f[end[i] + 1]]

\* Such a function is defined.
LEMMA ScansEnd ==
  ASSUME NEW n \in Nat, NEW end, NEW V, NEW a \in [1 .. n + 1 -> V],
         NEW G \in [1 .. n + 1 -> [V -> V]],
         \A i \in 1 .. n + 1 : end[i] = 0 \/ end[i] \in i + 1 .. n
  PROVE  \E f \in [1 .. n + 1 -> V] : Scans(f, n, end, a, G)
<1> DEFINE Goes(f, m) == \A i \in m .. n + 1 :
                           f[i] = IF end[i] = 0 THEN a[i] ELSE G[i][f[end[i] + 1]]
           T == {k \in Nat : \E f \in [n + 1 - k .. n + 1 -> V] : Goes(f, n + 1 - k)}
<1>1. 0 \in T
  <2> DEFINE f == [i \in n + 1 .. n + 1 |-> a[n + 1]]
  <2>1. end[n + 1] = 0
    OBVIOUS
  <2>2. a[n + 1] \in V
    OBVIOUS
  <2>3. f \in [n + 1 .. n + 1 -> V]
    BY <2>2
  <2>4. Goes(f, n + 1)
    BY <2>1
  <2>5. n + 1 - 0 = n + 1
    OBVIOUS
  <2> HIDE DEF f, Goes
  <2> QED
    BY <2>3, <2>4, <2>5
<1>2. ASSUME NEW k \in 0 .. n - 1, k \in T PROVE k + 1 \in T
  <2> DEFINE m == n + 1 - k
  <2>1. PICK f \in [m .. n + 1 -> V] : Goes(f, m)
    BY <1>2
  <2>2. m \in 2 .. n + 1 /\ m - 1 \in 1 .. n + 1
    OBVIOUS
  <2> HIDE DEF m
  <2> DEFINE i0 == m - 1
             v0 == IF end[i0] = 0 THEN a[i0] ELSE G[i0][f[end[i0] + 1]]
             h == [i \in i0 .. n + 1 |-> IF i = i0 THEN v0 ELSE f[i]]
  <2>3. ASSUME NEW i \in i0 .. n + 1, end[i] # 0
        PROVE  end[i] + 1 \in m .. n + 1 /\ end[i] + 1 # i0
    <3>1. end[i] \in i + 1 .. n
      BY <2>2, <2>3
    <3> QED
      BY <2>2, <3>1
  <2>4. v0 \in V
    <3>1. i0 \in 1 .. n + 1 /\ i0 \in i0 .. n + 1
      BY <2>2
    <3>2. CASE end[i0] = 0
      BY <3>1, <3>2
    <3>3. CASE end[i0] # 0
      <4>1. f[end[i0] + 1] \in V
        BY <2>3, <3>1, <3>3
      <4>2. G[i0] \in [V -> V]
        BY <3>1
      <4> QED
        BY <3>3, <4>1, <4>2
    <3> QED
      BY <3>2, <3>3
  <2>5. \A i \in i0 .. n + 1 : i # i0 => i \in m .. n + 1
    BY <2>2
  <2>6. h \in [i0 .. n + 1 -> V]
    BY <2>4, <2>5
  <2>7. ASSUME NEW i \in i0 .. n + 1
        PROVE  h[i] = IF end[i] = 0 THEN a[i] ELSE G[i][h[end[i] + 1]]
    <3>1. end[i] # 0 => h[end[i] + 1] = f[end[i] + 1]
      <4>1. end[i] # 0 => end[i] + 1 \in i0 .. n + 1 /\ end[i] + 1 # i0
        BY <2>2, <2>3
      <4> QED
        BY <4>1
    <3>2. CASE i = i0
      BY <3>1, <3>2
    <3>3. CASE i # i0
      <4>1. f[i] = IF end[i] = 0 THEN a[i] ELSE G[i][f[end[i] + 1]]
        BY <2>1, <2>5, <3>3
      <4>2. h[i] = f[i]
        BY <3>3
      <4> QED
        BY <3>1, <4>1, <4>2
    <3> QED
      BY <3>2, <3>3
  <2>8. Goes(h, i0)
    BY <2>7
  <2>9. k + 1 \in Nat /\ i0 = n + 1 - (k + 1)
    BY DEF m
  <2> HIDE DEF h, Goes, i0
  <2> QED
    BY <2>6, <2>8, <2>9
<1>3. n \in T
  <2> HIDE DEF T
  <2> QED
    BY <1>1, <1>2, BoundedInduction
<1>4. n + 1 - n = 1
  OBVIOUS
<1> QED
  BY <1>3, <1>4 DEF Scans

\* Pieces of a text are texts.
LEMMA PiecesAreText ==
  ASSUME NEW s \in Seq(STRING), NEW i \in 1 .. Len(s) + 1
  PROVE  /\ SubSeq(s, i, Len(s)) \in Seq(STRING)
         /\ Closing(s, i) # 0 =>
              SubSeq(s, i, Opening(s, i) - 1) \in Seq(STRING) /\ Candidate(s, i) \in Seq(STRING)
<1>1. \A j \in 1 .. Len(s) : s[j] \in STRING
  BY ElementOfSeq
<1>2. i \in Int /\ Len(s) \in Int
  OBVIOUS
<1>3. SubSeq(s, i, Len(s)) \in Seq(STRING)
  BY <1>1, <1>2, SubSeqProperties
<1>4. ASSUME Closing(s, i) # 0
      PROVE  SubSeq(s, i, Opening(s, i) - 1) \in Seq(STRING) /\ Candidate(s, i) \in Seq(STRING)
  <2> DEFINE o == Opening(s, i)
             c == Closing(s, i)
  <2>1. o \in i .. Len(s) /\ c \in i + 1 .. Len(s)
    BY <1>4, CandidateIsNext
  <2> HIDE DEF o, c
  <2>2. \A j \in i .. o - 1 : s[j] \in STRING
    BY <1>1, <2>1
  <2>3. \A j \in o .. c : s[j] \in STRING
    BY <1>1, <2>1
  <2>4. SubSeq(s, i, o - 1) \in Seq(STRING)
    BY <1>2, <2>1, <2>2, SubSeqProperties
  <2>5. SubSeq(s, o, c) \in Seq(STRING)
    BY <1>2, <2>1, <2>3, SubSeqProperties
  <2> QED
    BY <2>4, <2>5 DEF o, c, Candidate
<1> QED
  BY <1>3, <1>4

\* What is shown of a value consists of these; the provers do not know that a
\* literal is in STRING.
Lexemes == STRING \cup {"null", "boolean", "number", "json", "{", "$"}

\* A text is a sequence of lexemes.
LEMMA TextsAreLexemes == ASSUME NEW s \in Seq(STRING) PROVE s \in Seq(Lexemes)
<1>1. STRING \subseteq Lexemes
  BY DEF Lexemes
<1> QED
  BY <1>1, SeqMonotonic

\* What the candidate after i is replaced by, and what the text before it is.
Replaced(s, scope, i) ==
  SubSeq(s, i, Opening(s, i) - 1)
  \o (IF ParsesAsPath(Candidate(s, i))
      THEN Shown(LookupPath(scope, Segments(Candidate(s, i)))) ELSE Candidate(s, i))

\* Render goes through the text as the loop does, candidate by candidate.
LEMMA RenderScans ==
  ASSUME NEW s \in Seq(STRING), NEW scope,
         \A t \in Seq(STRING) : Shown(LookupPath(scope, Segments(t))) \in Seq(Lexemes)
  PROVE  \E f :
           /\ Render(s, scope) = f[1]
           /\ \A i \in 1 .. Len(s) + 1 :
                f[i] = IF Closing(s, i) = 0 THEN SubSeq(s, i, Len(s))
                       ELSE Replaced(s, scope, i) \o f[Closing(s, i) + 1]
<1> DEFINE n == Len(s)
           end == [i \in 1 .. n + 1 |-> Closing(s, i)]
           a == [i \in 1 .. n + 1 |-> SubSeq(s, i, n)]
           pre == [i \in 1 .. n + 1 |-> IF Closing(s, i) = 0 THEN <<>> ELSE Replaced(s, scope, i)]
           G == [i \in 1 .. n + 1 |-> [t \in Seq(Lexemes) |-> pre[i] \o t]]
           text[i \in 1 .. n + 1] ==
             IF Closing(s, i) = 0 THEN SubSeq(s, i, n)
             ELSE Replaced(s, scope, i) \o text[Closing(s, i) + 1]
<1>1. n \in Nat
  OBVIOUS
<1>2. a \in [1 .. n + 1 -> Seq(Lexemes)]
  BY PiecesAreText, TextsAreLexemes
<1>3. ASSUME NEW i \in 1 .. n + 1 PROVE pre[i] \in Seq(Lexemes)
  <2>1. CASE Closing(s, i) = 0
    BY <2>1
  <2>2. CASE Closing(s, i) # 0
    <3>1. SubSeq(s, i, Opening(s, i) - 1) \in Seq(Lexemes) /\ Candidate(s, i) \in Seq(Lexemes)
      BY <2>2, PiecesAreText, TextsAreLexemes
    <3>2. Shown(LookupPath(scope, Segments(Candidate(s, i)))) \in Seq(Lexemes)
      BY <2>2, PiecesAreText
    <3>3. Replaced(s, scope, i) \in Seq(Lexemes)
      BY <3>1, <3>2, ConcatProperties DEF Replaced
    <3> QED
      BY <2>2, <3>3
  <2> QED
    BY <2>1, <2>2
<1>4. G \in [1 .. n + 1 -> [Seq(Lexemes) -> Seq(Lexemes)]]
  <2> HIDE DEF pre, n
  <2> QED
    BY <1>3, ConcatProperties
<1>5. \A i \in 1 .. n + 1 : end[i] = 0 \/ end[i] \in i + 1 .. n
  BY CandidateIsNext
<1> HIDE DEF end, G, a, pre, text, n
<1>6. PICK f \in [1 .. n + 1 -> Seq(Lexemes)] :
        Scans(f, n, end, a, G)
  <2> DEFINE V == Seq(Lexemes)
  <2>1. a \in [1 .. n + 1 -> V] /\ G \in [1 .. n + 1 -> [V -> V]]
    BY <1>2, <1>4
  <2> HIDE DEF V
  <2>2. \E f \in [1 .. n + 1 -> V] : Scans(f, n, end, a, G)
    BY <1>1, <1>5, <2>1, ScansEnd
  <2> QED
    BY <2>2 DEF V
<1>7. ASSUME NEW i \in 1 .. n + 1
      PROVE  f[i] = IF Closing(s, i) = 0 THEN SubSeq(s, i, n)
                    ELSE Replaced(s, scope, i) \o f[Closing(s, i) + 1]
  <2>1. end[i] = Closing(s, i) /\ a[i] = SubSeq(s, i, n)
    BY DEF end, a
  <2>2. CASE end[i] = 0
    BY <1>6, <2>1, <2>2 DEF Scans
  <2>3. CASE end[i] # 0
    <3>1. end[i] + 1 \in 1 .. n + 1
      BY <1>1, <1>5, <2>3
    <3>2. f[end[i] + 1] \in Seq(Lexemes)
      BY <3>1
    <3>3. G[i][f[end[i] + 1]] = pre[i] \o f[end[i] + 1]
      BY <3>2 DEF G
    <3>4. pre[i] = Replaced(s, scope, i)
      BY <2>1, <2>3 DEF pre
    <3> QED
      BY <1>6, <2>1, <2>3, <3>3, <3>4 DEF Scans
  <2> QED
    BY <2>2, <2>3
<1>8. f = [i \in 1 .. n + 1 |-> IF Closing(s, i) = 0 THEN SubSeq(s, i, n)
                                ELSE Replaced(s, scope, i) \o f[Closing(s, i) + 1]]
  BY <1>7
<1>9. text = [i \in 1 .. n + 1 |-> IF Closing(s, i) = 0 THEN SubSeq(s, i, n)
                                   ELSE Replaced(s, scope, i) \o text[Closing(s, i) + 1]]
  BY <1>8 DEF text
<1>10. Render(s, scope) = text[1]
  BY DEF Render, Replaced, text, n
<1>11. \A i \in 1 .. n + 1 :
          text[i] = IF Closing(s, i) = 0 THEN SubSeq(s, i, n)
                    ELSE Replaced(s, scope, i) \o text[Closing(s, i) + 1]
  BY <1>9
<1> QED
  BY <1>10, <1>11 DEF n

\* AcceptsTemplate goes through the text candidate by candidate.
LEMMA AcceptScans ==
  ASSUME NEW s \in Seq(STRING)
  PROVE  \E f \in [1 .. Len(s) + 1 -> BOOLEAN] :
           /\ AcceptsTemplate(s) = f[1]
           /\ \A i \in 1 .. Len(s) + 1 :
                f[i] <=> \/ Opening(s, i) = 0
                         \/ /\ Closing(s, i) # 0
                            /\ ParsesAsPath(Candidate(s, i))
                            /\ Head(Segments(Candidate(s, i))) \in Roots
                            /\ f[Closing(s, i) + 1]
<1> DEFINE n == Len(s)
           end == [i \in 1 .. n + 1 |-> Closing(s, i)]
           a == [i \in 1 .. n + 1 |-> Opening(s, i) = 0]
           Ok(i) == ParsesAsPath(Candidate(s, i)) /\ Head(Segments(Candidate(s, i))) \in Roots
           G == [i \in 1 .. n + 1 |-> [b \in BOOLEAN |-> Ok(i) /\ b]]
           Step(f, i) == \/ Opening(s, i) = 0
                         \/ /\ Closing(s, i) # 0
                            /\ ParsesAsPath(Candidate(s, i))
                            /\ Head(Segments(Candidate(s, i))) \in Roots
                            /\ f[Closing(s, i) + 1]
           accepts[i \in 1 .. n + 1] == Step(accepts, i)
<1>1. n \in Nat
  OBVIOUS
<1> HIDE DEF n
<1>2. a \in [1 .. n + 1 -> BOOLEAN]
  <2>1. \A i : (Opening(s, i) = 0) \in BOOLEAN
    OBVIOUS
  <2> QED
    BY <2>1
<1>3. G \in [1 .. n + 1 -> [BOOLEAN -> BOOLEAN]]
  <2> HIDE DEF Ok
  <2> QED
    OBVIOUS
<1>4. \A i \in 1 .. n + 1 : end[i] = 0 \/ end[i] \in i + 1 .. n
  BY CandidateIsNext DEF n
<1>5. \A i \in 1 .. n + 1 : end[i] = Closing(s, i) /\ (a[i] <=> Opening(s, i) = 0)
  OBVIOUS
<1>6. ASSUME NEW i \in 1 .. n + 1, NEW b \in BOOLEAN PROVE G[i][b] <=> Ok(i) /\ b
  OBVIOUS
<1> HIDE DEF end, G, a, Ok, accepts
<1>7. PICK f \in [1 .. n + 1 -> BOOLEAN] : Scans(f, n, end, a, G)
  BY <1>1, <1>2, <1>3, <1>4, ScansEnd
<1>8. ASSUME NEW i \in 1 .. n + 1 PROVE f[i] <=> Step(f, i)
  <2>1. CASE Closing(s, i) = 0
    <3>1. f[i] = a[i]
      BY <1>5, <1>7, <2>1 DEF Scans
    <3> QED
      BY <1>5, <2>1, <3>1
  <2>2. CASE Closing(s, i) # 0
    <3>1. Closing(s, i) + 1 \in 1 .. n + 1
      BY <1>1, <1>4, <1>5, <2>2
    <3>2. f[Closing(s, i) + 1] \in BOOLEAN
      BY <3>1
    <3>3. f[i] = G[i][f[Closing(s, i) + 1]]
      BY <1>5, <1>7, <2>2 DEF Scans
    <3>4. f[i] <=> Ok(i) /\ f[Closing(s, i) + 1]
      BY <1>6, <3>2, <3>3
    <3>5. Opening(s, i) # 0
      BY <2>2, CandidateIsNext DEF n
    <3> QED
      BY <2>2, <3>4, <3>5 DEF Ok
  <2> QED
    BY <2>1, <2>2
<1>9. ASSUME NEW i \in 1 .. n + 1 PROVE f[i] = Step(f, i)
  <2>1. f[i] \in BOOLEAN
    OBVIOUS
  <2>2. Step(f, i) \in BOOLEAN
    OBVIOUS
  <2> HIDE DEF Step
  <2> QED
    BY <1>8, <2>1, <2>2
<1>10. f = [i \in 1 .. n + 1 |-> Step(f, i)]
  BY <1>9
<1>11. accepts = [i \in 1 .. n + 1 |-> Step(accepts, i)]
  BY <1>10 DEF accepts
<1>12. \A i \in 1 .. n + 1 : accepts[i] = Step(accepts, i)
  BY <1>11
<1>13. \A i \in 1 .. n + 1 : Step(accepts, i) \in BOOLEAN
  OBVIOUS
<1>14. accepts \in [1 .. n + 1 -> BOOLEAN]
  BY <1>11, <1>13
<1>15. AcceptsTemplate(s) = accepts[1]
  BY DEF AcceptsTemplate, accepts, n
<1> QED
  BY <1>12, <1>14, <1>15 DEF n

\* A value that, embedded in a text, brings in no bracket.
Clean(v) == Shown(v) \in Seq(Lexemes) /\ ~HasBracket(Shown(v))

\* A word that is shown for a value is no bracket, nor half of one.
LEMMA OneWordIsClean ==
  ASSUME NEW l \in {"null", "boolean", "number", "json"}
  PROVE  <<l>> \in Seq(Lexemes) /\ ~HasBracket(<<l>>) /\ Whole(<<l>>)
<1>1. DOMAIN <<l>> = {1} /\ <<l>>[1] = l /\ Len(<<l>>) = 1
  OBVIOUS
<1>2. l # "{" /\ l # "$"
  OBVIOUS
<1>3. ~HasBracket(<<l>>)
  BY <1>1, <1>2 DEF HasBracket, OpensAt
<1>4. l \in Lexemes
  BY DEF Lexemes
<1>5. <<l>> \in Seq(Lexemes)
  BY <1>4
<1>6. Whole(<<l>>)
  BY <1>1, <1>2 DEF Whole
<1> QED
  BY <1>3, <1>5, <1>6

\* What a template's path leads to holds no bracket that is not in the payload.
LEMMA ReachedHasNoBracket ==
  ASSUME NEW p \in Payloads, NEW v \in Reached(p) \ {Missing}, ~Bracketed(p)
  PROVE  ~Bracketed(v)
<1> DEFINE S == {Null, Object(<<>>), Scope(p)} \cup Below(p)
<1>1. p \in Below(p)
  BY BelowHoldsItself
<1>2. ASSUME NEW u \in S PROVE Children(u) \subseteq S
  <2>1. CASE u \in Below(p)
    BY <2>1, PayloadAssumption
  <2>2. CASE u = Null
    BY <2>2 DEF Children, Null
  <2>3. CASE u = Object(<<>>)
    <3>1. u.t = "object" /\ DOMAIN u.f = {}
      BY <2>3 DEF Object
    <3> QED
      BY <3>1 DEF Children
  <2>4. CASE u = Scope(p)
    <3> DEFINE f == [context |-> p, env |-> Object(<<>>), output |-> Null]
    <3>1. u.t = "object" /\ u.f = f /\ DOMAIN f = {"context", "env", "output"}
      BY <2>4 DEF Scope, Object
    <3>2. {f[k] : k \in DOMAIN f} \subseteq S
      BY <1>1, <3>1
    <3> HIDE DEF f
    <3> QED
      BY <3>1, <3>2 DEF Children
  <2> QED
    BY <2>1, <2>2, <2>3, <2>4
<1>3. ASSUME NEW u \in S
      PROVE  ~(u.t = "string" /\ HasBracket(u.s)) /\ ~(u.t = "object" /\ "{$" \in DOMAIN u.f)
  <2>1. CASE u \in Below(p)
    BY <2>1 DEF Bracketed
  <2>2. CASE u = Null
    BY <2>2 DEF Null
  <2>3. CASE u = Object(<<>>)
    <3>1. u.t = "object" /\ DOMAIN u.f = {}
      BY <2>3 DEF Object
    <3> QED
      BY <3>1
  <2>4. CASE u = Scope(p)
    <3>1. u.t = "object" /\ DOMAIN u.f = {"context", "env", "output"}
      BY <2>4 DEF Scope, Object
    <3> QED
      BY <3>1
  <2> QED
    BY <2>1, <2>2, <2>3, <2>4
<1>4. v \in S
  BY DEF Reached
<1> HIDE DEF S
<1>5. Below(v) \subseteq S
  BY <1>2, <1>4, BelowIsWithin
<1> QED
  BY <1>3, <1>5 DEF Bracketed

\* Embedded in a text it brings in none, nor half of one that the payload's strings
\* do not begin or end with.
LEMMA ReachedIsClean ==
  ASSUME NEW p \in Payloads, NEW v \in Reached(p), ~Bracketed(p)
  PROVE  Clean(v) /\ (Unseamed(p) => Whole(Shown(v)))
<1>1. \A l \in {"null", "boolean", "number", "json"} :
        <<l>> \in Seq(Lexemes) /\ ~HasBracket(<<l>>) /\ Whole(<<l>>)
  BY OneWordIsClean
<1>2. CASE v.t \in {"missing", "null"}
  <2>1. Shown(v) = <<"null">>
    BY <1>2 DEF Shown
  <2> QED
    BY <1>1, <2>1 DEF Clean
<1>3. CASE v.t = "string"
  <2>1. v \in Below(p)
    BY <1>3 DEF Reached, Missing, Null, Object, Scope
  <2>2. v.s \in Seq(STRING)
    BY <1>3, <2>1, PayloadAssumption
  <2>3. ~HasBracket(v.s) /\ (Unseamed(p) => Whole(v.s))
    BY <1>3, <2>1 DEF Bracketed, Unseamed
  <2>4. Shown(v) = v.s
    BY <1>3 DEF Shown
  <2> QED
    BY <2>2, <2>3, <2>4, TextsAreLexemes DEF Clean
<1>4. CASE v.t \in {"object", "array"}
  <2>1. v # Missing
    BY <1>4 DEF Missing
  <2>2. ~Bracketed(v)
    BY <2>1, ReachedHasNoBracket
  <2>3. Shown(v) = <<"json">>
    BY <1>4, <2>2 DEF Shown
  <2> QED
    BY <1>1, <2>3 DEF Clean
<1>5. CASE v.t \notin {"missing", "null", "string", "object", "array"}
  <2>1. v.t \in {"boolean", "number"}
    BY <1>5, PayloadAssumption DEF Reached, Missing, Null, Object, Scope
  <2>2. Shown(v) = <<v.t>>
    BY <1>5 DEF Shown
  <2> QED
    BY <1>1, <2>1, <2>2 DEF Clean
<1> QED
  BY <1>2, <1>3, <1>4, <1>5

\* Sequences in which b does not follow a are so when they are joined, unless one
\* ends in a and the other begins with b.
LEMMA ConcatHasNoPair ==
  ASSUME NEW S, NEW s \in Seq(S), NEW t \in Seq(S), NEW a, NEW b,
         \A i \in 1 .. Len(s) : ~(i < Len(s) /\ s[i] = a /\ s[i + 1] = b),
         \A i \in 1 .. Len(t) : ~(i < Len(t) /\ t[i] = a /\ t[i + 1] = b),
         s = <<>> \/ t = <<>> \/ s[Len(s)] # a \/ t[1] # b
  PROVE  \A i \in 1 .. Len(s \o t) :
           ~(i < Len(s \o t) /\ (s \o t)[i] = a /\ (s \o t)[i + 1] = b)
<1> DEFINE r == s \o t
           m == Len(s)
           n == Len(t)
<1>1. m \in Nat /\ n \in Nat /\ Len(r) = m + n
  BY ConcatProperties, LenProperties
<1>2. \A i \in 1 .. m + n : r[i] = IF i <= m THEN s[i] ELSE t[i - m]
  BY ConcatProperties
<1>3. /\ \A i \in 1 .. m : ~(i < m /\ s[i] = a /\ s[i + 1] = b)
      /\ \A i \in 1 .. n : ~(i < n /\ t[i] = a /\ t[i + 1] = b)
      /\ m = 0 \/ n = 0 \/ s[m] # a \/ t[1] # b
  BY EmptySeq
<1> HIDE DEF r, m, n
<1> SUFFICES ASSUME NEW i \in 1 .. m + n, i < m + n, r[i] = a, r[i + 1] = b PROVE FALSE
  BY <1>1 DEF r
<1>4. i \in Int /\ i + 1 \in 1 .. m + n
  BY <1>1
<1>5. CASE i < m
  <2>1. i \in 1 .. m /\ i <= m /\ i + 1 <= m
    BY <1>1, <1>4, <1>5
  <2> QED
    BY <1>2, <1>3, <1>4, <1>5, <2>1
<1>6. CASE i = m
  <2>1. i <= m /\ ~(i + 1 <= m) /\ i + 1 - m = 1 /\ m # 0 /\ n # 0
    BY <1>1, <1>4, <1>6
  <2>2. r[i] = s[m] /\ r[i + 1] = t[1]
    BY <1>2, <1>4, <1>6, <2>1
  <2> QED
    BY <1>3, <2>1, <2>2
<1>7. CASE i > m
  <2>1. /\ i - m \in 1 .. n /\ i - m < n /\ i + 1 - m = i - m + 1
        /\ ~(i <= m) /\ ~(i + 1 <= m)
    BY <1>1, <1>4, <1>7
  <2>2. r[i] = t[i - m] /\ r[i + 1] = t[i - m + 1]
    <3>1. PICK j \in 1 .. m + n : j = i + 1
      BY <1>4
    <3>2. ~(j <= m) /\ j - m = i - m + 1
      BY <1>1, <1>4, <1>7, <3>1
    <3>3. r[i] = t[i - m] /\ r[j] = t[j - m]
      BY <1>2, <2>1, <3>2, Zenon
    <3> QED
      BY <3>1, <3>2, <3>3, Zenon
  <2> QED
    BY <1>3, <2>1, <2>2
<1> QED
  BY <1>1, <1>4, <1>5, <1>6, <1>7

\* Texts without a bracket have none when they are joined, unless halves of one meet.
LEMMA ConcatHasNoBracket ==
  ASSUME NEW s \in Seq(Lexemes), NEW t \in Seq(Lexemes), ~HasBracket(s), ~HasBracket(t),
         s = <<>> \/ t = <<>> \/ s[Len(s)] # "{" \/ t[1] # "$"
  PROVE  s \o t \in Seq(Lexemes) /\ ~HasBracket(s \o t)
<1>1. s \o t \in Seq(Lexemes)
  BY ConcatProperties
<1>2. \A u \in Seq(Lexemes) : DOMAIN u = 1 .. Len(u)
  BY LenProperties
<1>3. /\ \A i \in 1 .. Len(s) : ~(i < Len(s) /\ s[i] = "{" /\ s[i + 1] = "$")
      /\ \A i \in 1 .. Len(t) : ~(i < Len(t) /\ t[i] = "{" /\ t[i + 1] = "$")
  BY <1>2 DEF HasBracket, OpensAt
<1>4. \A i \in 1 .. Len(s \o t) :
        ~(i < Len(s \o t) /\ (s \o t)[i] = "{" /\ (s \o t)[i + 1] = "$")
  BY <1>3, ConcatHasNoPair
<1> QED
  BY <1>1, <1>2, <1>4 DEF HasBracket, OpensAt

\* The ends of two texts put together.
LEMMA FirstOfConcat ==
  ASSUME NEW S, NEW s \in Seq(S), NEW t \in Seq(S), s # <<>>
  PROVE  s \o t # <<>> /\ (s \o t)[1] = s[1]
<1> DEFINE r == s \o t
<1>1. Len(s) \in Nat \ {0} /\ Len(t) \in Nat /\ Len(<<>>) = 0
  BY EmptySeq, LenProperties
<1>2. /\ Len(r) = Len(s) + Len(t)
      /\ \A i \in 1 .. Len(s) + Len(t) : r[i] = IF i <= Len(s) THEN s[i] ELSE t[i - Len(s)]
  BY ConcatProperties
<1> HIDE DEF r
<1>3. 1 \in 1 .. Len(s) + Len(t) /\ 1 <= Len(s) /\ Len(s) + Len(t) # 0
  BY <1>1
<1>4. r[1] = s[1]
  BY <1>2, <1>3
<1>5. r # <<>>
  BY <1>1, <1>2, <1>3
<1> QED
  BY <1>4, <1>5 DEF r

\* So are their last elements.
LEMMA LastOfConcat ==
  ASSUME NEW S, NEW s \in Seq(S), NEW t \in Seq(S), t # <<>>
  PROVE  s \o t # <<>> /\ (s \o t)[Len(s \o t)] = t[Len(t)]
<1> DEFINE r == s \o t
           m == Len(s)
           n == Len(t)
<1>1. m \in Nat /\ n \in Nat \ {0} /\ Len(<<>>) = 0
  BY EmptySeq, LenProperties
<1>2. /\ Len(r) = m + n
      /\ \A i \in 1 .. m + n : r[i] = IF i <= m THEN s[i] ELSE t[i - m]
  BY ConcatProperties
<1> HIDE DEF r, m, n
<1>3. m + n \in 1 .. m + n /\ ~(m + n <= m) /\ m + n - m = n /\ m + n # 0
  BY <1>1
<1>4. r[m + n] = t[n]
  <2>1. PICK j \in 1 .. m + n : j = m + n
    BY <1>3
  <2>2. ~(j <= m) /\ j - m = n
    BY <1>1, <2>1
  <2>3. r[j] = t[j - m]
    BY <1>2, <2>2, Zenon
  <2> QED
    BY <2>1, <2>2, <2>3, Zenon
<1>5. r # <<>>
  BY <1>1, <1>2, <1>3
<1> QED
  BY <1>2, <1>4, <1>5 DEF r, n

\* A piece of a text in which no bracket opens has none.
LEMMA PieceHasNoBracket ==
  ASSUME NEW s \in Seq(STRING), NEW i \in 1 .. Len(s) + 1, NEW k \in i - 1 .. Len(s),
         NoneOpens(s, i, k)
  PROVE  LET t == SubSeq(s, i, k)
         IN /\ t \in Seq(Lexemes) /\ ~HasBracket(t)
            /\ k < i => t = <<>>
            /\ i <= k => t # <<>> /\ t[1] = s[i] /\ t[Len(t)] = s[k]
<1> DEFINE t == SubSeq(s, i, k)
<1>1. i \in Int /\ k \in Int /\ Len(s) \in Nat
  OBVIOUS
<1>2. \A j \in i .. k : s[j] \in STRING
  BY ElementOfSeq
<1>3. /\ t \in Seq(STRING)
      /\ Len(t) = IF i <= k THEN k - i + 1 ELSE 0
      /\ \A j \in 1 .. k - i + 1 : t[j] = s[i + j - 1]
  <2> HIDE DEF t
  <2> QED
    BY <1>1, <1>2, SubSeqProperties DEF t
<1> HIDE DEF t
<1>4. DOMAIN t = 1 .. Len(t)
  BY <1>3, LenProperties
<1>5. ASSUME NEW j \in DOMAIN t, OpensAt(t, j) PROVE FALSE
  <2>1. Len(t) = k - i + 1 /\ j \in 1 .. k - i + 1 /\ j + 1 \in 1 .. k - i + 1
    <3>1. j \in 1 .. Len(t) /\ j < Len(t) /\ Len(t) \in Nat
      BY <1>3, <1>4, <1>5, LenProperties DEF OpensAt
    <3>2. i <= k
      BY <1>3, <3>1
    <3>3. Len(t) = k - i + 1
      BY <1>3, <3>2
    <3> QED
      BY <1>1, <3>1, <3>3
  <2>2. t[j] = s[i + j - 1] /\ t[j + 1] = s[i + (j + 1) - 1] /\ i + (j + 1) - 1 = i + j - 1 + 1
    <3>1. t[j] = s[i + j - 1] /\ t[j + 1] = s[i + (j + 1) - 1]
      BY <1>3, <2>1
    <3>2. j \in Int
      BY <1>1, <2>1
    <3> QED
      BY <1>1, <3>1, <3>2
  <2>3. i + j - 1 \in i .. k /\ i + j - 1 < Len(s)
    BY <1>1, <2>1
  <2>4. OpensAt(s, i + j - 1)
    BY <1>5, <2>2, <2>3 DEF OpensAt
  <2> QED
    BY <2>3, <2>4 DEF NoneOpens
<1>6. t \in Seq(Lexemes)
  BY <1>3, TextsAreLexemes
<1>7. k < i => t = <<>>
  BY <1>1, <1>3
<1>8. ASSUME i <= k PROVE t # <<>> /\ t[1] = s[i] /\ t[Len(t)] = s[k]
  <2>1. Len(t) = k - i + 1 /\ 1 \in 1 .. k - i + 1 /\ k - i + 1 \in 1 .. k - i + 1
    BY <1>1, <1>3, <1>8
  <2>2. t[1] = s[i + 1 - 1] /\ t[k - i + 1] = s[i + (k - i + 1) - 1]
    BY <1>3, <2>1
  <2>3. i + 1 - 1 = i /\ i + (k - i + 1) - 1 = k
    BY <1>1
  <2> QED
    BY <2>1, <2>2, <2>3
<1> QED
  BY <1>5, <1>6, <1>7, <1>8 DEF HasBracket, t

\* A text that registration accepts comes out without a bracket: its candidates are
\* all replaced, none is left open, and at the seams no two halves of one meet.
LEMMA AcceptedIsRendered ==
  ASSUME NEW s \in Seq(STRING), AcceptsTemplate(s), NEW scope,
         \A t \in Seq(STRING) : Clean(LookupPath(scope, Segments(t))),
         \/ ~HasSeam(s)
         \/ \A t \in Seq(STRING) : Whole(Shown(LookupPath(scope, Segments(t))))
  PROVE  ~HasBracket(Render(s, scope))
<1> DEFINE n == Len(s)
<1>1. PICK f : /\ Render(s, scope) = f[1]
               /\ \A i \in 1 .. n + 1 :
                    f[i] = IF Closing(s, i) = 0 THEN SubSeq(s, i, n)
                           ELSE Replaced(s, scope, i) \o f[Closing(s, i) + 1]
  <2>1. \A t \in Seq(STRING) : Shown(LookupPath(scope, Segments(t))) \in Seq(Lexemes)
    BY DEF Clean
  <2> QED
    BY <2>1, RenderScans
<1>2. PICK g \in [1 .. n + 1 -> BOOLEAN] :
        /\ AcceptsTemplate(s) = g[1]
        /\ \A i \in 1 .. n + 1 :
             g[i] <=> \/ Opening(s, i) = 0
                      \/ /\ Closing(s, i) # 0
                         /\ ParsesAsPath(Candidate(s, i))
                         /\ Head(Segments(Candidate(s, i))) \in Roots
                         /\ g[Closing(s, i) + 1]
  BY AcceptScans
<1> DEFINE Begins(i) ==
             IF i = n + 1 THEN f[i] = <<>>
             ELSE ~OpensAt(s, i) => f[i] # <<>> /\ f[i][1] = s[i]
           Good(i) == g[i] => f[i] \in Seq(Lexemes) /\ ~HasBracket(f[i]) /\ Begins(i)
           T == {k \in Nat : \A i \in n + 1 - k .. n + 1 : Good(i)}
<1>3. n \in Nat
  OBVIOUS
<1>4. ASSUME NEW i \in 1 .. n + 1, Closing(s, i) # 0 => Good(Closing(s, i) + 1)
      PROVE  Good(i)
  <2> SUFFICES ASSUME g[i] PROVE f[i] \in Seq(Lexemes) /\ ~HasBracket(f[i]) /\ Begins(i)
    OBVIOUS
  <2>1. CASE Opening(s, i) = 0
    <3>1. NoneOpens(s, i, n) /\ Closing(s, i) = 0
      BY <2>1, CandidateIsNext
    <3>2. f[i] = SubSeq(s, i, n)
      BY <1>1, <3>1
    <3>3. n \in i - 1 .. Len(s) /\ (i = n + 1 => n < i) /\ (i # n + 1 => i <= n)
      BY <1>3
    <3> HIDE DEF n
    <3> QED
      BY <3>1, <3>2, <3>3, PieceHasNoBracket DEF n
  <2>2. CASE Opening(s, i) # 0
    <3> DEFINE o == Opening(s, i)
               c == Closing(s, i)
               before == SubSeq(s, i, o - 1)
               value == Shown(LookupPath(scope, Segments(Candidate(s, i))))
    <3>1. c # 0 /\ ParsesAsPath(Candidate(s, i)) /\ g[c + 1]
      BY <1>2, <2>2
    <3>2. o \in i .. n /\ c \in i + 1 .. n /\ OpensAt(s, o) /\ s[c] = "}"
      BY <3>1, CandidateIsNext
    <3> HIDE DEF o, c
    <3>3. o \in i .. n /\ c \in i + 1 .. n
      BY <3>2
    <3>4. /\ i \in Int /\ o \in Int /\ c \in Int /\ 1 <= i /\ i <= o /\ o <= n
           /\ i + 1 <= c /\ c <= n /\ c + 1 \in 1 .. n + 1
      <4> HIDE DEF n
      <4> QED
        BY <1>3, <3>3
    <3> USE DEF o, c
    <3>5. NoneOpens(s, i, o - 1)
      BY <3>1, CandidateIsNext
    <3>6. /\ before \in Seq(Lexemes) /\ ~HasBracket(before)
          /\ i = o => before = <<>>
          /\ i # o => before # <<>> /\ before[1] = s[i] /\ before[Len(before)] = s[o - 1]
      <4>1. /\ o - 1 \in i - 1 .. Len(s)
            /\ i = o => o - 1 < i
            /\ i # o => i <= o - 1
        <5> HIDE DEF o, c
        <5> QED
          BY <1>3, <3>4
      <4> HIDE DEF o
      <4> QED
        BY <3>5, <4>1, PieceHasNoBracket
    <3>7. value \in Seq(Lexemes) /\ ~HasBracket(value) /\ (~HasSeam(s) \/ Whole(value))
      <4>1. Candidate(s, i) \in Seq(STRING)
        BY <3>1, PiecesAreText
      <4> QED
        BY <4>1 DEF Clean
    <3>8. f[i] = (before \o value) \o f[c + 1]
      BY <1>1, <3>1 DEF Replaced
    <3>9. f[c + 1] \in Seq(Lexemes) /\ ~HasBracket(f[c + 1]) /\ Begins(c + 1)
      BY <1>4, <3>1
    <3>10. ~HasSeam(s) => /\ i # o => s[o - 1] # "{"
                          /\ c + 1 # n + 1 => ~OpensAt(s, c + 1) /\ s[c + 1] # "$"
      <4>1. ASSUME i # o, s[o - 1] = "{" PROVE HasSeam(s)
        <5> HIDE DEF o, c
        <5>1. o - 1 \in 1 .. n /\ o - 1 + 1 = o
          <6>1. i # o => o - 1 \in 1 .. n /\ o - 1 + 1 = o
            BY <1>3, <3>4
          <6> QED
            BY <4>1, <6>1
        <5>2. o - 1 \in DOMAIN s /\ o - 1 + 1 = o
          BY <5>1, LenProperties
        <5> QED
          BY <3>2, <4>1, <5>2 DEF HasSeam
      <4>2. ASSUME c + 1 # n + 1, OpensAt(s, c + 1) \/ s[c + 1] = "$" PROVE HasSeam(s)
        <5> HIDE DEF o, c
        <5>1. c \in 1 .. n /\ c < n
          <6>1. c + 1 # n + 1 => c \in 1 .. n /\ c < n
            BY <1>3, <3>4
          <6> QED
            BY <4>2, <6>1
        <5>2. c \in DOMAIN s /\ c < Len(s)
          BY <5>1, LenProperties
        <5> QED
          BY <3>2, <4>2, <5>2 DEF HasSeam
      <4> QED
        BY <4>1, <4>2
    <3> HIDE DEF o, c, before, value, n
    <3>11. before = <<>> \/ value = <<>> \/ before[Len(before)] # "{" \/ value[1] # "$"
      BY <3>6, <3>7, <3>10 DEF Whole
    <3>12. before \o value \in Seq(Lexemes) /\ ~HasBracket(before \o value)
      BY <3>6, <3>7, <3>11, ConcatHasNoBracket
    <3> DEFINE both == before \o value
    <3>13. both = <<>> \/ f[c + 1] = <<>> \/ both[Len(both)] # "{" \/ f[c + 1][1] # "$"
      <4>1. CASE ~HasSeam(s)
        BY <3>9, <3>10, <4>1
      <4>2. CASE Whole(value)
        <5>1. value # <<>> /\ value[Len(value)] # "{"
          BY <4>2 DEF Whole
        <5>2. both # <<>> /\ both[Len(both)] = value[Len(value)]
          BY <3>6, <3>7, <5>1, LastOfConcat
        <5> QED
          BY <5>1, <5>2
      <4> QED
        BY <3>7, <4>1, <4>2
    <3>14. f[i] \in Seq(Lexemes) /\ ~HasBracket(f[i])
      <4> HIDE DEF both
      <4>1. both \in Seq(Lexemes) /\ ~HasBracket(both) /\ f[i] = both \o f[c + 1]
        BY <3>8, <3>12 DEF both
      <4> QED
        BY <3>9, <3>13, <4>1, ConcatHasNoBracket
    <3>15. i # n + 1
      BY <1>3, <3>4
    <3>16. ASSUME ~OpensAt(s, i) PROVE f[i] # <<>> /\ f[i][1] = s[i]
      <4>1. before # <<>> /\ before[1] = s[i]
        BY <3>2, <3>6, <3>16
      <4>2. both # <<>> /\ both[1] = before[1]
        BY <3>6, <3>7, <4>1, FirstOfConcat
      <4>3. both \in Seq(Lexemes) /\ f[i] = both \o f[c + 1]
        BY <3>8, <3>12
      <4> HIDE DEF both
      <4>4. f[i] # <<>> /\ f[i][1] = both[1]
        BY <3>9, <4>2, <4>3, FirstOfConcat
      <4> QED
        BY <4>1, <4>2, <4>4
    <3> QED
      BY <3>14, <3>15, <3>16
  <2> QED
    BY <2>1, <2>2
<1> HIDE DEF Good
<1>5. 0 \in T
  <2>1. ASSUME NEW i \in n + 1 .. n + 1 PROVE Good(i)
    <3>1. i \in 1 .. n + 1 /\ i = n + 1
      BY <1>3
    <3>2. Closing(s, i) = 0
      <4>1. Closing(s, i) # 0 => Closing(s, i) \in i + 1 .. n
        BY <3>1, CandidateIsNext
      <4>2. i + 1 .. n = {}
        BY <1>3, <3>1
      <4> QED
        BY <4>1, <4>2
    <3> QED
      BY <1>4, <3>1, <3>2
  <2>2. n + 1 - 0 = n + 1
    BY <1>3
  <2> HIDE DEF n
  <2> QED
    BY <2>1, <2>2
<1>6. ASSUME NEW k \in 0 .. n - 1, k \in T PROVE k + 1 \in T
  <2> DEFINE m == n + 1 - k
  <2>1. m \in 2 .. n + 1 /\ n + 1 - (k + 1) = m - 1 /\ k + 1 \in Nat
    BY <1>3
  <2>2. \A i \in m .. n + 1 : Good(i)
    BY <1>6
  <2> HIDE DEF m
  <2>3. Good(m - 1)
    <3>1. m - 1 \in 1 .. n + 1
      BY <1>3, <2>1
    <3>2. Closing(s, m - 1) # 0 => Closing(s, m - 1) + 1 \in m .. n + 1
      <4>1. Closing(s, m - 1) # 0 => Closing(s, m - 1) \in m - 1 + 1 .. n
        BY <3>1, CandidateIsNext
      <4> QED
        BY <1>3, <2>1, <4>1
    <3> QED
      BY <1>4, <2>2, <3>1, <3>2
  <2>4. \A i \in m - 1 .. n + 1 : i = m - 1 \/ i \in m .. n + 1
    BY <1>3, <2>1
  <2>5. \A i \in m - 1 .. n + 1 : Good(i)
    BY <2>2, <2>3, <2>4
  <2> HIDE DEF n
  <2> QED
    BY <2>1, <2>5
<1>7. n \in T
  <2> HIDE DEF T, n
  <2> QED
    BY <1>3, <1>5, <1>6, BoundedInduction
<1>8. Good(1)
  <2>1. n + 1 - n = 1 /\ 1 \in 1 .. n + 1
    BY <1>3
  <2> HIDE DEF n
  <2> QED
    BY <1>7, <2>1
<1> QED
  BY <1>1, <1>2, <1>8 DEF Good

\* What is sent of a template that was accepted, unless it is a reference to
\* the environment.
LEMMA SentIsClean ==
  ASSUME NEW c \in Config, AcceptsTemplate(c.template), ~IsEnvRef(c.template),
         NEW p \in Payloads, ~Bracketed(p), ~HasSeam(c.template) \/ Unseamed(p)
  PROVE  IF Sent(c, p) = Missing THEN ParsesAsPath(c.template)
         ELSE Sent(c, p).t = "string" => ~HasBracket(Sent(c, p).s)
<1> DEFINE s == c.template
           v == ResolveString(s, Scope(p))
<1>1. s \in Seq(STRING) /\ c.target \in {"uri", "header", "payload"}
  BY DEF Config
<1>2. ResolveEnvRef(s, Env) = s
  BY DEF ResolveEnvRef
<1>3. \A t \in Seq(STRING) : LookupPath(Scope(p), Segments(t)) \in Reached(p)
  BY PathsReach
<1>4. ASSUME v.t = "string" PROVE ~HasBracket(v.s)
  <2>1. CASE ParsesAsPath(s)
    <3> DEFINE u == LookupPath(Scope(p), Segments(s))
    <3>1. v = IF u = Missing THEN Null ELSE u
      BY <2>1 DEF ResolveString
    <3>2. u \in Reached(p)
      BY <1>1, <1>3
    <3> HIDE DEF u, v
    <3>3. u.t = "string" /\ v = u
      BY <1>4, <3>1 DEF Null
    <3>4. Clean(u) /\ Shown(u) = u.s
      BY <3>2, <3>3, ReachedIsClean DEF Shown
    <3> QED
      BY <3>3, <3>4 DEF Clean
  <2>2. CASE ~ParsesAsPath(s)
    <3>1. \A t \in Seq(STRING) :
            /\ Clean(LookupPath(Scope(p), Segments(t)))
            /\ Unseamed(p) => Whole(Shown(LookupPath(Scope(p), Segments(t))))
      BY <1>3, ReachedIsClean
    <3>2. ~HasBracket(Render(s, Scope(p)))
      BY <1>1, <3>1, AcceptedIsRendered
    <3>3. v.s = Render(s, Scope(p))
      BY <2>2 DEF ResolveString, Text
    <3> QED
      BY <3>2, <3>3
  <2> QED
    BY <2>1, <2>2
<1>5. ~ParsesAsPath(s) => v.t = "string" /\ v # Null /\ v # Missing
  BY DEF ResolveString, Text, Null, Missing
<1>6. Sent(c, p) = CASE c.target = "uri" -> IF v.t # "string" THEN Missing ELSE v
                     [] c.target = "header" -> IF v = Null THEN Missing ELSE v
                     [] c.target = "payload" -> v
  <2>1. ~(v.t = "string" /\ HasBracket(v.s))
    BY <1>4
  <2>2. v = ResolveString(ResolveEnvRef(c.template, Env), Scope(p))
    BY <1>2
  <2> HIDE DEF v
  <2> QED
    BY <2>1, <2>2 DEF Sent
<1>7. ParsesAsPath(s) \/ v # Missing
  BY <1>5
<1> HIDE DEF v
<1> QED
  BY <1>1, <1>4, <1>5, <1>6, <1>7

\* What is stored was accepted at registration.
SentInv ==
  /\ ShownInv
  /\ stored # None => AcceptsTemplate(stored.template)
  /\ NoTemplateTextSent

\* An operation that is no invocation sends nothing.
LEMMA OthersSendNothing ==
  ASSUME NEW op, NEW outcome \in {"accepted", "rejected", "ok", "none"},
         last' = Ended(op, outcome)
  PROVE  NoTemplateTextSent'
<1>1. last'.outcome # "untransformed" /\ "sent" \notin DOMAIN last'
  BY DEF Ended
<1> QED
  BY <1>1 DEF NoTemplateTextSent, Resolved

\* The inductive step of SentInv.
LEMMA SentKept == SentInv /\ [Next]_vars => SentInv'
<1> SUFFICES ASSUME SentInv, [Next]_vars PROVE SentInv'
  OBVIOUS
<1>0. ShownInv /\ ShownInv'
  BY ShownKept DEF SentInv
<1>1. ASSUME NEW c, NEW op, Store(c, op)
      PROVE  (stored' # None => AcceptsTemplate(stored'.template)) /\ NoTemplateTextSent'
  <2>1. Accepts(c) => AcceptsTemplate(c.template)
    BY DEF Accepts, AcceptsText
  <2>2. NoTemplateTextSent'
    BY <1>1, OthersSendNothing DEF Store
  <2> QED
    BY <1>1, <2>1, <2>2 DEF Store, SentInv
<1>2. CASE Submit
  BY <1>0, <1>1, <1>2 DEF Submit, SentInv
<1>3. CASE Get
  BY <1>0, <1>3, OthersSendNothing DEF Get, SentInv
<1>4. CASE Resubmit
  BY <1>0, <1>1, <1>4 DEF Resubmit, SentInv
<1>5. CASE Invoke
  <2>1. PICK p \in Payloads : last' = Invocation(stored, p)
    BY <1>5 DEF Invoke
  <2>2. stored \in Config /\ AcceptsTemplate(stored.template) /\ stored' = stored
    BY <1>0, <1>5 DEF Invoke, SentInv, ShownInv
  <2>3. last'.payload = p
    BY <2>1 DEF Invocation
  <2>4. "sent" \in DOMAIN last' => last'.sent = Sent(stored, p)
    BY <2>1 DEF Invocation
  <2>5. last'.outcome = "untransformed" => Sent(stored, p) = Missing
    BY <2>1 DEF Invocation, Rules
  <2>6. NoTemplateTextSent'
    <3> SUFFICES ASSUME "sent" \in DOMAIN last' \/ last'.outcome = "untransformed",
                        ~IsEnvRef(stored.template), ~Bracketed(p),
                        ~HasSeam(stored.template) \/ Unseamed(p)
                 PROVE  IF "sent" \in DOMAIN last' /\ last'.sent # Missing
                        THEN last'.sent.t = "string" => ~HasBracket(last'.sent.s)
                        ELSE ParsesAsPath(stored.template)
      BY <2>2, <2>3 DEF NoTemplateTextSent, Resolved
    <3>1. IF Sent(stored, p) = Missing THEN ParsesAsPath(stored.template)
          ELSE Sent(stored, p).t = "string" => ~HasBracket(Sent(stored, p).s)
      BY <2>2, SentIsClean
    <3> QED
      BY <2>4, <2>5, <3>1
  <2> QED
    BY <1>0, <2>2, <2>6 DEF SentInv
<1>6. CASE Respond
  BY <1>0, <1>6, OthersSendNothing DEF Respond, SentInv, Idle
<1>7. CASE UNCHANGED vars
  BY <1>0, <1>7 DEF vars, SentInv, NoTemplateTextSent, Resolved
<1> QED
  BY <1>2, <1>3, <1>4, <1>5, <1>6, <1>7 DEF Next

\* What registration lets through the runtime resolves, for any template, any
\* payload and any environment: no text with a template's bracket is sent unless
\* one was in the payload or two halves of one met at a seam of the template, and
\* only a template that is one reference leads to no value.
THEOREM TemplatesAreResolved == Spec => []NoTemplateTextSent
<1>1. Init => SentInv
  <2>1. Init => ShownInv
    BY ShownInit
  <2>2. Init => NoTemplateTextSent
    BY DEF Init, NoTemplateTextSent, Resolved, Idle, Ended
  <2> QED
    BY <2>1, <2>2 DEF Init, SentInv
<1>2. SentInv => NoTemplateTextSent
  BY DEF SentInv
<1> QED
  BY <1>1, <1>2, SentKept, PTL DEF Spec
-----------------------------------------------------------------------------
(* Field rules.                                                            *)

\* Prefixes of sequences.
LEMMA PrefixOf ==
  ASSUME NEW S, NEW p \in Seq(S), NEW m \in 0 .. Len(p)
  PROVE  /\ SubSeq(p, 1, m) \in Seq(S) /\ Len(SubSeq(p, 1, m)) = m
         /\ \A i \in 1 .. m : SubSeq(p, 1, m)[i] = p[i]
<1>1. \A i \in 1 .. m : p[i] \in S
  BY ElementOfSeq
<1>2. m \in Int /\ 1 \in Int /\ (IF 1 <= m THEN m - 1 + 1 ELSE 0) = m
  OBVIOUS
<1>3. /\ SubSeq(p, 1, m) \in Seq(S)
      /\ Len(SubSeq(p, 1, m)) = IF 1 <= m THEN m - 1 + 1 ELSE 0
      /\ \A i \in 1 .. m - 1 + 1 : SubSeq(p, 1, m)[i] = p[1 + i - 1]
  BY <1>1, <1>2, SubSeqProperties
<1>4. ASSUME NEW i \in 1 .. m PROVE SubSeq(p, 1, m)[i] = p[i]
  <2>1. i \in 1 .. m - 1 + 1 /\ 1 + i - 1 = i
    OBVIOUS
  <2> QED
    BY <1>3, <2>1
<1> QED
  BY <1>2, <1>3, <1>4

\* A prefix of a prefix is a prefix.
LEMMA PrefixOfPrefix ==
  ASSUME NEW S, NEW p \in Seq(S), NEW m \in 0 .. Len(p), NEW k \in 0 .. m
  PROVE  SubSeq(SubSeq(p, 1, m), 1, k) = SubSeq(p, 1, k)
<1> DEFINE q == SubSeq(p, 1, m)
           r == SubSeq(q, 1, k)
           t == SubSeq(p, 1, k)
<1>1. k \in 0 .. Len(p) /\ m \in Nat /\ \A i \in 1 .. k : i \in 1 .. m
  OBVIOUS
<1>2. q \in Seq(S) /\ Len(q) = m /\ \A i \in 1 .. m : q[i] = p[i]
  BY PrefixOf
<1>3. t \in Seq(S) /\ Len(t) = k /\ \A i \in 1 .. k : t[i] = p[i]
  BY <1>1, PrefixOf
<1> HIDE DEF q
<1>4. r \in Seq(S) /\ Len(r) = k /\ \A i \in 1 .. k : r[i] = q[i]
  BY <1>2, PrefixOf
<1> HIDE DEF r, t
<1>5. r = t
  BY <1>1, <1>2, <1>3, <1>4, SeqEqual
<1> QED
  BY <1>5 DEF q, r, t

\* Appending to a sequence leaves its prefixes.
LEMMA PrefixOfAppend ==
  ASSUME NEW S, NEW p \in Seq(S), NEW x \in S, NEW k \in 0 .. Len(p)
  PROVE  SubSeq(Append(p, x), 1, k) = SubSeq(p, 1, k)
<1> DEFINE q == Append(p, x)
           r == SubSeq(q, 1, k)
           t == SubSeq(p, 1, k)
<1>1. q \in Seq(S) /\ Len(q) = Len(p) + 1 /\ \A i \in 1 .. Len(p) : q[i] = p[i]
  BY AppendProperties
<1>2. \A i \in 1 .. k : i \in 1 .. Len(p)
  OBVIOUS
<1>3. t \in Seq(S) /\ Len(t) = k /\ \A i \in 1 .. k : t[i] = p[i]
  BY PrefixOf
<1> HIDE DEF q
<1>4. k \in 0 .. Len(q)
  BY <1>1
<1>5. r \in Seq(S) /\ Len(r) = k /\ \A i \in 1 .. k : r[i] = q[i]
  BY <1>1, <1>4, PrefixOf
<1> HIDE DEF r, t
<1>6. r = t
  BY <1>1, <1>2, <1>3, <1>5, SeqEqual
<1> QED
  BY <1>6 DEF q, r, t

\* A sequence is its own longest prefix.
LEMMA PrefixOfWhole == ASSUME NEW S, NEW p \in Seq(S) PROVE SubSeq(p, 1, Len(p)) = p
  BY SubSeqFull

\* The next prefix has the next element.
LEMMA NextPrefix ==
  ASSUME NEW S, NEW p \in Seq(S), NEW m \in 0 .. Len(p) - 1
  PROVE  SubSeq(p, 1, m + 1) = Append(SubSeq(p, 1, m), p[m + 1])
<1> DEFINE q == SubSeq(p, 1, m)
           r == SubSeq(p, 1, m + 1)
           t == Append(q, p[m + 1])
<1>1. m + 1 \in 1 .. Len(p) /\ m + 1 \in 0 .. Len(p) /\ m \in 0 .. Len(p)
  OBVIOUS
<1>2. p[m + 1] \in S
  BY <1>1, ElementOfSeq
<1>3. q \in Seq(S) /\ Len(q) = m /\ \A i \in 1 .. m : q[i] = p[i]
  BY <1>1, PrefixOf
<1>4. r \in Seq(S) /\ Len(r) = m + 1 /\ \A i \in 1 .. m + 1 : r[i] = p[i]
  BY <1>1, PrefixOf
<1> HIDE DEF q, r
<1>5. t \in Seq(S) /\ Len(t) = m + 1 /\ t[m + 1] = p[m + 1]
      /\ \A i \in 1 .. m : t[i] = q[i]
  BY <1>2, <1>3, AppendProperties
<1> HIDE DEF t
<1>6. ASSUME NEW i \in 1 .. m + 1 PROVE r[i] = t[i]
  <2>1. CASE i = m + 1
    BY <1>4, <1>5, <2>1
  <2>2. CASE i # m + 1
    <3>1. i \in 1 .. m
      BY <2>2
    <3> QED
      BY <1>3, <1>4, <1>5, <3>1
  <2> QED
    BY <2>1, <2>2
<1>7. r = t
  BY <1>4, <1>5, <1>6, SeqEqual
<1> QED
  BY <1>7 DEF q, r, t

\* The segments that a place consists of, and those of an instance, which may
\* end with "*".
Steps == Names \cup Range(Indices)
Marks == Steps \cup {"*"}

\* The place above position i of a path's instance, and what may be there.
Above(payload, p, i) == LookupPath(payload, SubSeq(p, 1, i - 1))
FitsAt(path, payload, p, i) ==
  IF path[i] # Each THEN p[i] = path[i]
  ELSE IF Above(payload, p, i).t = "array"
       THEN p[i] \in {Indices[j] : j \in DOMAIN Above(payload, p, i).e}
       ELSE p[i] = "*" /\ i = Len(p)

\* The marks of a rule are neither names nor indices.
LEMMA StarIsNoStep == "*" \notin Steps /\ Each \notin Marks
  BY TextAssumption DEF Steps, Marks, Each

\* An index of an array below a payload has a lexeme.
LEMMA ArraysHaveIndices ==
  ASSUME NEW p \in Payloads, NEW S, NEW at \in Seq(S), LookupPath(p, at).t = "array"
  PROVE  /\ DOMAIN LookupPath(p, at).e \subseteq DOMAIN Indices
         /\ DOMAIN LookupPath(p, at).e = 1 .. Len(LookupPath(p, at).e)
         /\ Len(LookupPath(p, at).e) \in Nat
         /\ \A j \in DOMAIN LookupPath(p, at).e : Indices[j] \in Steps
<1> DEFINE v == LookupPath(p, at)
           V == {Missing} \cup Below(p)
<1>1. p \in V
  BY BelowHoldsItself
<1>2. \A u \in V : \A s \in S : Child(u, s) \in V
  BY ChildIsBelow, ChildOfMissing
<1>3. v \in V
  <2> HIDE DEF V
  <2> QED
    BY <1>1, <1>2, LookupStays
<1>4. v \in Below(p)
  BY <1>3 DEF Missing
<1> HIDE DEF v
<1>5. v.e \in Seq(Range(v.e)) /\ Len(v.e) <= Len(Indices)
  BY <1>4, PayloadAssumption DEF v
<1>6. DOMAIN v.e = 1 .. Len(v.e) /\ Len(v.e) \in Nat
  BY <1>5, LenProperties
<1>7. DOMAIN Indices = 1 .. Len(Indices) /\ Len(Indices) \in Nat
  <2>1. Indices \in Seq(STRING)
    BY TextAssumption
  <2> QED
    BY <2>1, LenProperties
<1>8. DOMAIN v.e \subseteq DOMAIN Indices
  BY <1>5, <1>6, <1>7
<1>9. \A j \in DOMAIN v.e : Indices[j] \in Steps
  BY <1>8 DEF Steps, Range
<1> QED
  BY <1>6, <1>8, <1>9 DEF v

\* An instance of a path, by its positions.
LEMMA InstanceIs ==
  ASSUME NEW payload \in Payloads, NEW path \in Seq(Steps \cup {Each}), NEW p
  PROVE  p \in Instances(path, payload) <=>
           /\ p \in Seq(Marks) /\ Len(p) \in 1 .. Len(path)
           /\ \A i \in 1 .. Len(p) : FitsAt(path, payload, p, i)
           /\ Len(p) = Len(path) \/ p[Len(p)] = "*"
<1> DEFINE At(i) == IF path[i] = Each THEN Range(Indices) \cup {"*"} ELSE {path[i]}
           All == UNION {At(i) : i \in DOMAIN path}
           Shapes == UNION {{q \in [1 .. n -> All] : \A i \in 1 .. n : q[i] \in At(i)} :
                              n \in DOMAIN path}
           Fits == \A i \in DOMAIN p : FitsAt(path, payload, p, i)
<1>1. p \in Instances(path, payload) <=>
        p \in Shapes /\ Fits /\ (Len(p) = Len(path) \/ p[Len(p)] = "*")
  BY DEF Instances, FitsAt, Above
<1>2. DOMAIN path = 1 .. Len(path) /\ Len(path) \in Nat
  BY LenProperties
<1>3. ASSUME NEW i \in DOMAIN path PROVE At(i) \subseteq Marks
  <2>1. path[i] \in Steps \cup {Each}
    BY <1>2, ElementOfSeq
  <2> QED
    BY <2>1 DEF Steps, Marks
<1>4. ASSUME p \in Shapes PROVE p \in Seq(Marks) /\ Len(p) \in 1 .. Len(path)
  <2>1. PICK n \in DOMAIN path : p \in [1 .. n -> All] /\ \A i \in 1 .. n : p[i] \in At(i)
    BY <1>4
  <2>2. All \subseteq Marks
    BY <1>3
  <2> HIDE DEF All, At
  <2>3. n \in Nat /\ p \in [1 .. n -> Marks]
    BY <1>2, <2>1, <2>2
  <2>4. p \in Seq(Marks) /\ Len(p) = n
    BY <2>3, SeqDef
  <2> QED
    BY <1>2, <2>4
<1>5. ASSUME p \in Seq(Marks), Len(p) \in 1 .. Len(path), Fits PROVE p \in Shapes
  <2>1. DOMAIN p = 1 .. Len(p) /\ p \in [1 .. Len(p) -> Marks]
    BY <1>5, LenProperties
  <2>2. ASSUME NEW i \in 1 .. Len(p) PROVE p[i] \in At(i) /\ p[i] \in All
    <3>1. i \in DOMAIN path /\ FitsAt(path, payload, p, i)
      BY <1>2, <1>5, <2>1
    <3>2. CASE path[i] # Each
      BY <3>1, <3>2 DEF FitsAt
    <3>3. CASE path[i] = Each
      <4>1. CASE Above(payload, p, i).t = "array"
        <5>1. PICK j \in DOMAIN Above(payload, p, i).e : p[i] = Indices[j]
          BY <3>1, <3>3, <4>1 DEF FitsAt
        <5>2. SubSeq(p, 1, i - 1) \in Seq(Marks)
          <6>1. i - 1 \in 0 .. Len(p)
            BY <1>5
          <6> QED
            BY <1>5, <6>1, PrefixOf
        <5>3. j \in DOMAIN Indices
          BY <4>1, <5>1, <5>2, ArraysHaveIndices DEF Above
        <5>4. p[i] \in Range(Indices)
          BY <5>1, <5>3 DEF Range
        <5> QED
          BY <3>1, <3>3, <5>4
      <4>2. CASE Above(payload, p, i).t # "array"
        BY <3>1, <3>3, <4>2 DEF FitsAt
      <4> QED
        BY <4>1, <4>2
    <3> QED
      BY <3>2, <3>3
  <2> HIDE DEF At, All
  <2>3. p \in [1 .. Len(p) -> All] /\ Len(p) \in DOMAIN path
    BY <1>2, <1>5, <2>1, <2>2
  <2> QED
    BY <2>2, <2>3
<1> HIDE DEF Shapes
<1>6. p \in Seq(Marks) => DOMAIN p = 1 .. Len(p)
  BY LenProperties
<1> QED
  BY <1>1, <1>4, <1>5, <1>6

\* The walk looks only at the places one segment further.
LEMMA WalkLooksAhead ==
  ASSUME NEW f \in Rule, NEW payload \in Payloads, NEW at \in Places(f), NEW w, NEW h,
         Len(at) < Len(f.path) => \A x \in Steps : w[Append(at, x)] = h[Append(at, x)]
  PROVE  FailureAt(f, payload, w, at) = FailureAt(f, payload, h, at)
<1> DEFINE v == LookupPath(payload, at)
           segment == f.path[Len(at) + 1]
           wrongW == {i \in DOMAIN v.e : w[Append(at, Indices[i])] # NoFailure}
           wrongH == {i \in DOMAIN v.e : h[Append(at, Indices[i])] # NoFailure}
<1>1. at \in Seq(Steps) /\ Len(at) <= Len(f.path) /\ Len(at) \in Nat /\ Len(f.path) \in Nat
      /\ f.path \in Seq(Steps \cup {Each})
  <2>1. at \in Seq(Steps) /\ Len(at) <= Len(f.path)
    BY DEF Places, Steps
  <2>2. f.path \in Seq(Steps \cup {Each})
    BY DEF Rule, Steps
  <2> QED
    BY <2>1, <2>2, LenProperties
<1>2. CASE Len(at) = Len(f.path)
  BY <1>2 DEF FailureAt
<1>3. CASE Len(at) # Len(f.path)
  <2>1. Len(at) < Len(f.path)
    BY <1>1, <1>3
  <2>2. \A x \in Steps : w[Append(at, x)] = h[Append(at, x)]
    BY <2>1
  <2>3. CASE segment # Each
    <3>1. segment \in Steps
      <4>1. Len(at) + 1 \in 1 .. Len(f.path)
        BY <1>1, <2>1
      <4> QED
        BY <1>1, <2>3, <4>1, ElementOfSeq
    <3>2. w[Append(at, segment)] = h[Append(at, segment)]
      BY <2>2, <3>1
    <3> QED
      BY <1>3, <2>3, <3>2 DEF FailureAt
  <2>4. CASE segment = Each /\ v.t # "array"
    BY <1>3, <2>4 DEF FailureAt
  <2>5. CASE segment = Each /\ v.t = "array"
    <3>1. DOMAIN v.e = 1 .. Len(v.e) /\ \A i \in DOMAIN v.e : Indices[i] \in Steps
      BY <1>1, <2>5, ArraysHaveIndices
    <3>2. wrongW = wrongH
      BY <2>2, <3>1
    <3>3. wrongW # {} => Min(wrongW) \in wrongW
      <4>1. wrongW \subseteq Nat
        BY <3>1
      <4> HIDE DEF wrongW
      <4>2. wrongW # {} => \E m \in wrongW : \A k \in wrongW : m <= k
        BY <4>1, LeastElement
      <4> QED
        BY <4>2 DEF Min
    <3>4. wrongW # {} =>
            w[Append(at, Indices[Min(wrongW)])] = h[Append(at, Indices[Min(wrongH)])]
      <4>1. wrongW # {} => Indices[Min(wrongW)] \in Steps
        BY <3>1, <3>3
      <4> HIDE DEF wrongW, wrongH
      <4> QED
        BY <2>2, <3>2, <4>1
    <3>5. FailureAt(f, payload, w, at) =
            IF wrongW = {} THEN NoFailure ELSE w[Append(at, Indices[Min(wrongW)])]
      BY <1>3, <2>5 DEF FailureAt
    <3>6. FailureAt(f, payload, h, at) =
            IF wrongH = {} THEN NoFailure ELSE h[Append(at, Indices[Min(wrongH)])]
      BY <1>3, <2>5 DEF FailureAt
    <3> HIDE DEF wrongW, wrongH
    <3> QED
      BY <3>2, <3>4, <3>5, <3>6
  <2> QED
    BY <2>3, <2>4, <2>5
<1> QED
  BY <1>2, <1>3

\* Hence the walk is defined at all places.
LEMMA WalkIsDefined ==
  ASSUME NEW f \in Rule, NEW payload \in Payloads
  PROVE  \E w : /\ FieldFailure(f, payload) = w[<<>>]
                /\ \A at \in Places(f) : w[at] = FailureAt(f, payload, w, at)
<1> DEFINE n == Len(f.path)
           From(m) == {at \in Places(f) : Len(at) >= m}
           Goes(w, m) == /\ w = [at \in From(m) |-> w[at]]
                         /\ \A at \in From(m) : w[at] = FailureAt(f, payload, w, at)
           T == {k \in Nat : \E w : Goes(w, n - k)}
           walk[at \in Places(f)] == FailureAt(f, payload, walk, at)
<1>1. n \in Nat
  <2>1. f.path \in Seq(Steps \cup {Each})
    BY DEF Rule, Steps
  <2> QED
    BY <2>1, LenProperties
<1>2. ASSUME NEW at \in Places(f) PROVE at \in Seq(Steps) /\ Len(at) \in 0 .. n
  <2>1. at \in Seq(Steps) /\ Len(at) <= n
    BY DEF Places, Steps
  <2> HIDE DEF n
  <2> QED
    BY <1>1, <2>1, LenProperties
<1>3. ASSUME NEW at \in Places(f), Len(at) < n, NEW x \in Steps
      PROVE  Append(at, x) \in Places(f) /\ Len(Append(at, x)) = Len(at) + 1
  <2>1. Append(at, x) \in Seq(Steps) /\ Len(Append(at, x)) = Len(at) + 1
    BY <1>2, AppendProperties
  <2>2. Len(Append(at, x)) <= Len(f.path)
    BY <1>1, <1>2, <1>3, <2>1
  <2> QED
    BY <2>1, <2>2 DEF Places, Steps
<1> HIDE DEF walk
<1>4. 0 \in T
  <2> DEFINE w == [at \in From(n) |-> FailureAt(f, payload, <<>>, at)]
  <2>1. ASSUME NEW at \in From(n) PROVE w[at] = FailureAt(f, payload, w, at)
    <3>1. at \in Places(f) /\ ~(Len(at) < Len(f.path))
      BY <1>1, <1>2
    <3> HIDE DEF w
    <3>2. FailureAt(f, payload, w, at) = FailureAt(f, payload, <<>>, at)
      BY <3>1, WalkLooksAhead
    <3> QED
      BY <3>2 DEF w
  <2>2. w = [at \in From(n) |-> w[at]]
    OBVIOUS
  <2> HIDE DEF w, From
  <2>3. Goes(w, n)
    BY <2>1, <2>2
  <2>4. n - 0 = n
    BY <1>1
  <2> HIDE DEF Goes, n
  <2> QED
    BY <2>3, <2>4
<1>5. ASSUME NEW k \in 0 .. n - 1, k \in T PROVE k + 1 \in T
  <2> DEFINE m == n - k
  <2>1. PICK w : Goes(w, m)
    BY <1>5
  <2>2. m \in 1 .. n /\ n - (k + 1) = m - 1 /\ k + 1 \in Nat
    BY <1>1
  <2> HIDE DEF m, Goes
  <2> DEFINE h == [at \in From(m - 1) |->
                     IF Len(at) >= m THEN w[at] ELSE FailureAt(f, payload, w, at)]
  <2>3. ASSUME NEW at \in From(m - 1) PROVE h[at] = FailureAt(f, payload, h, at)
    <3>1. at \in Places(f) /\ Len(at) \in Nat
      BY <1>2
    <3>2. ASSUME Len(at) < Len(f.path), NEW x \in Steps
          PROVE  w[Append(at, x)] = h[Append(at, x)]
      <4>1. Append(at, x) \in Places(f) /\ Len(Append(at, x)) = Len(at) + 1
        BY <1>3, <3>1, <3>2
      <4>2. Len(Append(at, x)) >= m
        BY <2>2, <3>1, <4>1
      <4>3. Len(Append(at, x)) >= m - 1
        BY <2>2, <3>1, <4>1
      <4> QED
        BY <4>1, <4>2, <4>3
    <3> HIDE DEF h
    <3>3. FailureAt(f, payload, w, at) = FailureAt(f, payload, h, at)
      BY <3>1, <3>2, WalkLooksAhead
    <3>4. CASE Len(at) >= m
      <4>1. w[at] = FailureAt(f, payload, w, at)
        BY <2>1, <3>1, <3>4 DEF Goes
      <4> QED
        BY <3>3, <3>4, <4>1 DEF h
    <3>5. CASE ~(Len(at) >= m)
      BY <3>3, <3>5 DEF h
    <3> QED
      BY <3>4, <3>5
  <2>4. h = [at \in From(m - 1) |-> h[at]]
    OBVIOUS
  <2> HIDE DEF h, From
  <2>5. Goes(h, m - 1)
    BY <2>3, <2>4 DEF Goes
  <2> HIDE DEF n
  <2> QED
    BY <2>2, <2>5
<1>6. n \in T
  <2> HIDE DEF T, n
  <2> QED
    BY <1>1, <1>4, <1>5, BoundedInduction
<1>7. PICK w : Goes(w, 0)
  <2>1. n - n = 0
    BY <1>1
  <2> HIDE DEF Goes, n
  <2> QED
    BY <1>6, <2>1
<1>8. From(0) = Places(f)
  BY <1>1, <1>2
<1>9. w = [at \in Places(f) |-> FailureAt(f, payload, w, at)]
  <2> HIDE DEF From
  <2> QED
    BY <1>7, <1>8
<1>10. walk = [at \in Places(f) |-> FailureAt(f, payload, walk, at)]
  BY <1>9 DEF walk
<1>11. FieldFailure(f, payload) = walk[<<>>]
  BY DEF FieldFailure, walk
<1>12. \A at \in Places(f) : walk[at] = FailureAt(f, payload, walk, at)
  BY <1>10
<1> QED
  BY <1>11, <1>12

\* A place that the walk gets to, the wrong places that begin with it, and
\* what the walk from it has to return: the first of these, if there is one.
Along(f, payload, at) ==
  at \in Places(f) /\ \A i \in 1 .. Len(at) : FitsAt(f.path, payload, at, i)
WrongFrom(f, payload, at) ==
  {p \in Wrong(f, payload) : Len(p) >= Len(at) /\ SubSeq(p, 1, Len(at)) = at}
IsFirst(r, W) == r \in W /\ \A q \in W \ {r} : Precedes(r, q)
Finds(r, W) == IF W = {} THEN r = NoFailure ELSE IsFirst(r, W)

\* What a rule's path consists of.
LEMMA RuleTypes ==
  ASSUME NEW f \in Rule
  PROVE  /\ f.path \in Seq(Steps \cup {Each}) /\ Len(f.path) \in Nat
         /\ \A i \in 1 .. Len(f.path) : f.path[i] \in Steps \cup {Each}
<1>1. f.path \in Seq(Steps \cup {Each})
  BY DEF Rule, Steps
<1> QED
  BY <1>1, LenProperties, ElementOfSeq

\* What a place of the walk consists of.
LEMMA PlaceTypes ==
  ASSUME NEW f \in Rule, NEW at \in Places(f)
  PROVE  /\ at \in Seq(Steps) /\ at \in Seq(Marks) /\ Len(at) \in 0 .. Len(f.path)
         /\ Len(at) \in Nat /\ \A i \in 1 .. Len(at) : at[i] \in Steps
<1>1. at \in Seq(Steps) /\ Len(at) <= Len(f.path)
  BY DEF Places, Steps
<1>2. Steps \subseteq Marks
  BY DEF Marks
<1>3. at \in Seq(Marks)
  BY <1>1, <1>2, SeqMonotonic
<1>4. Len(at) \in Nat
  BY <1>1, LenProperties
<1>5. Len(f.path) \in Nat
  BY RuleTypes
<1>6. Len(at) \in 0 .. Len(f.path)
  BY <1>1, <1>4, <1>5
<1> QED
  BY <1>1, <1>3, <1>4, <1>6, ElementOfSeq

\* An instance that is wrong.
LEMMA WrongIs ==
  ASSUME NEW f \in Rule, NEW payload \in Payloads, NEW p
  PROVE  p \in Wrong(f, payload) <=>
           /\ p \in Seq(Marks) /\ Len(p) \in 1 .. Len(f.path)
           /\ \A i \in 1 .. Len(p) : FitsAt(f.path, payload, p, i)
           /\ Len(p) = Len(f.path) \/ p[Len(p)] = "*"
           /\ p[Len(p)] = "*" \/ Violates(f, LookupPath(payload, p))
<1>1. p \in Instances(f.path, payload) <=>
           /\ p \in Seq(Marks) /\ Len(p) \in 1 .. Len(f.path)
           /\ \A i \in 1 .. Len(p) : FitsAt(f.path, payload, p, i)
           /\ Len(p) = Len(f.path) \/ p[Len(p)] = "*"
  BY RuleTypes, InstanceIs
<1>2. p \in Wrong(f, payload) <=>
        p \in Instances(f.path, payload) /\ (p[Len(p)] = "*" \/ Violates(f, LookupPath(payload, p)))
  BY DEF Wrong
<1> QED
  BY <1>1, <1>2

\* The place above a position is the prefix that ends before it.
LEMMA AboveNext ==
  ASSUME NEW payload, NEW p, NEW n \in Nat
  PROVE  Above(payload, p, n + 1) = LookupPath(payload, SubSeq(p, 1, n))
<1> DEFINE i == n + 1
<1>1. i - 1 = n
  OBVIOUS
<1> HIDE DEF i
<1>2. Above(payload, p, i) = LookupPath(payload, SubSeq(p, 1, i - 1))
  BY DEF Above
<1>3. Above(payload, p, i) = LookupPath(payload, SubSeq(p, 1, n))
  BY <1>1, <1>2
<1> QED
  BY <1>3 DEF i

\* What fitted at a place still fits when one goes on.
LEMMA StillFits ==
  ASSUME NEW f \in Rule, NEW payload, NEW at, Along(f, payload, at), NEW x \in Marks
  PROVE  /\ Append(at, x) \in Seq(Marks) /\ Len(Append(at, x)) = Len(at) + 1
         /\ Append(at, x)[Len(at) + 1] = x
         /\ \A i \in 1 .. Len(at) : FitsAt(f.path, payload, Append(at, x), i)
         /\ Above(payload, Append(at, x), Len(at) + 1) = LookupPath(payload, at)
<1> DEFINE q == Append(at, x)
           n == Len(at)
<1>1. at \in Seq(Marks) /\ n \in Nat /\ \A i \in 1 .. n : at[i] \in Steps
  BY PlaceTypes DEF Along
<1>2. q \in Seq(Marks) /\ Len(q) = n + 1 /\ q[n + 1] = x /\ \A i \in 1 .. n : q[i] = at[i]
  BY <1>1, AppendProperties
<1>3. \A k \in 0 .. n : SubSeq(q, 1, k) = SubSeq(at, 1, k)
  BY <1>1, PrefixOfAppend
<1>4. SubSeq(q, 1, n) = at
  <2>1. SubSeq(at, 1, n) = at /\ n \in 0 .. n
    BY <1>1, PrefixOfWhole
  <2> HIDE DEF q, n
  <2> QED
    BY <1>3, <2>1
<1> HIDE DEF q, n
<1>5. ASSUME NEW i \in 1 .. n PROVE FitsAt(f.path, payload, q, i)
  <2>1. FitsAt(f.path, payload, at, i)
    BY DEF Along, n
  <2>2. SubSeq(q, 1, i - 1) = SubSeq(at, 1, i - 1)
    <3>1. i - 1 \in 0 .. n
      BY <1>1
    <3> QED
      BY <1>3, <3>1
  <2>3. q[i] = at[i] /\ at[i] # "*"
    BY <1>1, <1>2, StarIsNoStep
  <2> QED
    BY <2>1, <2>2, <2>3 DEF FitsAt, Above
<1>6. Above(payload, q, n + 1) = LookupPath(payload, at)
  BY <1>1, <1>4, AboveNext
<1> QED
  BY <1>2, <1>5, <1>6 DEF q, n

\* One step further along a path.
LEMMA StepAlong ==
  ASSUME NEW f \in Rule, NEW payload, NEW at, Along(f, payload, at),
         Len(at) < Len(f.path), NEW x \in Steps,
         \/ f.path[Len(at) + 1] = x
         \/ /\ f.path[Len(at) + 1] = Each /\ LookupPath(payload, at).t = "array"
            /\ x \in {Indices[j] : j \in DOMAIN LookupPath(payload, at).e}
  PROVE  Along(f, payload, Append(at, x))
<1> DEFINE q == Append(at, x)
           n == Len(at)
<1>1. x \in Marks /\ x # Each
  BY StarIsNoStep DEF Marks
<1>2. /\ Len(q) = n + 1 /\ q[n + 1] = x /\ \A i \in 1 .. n : FitsAt(f.path, payload, q, i)
      /\ Above(payload, q, n + 1) = LookupPath(payload, at)
  BY <1>1, StillFits
<1>3. at \in Seq(Steps) /\ n \in Nat
  BY PlaceTypes DEF Along
<1>4. q \in Seq(Steps)
  BY <1>3, AppendProperties
<1> HIDE DEF q
<1>5. FitsAt(f.path, payload, q, n + 1)
  BY <1>1, <1>2 DEF FitsAt
<1>6. q \in Places(f)
  <2>1. Len(q) <= Len(f.path)
    BY <1>2, <1>3, RuleTypes
  <2> QED
    BY <1>4, <2>1 DEF Places, Steps
<1>7. \A i \in 1 .. Len(q) : i \in 1 .. n \/ i = n + 1
  BY <1>2, <1>3
<1> HIDE DEF n
<1> QED
  BY <1>2, <1>5, <1>6, <1>7 DEF Along, q

\* A wrong place beyond one that is reached goes on with a step that fits.
LEMMA WrongGoesOn ==
  ASSUME NEW f \in Rule, NEW payload \in Payloads, NEW at, Along(f, payload, at),
         Len(at) < Len(f.path), NEW p \in WrongFrom(f, payload, at)
  PROVE  /\ p \in Seq(Marks) /\ Len(p) >= Len(at) + 1 /\ Len(p) \in Nat
         /\ p[Len(at) + 1] \in Marks
         /\ SubSeq(p, 1, Len(at) + 1) = Append(at, p[Len(at) + 1])
         /\ IF f.path[Len(at) + 1] # Each THEN p[Len(at) + 1] = f.path[Len(at) + 1]
            ELSE IF LookupPath(payload, at).t = "array"
                 THEN p[Len(at) + 1] \in {Indices[j] : j \in DOMAIN LookupPath(payload, at).e}
                 ELSE p[Len(at) + 1] = "*" /\ Len(at) + 1 = Len(p)
<1> DEFINE n == Len(at)
<1>1. /\ p \in Seq(Marks) /\ Len(p) \in 1 .. Len(f.path)
      /\ \A i \in 1 .. Len(p) : FitsAt(f.path, payload, p, i)
      /\ Len(p) = Len(f.path) \/ p[Len(p)] = "*"
  BY WrongIs DEF WrongFrom
<1>2. Len(p) >= n /\ SubSeq(p, 1, n) = at
  BY DEF WrongFrom
<1>3. n \in Nat /\ \A i \in 1 .. n : at[i] \in Steps
  BY PlaceTypes DEF Along
<1>4. Len(p) # n
  <2> SUFFICES ASSUME Len(p) = n PROVE FALSE
    OBVIOUS
  <2>1. p = at
    BY <1>1, <1>2, PrefixOfWhole
  <2>2. Len(p) # Len(f.path) /\ n \in 1 .. n
    BY <1>1, <1>3
  <2>3. p[n] = "*"
    BY <1>1, <2>2
  <2> QED
    BY <1>3, <2>1, <2>2, <2>3, StarIsNoStep
<1>5. n + 1 \in 1 .. Len(p) /\ n \in 0 .. Len(p) - 1 /\ n + 1 - 1 = n /\ Len(p) \in Nat
  BY <1>1, <1>2, <1>3, <1>4
<1>6. p[n + 1] \in Marks
  BY <1>1, <1>5, ElementOfSeq
<1>7. SubSeq(p, 1, n + 1) = Append(at, p[n + 1])
  BY <1>1, <1>2, <1>5, NextPrefix
<1>8. FitsAt(f.path, payload, p, n + 1)
  BY <1>1, <1>5
<1>9. Above(payload, p, n + 1) = LookupPath(payload, at)
  BY <1>2, <1>3, AboveNext
<1>10. Len(p) >= n + 1
  BY <1>5
<1> HIDE DEF n
<1> QED
  BY <1>1, <1>5, <1>6, <1>7, <1>8, <1>9, <1>10 DEF n, FitsAt

\* Wrong places beyond one step from a place are beyond the place.
LEMMA BeyondAStep ==
  ASSUME NEW f \in Rule, NEW payload \in Payloads, NEW at, Along(f, payload, at),
         Len(at) < Len(f.path), NEW x \in Steps, NEW p
  PROVE  p \in WrongFrom(f, payload, Append(at, x)) <=>
           p \in WrongFrom(f, payload, at) /\ p[Len(at) + 1] = x
<1> DEFINE n == Len(at)
           q == Append(at, x)
<1>1. at \in Seq(Steps) /\ at \in Seq(Marks) /\ n \in Nat
  BY PlaceTypes DEF Along
<1>2. q \in Seq(Steps) /\ Len(q) = n + 1 /\ q[n + 1] = x
  BY <1>1, AppendProperties
<1>3. SubSeq(q, 1, n) = at
  <2>1. SubSeq(at, 1, n) = at /\ n \in 0 .. n
    BY <1>1, PrefixOfWhole
  <2> HIDE DEF n
  <2>2. SubSeq(q, 1, n) = SubSeq(at, 1, n)
    BY <1>1, <2>1, PrefixOfAppend DEF n
  <2> QED
    BY <2>1, <2>2
<1> HIDE DEF q
<1>4. ASSUME p \in WrongFrom(f, payload, q)
      PROVE  p \in WrongFrom(f, payload, at) /\ p[n + 1] = x
  <2>1. p \in Wrong(f, payload) /\ Len(p) >= n + 1 /\ SubSeq(p, 1, n + 1) = q
    BY <1>2, <1>4 DEF WrongFrom
  <2>2. p \in Seq(Marks) /\ Len(p) \in Nat
    <3>1. p \in Seq(Marks)
      BY <2>1, WrongIs
    <3> QED
      BY <3>1, LenProperties
  <2> HIDE DEF n
  <2>3. n + 1 \in 0 .. Len(p) /\ n \in 0 .. n + 1 /\ n + 1 \in 1 .. n + 1 /\ Len(p) >= n
    BY <1>1, <2>1, <2>2
  <2>4. SubSeq(p, 1, n) = at
    BY <1>3, <2>1, <2>2, <2>3, PrefixOfPrefix
  <2>5. p[n + 1] = x
    BY <1>2, <2>1, <2>2, <2>3, PrefixOf
  <2> QED
    BY <2>1, <2>3, <2>4, <2>5 DEF WrongFrom, n
<1>5. ASSUME p \in WrongFrom(f, payload, at), p[n + 1] = x
      PROVE  p \in WrongFrom(f, payload, q)
  <2>1. Len(p) >= n + 1 /\ SubSeq(p, 1, n + 1) = Append(at, p[n + 1])
    BY <1>5, WrongGoesOn
  <2>2. p \in Wrong(f, payload)
    BY <1>5 DEF WrongFrom
  <2>3. SubSeq(p, 1, n + 1) = q
    BY <1>5, <2>1 DEF q
  <2> HIDE DEF n
  <2> QED
    BY <1>2, <2>1, <2>2, <2>3 DEF WrongFrom
<1> QED
  BY <1>4, <1>5 DEF q

\* At the end of the path: the place itself, if it is wrong.
LEMMA WalkAtEnd ==
  ASSUME NEW f \in Rule, NEW payload \in Payloads, NEW at, Along(f, payload, at),
         Len(at) = Len(f.path), Len(at) # 0
  PROVE  WrongFrom(f, payload, at) =
           IF Violates(f, LookupPath(payload, at)) THEN {at} ELSE {}
<1> DEFINE n == Len(at)
<1>1. at \in Seq(Marks) /\ n \in 1 .. Len(f.path) /\ at[n] # "*"
  <2>1. at \in Seq(Marks) /\ n \in 0 .. Len(f.path) /\ \A i \in 1 .. n : at[i] \in Steps
    BY PlaceTypes DEF Along
  <2>2. n \in 1 .. n /\ n \in 1 .. Len(f.path)
    BY <2>1
  <2> QED
    BY <2>1, <2>2, StarIsNoStep
<1>2. SubSeq(at, 1, n) = at /\ n >= n
  BY <1>1, PrefixOfWhole
<1>3. at \in Wrong(f, payload) <=> Violates(f, LookupPath(payload, at))
  BY <1>1, WrongIs DEF Along
<1>4. ASSUME NEW p \in WrongFrom(f, payload, at) PROVE p = at
  <2>1. p \in Seq(Marks) /\ Len(p) \in 1 .. Len(f.path)
    BY WrongIs DEF WrongFrom
  <2>2. Len(p) >= n /\ SubSeq(p, 1, n) = at
    BY DEF WrongFrom
  <2>3. Len(p) = n
    BY <1>1, <2>1, <2>2
  <2> QED
    BY <2>1, <2>2, <2>3, PrefixOfWhole
<1>5. at \in WrongFrom(f, payload, at) <=> at \in Wrong(f, payload)
  BY <1>2 DEF WrongFrom
<1> HIDE DEF n
<1> QED
  BY <1>3, <1>4, <1>5

\* At a wildcard that stands for no array: the place of the wildcard.
LEMMA WalkAtNoArray ==
  ASSUME NEW f \in Rule, NEW payload \in Payloads, NEW at, Along(f, payload, at),
         Len(at) < Len(f.path), f.path[Len(at) + 1] = Each,
         LookupPath(payload, at).t # "array"
  PROVE  WrongFrom(f, payload, at) = {Append(at, "*")}
<1> DEFINE n == Len(at)
           q == Append(at, "*")
<1>1. "*" \in Marks
  BY DEF Marks
<1>2. /\ q \in Seq(Marks) /\ Len(q) = n + 1 /\ q[n + 1] = "*"
      /\ \A i \in 1 .. n : FitsAt(f.path, payload, q, i)
      /\ Above(payload, q, n + 1) = LookupPath(payload, at)
  BY <1>1, StillFits
<1>3. at \in Seq(Marks) /\ n \in Nat /\ Len(f.path) \in Nat
  BY PlaceTypes, RuleTypes DEF Along
<1>4. SubSeq(q, 1, n) = at
  <2>1. SubSeq(at, 1, n) = at /\ n \in 0 .. n
    BY <1>3, PrefixOfWhole
  <2>2. SubSeq(q, 1, n) = SubSeq(at, 1, n)
    BY <1>1, <1>3, <2>1, PrefixOfAppend
  <2> QED
    BY <2>1, <2>2
<1> HIDE DEF q
<1>5. FitsAt(f.path, payload, q, n + 1)
  BY <1>2 DEF FitsAt
<1>6. q \in Wrong(f, payload)
  <2>1. \A i \in 1 .. Len(q) : i \in 1 .. n \/ i = n + 1
    BY <1>2, <1>3
  <2>2. Len(q) \in 1 .. Len(f.path)
    BY <1>2, <1>3
  <2>3. \A i \in 1 .. Len(q) : FitsAt(f.path, payload, q, i)
    BY <1>2, <1>5, <2>1
  <2>4. q[Len(q)] = "*"
    BY <1>2
  <2> QED
    BY <1>2, <2>2, <2>3, <2>4, WrongIs
<1>7. q \in WrongFrom(f, payload, at)
  <2>1. Len(q) >= n
    BY <1>2, <1>3
  <2> QED
    BY <1>4, <1>6, <2>1 DEF WrongFrom
<1>8. ASSUME NEW p \in WrongFrom(f, payload, at) PROVE p = q
  <2>1. p \in Seq(Marks) /\ SubSeq(p, 1, n + 1) = Append(at, p[n + 1])
        /\ p[n + 1] = "*" /\ n + 1 = Len(p)
    BY WrongGoesOn
  <2>2. SubSeq(p, 1, Len(p)) = p
    BY <2>1, PrefixOfWhole
  <2> HIDE DEF n
  <2> QED
    BY <2>1, <2>2 DEF q
<1> QED
  BY <1>7, <1>8 DEF q

\* What the walk returns at a place is the first wrong place beyond it, if it
\* is so one step further.
LEMMA WalkFinds ==
  ASSUME NEW f \in Rule, NEW payload \in Payloads, NEW at, Along(f, payload, at),
         f.path # <<>>, NEW w,
         \A x \in Steps : Along(f, payload, Append(at, x)) =>
           Finds(w[Append(at, x)], WrongFrom(f, payload, Append(at, x)))
  PROVE  Finds(FailureAt(f, payload, w, at), WrongFrom(f, payload, at))
<1> DEFINE n == Len(at)
           v == LookupPath(payload, at)
           W == WrongFrom(f, payload, at)
           Wx(x) == WrongFrom(f, payload, Append(at, x))
           segment == f.path[n + 1]
           r == FailureAt(f, payload, w, at)
<1>1. at \in Seq(Steps) /\ n \in 0 .. Len(f.path) /\ n \in Nat /\ Len(f.path) \in Nat
  BY PlaceTypes, RuleTypes DEF Along
<1>2. CASE n = Len(f.path)
  <2>1. n # 0
    <3>1. f.path \in Seq(Steps \cup {Each})
      BY RuleTypes
    <3> QED
      BY <1>2, <3>1, EmptySeq
  <2>2. W = IF Violates(f, v) THEN {at} ELSE {}
    BY <1>2, <2>1, WalkAtEnd
  <2>3. r = IF Violates(f, v) THEN at ELSE NoFailure
    BY <1>2 DEF FailureAt
  <2> HIDE DEF W, r
  <2>4. Finds(r, W)
    BY <2>2, <2>3 DEF Finds, IsFirst
  <2> QED
    BY <2>4 DEF W, r
<1>3. CASE n # Len(f.path) /\ segment # Each
  <2>1. n < Len(f.path) /\ n + 1 \in 1 .. Len(f.path)
    BY <1>1, <1>3
  <2>2. segment \in Steps
    BY <1>3, <2>1, RuleTypes
  <2>3. Along(f, payload, Append(at, segment))
    BY <2>1, <2>2, StepAlong
  <2>4. Finds(w[Append(at, segment)], Wx(segment))
    BY <2>2, <2>3
  <2>5. r = w[Append(at, segment)]
    BY <1>3 DEF FailureAt
  <2>6. Wx(segment) = W
    <3>1. \A p : p \in Wx(segment) <=> p \in W /\ p[n + 1] = segment
      BY <2>1, <2>2, BeyondAStep
    <3>2. \A p \in W : p[n + 1] = segment
      BY <1>3, <2>1, WrongGoesOn
    <3> HIDE DEF W, Wx, segment
    <3> QED
      BY <3>1, <3>2
  <2> HIDE DEF W, r, Wx, segment
  <2>7. Finds(r, W)
    BY <2>4, <2>5, <2>6
  <2> QED
    BY <2>7 DEF W, r
<1>4. CASE n # Len(f.path) /\ segment = Each /\ v.t # "array"
  <2>1. n < Len(f.path)
    BY <1>1, <1>4
  <2>2. W = {Append(at, "*")}
    BY <1>4, <2>1, WalkAtNoArray
  <2>3. r = Append(at, "*")
    BY <1>4 DEF FailureAt
  <2> HIDE DEF W, r
  <2>4. Finds(r, W)
    BY <2>2, <2>3 DEF Finds, IsFirst
  <2> QED
    BY <2>4 DEF W, r
<1>5. CASE n # Len(f.path) /\ segment = Each /\ v.t = "array"
  <2> DEFINE next(j) == Append(at, Indices[j])
             J == DOMAIN v.e
             wrong == {j \in J : w[next(j)] # NoFailure}
  <2>1. n < Len(f.path)
    BY <1>1, <1>5
  <2>2. J \subseteq Nat /\ J \subseteq DOMAIN Indices /\ \A j \in J : Indices[j] \in Steps
    BY <1>1, <1>5, ArraysHaveIndices
  <2>3. \A j \in J : Along(f, payload, next(j))
    BY <1>5, <2>1, <2>2, StepAlong
  <2>4. \A j \in J : Finds(w[next(j)], Wx(Indices[j]))
    BY <2>2, <2>3
  <2>5. \A p \in W : \E j \in J : p[n + 1] = Indices[j]
    BY <1>5, <2>1, WrongGoesOn
  <2>6. \A j \in J : \A p : p \in Wx(Indices[j]) <=> p \in W /\ p[n + 1] = Indices[j]
    BY <2>1, <2>2, BeyondAStep
  <2>7. \A p \in W : p # <<>> /\ SubSeq(p, 1, n) = at /\ n + 1 \in DOMAIN p
    <3>1. ASSUME NEW p \in W PROVE p # <<>> /\ SubSeq(p, 1, n) = at /\ n + 1 \in DOMAIN p
      <4>1. p \in Seq(Marks) /\ Len(p) >= n + 1 /\ Len(p) \in Nat
        BY <2>1, WrongGoesOn
      <4>2. DOMAIN p = 1 .. Len(p)
        BY <4>1, LenProperties
      <4>3. SubSeq(p, 1, n) = at
        BY DEF WrongFrom
      <4> HIDE DEF n
      <4>4. n + 1 \in DOMAIN p
        BY <1>1, <4>1, <4>2
      <4> QED
        BY <4>3, <4>4
    <3> QED
      BY <3>1
  <2>8. r = IF wrong = {} THEN NoFailure ELSE w[next(Min(wrong))]
    BY <1>5 DEF FailureAt
  <2>9. \A j \in J : w[next(j)] = NoFailure => Wx(Indices[j]) = {}
    <3> SUFFICES ASSUME NEW j \in J, w[next(j)] = NoFailure, Wx(Indices[j]) # {}
                 PROVE  FALSE
      OBVIOUS
    <3>1. NoFailure \in Wx(Indices[j])
      BY <2>4 DEF Finds, IsFirst
    <3>2. NoFailure \in W
      BY <2>6, <3>1
    <3> QED
      BY <2>7, <3>2 DEF NoFailure
  <2> HIDE DEF W, Wx, J, next, n, v, r
  <2>10. CASE wrong = {}
    <3>1. W = {}
      BY <2>5, <2>6, <2>9, <2>10
    <3> QED
      BY <2>8, <2>10, <3>1 DEF Finds, W, r
  <2>11. CASE wrong # {}
    <3> DEFINE k == Min(wrong)
    <3>1. k \in wrong /\ \A j \in wrong : k <= j
      <4>1. wrong \subseteq Nat
        BY <2>2
      <4> HIDE DEF wrong
      <4>2. \E m \in wrong : \A j \in wrong : m <= j
        BY <2>11, <4>1, LeastElement
      <4> QED
        BY <4>2 DEF Min
    <3> HIDE DEF k
    <3>2. k \in J /\ w[next(k)] # NoFailure /\ r = w[next(k)]
      BY <2>8, <2>11, <3>1 DEF k
    <3>3. IsFirst(r, Wx(Indices[k]))
      BY <2>4, <3>2 DEF Finds
    <3>4. r \in W /\ r[n + 1] = Indices[k]
      BY <2>6, <3>2, <3>3 DEF IsFirst
    <3>5. ASSUME NEW q \in W \ {r} PROVE Precedes(r, q)
      <4>1. PICK j \in J : q[n + 1] = Indices[j]
        BY <2>5
      <4>2. q \in Wx(Indices[j])
        BY <2>6, <4>1
      <4>3. j \in wrong /\ k <= j
        BY <2>9, <3>1, <4>2
      <4>4. CASE j = k
        BY <3>3, <4>2, <4>4 DEF IsFirst
      <4>5. CASE j # k
        <5>1. k < j /\ k \in DOMAIN Indices /\ j \in DOMAIN Indices
          BY <2>2, <3>2, <4>3, <4>5
        <5>2. SubSeq(r, 1, n) = SubSeq(q, 1, n) /\ n + 1 \in DOMAIN r \cap DOMAIN q
          BY <2>7, <3>4
        <5> DEFINE i == n + 1
        <5>3. i - 1 = n
          BY <1>1
        <5> HIDE DEF i
        <5>4. SubSeq(r, 1, i - 1) = SubSeq(q, 1, i - 1)
          BY <5>2, <5>3
        <5>5. i \in DOMAIN r \cap DOMAIN q /\ r[i] = Indices[k] /\ q[i] = Indices[j]
          BY <3>4, <4>1, <5>2 DEF i
        <5> QED
          BY <5>1, <5>4, <5>5 DEF Precedes
      <4> QED
        BY <4>4, <4>5
    <3> QED
      BY <3>4, <3>5 DEF Finds, IsFirst, W, r
  <2> QED
    BY <2>10, <2>11
<1> QED
  BY <1>2, <1>3, <1>4, <1>5

\* What is returned for a field is the first of its wrong places.
LEMMA FailureIsFirst ==
  ASSUME NEW f \in Rule, NEW payload \in Payloads, f.path # <<>>
  PROVE  Finds(FieldFailure(f, payload), Wrong(f, payload))
<1> DEFINE n == Len(f.path)
<1>1. PICK w : /\ FieldFailure(f, payload) = w[<<>>]
               /\ \A at \in Places(f) : w[at] = FailureAt(f, payload, w, at)
  BY WalkIsDefined
<1> DEFINE Found(at) == Finds(w[at], WrongFrom(f, payload, at))
           T == {k \in Nat : \A at : Along(f, payload, at) /\ Len(at) >= n - k => Found(at)}
<1>2. n \in Nat
  BY RuleTypes
<1>3. ASSUME NEW at, Along(f, payload, at),
             \A x \in Steps : Along(f, payload, Append(at, x)) => Found(Append(at, x))
      PROVE  Found(at)
  <2>1. Finds(FailureAt(f, payload, w, at), WrongFrom(f, payload, at))
    BY <1>3, WalkFinds
  <2>2. w[at] = FailureAt(f, payload, w, at)
    BY <1>1, <1>3 DEF Along
  <2> QED
    BY <2>1, <2>2
<1>4. ASSUME NEW at, Along(f, payload, at)
      PROVE  /\ Len(at) \in 0 .. n
             /\ \A x \in Steps : Len(Append(at, x)) = Len(at) + 1
  <2>1. at \in Seq(Steps) /\ Len(at) \in 0 .. n
    BY <1>4, PlaceTypes DEF Along
  <2> QED
    BY <2>1, AppendProperties
<1> HIDE DEF Found
<1>5. 0 \in T
  <2>1. ASSUME NEW at, Along(f, payload, at), Len(at) >= n - 0 PROVE Found(at)
    <3>1. Len(at) = n /\ \A x \in Steps : Len(Append(at, x)) = Len(at) + 1
      BY <1>2, <1>4, <2>1
    <3> HIDE DEF n
    <3>2. \A x \in Steps : Len(Append(at, x)) \notin 0 .. n
      BY <1>2, <3>1
    <3>3. \A x \in Steps : ~Along(f, payload, Append(at, x))
      BY <1>4, <3>2
    <3> QED
      BY <1>3, <2>1, <3>3
  <2> HIDE DEF n
  <2> QED
    BY <2>1
<1>6. ASSUME NEW k \in 0 .. n - 1, k \in T PROVE k + 1 \in T
  <2>1. ASSUME NEW at, Along(f, payload, at), Len(at) >= n - (k + 1) PROVE Found(at)
    <3>1. Len(at) \in 0 .. n /\ \A x \in Steps : Len(Append(at, x)) = Len(at) + 1
      BY <1>4, <2>1
    <3> HIDE DEF n
    <3>2. \A x \in Steps : Len(Append(at, x)) >= n - k
      BY <1>2, <2>1, <3>1
    <3>3. \A x \in Steps : Along(f, payload, Append(at, x)) => Found(Append(at, x))
      BY <1>6, <3>2
    <3> QED
      BY <1>3, <2>1, <3>3
  <2> HIDE DEF n
  <2> QED
    BY <2>1
<1>7. n \in T
  <2> HIDE DEF T, n
  <2> QED
    BY <1>2, <1>5, <1>6, BoundedInduction
<1>8. Along(f, payload, <<>>) /\ Len(<<>>) = 0
  <2>1. <<>> \in Seq(Steps) /\ Len(<<>>) = 0
    BY EmptySeq
  <2>2. <<>> \in Places(f)
    BY <1>2, <2>1 DEF Places, Steps
  <2>3. \A i \in 1 .. Len(<<>>) : FALSE
    BY <2>1
  <2> QED
    BY <2>1, <2>2, <2>3 DEF Along
<1>9. Found(<<>>)
  <2>1. 0 >= n - n
    BY <1>2
  <2> HIDE DEF n
  <2> QED
    BY <1>7, <1>8, <2>1
<1>10. WrongFrom(f, payload, <<>>) = Wrong(f, payload)
  <2>1. ASSUME NEW p \in Wrong(f, payload) PROVE Len(p) >= 0 /\ SubSeq(p, 1, 0) = <<>>
    <3>1. p \in Seq(Marks) /\ Len(p) \in Nat
      BY WrongIs, LenProperties
    <3>2. 0 \in 0 .. Len(p)
      BY <3>1
    <3>3. SubSeq(p, 1, 0) \in Seq(Marks) /\ Len(SubSeq(p, 1, 0)) = 0
      BY <3>1, <3>2, PrefixOf
    <3> QED
      BY <3>1, <3>3, EmptySeq
  <2> QED
    BY <1>8, <2>1 DEF WrongFrom
<1> QED
  BY <1>1, <1>9, <1>10 DEF Found

\* Two sequences that differ at a position have no common prefix beyond it.
LEMMA DifferentPrefixes ==
  ASSUME NEW S, NEW p \in Seq(S), NEW q \in Seq(S), NEW i \in DOMAIN p \cap DOMAIN q,
         NEW m \in DOMAIN p \cap DOMAIN q, i < m, p[i] # q[i]
  PROVE  SubSeq(p, 1, m - 1) # SubSeq(q, 1, m - 1)
<1>1. DOMAIN p = 1 .. Len(p) /\ DOMAIN q = 1 .. Len(q) /\ Len(p) \in Nat /\ Len(q) \in Nat
  BY LenProperties
<1>2. m - 1 \in 0 .. Len(p) /\ m - 1 \in 0 .. Len(q) /\ i \in 1 .. m - 1
  BY <1>1
<1> DEFINE k == m - 1
<1> HIDE DEF k
<1>3. SubSeq(p, 1, k)[i] = p[i] /\ SubSeq(q, 1, k)[i] = q[i]
  BY <1>2, PrefixOf DEF k
<1> QED
  BY <1>3 DEF k

\* Of two sequences not both precede the other.
LEMMA PrecedesOneWay ==
  ASSUME NEW S, NEW p \in Seq(S), NEW q \in Seq(S), Precedes(p, q), Precedes(q, p)
  PROVE  FALSE
<1>1. PICK i \in DOMAIN p \cap DOMAIN q :
        /\ SubSeq(p, 1, i - 1) = SubSeq(q, 1, i - 1)
        /\ \E j, k \in DOMAIN Indices : j < k /\ p[i] = Indices[j] /\ q[i] = Indices[k]
  BY DEF Precedes
<1>2. PICK m \in DOMAIN p \cap DOMAIN q :
        /\ SubSeq(q, 1, m - 1) = SubSeq(p, 1, m - 1)
        /\ \E j, k \in DOMAIN Indices : j < k /\ q[m] = Indices[j] /\ p[m] = Indices[k]
  BY DEF Precedes
<1>3. /\ \A j, k \in DOMAIN Indices : Indices[j] = Indices[k] => j = k
      /\ DOMAIN Indices \subseteq Nat
  <2>1. Indices \in Seq(STRING)
    BY TextAssumption
  <2>2. DOMAIN Indices = 1 .. Len(Indices)
    BY <2>1, LenProperties
  <2>3. IsInjective(Indices)
    BY TextAssumption
  <2>4. \A j, k \in DOMAIN Indices : Indices[j] = Indices[k] => j = k
    BY <2>3, Zenon DEF IsInjective
  <2>5. DOMAIN Indices \subseteq Nat
    BY <2>2
  <2> QED
    BY <2>4, <2>5
<1>4. PICK j1, k1 \in DOMAIN Indices : j1 < k1 /\ p[i] = Indices[j1] /\ q[i] = Indices[k1]
  BY <1>1
<1>5. PICK j2, k2 \in DOMAIN Indices : j2 < k2 /\ q[m] = Indices[j2] /\ p[m] = Indices[k2]
  BY <1>2
<1>6. p[i] # q[i] /\ p[m] # q[m]
  <2>1. j1 # k1 /\ j2 # k2
    BY <1>3, <1>4, <1>5
  <2> QED
    BY <1>3, <1>4, <1>5, <2>1
<1>7. ~(i < m)
  BY <1>2, <1>6, DifferentPrefixes
<1>8. ~(m < i)
  BY <1>1, <1>6, DifferentPrefixes
<1>9. i = m
  <2>1. i \in Nat /\ m \in Nat
    <3>1. DOMAIN p = 1 .. Len(p)
      BY LenProperties
    <3> QED
      BY <3>1
  <2> QED
    BY <1>7, <1>8, <2>1
<1>10. j1 = k2 /\ k1 = j2
  BY <1>3, <1>4, <1>5, <1>9
<1> QED
  BY <1>3, <1>4, <1>5, <1>10

\* So the first is one place, and no failure is no place.
LEMMA TheFirstIsOne ==
  ASSUME NEW f \in Rule, NEW payload \in Payloads, NEW r, IsFirst(r, Wrong(f, payload))
  PROVE  r = CHOOSE p \in Wrong(f, payload) :
               \A q \in Wrong(f, payload) \ {p} : Precedes(p, q)
<1> DEFINE W == Wrong(f, payload)
<1>1. W \subseteq Seq(Marks)
  BY WrongIs
<1> HIDE DEF W
<1>2. ASSUME NEW p \in W, \A q \in W \ {p} : Precedes(p, q) PROVE p = r
  <2> SUFFICES ASSUME p # r PROVE FALSE
    OBVIOUS
  <2>1. Precedes(p, r) /\ Precedes(r, p) /\ p \in Seq(Marks) /\ r \in Seq(Marks)
    BY <1>1, <1>2 DEF IsFirst, W
  <2> QED
    BY <2>1, PrecedesOneWay
<1>3. r \in W /\ \A q \in W \ {r} : Precedes(r, q)
  BY DEF IsFirst, W
<1>4. r = CHOOSE p \in W : \A q \in W \ {p} : Precedes(p, q)
  BY <1>2, <1>3
<1> QED
  BY <1>4 DEF W

\* The wrong places of a rule that registration accepts: none if there is no
\* failure, and else the failure is the first.
LEMMA FailureOfAccepted ==
  ASSUME NEW f \in Rule, NEW payload \in Payloads, AcceptsField(f)
  PROVE  /\ FieldFailure(f, payload) = NoFailure <=> Wrong(f, payload) = {}
         /\ Wrong(f, payload) # {} =>
              FieldFailure(f, payload) =
                CHOOSE p \in Wrong(f, payload) :
                  \A q \in Wrong(f, payload) \ {p} : Precedes(p, q)
<1>1. Finds(FieldFailure(f, payload), Wrong(f, payload))
  BY FailureIsFirst DEF AcceptsField
<1>2. CASE Wrong(f, payload) = {}
  BY <1>1, <1>2 DEF Finds
<1>3. CASE Wrong(f, payload) # {}
  <2>1. IsFirst(FieldFailure(f, payload), Wrong(f, payload))
    BY <1>1, <1>3 DEF Finds
  <2>2. FieldFailure(f, payload) # NoFailure
    <3>1. Len(FieldFailure(f, payload)) >= 1
      BY <2>1, WrongIs DEF IsFirst
    <3> QED
      BY <3>1, EmptySeq DEF NoFailure
  <2> QED
    BY <1>3, <2>1, <2>2, TheFirstIsOne
<1> QED
  BY <1>2, <1>3

\* What is stored passed the checks of its text.
RefusalInv ==
  /\ ShownInv
  /\ stored # None => AcceptsText(stored)
  /\ RefusalNamesTheFirst

\* An invocation names the first wrong place of each rule, or none.
LEMMA InvocationNamesTheFirst ==
  ASSUME stored \in Config, AcceptsText(stored), NEW p \in Payloads,
         last' = Invocation(stored, p), stored' = stored
  PROVE  RefusalNamesTheFirst'
<1> DEFINE wrong == {f \in stored.fields : FieldFailure(f, p) # NoFailure}
           refused == {f \in stored.fields : Wrong(f, p) # {}}
           First(f) == CHOOSE q \in Wrong(f, p) :
                         \A u \in Wrong(f, p) \ {q} : Precedes(q, u)
<1>1. \A f \in stored.fields : f \in Rule /\ AcceptsField(f)
  BY DEF Config, AcceptsText
<1>2. wrong = refused
  BY <1>1, FailureOfAccepted
<1>3. \A f \in refused : FieldFailure(f, p) = First(f)
  BY <1>1, FailureOfAccepted
<1> HIDE DEF First
<1>4. {FieldFailure(f, p) : f \in wrong} = {First(f) : f \in refused}
  BY <1>2, <1>3
<1>5. last'.payload = p
  BY DEF Invocation
<1>6. ASSUME last'.outcome # "skipped"
      PROVE  IF refused = {} THEN last'.outcome # "invalid"
             ELSE last'.outcome = "invalid" /\ last'.at = {FieldFailure(f, p) : f \in wrong}
  <2>1. CASE wrong = {}
    BY <1>2, <2>1 DEF Invocation, Rules
  <2>2. CASE wrong # {}
    BY <1>2, <1>6, <2>2 DEF Invocation
  <2> QED
    BY <2>1, <2>2
<1> QED
  BY <1>4, <1>5, <1>6 DEF RefusalNamesTheFirst, First

\* The inductive step of RefusalInv.
LEMMA RefusalKept == RefusalInv /\ [Next]_vars => RefusalInv'
<1> SUFFICES ASSUME RefusalInv, [Next]_vars PROVE RefusalInv'
  OBVIOUS
<1>0. ShownInv /\ ShownInv'
  BY ShownKept DEF RefusalInv
<1>1. ASSUME NEW c, NEW op \in {"submit", "resubmit"}, Store(c, op)
      PROVE  (stored' # None => AcceptsText(stored')) /\ RefusalNamesTheFirst'
  <2>1. stored' # None => AcceptsText(stored')
    BY <1>1 DEF Store, Accepts, RefusalInv
  <2>2. last'.op # "invoke"
    BY <1>1 DEF Store, Ended
  <2> QED
    BY <2>1, <2>2 DEF RefusalNamesTheFirst
<1>2. CASE Submit
  BY <1>0, <1>1, <1>2 DEF Submit, RefusalInv
<1>3. CASE Get
  BY <1>0, <1>3 DEF Get, RefusalInv, RefusalNamesTheFirst, Ended
<1>4. CASE Resubmit
  BY <1>0, <1>1, <1>4 DEF Resubmit, RefusalInv
<1>5. CASE Invoke
  <2>1. PICK p \in Payloads : last' = Invocation(stored, p)
    BY <1>5 DEF Invoke
  <2>2. stored \in Config /\ AcceptsText(stored) /\ stored' = stored
    BY <1>0, <1>5 DEF Invoke, RefusalInv, ShownInv
  <2>3. RefusalNamesTheFirst'
    BY <2>1, <2>2, InvocationNamesTheFirst
  <2> QED
    BY <1>0, <2>2, <2>3 DEF RefusalInv
<1>6. CASE Respond
  BY <1>0, <1>6 DEF Respond, RefusalInv, RefusalNamesTheFirst, Idle, Ended
<1>7. CASE UNCHANGED vars
  BY <1>0, <1>7 DEF vars, RefusalInv, RefusalNamesTheFirst
<1> QED
  BY <1>2, <1>3, <1>4, <1>5, <1>6, <1>7 DEF Next

\* An invocation is refused exactly when a rule's path reaches a wrong value,
\* for any rules that registration accepts and any payload, however deep; and
\* what it names is, for each such rule, the first wrong place.
THEOREM RefusalsNameTheFirst == Spec => []RefusalNamesTheFirst
<1>1. Init => RefusalInv
  <2>1. Init => ShownInv
    BY ShownInit
  <2>2. Init => RefusalNamesTheFirst
    BY DEF Init, RefusalNamesTheFirst, Idle, Ended
  <2> QED
    BY <2>1, <2>2 DEF Init, RefusalInv
<1>2. RefusalInv => RefusalNamesTheFirst
  BY DEF RefusalInv
<1> QED
  BY <1>1, <1>2, RefusalKept, PTL DEF Spec

-----------------------------------------------------------------------------
(* Equations of recursive functions.                                      *)

\* Induction over the naturals from all smaller numbers, for a property given as
\* a set of numbers.
LEMMA StrongInduction ==
  ASSUME NEW T, \A n \in Nat : (\A m \in Nat : m < n => m \in T) => n \in T
  PROVE  \A n \in Nat : n \in T
<1> SUFFICES ASSUME Nat \ T # {} PROVE FALSE
  OBVIOUS
<1>1. PICK n \in Nat \ T : \A m \in Nat \ T : n <= m
  BY LeastElement
<1>2. \A m \in Nat : m < n => m \in T
  BY <1>1
<1> QED
  BY <1>1, <1>2

\* G does not lead out of F, and the value of G[f] at x depends on what f is at
\* arguments of a smaller measure; the measure is bounded.
Recurs(D, M, mu, F, G) ==
  /\ M \in Nat /\ \A x \in D : mu[x] \in 0 .. M
  /\ F # {} /\ \A f \in F : G[f] \in F
  /\ \A f, h \in F : \A x \in D :
       (\A y \in D : mu[y] < mu[x] => f[y] = h[y]) => G[f][x] = G[h][x]

\* Such an equation has a solution in F.
LEMMA RecursionHasSolution ==
  ASSUME NEW D, NEW M, NEW mu, NEW F, NEW G, Recurs(D, M, mu, F, G)
  PROVE  \E f \in F : \A x \in D : f[x] = G[f][x]
<1> USE DEF Recurs
<1> DEFINE Solves(f, m) == \A x \in D : mu[x] < m => f[x] = G[f][x]
           T == {m \in Nat : \E f \in F : Solves(f, m)}
<1>1. 0 \in T
  <2>1. PICK f \in F : TRUE
    OBVIOUS
  <2>2. Solves(f, 0)
    OBVIOUS
  <2> HIDE DEF Solves
  <2> QED
    BY <2>1, <2>2
<1>2. ASSUME NEW m \in Nat, m \in T PROVE m + 1 \in T
  <2>1. PICK f \in F : Solves(f, m)
    BY <1>2
  <2> DEFINE h == G[f]
  <2>2. h \in F
    OBVIOUS
  <2>3. \A y \in D : mu[y] < m => h[y] = f[y]
    BY <2>1
  <2> HIDE DEF h
  <2>4. ASSUME NEW x \in D, mu[x] < m + 1 PROVE h[x] = G[h][x]
    <3>1. ASSUME NEW y \in D, mu[y] < mu[x] PROVE f[y] = h[y]
      <4>1. mu[y] < m
        BY <2>4, <3>1
      <4> QED
        BY <2>3, <4>1
    <3>2. G[f][x] = G[h][x]
      BY <2>2, <3>1
    <3> QED
      BY <3>2 DEF h
  <2>5. Solves(h, m + 1)
    BY <2>4
  <2> HIDE DEF Solves
  <2> QED
    BY <2>2, <2>5
<1> HIDE DEF T
<1>3. M + 1 \in T
  BY <1>1, <1>2, SetInduction
<1>4. PICK f \in F : Solves(f, M + 1)
  BY <1>3 DEF T
<1>5. \A x \in D : mu[x] < M + 1
  OBVIOUS
<1> QED
  BY <1>4, <1>5

-----------------------------------------------------------------------------
(* Expressions.                                                            *)

\* Disjunctions and conjunctions are one kind of chain.
Chains == {"or", "and"}
Operand(as) == IF as = "or" THEN "and" ELSE "not"
Connective(as) == IF as = "or" THEN "||" ELSE "&&"
Join(as, l, r) == IF as = "or" THEN l \/ r ELSE l /\ r

\* How far a production is from a value.
Rank == [value |-> 0, comparison |-> 1, not |-> 2, and |-> 3, or |-> 4]

\* What the parser's functions may return at a position: further on, and a
\* Boolean value but for the production of values.
Values(e, scope) ==
  BOOLEAN \cup {Bool(b) : b \in BOOLEAN} \cup {Read(e[i], scope) : i \in 1 .. Len(e)}
Outcomes(e, scope) == [ok : BOOLEAN, at : 0 .. Len(e) + 1, value : Values(e, scope)]
Proper(r, as, i) == (r.ok => r.at > i) /\ (as # "value" => r.value \in BOOLEAN)
Nodes(e) == Productions \X (1 .. Len(e) + 1)
Parsers(e, scope) ==
  {f \in [Nodes(e) -> Outcomes(e, scope)] :
     \A as \in Productions, i \in 1 .. Len(e) + 1 : Proper(f[<<as, i>>], as, i)}

\* The parser's value for a production and an index is an outcome, and a proper one.
LEMMA ParserTypes ==
  ASSUME NEW e, NEW scope, NEW f \in Parsers(e, scope), NEW as \in Productions,
         NEW i \in 1 .. Len(e) + 1
  PROVE  f[<<as, i>>] \in Outcomes(e, scope) /\ Proper(f[<<as, i>>], as, i)
<1>1. <<as, i>> \in Nodes(e)
  BY DEF Nodes
<1> QED
  BY <1>1 DEF Parsers

\* What a chain's parser does.
LEMMA ChainParser ==
  ASSUME NEW e, NEW scope, NEW f, NEW as \in Chains, NEW i
  PROVE  LET left == f[<<Operand(as), i>>]
             right == f[<<as, left.at + 1>>]
         IN Parse(e, scope, f, as, i) =
              IF ~left.ok \/ Peek(e, left.at) # Connective(as) THEN left
              ELSE IF right.ok THEN Parsed(Join(as, left.value, right.value), right.at)
              ELSE Throws
<1>1. CASE as = "or"
  BY <1>1 DEF Parse, ParseOr, Operand, Connective, Join
<1>2. CASE as = "and"
  BY <1>2 DEF Parse, ParseAnd, Operand, Connective, Join
<1> QED
  BY <1>1, <1>2 DEF Chains

\* What is read at a position, and what ends the text.
LEMMA PeekInside ==
  ASSUME NEW e \in Seq(STRING), NEW i
  PROVE  /\ i \in 1 .. Len(e) => Peek(e, i) = e[i]
         /\ i \notin 1 .. Len(e) => Peek(e, i) = "eof"
<1>1. DOMAIN e = 1 .. Len(e)
  BY LenProperties
<1> QED
  BY <1>1 DEF Peek

\* The tokens that begin or continue a phrase are not the end of the text.
LEMMA TokensAreInside ==
  ASSUME NEW e \in Seq(STRING), NEW i, Peek(e, i) # "eof"
  PROVE  i \in 1 .. Len(e) /\ Peek(e, i) = e[i]
  BY PeekInside

\* The end of an expression is no token of it.
LEMMA EndIsNoToken ==
  "eof" \notin DOMAIN Path \cup DOMAIN Literal \cup Operators
               \cup {"exists", "&&", "||", "!", "(", ")"}
  BY DEF Path, Literal, Operators

\* What values do gives Booleans.
LEMMA ValuesDecide ==
  /\ \A v : Holds(v) \in BOOLEAN
  /\ \A v : (~v) \in BOOLEAN
  /\ \A op \in Operators : \A l, r : Compare(op, l, r) \in BOOLEAN
  /\ \A as \in Chains : \A l, r : Join(as, l, r) \in BOOLEAN
<1>1. \A v : Holds(v) \in BOOLEAN
  BY DEF Holds
<1>2. ASSUME NEW op \in Operators, NEW l, NEW r PROVE Compare(op, l, r) \in BOOLEAN
  <2>1. CASE op = "=="
    BY <2>1 DEF Compare
  <2>2. CASE op = "!="
    BY <2>2 DEF Compare
  <2>3. CASE op = "<"
    BY <2>3 DEF Compare
  <2>4. CASE op = ">="
    BY <2>4 DEF Compare
  <2> QED
    BY <2>1, <2>2, <2>3, <2>4 DEF Operators
<1>3. ASSUME NEW as \in Chains, NEW l, NEW r PROVE Join(as, l, r) \in BOOLEAN
  BY DEF Join
<1>4. \A v : (~v) \in BOOLEAN
  OBVIOUS
<1> QED
  BY <1>1, <1>2, <1>3, <1>4

\* A Boolean value, and no result, are outcomes.
LEMMA OutcomeTypes ==
  ASSUME NEW e \in Seq(STRING), NEW scope
  PROVE  /\ \A b \in BOOLEAN, k \in 0 .. Len(e) + 1 : Parsed(b, k) \in Outcomes(e, scope)
         /\ \A b \in BOOLEAN, k \in 0 .. Len(e) + 1 : Parsed(Bool(b), k) \in Outcomes(e, scope)
         /\ \A i \in 1 .. Len(e), k \in 0 .. Len(e) + 1 :
              Parsed(Read(e[i], scope), k) \in Outcomes(e, scope)
         /\ Throws \in Outcomes(e, scope)
         /\ ~Throws.ok /\ Throws.at = 0 /\ Throws.value = FALSE
         /\ \A v, k : Parsed(v, k).ok /\ Parsed(v, k).value = v /\ Parsed(v, k).at = k
<1>1. Len(e) \in Nat
  BY LenProperties
<1> QED
  BY <1>1 DEF Outcomes, Values, Parsed, Throws

\* One step of the parser stays in what its functions may return.
LEMMA ParseStays ==
  ASSUME NEW e \in Seq(STRING), NEW scope, NEW f \in Parsers(e, scope),
         NEW as \in Productions, NEW i \in 1 .. Len(e) + 1
  PROVE  /\ Parse(e, scope, f, as, i) \in Outcomes(e, scope)
         /\ Proper(Parse(e, scope, f, as, i), as, i)
<1> DEFINE n == Len(e)
           r == Parse(e, scope, f, as, i)
           Fine == r \in Outcomes(e, scope) /\ Proper(r, as, i)
<1>1. n \in Nat
  BY LenProperties
<1>2. \A bs \in Productions, k \in 1 .. n + 1 :
        /\ f[<<bs, k>>] \in Outcomes(e, scope) /\ Proper(f[<<bs, k>>], bs, k)
        /\ f[<<bs, k>>].at \in 0 .. n + 1 /\ f[<<bs, k>>].ok \in BOOLEAN
  BY ParserTypes DEF Outcomes
<1>3. r = Throws => Fine
  BY OutcomeTypes DEF Proper
<1>4. ASSUME NEW v \in BOOLEAN, NEW k \in 1 .. n + 1, k > i, r = Parsed(v, k) PROVE Fine
  <2>1. r.at = k /\ r.value = v
    BY <1>4 DEF Parsed
  <2>2. Parsed(v, k) \in Outcomes(e, scope)
    <3>1. k \in 0 .. Len(e) + 1
      BY <1>1
    <3> QED
      BY <3>1, OutcomeTypes
  <2> HIDE DEF r
  <2> QED
    BY <1>4, <2>1, <2>2 DEF Proper
<1>5. ASSUME NEW bs \in Productions \ {"value"}, r = f[<<bs, i>>] PROVE Fine
  BY <1>2, <1>5 DEF Proper
<1> SUFFICES Fine
  OBVIOUS
<1> HIDE DEF n, r, Fine
<1>6. CASE as \in Chains
  <2> DEFINE left == f[<<Operand(as), i>>]
             right == f[<<as, left.at + 1>>]
  <2>0. r = IF ~left.ok \/ Peek(e, left.at) # Connective(as) THEN left
            ELSE IF right.ok THEN Parsed(Join(as, left.value, right.value), right.at)
            ELSE Throws
    BY <1>6, ChainParser DEF r
  <2>1. Operand(as) \in Productions \ {"value"}
    BY <1>6 DEF Operand, Chains, Productions
  <2>2. left \in Outcomes(e, scope) /\ Proper(left, Operand(as), i) /\ left.at \in 0 .. n + 1
    BY <1>2, <2>1 DEF n
  <2>3. CASE ~left.ok \/ Peek(e, left.at) # Connective(as)
    <3>1. r = f[<<Operand(as), i>>]
      BY <2>0, <2>3
    <3> QED
      BY <1>5, <2>1, <3>1
  <2>4. CASE left.ok /\ Peek(e, left.at) = Connective(as)
    <3>1. left.at > i /\ left.at \in 1 .. n
      <4>1. Connective(as) # "eof"
        BY DEF Connective
      <4> QED
        BY <2>2, <2>4, <4>1, TokensAreInside DEF Proper, n
    <3>2. left.at + 1 \in 1 .. n + 1
      BY <1>1, <3>1
    <3>3. Proper(right, as, left.at + 1) /\ right.at \in 0 .. n + 1
      BY <1>2, <3>2 DEF n
    <3>4. r = IF right.ok THEN Parsed(Join(as, left.value, right.value), right.at) ELSE Throws
      BY <2>0, <2>4
    <3> HIDE DEF left, right
    <3>5. CASE right.ok
      <4>1. Join(as, left.value, right.value) \in BOOLEAN
        BY <1>6, ValuesDecide
      <4>2. right.at \in 1 .. n + 1 /\ right.at > i
        BY <1>1, <3>1, <3>3, <3>5 DEF Proper, n
      <4> QED
        BY <1>4, <3>4, <3>5, <4>1, <4>2
    <3>6. CASE ~right.ok
      BY <1>3, <3>4, <3>6
    <3> QED
      BY <3>5, <3>6
  <2> QED
    BY <2>3, <2>4
<1>7. CASE as = "not"
  <2>1. CASE Peek(e, i) # "!"
    BY <1>5, <1>7, <2>1 DEF r, Parse, ParseNot, Productions
  <2>2. CASE Peek(e, i) = "!"
    <3> DEFINE operand == f[<<"not", i + 1>>]
    <3>1. i \in 1 .. n
      BY <2>2, TokensAreInside DEF n
    <3>2. i + 1 \in 1 .. n + 1 /\ "not" \in Productions
      BY <1>1, <3>1 DEF Productions
    <3>3. Proper(operand, "not", i + 1) /\ operand.at \in 0 .. n + 1
      BY <1>2, <3>2 DEF n
    <3>4. r = IF operand.ok THEN Parsed(~operand.value, operand.at) ELSE Throws
      BY <1>7, <2>2 DEF r, Parse, ParseNot
    <3> HIDE DEF operand
    <3>5. CASE operand.ok
      <4>1. (~operand.value) \in BOOLEAN
        BY ValuesDecide
      <4>2. operand.at \in 1 .. n + 1 /\ operand.at > i
        BY <1>1, <3>3, <3>5 DEF Proper, n
      <4> QED
        BY <1>4, <3>4, <3>5, <4>1, <4>2
    <3>6. CASE ~operand.ok
      BY <1>3, <3>4, <3>6
    <3> QED
      BY <3>5, <3>6
  <2> QED
    BY <2>1, <2>2
<1>8. CASE as = "comparison"
  <2> DEFINE left == f[<<"value", i>>]
             right == f[<<"value", left.at + 1>>]
  <2>1. "value" \in Productions
    BY DEF Productions
  <2>2. Proper(left, "value", i) /\ left.at \in 0 .. n + 1
    BY <1>2, <2>1 DEF n
  <2>3. r = CASE ~left.ok -> Throws
              [] left.ok /\ Peek(e, left.at) = "exists" ->
                   Parsed(left.value # Null, left.at + 1)
              [] left.ok /\ Peek(e, left.at) \in Operators ->
                   IF right.ok
                   THEN Parsed(Compare(Peek(e, left.at), left.value, right.value), right.at)
                   ELSE Throws
              [] OTHER -> Parsed(Holds(left.value), left.at)
    BY <1>8 DEF r, Parse, ParseComparison
  <2>4. left.ok => left.at \in 1 .. n + 1 /\ left.at > i
    BY <1>1, <2>2 DEF Proper, n
  <2>5. Peek(e, left.at) \in Operators \cup {"exists"} =>
          left.at \in 1 .. n /\ left.at + 1 \in 1 .. n + 1
    BY <1>1, EndIsNoToken, TokensAreInside DEF n
  <2>6. "exists" \notin Operators
    BY DEF Operators
  <2>7. left.at + 1 \in 1 .. n + 1 =>
          Proper(right, "value", left.at + 1) /\ right.at \in 0 .. n + 1
    BY <1>2, <2>1 DEF n
  <2> HIDE DEF left, right
  <2>8. CASE ~left.ok
    BY <1>3, <2>3, <2>8
  <2>9. CASE left.ok /\ Peek(e, left.at) = "exists"
    <3>1. r = Parsed(left.value # Null, left.at + 1)
      BY <2>3, <2>6, <2>9
    <3>2. (left.value # Null) \in BOOLEAN
      OBVIOUS
    <3>3. left.at + 1 \in 1 .. n + 1 /\ left.at + 1 > i
      BY <1>1, <2>4, <2>5, <2>9 DEF n
    <3> QED
      BY <1>4, <3>1, <3>2, <3>3
  <2>10. CASE left.ok /\ Peek(e, left.at) \in Operators
    <3>1. r = IF right.ok
              THEN Parsed(Compare(Peek(e, left.at), left.value, right.value), right.at)
              ELSE Throws
      BY <2>3, <2>6, <2>10
    <3>2. Compare(Peek(e, left.at), left.value, right.value) \in BOOLEAN
      BY <2>10, ValuesDecide
    <3>3. right.ok => right.at \in 1 .. n + 1 /\ right.at > i
      BY <1>1, <2>4, <2>5, <2>7, <2>10 DEF Proper, n
    <3> QED
      BY <1>3, <1>4, <3>1, <3>2, <3>3
  <2>11. CASE left.ok /\ Peek(e, left.at) \notin Operators \cup {"exists"}
    <3>1. r = Parsed(Holds(left.value), left.at)
      BY <2>3, <2>11
    <3> QED
      BY <1>4, <2>4, <2>11, <3>1, ValuesDecide
  <2> QED
    BY <2>8, <2>9, <2>10, <2>11
<1>9. CASE as = "value"
  <2> DEFINE group == f[<<"or", i + 1>>]
             t == Peek(e, i)
  <2>1. r = CASE t \in DOMAIN Path \cup DOMAIN Literal -> Parsed(Read(e[i], scope), i + 1)
              [] t = "(" -> IF group.ok /\ Peek(e, group.at) = ")"
                            THEN Parsed(Bool(group.value), group.at + 1) ELSE Throws
              [] OTHER -> Throws
    BY <1>9 DEF r, Parse, ParseValue
  <2>2. "(" \notin DOMAIN Path \cup DOMAIN Literal
    BY DEF Path, Literal
  <2> HIDE DEF t
  <2>3. CASE t \in DOMAIN Path \cup DOMAIN Literal
    <3>1. i \in 1 .. n
      BY <2>3, EndIsNoToken, TokensAreInside DEF n, t
    <3>2. r = Parsed(Read(e[i], scope), i + 1)
      BY <2>1, <2>2, <2>3
    <3>3. i + 1 \in 0 .. n + 1 /\ i + 1 > i
      BY <1>1, <3>1
    <3>4. r \in Outcomes(e, scope)
      BY <3>1, <3>2, <3>3, OutcomeTypes DEF n
    <3>5. Proper(r, as, i)
      <4>1. r.at = i + 1
        BY <3>2 DEF Parsed
      <4> QED
        BY <1>9, <3>3, <4>1 DEF Proper
    <3> QED
      BY <3>4, <3>5 DEF Fine
  <2>4. CASE t = "(" /\ group.ok /\ Peek(e, group.at) = ")"
    <3>1. i \in 1 .. n
      BY <2>4, TokensAreInside DEF n, t
    <3>2. i + 1 \in 1 .. n + 1 /\ "or" \in Productions
      BY <1>1, <3>1 DEF Productions
    <3>3. Proper(group, "or", i + 1)
      BY <1>2, <3>2 DEF n
    <3>4. group.value \in BOOLEAN /\ group.at > i + 1
      BY <2>4, <3>3 DEF Proper
    <3>5. group.at \in 1 .. n
      BY <2>4, TokensAreInside DEF n
    <3> HIDE DEF group
    <3>6. r = Parsed(Bool(group.value), group.at + 1)
      BY <2>1, <2>2, <2>4
    <3>7. group.at + 1 \in 0 .. n + 1 /\ group.at + 1 > i
      BY <1>1, <3>4, <3>5 DEF n
    <3>8. r \in Outcomes(e, scope)
      BY <3>4, <3>6, <3>7, OutcomeTypes DEF n
    <3>9. Proper(r, as, i)
      <4>1. r.at = group.at + 1
        BY <3>6 DEF Parsed
      <4> QED
        BY <1>9, <3>7, <4>1 DEF Proper
    <3> QED
      BY <3>8, <3>9 DEF Fine
  <2>5. CASE t = "(" /\ ~(group.ok /\ Peek(e, group.at) = ")")
    BY <1>3, <2>1, <2>2, <2>5
  <2>6. CASE t \notin DOMAIN Path \cup DOMAIN Literal \cup {"("}
    BY <1>3, <2>1, <2>6
  <2> QED
    BY <2>3, <2>4, <2>5, <2>6
<1> QED
  BY <1>6, <1>7, <1>8, <1>9 DEF Productions, Chains, Fine

\* A step of the parser depends on what is further on, or nearer to a value.
Agree(n, f, h, as, i) ==
  \A bs \in Productions, k \in 1 .. n + 1 :
    k > i \/ (k = i /\ Rank[bs] < Rank[as]) => f[<<bs, k>>] = h[<<bs, k>>]

\* A production has a rank, and a chain's operand a lower one.
LEMMA Ranks ==
  /\ \A as \in Productions : Rank[as] \in 0 .. 4
  /\ Rank["value"] < Rank["comparison"] /\ Rank["comparison"] < Rank["not"]
  /\ \A as \in Chains : Operand(as) \in Productions /\ Rank[Operand(as)] < Rank[as]
  BY DEF Productions, Rank, Chains, Operand

\* What a production parses to from a token depends on what is parsed from the
\* tokens after it, and on the productions it calls before it consumes any.
LEMMA ParserLooksAhead ==
  ASSUME NEW e \in Seq(STRING), NEW scope, NEW f \in Parsers(e, scope), NEW h,
         NEW as \in Productions, NEW i \in 1 .. Len(e) + 1, Agree(Len(e), f, h, as, i)
  PROVE  Parse(e, scope, f, as, i) = Parse(e, scope, h, as, i)
<1> DEFINE n == Len(e)
<1>1. n \in Nat
  BY LenProperties
<1>2. \A bs \in Productions, k \in 1 .. n + 1 : k > i => f[<<bs, k>>] = h[<<bs, k>>]
  BY DEF Agree
<1>3. \A bs \in Productions : Rank[bs] < Rank[as] => f[<<bs, i>>] = h[<<bs, i>>]
  BY DEF Agree
<1>4. \A bs \in Productions : Proper(f[<<bs, i>>], bs, i)
  BY ParserTypes
<1>5. \A k : Peek(e, k) # "eof" => k \in 1 .. n
  BY TokensAreInside DEF n
<1> HIDE DEF n
<1>6. CASE as \in Chains
  <2> DEFINE left == f[<<Operand(as), i>>]
             right == f[<<as, left.at + 1>>]
             leftH == h[<<Operand(as), i>>]
             rightH == h[<<as, leftH.at + 1>>]
  <2>1. Parse(e, scope, f, as, i) =
          IF ~left.ok \/ Peek(e, left.at) # Connective(as) THEN left
          ELSE IF right.ok THEN Parsed(Join(as, left.value, right.value), right.at)
          ELSE Throws
    BY <1>6, ChainParser
  <2>2. Parse(e, scope, h, as, i) =
          IF ~leftH.ok \/ Peek(e, leftH.at) # Connective(as) THEN leftH
          ELSE IF rightH.ok THEN Parsed(Join(as, leftH.value, rightH.value), rightH.at)
          ELSE Throws
    BY <1>6, ChainParser
  <2>3. left = leftH
    BY <1>3, <1>6, Ranks
  <2>4. left.ok /\ Peek(e, left.at) = Connective(as) => right = rightH
    <3>1. left.ok => left.at > i
      BY <1>4, <1>6, Ranks DEF Proper
    <3>2. Peek(e, left.at) = Connective(as) => left.at \in 1 .. n
      BY <1>5 DEF Connective
    <3>3. left.at > i /\ left.at \in 1 .. n => left.at + 1 > i /\ left.at + 1 \in 1 .. n + 1
      BY <1>1
    <3> HIDE DEF left
    <3> QED
      BY <1>2, <2>3, <3>1, <3>2, <3>3
  <2> HIDE DEF left, right, leftH, rightH
  <2>5. CASE ~left.ok \/ Peek(e, left.at) # Connective(as)
    BY <2>1, <2>2, <2>3, <2>5
  <2>6. CASE left.ok /\ Peek(e, left.at) = Connective(as)
    <3>1. right = rightH
      BY <2>4, <2>6
    <3>2. leftH.ok /\ Peek(e, leftH.at) = Connective(as)
      BY <2>3, <2>6
    <3> QED
      BY <2>1, <2>2, <2>3, <2>6, <3>1, <3>2
  <2> QED
    BY <2>5, <2>6
<1>7. CASE as = "not"
  <2>1. f[<<"comparison", i>>] = h[<<"comparison", i>>]
    BY <1>3, <1>7, Ranks DEF Productions
  <2>2. Peek(e, i) = "!" => f[<<"not", i + 1>>] = h[<<"not", i + 1>>]
    <3>1. Peek(e, i) = "!" => i + 1 \in 1 .. n + 1 /\ i + 1 > i
      BY <1>1, <1>5
    <3> QED
      BY <1>2, <3>1 DEF Productions
  <2> QED
    BY <1>7, <2>1, <2>2 DEF Parse, ParseNot
<1>8. CASE as = "comparison"
  <2> DEFINE left == f[<<"value", i>>]
             right == f[<<"value", left.at + 1>>]
             leftH == h[<<"value", i>>]
             rightH == h[<<"value", leftH.at + 1>>]
  <2>1. Parse(e, scope, f, as, i) =
          CASE ~left.ok -> Throws
            [] left.ok /\ Peek(e, left.at) = "exists" ->
                 Parsed(left.value # Null, left.at + 1)
            [] left.ok /\ Peek(e, left.at) \in Operators ->
                 IF right.ok
                 THEN Parsed(Compare(Peek(e, left.at), left.value, right.value), right.at)
                 ELSE Throws
            [] OTHER -> Parsed(Holds(left.value), left.at)
    BY <1>8 DEF Parse, ParseComparison
  <2>2. Parse(e, scope, h, as, i) =
          CASE ~leftH.ok -> Throws
            [] leftH.ok /\ Peek(e, leftH.at) = "exists" ->
                 Parsed(leftH.value # Null, leftH.at + 1)
            [] leftH.ok /\ Peek(e, leftH.at) \in Operators ->
                 IF rightH.ok
                 THEN Parsed(Compare(Peek(e, leftH.at), leftH.value, rightH.value), rightH.at)
                 ELSE Throws
            [] OTHER -> Parsed(Holds(leftH.value), leftH.at)
    BY <1>8 DEF Parse, ParseComparison
  <2>3. left = leftH
    BY <1>3, <1>8, Ranks DEF Productions
  <2>4. left.ok /\ Peek(e, left.at) \in Operators => right = rightH
    <3>1. left.ok => left.at > i
      BY <1>4 DEF Proper, Productions
    <3>2. Peek(e, left.at) \in Operators => left.at \in 1 .. n
      BY <1>5, EndIsNoToken
    <3>3. left.at > i /\ left.at \in 1 .. n => left.at + 1 > i /\ left.at + 1 \in 1 .. n + 1
      BY <1>1
    <3> HIDE DEF left
    <3> QED
      BY <1>2, <2>3, <3>1, <3>2, <3>3 DEF Productions
  <2> HIDE DEF left, leftH
  <2>5. CASE ~left.ok
    BY <2>1, <2>2, <2>3, <2>5
  <2>6. CASE left.ok /\ Peek(e, left.at) \in Operators
    BY <2>1, <2>2, <2>3, <2>4, <2>6
  <2>7. CASE left.ok /\ Peek(e, left.at) \notin Operators
    BY <2>1, <2>2, <2>3, <2>7
  <2> QED
    BY <2>5, <2>6, <2>7
<1>9. CASE as = "value"
  <2>1. Peek(e, i) = "(" => f[<<"or", i + 1>>] = h[<<"or", i + 1>>]
    <3>1. Peek(e, i) = "(" => i + 1 \in 1 .. n + 1 /\ i + 1 > i
      BY <1>1, <1>5
    <3> QED
      BY <1>2, <3>1 DEF Productions
  <2> DEFINE t == Peek(e, i)
  <2>2. \A g : Parse(e, scope, g, as, i) =
          CASE t \in DOMAIN Path \cup DOMAIN Literal -> Parsed(Read(e[i], scope), i + 1)
            [] t = "(" -> IF g[<<"or", i + 1>>].ok /\ Peek(e, g[<<"or", i + 1>>].at) = ")"
                          THEN Parsed(Bool(g[<<"or", i + 1>>].value), g[<<"or", i + 1>>].at + 1)
                          ELSE Throws
            [] OTHER -> Throws
    BY <1>9 DEF Parse, ParseValue
  <2> HIDE DEF t
  <2>3. "(" \notin DOMAIN Path \cup DOMAIN Literal
    BY DEF Path, Literal
  <2>4. CASE t = "("
    BY <2>1, <2>2, <2>3, <2>4 DEF t
  <2>5. CASE t # "("
    BY <2>2, <2>5
  <2> QED
    BY <2>4, <2>5
<1> QED
  BY <1>6, <1>7, <1>8, <1>9 DEF Productions, Chains

\* The parser's recursive function satisfies its equation, and is the only one
\* that does.
LEMMA ParserIsDefined ==
  ASSUME NEW e \in Seq(STRING), NEW scope
  PROVE  \E f \in Parsers(e, scope) :
           /\ \A as \in Productions, i \in 1 .. Len(e) + 1 :
                f[<<as, i>>] = Parse(e, scope, f, as, i)
           /\ ParseExpression(e, scope) =
                IF e # <<>> /\ Tokenizes(e) /\ Peek(e, f[<<"or", 1>>].at) = "eof"
                THEN f[<<"or", 1>>] ELSE Throws
<1> DEFINE n == Len(e)
           D == Nodes(e)
           F == Parsers(e, scope)
           mu == [x \in D |-> 5 * (n + 1 - x[2]) + Rank[x[1]]]
           G == [f \in F |-> [x \in D |-> Parse(e, scope, f, x[1], x[2])]]
           parse[x \in Productions \X (1 .. n + 1)] == Parse(e, scope, parse, x[1], x[2])
<1>1. n \in Nat
  BY LenProperties
<1>2. ASSUME NEW x \in D
      PROVE  x[1] \in Productions /\ x[2] \in 1 .. n + 1 /\ x = <<x[1], x[2]>>
  BY DEF Nodes
<1>3. ASSUME NEW as \in Productions, NEW i \in 1 .. n + 1
      PROVE  <<as, i>> \in D /\ <<as, i>>[1] = as /\ <<as, i>>[2] = i
  BY DEF Nodes
<1>4. ASSUME NEW as \in Productions, NEW i \in 1 .. n + 1
      PROVE  mu[<<as, i>>] = 5 * (n + 1 - i) + Rank[as]
  BY <1>3
<1> HIDE DEF n, D, F, mu, parse
<1>5. \A x \in D : mu[x] \in 0 .. 5 * n + 5 + 4
  <2>1. ASSUME NEW as \in Productions, NEW i \in 1 .. n + 1
        PROVE  mu[<<as, i>>] \in 0 .. 5 * n + 5 + 4
    <3> DEFINE r == Rank[as]
    <3>1. r \in 0 .. 4
      BY Ranks
    <3>2. mu[<<as, i>>] = 5 * (n + 1 - i) + r
      BY <1>4
    <3> HIDE DEF r
    <3>3. 5 * (n + 1 - i) + r \in 0 .. 5 * n + 5 + 4
      BY <1>1, <3>1
    <3> QED
      BY <3>2, <3>3
  <2> QED
    BY <1>2, <2>1
<1>6. ASSUME NEW as \in Productions, NEW i \in 1 .. n + 1, NEW bs \in Productions,
             NEW k \in 1 .. n + 1, k > i \/ (k = i /\ Rank[bs] < Rank[as])
      PROVE  mu[<<bs, k>>] < mu[<<as, i>>]
  <2> DEFINE r == Rank[as]
             s == Rank[bs]
  <2>1. r \in 0 .. 4 /\ s \in 0 .. 4 /\ (k > i \/ (k = i /\ s < r))
    BY <1>6, Ranks
  <2>2. mu[<<as, i>>] = 5 * (n + 1 - i) + r /\ mu[<<bs, k>>] = 5 * (n + 1 - k) + s
    BY <1>4
  <2> HIDE DEF r, s
  <2>3. 5 * (n + 1 - k) + s < 5 * (n + 1 - i) + r
    BY <1>1, <2>1
  <2> QED
    BY <2>2, <2>3
<1>7. ASSUME NEW f, NEW h, NEW as \in Productions, NEW i \in 1 .. n + 1,
             \A y \in D : mu[y] < mu[<<as, i>>] => f[y] = h[y]
      PROVE  Agree(n, f, h, as, i)
  BY <1>3, <1>6, <1>7 DEF Agree
<1>8. F # {}
  <2> DEFINE f == [x \in D |-> Throws]
  <2>1. \A as \in Productions, i \in 1 .. n + 1 : f[<<as, i>>] = Throws
    BY <1>3
  <2>2. f \in [D -> Outcomes(e, scope)]
    BY OutcomeTypes
  <2> HIDE DEF f
  <2>3. \A as \in Productions, i \in 1 .. n + 1 : Proper(f[<<as, i>>], as, i)
    BY <2>1, OutcomeTypes DEF Proper
  <2>4. f \in F
    BY <2>2, <2>3 DEF F, Parsers, n, D
  <2> QED
    BY <2>4
<1>9. ASSUME NEW f \in F
      PROVE  /\ G[f] \in F
             /\ \A as \in Productions, i \in 1 .. n + 1 :
                  G[f][<<as, i>>] = Parse(e, scope, f, as, i)
  <2> DEFINE h == [x \in D |-> Parse(e, scope, f, x[1], x[2])]
  <2>1. \A as \in Productions, i \in 1 .. n + 1 : h[<<as, i>>] = Parse(e, scope, f, as, i)
    BY <1>3
  <2>2. \A as \in Productions, i \in 1 .. n + 1 :
          /\ Parse(e, scope, f, as, i) \in Outcomes(e, scope)
          /\ Proper(Parse(e, scope, f, as, i), as, i)
    BY ParseStays DEF F, n
  <2>3. \A x \in D : Parse(e, scope, f, x[1], x[2]) \in Outcomes(e, scope)
    BY <1>2, <2>2
  <2>4. h \in [D -> Outcomes(e, scope)]
    BY <2>3
  <2> HIDE DEF h
  <2>5. \A as \in Productions, i \in 1 .. n + 1 : Proper(h[<<as, i>>], as, i)
    BY <2>1, <2>2
  <2>6. h \in F
    BY <2>4, <2>5 DEF F, Parsers, n, D
  <2>7. G[f] = h
    BY DEF h
  <2> QED
    BY <2>1, <2>6, <2>7
<1> HIDE DEF G
<1>10. ASSUME NEW f \in F, NEW h \in F, NEW x \in D,
              \A y \in D : mu[y] < mu[x] => f[y] = h[y]
       PROVE  G[f][x] = G[h][x]
  <2>1. PICK as \in Productions, i \in 1 .. n + 1 : x = <<as, i>>
    BY <1>2
  <2>2. Agree(n, f, h, as, i)
    BY <1>7, <1>10, <2>1
  <2>3. Parse(e, scope, f, as, i) = Parse(e, scope, h, as, i)
    BY <2>2, ParserLooksAhead DEF F, n
  <2>4. G[f][<<as, i>>] = Parse(e, scope, f, as, i)
    BY <1>9
  <2>5. G[h][<<as, i>>] = Parse(e, scope, h, as, i)
    BY <1>9
  <2> QED
    BY <2>1, <2>3, <2>4, <2>5
<1>11. PICK f \in F : \A x \in D : f[x] = G[f][x]
  <2> DEFINE M == 5 * n + 5 + 4
  <2>1. M \in Nat
    BY <1>1
  <2>2. \A x \in D : mu[x] \in 0 .. M
    BY <1>5
  <2> HIDE DEF M
  <2>3. \A g \in F : G[g] \in F
    BY <1>9
  <2>4. \A g, h \in F : \A x \in D :
          (\A y \in D : mu[y] < mu[x] => g[y] = h[y]) => G[g][x] = G[h][x]
    BY <1>10
  <2>5. Recurs(D, M, mu, F, G)
    BY <1>8, <2>1, <2>2, <2>3, <2>4 DEF Recurs
  <2> QED
    BY <2>5, RecursionHasSolution
<1>12. \A as \in Productions, i \in 1 .. n + 1 : f[<<as, i>>] = Parse(e, scope, f, as, i)
  BY <1>3, <1>9, <1>11
<1>13. f = [x \in Productions \X (1 .. n + 1) |-> Parse(e, scope, f, x[1], x[2])]
  <2>1. f \in [D -> Outcomes(e, scope)]
    BY DEF F, Parsers, D
  <2>2. \A x \in D : f[x] = Parse(e, scope, f, x[1], x[2])
    BY <1>2, <1>12
  <2>3. f = [x \in D |-> Parse(e, scope, f, x[1], x[2])]
    BY <2>1, <2>2
  <2> QED
    BY <2>3 DEF D, Nodes, n
<1>14. parse = [x \in Productions \X (1 .. n + 1) |-> Parse(e, scope, parse, x[1], x[2])]
  BY <1>13 DEF parse
<1>15. \A as \in Productions, i \in 1 .. n + 1 :
          parse[<<as, i>>] = Parse(e, scope, parse, as, i)
  <2> DEFINE P == Productions \X (1 .. n + 1)
  <2>1. \A as \in Productions, i \in 1 .. n + 1 :
          <<as, i>> \in P /\ <<as, i>>[1] = as /\ <<as, i>>[2] = i
    OBVIOUS
  <2>2. parse = [x \in P |-> Parse(e, scope, parse, x[1], x[2])]
    BY <1>14
  <2> HIDE DEF P
  <2> QED
    BY <2>1, <2>2
<1>16. parse = f
  <2> DEFINE T == {m \in Nat : \A x \in D : mu[x] < m => f[x] = parse[x]}
  <2>1. 0 \in T
    BY <1>5
  <2>2. ASSUME NEW m \in Nat, m \in T PROVE m + 1 \in T
    <3>1. ASSUME NEW x \in D, mu[x] < m + 1 PROVE f[x] = parse[x]
      <4>1. PICK as \in Productions, i \in 1 .. n + 1 : x = <<as, i>>
        BY <1>2
      <4>2. \A y \in D : mu[y] < mu[x] => mu[y] < m
        BY <1>5, <3>1
      <4>3. Agree(n, f, parse, as, i)
        BY <1>7, <2>2, <4>1, <4>2
      <4>4. Parse(e, scope, f, as, i) = Parse(e, scope, parse, as, i)
        BY <4>3, ParserLooksAhead DEF F, n
      <4> QED
        BY <1>12, <1>15, <4>1, <4>4
    <3> QED
      BY <3>1
  <2> HIDE DEF T
  <2>3. 5 * n + 5 + 4 + 1 \in T
    BY <1>1, <2>1, <2>2, SetInduction
  <2>4. \A x \in D : f[x] = parse[x]
    BY <1>1, <1>5, <2>3 DEF T
  <2>5. \A x \in Productions \X (1 .. n + 1) : f[x] = parse[x]
    BY <2>4 DEF D, Nodes, n
  <2>6. f = [x \in Productions \X (1 .. n + 1) |-> f[x]]
    BY <1>13
  <2>7. parse = [x \in Productions \X (1 .. n + 1) |-> parse[x]]
    BY <1>14
  <2> QED
    BY <2>5, <2>6, <2>7
<1>17. ParseExpression(e, scope) =
          IF e # <<>> /\ Tokenizes(e) /\ Peek(e, parse[<<"or", 1>>].at) = "eof"
          THEN parse[<<"or", 1>>] ELSE Throws
  BY DEF ParseExpression, parse, n
<1> QED
  BY <1>12, <1>16, <1>17 DEF F, n

-----------------------------------------------------------------------------
(* The grammar.                                                             *)

\* What it is to be a value of a chain: of its operand, or of the chain before
\* one of its connectives joined with one of the operand after it; of a negation,
\* of a comparison and of a value.
ChainGives(e, m, as, i, j, v) ==
  \/ v \in m[<<Operand(as), i, j>>]
  \/ \E k \in i + 1 .. j - 1 :
       /\ e[k] = Connective(as)
       /\ \E l \in m[<<as, i, k - 1>>], r \in m[<<Operand(as), k + 1, j>>] : v = Join(as, l, r)
NotGives(e, m, i, j, v) ==
  IF i < j /\ e[i] = "!" THEN \E b \in m[<<"not", i + 1, j>>] : v = (~b)
  ELSE v \in m[<<"comparison", i, j>>]
ComparisonGives(e, m, i, j, v) ==
  \/ \E u \in m[<<"value", i, j>>] : v = Holds(u)
  \/ i < j /\ e[j] = "exists" /\ \E u \in m[<<"value", i, j - 1>>] : v = (u # Null)
  \/ \E k \in i + 1 .. j - 1 :
       /\ e[k] \in Operators
       /\ \E l \in m[<<"value", i, k - 1>>], r \in m[<<"value", k + 1, j>>] :
            v = Compare(e[k], l, r)
ValueGives(e, scope, m, i, j, v) ==
  IF i = j THEN /\ Tokenizes(<<e[i]>>) /\ e[i] \in DOMAIN Path \cup DOMAIN Literal
                /\ v = Read(e[i], scope)
  ELSE /\ i + 1 < j /\ e[i] = "(" /\ e[j] = ")"
       /\ \E b \in m[<<"or", i + 1, j - 1>>] : v = Bool(b)

\* What a chain denotes, without the operators on sets the grammar is written in.
LEMMA ChainDenotes ==
  ASSUME NEW e, NEW scope, NEW m, NEW as \in Chains, NEW i, NEW j, NEW v
  PROVE  v \in Denotes(e, scope, m, as, i, j) <=> ChainGives(e, m, as, i, j, v)
<1>1. ASSUME NEW L, NEW R
      PROVE  /\ \A p \in Pairs(L, R) : p[1] \in L /\ p[2] \in R
             /\ \A l \in L, r \in R :
                  <<l, r>> \in Pairs(L, R) /\ <<l, r>>[1] = l /\ <<l, r>>[2] = r
  BY DEF Pairs
<1> DEFINE K == {k \in i + 1 .. j - 1 : e[k] \in {Connective(as)}}
           P(k) == Pairs(m[<<as, i, k - 1>>], m[<<Operand(as), k + 1, j>>])
<1>2. Denotes(e, scope, m, as, i, j) =
        m[<<Operand(as), i, j>>] \cup {Join(as, p[1], p[2]) : p \in UNION {P(k) : k \in K}}
  <2>1. CASE as = "or"
    BY <2>1 DEF Denotes, Operand, Connective, Join
  <2>2. CASE as = "and"
    BY <2>2 DEF Denotes, Operand, Connective, Join
  <2> QED
    BY <2>1, <2>2 DEF Chains
<1>3. (\E p \in UNION {P(k) : k \in K} : v = Join(as, p[1], p[2])) <=>
      \E k \in K : \E l \in m[<<as, i, k - 1>>], r \in m[<<Operand(as), k + 1, j>>] :
        v = Join(as, l, r)
  <2>1. ASSUME NEW k \in K, NEW p \in P(k), v = Join(as, p[1], p[2])
        PROVE  \E l \in m[<<as, i, k - 1>>], r \in m[<<Operand(as), k + 1, j>>] :
                 v = Join(as, l, r)
    BY <1>1, <2>1
  <2>2. ASSUME NEW k \in K, NEW l \in m[<<as, i, k - 1>>],
               NEW r \in m[<<Operand(as), k + 1, j>>], v = Join(as, l, r)
        PROVE  \E p \in P(k) : v = Join(as, p[1], p[2])
    <3> DEFINE q == <<l, r>>
    <3>1. q \in P(k) /\ q[1] = l /\ q[2] = r
      BY <1>1
    <3> HIDE DEF q, P
    <3> QED
      BY <2>2, <3>1
  <2> HIDE DEF P, K
  <2> QED
    BY <2>1, <2>2
<1> HIDE DEF P
<1> QED
  BY <1>2, <1>3 DEF ChainGives

\* The same for the other three productions.
LEMMA OthersDenote ==
  ASSUME NEW e, NEW scope, NEW m, NEW i, NEW j, NEW v
  PROVE  /\ v \in Denotes(e, scope, m, "not", i, j) <=> NotGives(e, m, i, j, v)
         /\ v \in Denotes(e, scope, m, "comparison", i, j) <=> ComparisonGives(e, m, i, j, v)
         /\ v \in Denotes(e, scope, m, "value", i, j) <=> ValueGives(e, scope, m, i, j, v)
<1>1. ASSUME NEW L, NEW R
      PROVE  /\ \A p \in Pairs(L, R) : p[1] \in L /\ p[2] \in R
             /\ \A l \in L, r \in R :
                  <<l, r>> \in Pairs(L, R) /\ <<l, r>>[1] = l /\ <<l, r>>[2] = r
  BY DEF Pairs
<1>2. v \in Denotes(e, scope, m, "not", i, j) <=>
        IF i < j /\ e[i] = "!" THEN \E b \in m[<<"not", i + 1, j>>] : v = (~b)
        ELSE v \in m[<<"comparison", i, j>>]
  <2>1. CASE i < j /\ e[i] = "!"
    <3>1. Denotes(e, scope, m, "not", i, j) = {~b : b \in m[<<"not", i + 1, j>>]}
      BY <2>1 DEF Denotes
    <3> QED
      BY <2>1, <3>1
  <2>2. CASE ~(i < j /\ e[i] = "!")
    BY <2>2 DEF Denotes
  <2> QED
    BY <2>1, <2>2
<1>3. v \in Denotes(e, scope, m, "comparison", i, j) <=>
        \/ \E u \in m[<<"value", i, j>>] : v = Holds(u)
        \/ i < j /\ e[j] = "exists" /\ \E u \in m[<<"value", i, j - 1>>] : v = (u # Null)
        \/ \E k \in i + 1 .. j - 1 :
             /\ e[k] \in Operators
             /\ \E l \in m[<<"value", i, k - 1>>], r \in m[<<"value", k + 1, j>>] :
                  v = Compare(e[k], l, r)
  <2> DEFINE K == {k \in i + 1 .. j - 1 : e[k] \in Operators}
             P(k) == Pairs(m[<<"value", i, k - 1>>], m[<<"value", k + 1, j>>])
             C(k) == {Compare(e[k], p[1], p[2]) : p \in P(k)}
             X == IF i < j /\ e[j] = "exists"
                  THEN {u # Null : u \in m[<<"value", i, j - 1>>]} ELSE {}
             H == {Holds(u) : u \in m[<<"value", i, j>>]}
  <2>1. Denotes(e, scope, m, "comparison", i, j) = H \cup X \cup UNION {C(k) : k \in K}
    BY DEF Denotes
  <2>2. v \in H <=> \E u \in m[<<"value", i, j>>] : v = Holds(u)
    OBVIOUS
  <2>3. v \in X <=>
          i < j /\ e[j] = "exists" /\ \E u \in m[<<"value", i, j - 1>>] : v = (u # Null)
    OBVIOUS
  <2>4. ASSUME NEW k \in K
        PROVE  v \in C(k) <=>
                 \E l \in m[<<"value", i, k - 1>>], r \in m[<<"value", k + 1, j>>] :
                   v = Compare(e[k], l, r)
    <3>1. ASSUME NEW p \in P(k)
          PROVE  p[1] \in m[<<"value", i, k - 1>>] /\ p[2] \in m[<<"value", k + 1, j>>]
      BY <1>1
    <3>2. ASSUME NEW l \in m[<<"value", i, k - 1>>], NEW r \in m[<<"value", k + 1, j>>]
          PROVE  \E p \in P(k) : p[1] = l /\ p[2] = r
      <4> DEFINE q == <<l, r>>
      <4>1. q \in P(k) /\ q[1] = l /\ q[2] = r
        BY <1>1
      <4> HIDE DEF q, P
      <4> QED
        BY <4>1
    <3> HIDE DEF P
    <3>3. v \in C(k) <=> \E p \in P(k) : v = Compare(e[k], p[1], p[2])
      OBVIOUS
    <3> HIDE DEF C
    <3>4. ASSUME v \in C(k)
          PROVE  \E l \in m[<<"value", i, k - 1>>], r \in m[<<"value", k + 1, j>>] :
                   v = Compare(e[k], l, r)
      <4>1. PICK p \in P(k) : v = Compare(e[k], p[1], p[2])
        BY <3>3, <3>4
      <4> QED
        BY <3>1, <4>1
    <3>5. ASSUME NEW l \in m[<<"value", i, k - 1>>], NEW r \in m[<<"value", k + 1, j>>],
                 v = Compare(e[k], l, r)
          PROVE  v \in C(k)
      <4>1. PICK p \in P(k) : p[1] = l /\ p[2] = r
        BY <3>2
      <4>2. v = Compare(e[k], p[1], p[2])
        BY <3>5, <4>1
      <4> QED
        BY <3>3, <4>2
    <3> QED
      BY <3>4, <3>5
  <2>5. v \in UNION {C(k) : k \in K} <=> \E k \in K : v \in C(k)
    OBVIOUS
  <2> HIDE DEF H, X, C, P
  <2> QED
    BY <2>1, <2>2, <2>3, <2>4, <2>5
<1>4. v \in Denotes(e, scope, m, "value", i, j) <=>
        IF i = j THEN /\ Tokenizes(<<e[i]>>) /\ e[i] \in DOMAIN Path \cup DOMAIN Literal
                      /\ v = Read(e[i], scope)
        ELSE /\ i + 1 < j /\ e[i] = "(" /\ e[j] = ")"
             /\ \E b \in m[<<"or", i + 1, j - 1>>] : v = Bool(b)
  <2>1. CASE i = j
    BY <2>1 DEF Denotes
  <2>2. CASE i # j /\ i + 1 < j /\ e[i] = "(" /\ e[j] = ")"
    <3>1. Denotes(e, scope, m, "value", i, j) = {Bool(b) : b \in m[<<"or", i + 1, j - 1>>]}
      BY <2>2 DEF Denotes
    <3> QED
      BY <2>2, <3>1
  <2>3. CASE i # j /\ ~(i + 1 < j /\ e[i] = "(" /\ e[j] = ")")
    BY <2>3 DEF Denotes
  <2> QED
    BY <2>1, <2>2, <2>3
<1> QED
  BY <1>2, <1>3, <1>4 DEF NotGives, ComparisonGives, ValueGives

\* What the grammar may give a stretch of tokens.
Stretches(e) == Productions \X (1 .. Len(e)) \X (1 .. Len(e))
Meanings(e, scope) ==
  {m \in [Stretches(e) -> SUBSET Values(e, scope)] :
     \A as \in Productions \ {"value"}, i \in 1 .. Len(e), j \in 1 .. Len(e) :
       m[<<as, i, j>>] \subseteq BOOLEAN}

\* One step of the grammar stays in that.
LEMMA DenotesStays ==
  ASSUME NEW e \in Seq(STRING), NEW scope, NEW m \in Meanings(e, scope),
         NEW as \in Productions, NEW i \in 1 .. Len(e), NEW j \in 1 .. Len(e)
  PROVE  /\ Denotes(e, scope, m, as, i, j) \subseteq Values(e, scope)
         /\ as # "value" => Denotes(e, scope, m, as, i, j) \subseteq BOOLEAN
<1> DEFINE n == Len(e)
<1>1. n \in Nat
  BY LenProperties
<1>2. \A bs \in Productions \ {"value"}, k \in 1 .. n, l \in 1 .. n :
        m[<<bs, k, l>>] \subseteq BOOLEAN
  BY DEF Meanings
<1>3. BOOLEAN \subseteq Values(e, scope)
  BY DEF Values
<1> SUFFICES ASSUME NEW v \in Denotes(e, scope, m, as, i, j)
             PROVE  v \in Values(e, scope) /\ (as # "value" => v \in BOOLEAN)
  OBVIOUS
<1> HIDE DEF n
<1>4. CASE as \in Chains
  <2>1. Operand(as) \in Productions \ {"value"}
    BY <1>4 DEF Operand, Chains, Productions
  <2>2. \/ v \in m[<<Operand(as), i, j>>]
        \/ \E l, r : v = Join(as, l, r)
    <3>1. ChainGives(e, m, as, i, j, v)
      BY <1>4, ChainDenotes
    <3> QED
      BY <3>1 DEF ChainGives
  <2>3. m[<<Operand(as), i, j>>] \subseteq BOOLEAN
    BY <1>2, <2>1 DEF n
  <2>4. v \in BOOLEAN
    BY <1>4, <2>2, <2>3, ValuesDecide
  <2> QED
    BY <1>3, <2>4
<1>5. CASE as = "not"
  <2>1. m[<<"comparison", i, j>>] \subseteq BOOLEAN
    BY <1>2 DEF Productions, n
  <2>2. v \in m[<<"comparison", i, j>>] \/ \E b : v = (~b)
    <3>1. NotGives(e, m, i, j, v)
      BY <1>5, OthersDenote
    <3> QED
      BY <3>1 DEF NotGives
  <2>3. v \in BOOLEAN
    BY <2>1, <2>2, ValuesDecide
  <2> QED
    BY <1>3, <2>3
<1>6. CASE as = "comparison"
  <2>1. \/ \E u : v = Holds(u)
        \/ \E u : v = (u # Null)
        \/ \E op \in Operators : \E l, r : v = Compare(op, l, r)
    <3>1. ComparisonGives(e, m, i, j, v)
      BY <1>6, OthersDenote
    <3> QED
      BY <3>1 DEF ComparisonGives
  <2>2. v \in BOOLEAN
    BY <2>1, ValuesDecide
  <2> QED
    BY <1>3, <2>2
<1>7. CASE as = "value"
  <2>0. ValueGives(e, scope, m, i, j, v)
    BY <1>7, OthersDenote
  <2>1. CASE i = j
    BY <1>7, <2>0, <2>1 DEF Values, ValueGives
  <2>2. CASE i # j
    <3>1. i + 1 < j /\ \E b \in m[<<"or", i + 1, j - 1>>] : v = Bool(b)
      BY <2>0, <2>2 DEF ValueGives
    <3>2. i + 1 \in 1 .. n /\ j - 1 \in 1 .. n /\ "or" \in Productions \ {"value"}
      BY <1>1, <3>1 DEF n, Productions
    <3>3. m[<<"or", i + 1, j - 1>>] \subseteq BOOLEAN
      BY <1>2, <3>2
    <3> QED
      BY <1>7, <3>1, <3>3 DEF Values
  <2> QED
    BY <2>1, <2>2
<1> QED
  BY <1>4, <1>5, <1>6, <1>7 DEF Productions, Chains

\* It depends on shorter stretches, or on productions nearer to a value.
Shared(e, f, h, as, i, j) ==
  \A bs \in Productions, k \in 1 .. Len(e), l \in 1 .. Len(e) :
    l - k < j - i \/ (l - k = j - i /\ Rank[bs] < Rank[as])
      => f[<<bs, k, l>>] = h[<<bs, k, l>>]
GivesTheSame(e, scope, f, h, as, i, j) ==
  Denotes(e, scope, f, as, i, j) = Denotes(e, scope, h, as, i, j)

\* What a production denotes depends on what shorter spans denote, and on the
\* productions of lower rank over the same span.
LEMMA GrammarLooksInside ==
  ASSUME NEW e \in Seq(STRING), NEW scope, NEW f, NEW h, NEW as \in Productions,
         NEW i \in 1 .. Len(e), NEW j \in 1 .. Len(e), Shared(e, f, h, as, i, j)
  PROVE  GivesTheSame(e, scope, f, h, as, i, j)
<1> DEFINE n == Len(e)
           A == Denotes(e, scope, f, as, i, j)
           B == Denotes(e, scope, h, as, i, j)
<1>1. n \in Nat
  BY LenProperties
<1>2. \A bs \in Productions, k \in 1 .. n, l \in 1 .. n :
        l - k < j - i => f[<<bs, k, l>>] = h[<<bs, k, l>>]
  BY DEF Shared
<1>3. \A bs \in Productions : Rank[bs] < Rank[as] => f[<<bs, i, j>>] = h[<<bs, i, j>>]
  BY DEF Shared
<1>4. \A k \in i + 1 .. j - 1, bs \in Productions :
        /\ f[<<bs, i, k - 1>>] = h[<<bs, i, k - 1>>]
        /\ f[<<bs, k + 1, j>>] = h[<<bs, k + 1, j>>]
  <2> SUFFICES ASSUME NEW k \in i + 1 .. j - 1, NEW bs \in Productions
               PROVE  /\ f[<<bs, i, k - 1>>] = h[<<bs, i, k - 1>>]
                      /\ f[<<bs, k + 1, j>>] = h[<<bs, k + 1, j>>]
    OBVIOUS
  <2>1. k - 1 \in 1 .. n /\ k + 1 \in 1 .. n /\ (k - 1) - i < j - i /\ j - (k + 1) < j - i
    BY <1>1
  <2> QED
    BY <1>2, <2>1
<1> SUFFICES ASSUME NEW v PROVE v \in A <=> v \in B
  BY DEF A, B, GivesTheSame
<1> HIDE DEF n
<1>5. CASE as \in Chains
  <2>1. f[<<Operand(as), i, j>>] = h[<<Operand(as), i, j>>]
    BY <1>3, <1>5, Ranks
  <2>2. Operand(as) \in Productions
    BY <1>5, Ranks
  <2>3. \A k \in i + 1 .. j - 1 :
          /\ f[<<as, i, k - 1>>] = h[<<as, i, k - 1>>]
          /\ f[<<Operand(as), k + 1, j>>] = h[<<Operand(as), k + 1, j>>]
    BY <1>4, <2>2
  <2>4. (v \in A <=> ChainGives(e, f, as, i, j, v)) /\ (v \in B <=> ChainGives(e, h, as, i, j, v))
    BY <1>5, ChainDenotes
  <2>5. ChainGives(e, f, as, i, j, v) <=> ChainGives(e, h, as, i, j, v)
    BY <2>1, <2>3 DEF ChainGives
  <2> QED
    BY <2>4, <2>5
<1>6. CASE as = "not"
  <2>1. f[<<"comparison", i, j>>] = h[<<"comparison", i, j>>]
    BY <1>3, <1>6, Ranks DEF Productions
  <2>2. i < j => f[<<"not", i + 1, j>>] = h[<<"not", i + 1, j>>]
    <3>1. i < j => i + 1 \in 1 .. n /\ j - (i + 1) < j - i
      BY <1>1 DEF n
    <3> QED
      BY <1>2, <3>1 DEF Productions, n
  <2>4. (v \in A <=> NotGives(e, f, i, j, v)) /\ (v \in B <=> NotGives(e, h, i, j, v))
    BY <1>6, OthersDenote
  <2>5. NotGives(e, f, i, j, v) <=> NotGives(e, h, i, j, v)
    BY <2>1, <2>2 DEF NotGives
  <2> QED
    BY <2>4, <2>5
<1>7. CASE as = "comparison"
  <2>1. f[<<"value", i, j>>] = h[<<"value", i, j>>]
    BY <1>3, <1>7, Ranks DEF Productions
  <2>2. i < j => f[<<"value", i, j - 1>>] = h[<<"value", i, j - 1>>]
    <3>1. i < j => j - 1 \in 1 .. n /\ (j - 1) - i < j - i
      BY <1>1 DEF n
    <3> QED
      BY <1>2, <3>1 DEF Productions, n
  <2>3. \A k \in i + 1 .. j - 1 :
          /\ f[<<"value", i, k - 1>>] = h[<<"value", i, k - 1>>]
          /\ f[<<"value", k + 1, j>>] = h[<<"value", k + 1, j>>]
    BY <1>4 DEF Productions
  <2>4. (v \in A <=> ComparisonGives(e, f, i, j, v)) /\ (v \in B <=> ComparisonGives(e, h, i, j, v))
    BY <1>7, OthersDenote
  <2>5. ComparisonGives(e, f, i, j, v) <=> ComparisonGives(e, h, i, j, v)
    BY <2>1, <2>2, <2>3 DEF ComparisonGives
  <2> QED
    BY <2>4, <2>5
<1>8. CASE as = "value"
  <2>1. i + 1 < j => f[<<"or", i + 1, j - 1>>] = h[<<"or", i + 1, j - 1>>]
    <3>1. i + 1 < j =>
            i + 1 \in 1 .. n /\ j - 1 \in 1 .. n /\ (j - 1) - (i + 1) < j - i
      BY <1>1 DEF n
    <3> QED
      BY <1>2, <3>1 DEF Productions, n
  <2>4. /\ v \in A <=> ValueGives(e, scope, f, i, j, v)
        /\ v \in B <=> ValueGives(e, scope, h, i, j, v)
    BY <1>8, OthersDenote
  <2>5. ValueGives(e, scope, f, i, j, v) <=> ValueGives(e, scope, h, i, j, v)
    BY <2>1 DEF ValueGives
  <2> QED
    BY <2>4, <2>5
<1> QED
  BY <1>1, <1>5, <1>6, <1>7, <1>8 DEF Productions, Chains

\* The grammar's recursive function satisfies its equation.
LEMMA MeaningIsDefined ==
  ASSUME NEW e \in Seq(STRING), NEW scope
  PROVE  \E m \in Meanings(e, scope) :
           /\ \A as \in Productions, i \in 1 .. Len(e), j \in 1 .. Len(e) :
                m[<<as, i, j>>] = Denotes(e, scope, m, as, i, j)
           /\ Meaning(e, scope) = IF Len(e) = 0 THEN {} ELSE m[<<"or", 1, Len(e)>>]
<1> DEFINE n == Len(e)
           D == Stretches(e)
           F == Meanings(e, scope)
           mu == [x \in D |-> 5 * (n + x[3] - x[2]) + Rank[x[1]]]
           G == [f \in F |-> [x \in D |-> Denotes(e, scope, f, x[1], x[2], x[3])]]
           means[x \in Productions \X (1 .. n) \X (1 .. n)] ==
             Denotes(e, scope, means, x[1], x[2], x[3])
<1>1. n \in Nat
  BY LenProperties
<1>2. ASSUME NEW x \in D
      PROVE  /\ x[1] \in Productions /\ x[2] \in 1 .. n /\ x[3] \in 1 .. n
             /\ x = <<x[1], x[2], x[3]>>
  BY DEF Stretches
<1>3. ASSUME NEW as \in Productions, NEW i \in 1 .. n, NEW j \in 1 .. n
      PROVE  /\ <<as, i, j>> \in D
             /\ <<as, i, j>>[1] = as /\ <<as, i, j>>[2] = i /\ <<as, i, j>>[3] = j
  BY DEF Stretches
<1>4. ASSUME NEW as \in Productions, NEW i \in 1 .. n, NEW j \in 1 .. n
      PROVE  mu[<<as, i, j>>] = 5 * (n + j - i) + Rank[as]
  BY <1>3
<1> HIDE DEF n, D, F, mu, means
<1>5. \A x \in D : mu[x] \in 0 .. 5 * (2 * n) + 4
  <2>1. ASSUME NEW as \in Productions, NEW i \in 1 .. n, NEW j \in 1 .. n
        PROVE  mu[<<as, i, j>>] \in 0 .. 5 * (2 * n) + 4
    <3> DEFINE r == Rank[as]
    <3>1. r \in 0 .. 4
      BY Ranks
    <3>2. mu[<<as, i, j>>] = 5 * (n + j - i) + r
      BY <1>4
    <3> HIDE DEF r
    <3>3. 5 * (n + j - i) + r \in 0 .. 5 * (2 * n) + 4
      BY <1>1, <3>1
    <3> QED
      BY <3>2, <3>3
  <2> QED
    BY <1>2, <2>1
<1>6. ASSUME NEW as \in Productions, NEW i \in 1 .. n, NEW j \in 1 .. n,
             NEW bs \in Productions, NEW k \in 1 .. n, NEW l \in 1 .. n,
             l - k < j - i \/ (l - k = j - i /\ Rank[bs] < Rank[as])
      PROVE  mu[<<bs, k, l>>] < mu[<<as, i, j>>]
  <2> DEFINE r == Rank[as]
             s == Rank[bs]
  <2>1. r \in 0 .. 4 /\ s \in 0 .. 4 /\ (l - k < j - i \/ (l - k = j - i /\ s < r))
    BY <1>6, Ranks
  <2>2. mu[<<as, i, j>>] = 5 * (n + j - i) + r /\ mu[<<bs, k, l>>] = 5 * (n + l - k) + s
    BY <1>4
  <2> HIDE DEF r, s
  <2>3. 5 * (n + l - k) + s < 5 * (n + j - i) + r
    BY <1>1, <2>1
  <2> QED
    BY <2>2, <2>3
<1>7. ASSUME NEW f, NEW h, NEW as \in Productions, NEW i \in 1 .. n, NEW j \in 1 .. n,
             \A y \in D : mu[y] < mu[<<as, i, j>>] => f[y] = h[y]
      PROVE  Denotes(e, scope, f, as, i, j) = Denotes(e, scope, h, as, i, j)
  <2>1. Shared(e, f, h, as, i, j)
    BY <1>3, <1>6, <1>7 DEF Shared, n
  <2>2. GivesTheSame(e, scope, f, h, as, i, j)
    BY <2>1, GrammarLooksInside DEF n
  <2> QED
    BY <2>2 DEF GivesTheSame
<1>8. F # {}
  <2> DEFINE f == [x \in D |-> {}]
  <2>1. \A as \in Productions, i \in 1 .. n, j \in 1 .. n : f[<<as, i, j>>] = {}
    BY <1>3
  <2>2. f \in [D -> SUBSET Values(e, scope)]
    OBVIOUS
  <2> HIDE DEF f
  <2>3. f \in F
    BY <2>1, <2>2 DEF F, Meanings, n, D
  <2> QED
    BY <2>3
<1>9. ASSUME NEW f \in F
      PROVE  /\ G[f] \in F
             /\ \A as \in Productions, i \in 1 .. n, j \in 1 .. n :
                  G[f][<<as, i, j>>] = Denotes(e, scope, f, as, i, j)
  <2> DEFINE h == [x \in D |-> Denotes(e, scope, f, x[1], x[2], x[3])]
  <2>1. \A as \in Productions, i \in 1 .. n, j \in 1 .. n :
          h[<<as, i, j>>] = Denotes(e, scope, f, as, i, j)
    BY <1>3
  <2>2. \A as \in Productions, i \in 1 .. n, j \in 1 .. n :
          /\ Denotes(e, scope, f, as, i, j) \in SUBSET Values(e, scope)
          /\ as # "value" => Denotes(e, scope, f, as, i, j) \subseteq BOOLEAN
    BY DenotesStays DEF F, n
  <2>3. \A x \in D : Denotes(e, scope, f, x[1], x[2], x[3]) \in SUBSET Values(e, scope)
    BY <1>2, <2>2
  <2>4. h \in [D -> SUBSET Values(e, scope)]
    BY <2>3
  <2> HIDE DEF h
  <2>5. \A as \in Productions \ {"value"}, i \in 1 .. n, j \in 1 .. n :
          h[<<as, i, j>>] \subseteq BOOLEAN
    <3> SUFFICES ASSUME NEW as \in Productions, as # "value",
                        NEW i \in 1 .. n, NEW j \in 1 .. n
                 PROVE  h[<<as, i, j>>] \subseteq BOOLEAN
      OBVIOUS
    <3>1. h[<<as, i, j>>] = Denotes(e, scope, f, as, i, j)
      BY <2>1
    <3>2. Denotes(e, scope, f, as, i, j) \subseteq BOOLEAN
      BY <2>2
    <3> QED
      BY <3>1, <3>2
  <2>6. h \in F
    BY <2>4, <2>5 DEF F, Meanings, n, D
  <2>7. G[f] = h
    BY DEF h
  <2> QED
    BY <2>1, <2>6, <2>7
<1> HIDE DEF G
<1>10. ASSUME NEW f \in F, NEW h \in F, NEW x \in D,
              \A y \in D : mu[y] < mu[x] => f[y] = h[y]
       PROVE  G[f][x] = G[h][x]
  <2>1. PICK as \in Productions, i \in 1 .. n, j \in 1 .. n : x = <<as, i, j>>
    BY <1>2
  <2>2. Denotes(e, scope, f, as, i, j) = Denotes(e, scope, h, as, i, j)
    BY <1>7, <1>10, <2>1
  <2>3. G[f][<<as, i, j>>] = Denotes(e, scope, f, as, i, j)
    BY <1>9
  <2>4. G[h][<<as, i, j>>] = Denotes(e, scope, h, as, i, j)
    BY <1>9
  <2> QED
    BY <2>1, <2>2, <2>3, <2>4
<1>11. PICK m \in F : \A x \in D : m[x] = G[m][x]
  <2> DEFINE M == 5 * (2 * n) + 4
  <2>1. M \in Nat
    BY <1>1
  <2>2. \A x \in D : mu[x] \in 0 .. M
    BY <1>5
  <2> HIDE DEF M
  <2>3. \A g \in F : G[g] \in F
    BY <1>9
  <2>4. \A g, h \in F : \A x \in D :
          (\A y \in D : mu[y] < mu[x] => g[y] = h[y]) => G[g][x] = G[h][x]
    BY <1>10
  <2>5. Recurs(D, M, mu, F, G)
    BY <1>8, <2>1, <2>2, <2>3, <2>4 DEF Recurs
  <2> QED
    BY <2>5, RecursionHasSolution
<1>12. \A as \in Productions, i \in 1 .. n, j \in 1 .. n :
         m[<<as, i, j>>] = Denotes(e, scope, m, as, i, j)
  <2> SUFFICES ASSUME NEW as \in Productions, NEW i \in 1 .. n, NEW j \in 1 .. n
               PROVE  m[<<as, i, j>>] = Denotes(e, scope, m, as, i, j)
    OBVIOUS
  <2>1. <<as, i, j>> \in D
    BY <1>3
  <2>2. m[<<as, i, j>>] = G[m][<<as, i, j>>]
    BY <1>11, <2>1
  <2>3. G[m][<<as, i, j>>] = Denotes(e, scope, m, as, i, j)
    BY <1>9
  <2> QED
    BY <2>2, <2>3
<1>13. m = [x \in Productions \X (1 .. n) \X (1 .. n) |->
              Denotes(e, scope, m, x[1], x[2], x[3])]
  <2>1. m \in [D -> SUBSET Values(e, scope)]
    BY DEF F, Meanings, D
  <2>2. \A x \in D : m[x] = Denotes(e, scope, m, x[1], x[2], x[3])
    BY <1>2, <1>12
  <2>3. m = [x \in D |-> Denotes(e, scope, m, x[1], x[2], x[3])]
    BY <2>1, <2>2
  <2> QED
    BY <2>3 DEF D, Stretches, n
<1>14. means = [x \in Productions \X (1 .. n) \X (1 .. n) |->
                  Denotes(e, scope, means, x[1], x[2], x[3])]
  BY <1>13 DEF means
<1>15. \A as \in Productions, i \in 1 .. n, j \in 1 .. n :
         means[<<as, i, j>>] = Denotes(e, scope, means, as, i, j)
  <2> DEFINE P == Productions \X (1 .. n) \X (1 .. n)
  <2>1. \A as \in Productions, i \in 1 .. n, j \in 1 .. n :
          /\ <<as, i, j>> \in P
          /\ <<as, i, j>>[1] = as /\ <<as, i, j>>[2] = i /\ <<as, i, j>>[3] = j
    OBVIOUS
  <2>2. means = [x \in P |-> Denotes(e, scope, means, x[1], x[2], x[3])]
    BY <1>14
  <2> SUFFICES ASSUME NEW as \in Productions, NEW i \in 1 .. n, NEW j \in 1 .. n
               PROVE  means[<<as, i, j>>] = Denotes(e, scope, means, as, i, j)
    OBVIOUS
  <2> DEFINE x == <<as, i, j>>
  <2>3. x \in P /\ x[1] = as /\ x[2] = i /\ x[3] = j
    BY <2>1
  <2> HIDE DEF P, x
  <2>4. means[x] = Denotes(e, scope, means, x[1], x[2], x[3])
    BY <2>2, <2>3
  <2>5. means[x] = Denotes(e, scope, means, as, i, j)
    BY <2>3, <2>4
  <2> QED
    BY <2>5 DEF x
<1>16. means = m
  <2> DEFINE T == {k \in Nat : \A x \in D : mu[x] < k => m[x] = means[x]}
  <2>1. 0 \in T
    BY <1>5
  <2>2. ASSUME NEW k \in Nat, k \in T PROVE k + 1 \in T
    <3>1. ASSUME NEW x \in D, mu[x] < k + 1 PROVE m[x] = means[x]
      <4>1. PICK as \in Productions, i \in 1 .. n, j \in 1 .. n : x = <<as, i, j>>
        BY <1>2
      <4>2. \A y \in D : mu[y] < mu[x] => mu[y] < k
        BY <1>5, <3>1
      <4>3. Denotes(e, scope, m, as, i, j) = Denotes(e, scope, means, as, i, j)
        BY <1>7, <2>2, <4>1, <4>2
      <4> QED
        BY <1>12, <1>15, <4>1, <4>3
    <3> QED
      BY <3>1
  <2> HIDE DEF T
  <2>3. 5 * (2 * n) + 4 + 1 \in T
    BY <1>1, <2>1, <2>2, SetInduction
  <2>4. \A x \in D : m[x] = means[x]
    BY <1>1, <1>5, <2>3 DEF T
  <2>5. \A x \in Productions \X (1 .. n) \X (1 .. n) : m[x] = means[x]
    BY <2>4 DEF D, Stretches, n
  <2>6. m = [x \in Productions \X (1 .. n) \X (1 .. n) |-> m[x]]
    BY <1>13
  <2>7. means = [x \in Productions \X (1 .. n) \X (1 .. n) |-> means[x]]
    BY <1>14
  <2> QED
    BY <2>5, <2>6, <2>7
<1>17. Meaning(e, scope) = IF n = 0 THEN {} ELSE means[<<"or", 1, n>>]
  BY DEF Meaning, means, n
<1> QED
  BY <1>12, <1>16, <1>17 DEF F, n

\* m is the grammar's function, and f the parser's, of an expression.
IsMeaning(e, scope, m) ==
  /\ m \in Meanings(e, scope)
  /\ \A as \in Productions, i \in 1 .. Len(e), j \in 1 .. Len(e) :
       m[<<as, i, j>>] = Denotes(e, scope, m, as, i, j)
IsParser(e, scope, f) ==
  /\ f \in Parsers(e, scope)
  /\ \A as \in Productions, i \in 1 .. Len(e) + 1 :
       f[<<as, i>>] = Parse(e, scope, f, as, i)

\* What the grammar gives, by production.
LEMMA MeaningGives ==
  ASSUME NEW e \in Seq(STRING), NEW scope, NEW m, IsMeaning(e, scope, m),
         NEW i \in 1 .. Len(e), NEW j \in 1 .. Len(e), NEW v
  PROVE  /\ \A as \in Chains : v \in m[<<as, i, j>>] <=> ChainGives(e, m, as, i, j, v)
         /\ v \in m[<<"not", i, j>>] <=> NotGives(e, m, i, j, v)
         /\ v \in m[<<"comparison", i, j>>] <=> ComparisonGives(e, m, i, j, v)
         /\ v \in m[<<"value", i, j>>] <=> ValueGives(e, scope, m, i, j, v)
         /\ \A as \in Productions \ {"value"} : m[<<as, i, j>>] \subseteq BOOLEAN
<1>1. \A as \in Productions : m[<<as, i, j>>] = Denotes(e, scope, m, as, i, j)
  BY DEF IsMeaning
<1>2. ASSUME NEW as \in Chains
      PROVE  v \in m[<<as, i, j>>] <=> ChainGives(e, m, as, i, j, v)
  <2>1. as \in Productions
    BY DEF Chains, Productions
  <2>2. v \in Denotes(e, scope, m, as, i, j) <=> ChainGives(e, m, as, i, j, v)
    BY ChainDenotes
  <2> QED
    BY <1>1, <2>1, <2>2
<1>3. \A as \in Productions \ {"value"} : m[<<as, i, j>>] \subseteq BOOLEAN
  BY DEF IsMeaning, Meanings
<1>4. "not" \in Productions /\ "comparison" \in Productions /\ "value" \in Productions
  BY DEF Productions
<1>5. v \in m[<<"not", i, j>>] <=> NotGives(e, m, i, j, v)
  BY <1>1, <1>4, OthersDenote
<1>6. v \in m[<<"comparison", i, j>>] <=> ComparisonGives(e, m, i, j, v)
  BY <1>1, <1>4, OthersDenote
<1>7. v \in m[<<"value", i, j>>] <=> ValueGives(e, scope, m, i, j, v)
  BY <1>1, <1>4, OthersDenote
<1> QED
  BY <1>2, <1>3, <1>5, <1>6, <1>7

\* && and || are associative: it does not matter from which side a chain is read.
LEMMA JoinIsAssociative ==
  ASSUME NEW as \in Chains, NEW a \in BOOLEAN, NEW b \in BOOLEAN, NEW c \in BOOLEAN
  PROVE  Join(as, a, Join(as, b, c)) = Join(as, Join(as, a, b), c)
<1>1. CASE as = "or"
  BY <1>1 DEF Join
<1>2. CASE as # "or"
  BY <1>2 DEF Join
<1> QED
  BY <1>1, <1>2

\* A chain may as well be taken from its end: an operand, and the chain after
\* the first connective.
EndsInChain(e, m, as, i, j, v) ==
  \/ v \in m[<<Operand(as), i, j>>]
  \/ \E k \in i + 1 .. j - 1 :
       /\ e[k] = Connective(as)
       /\ \E l \in m[<<Operand(as), i, k - 1>>], r \in m[<<as, k + 1, j>>] : v = Join(as, l, r)

\* An operand before a chain makes a chain.
LEMMA ChainsGrowInFront ==
  ASSUME NEW e \in Seq(STRING), NEW scope, NEW m, IsMeaning(e, scope, m), NEW as \in Chains,
         NEW i \in 1 .. Len(e), NEW k \in i + 1 .. Len(e), e[k] = Connective(as),
         NEW l \in m[<<Operand(as), i, k - 1>>], NEW j \in k + 1 .. Len(e),
         NEW r \in m[<<as, k + 1, j>>]
  PROVE  Join(as, l, r) \in m[<<as, i, j>>]
<1> DEFINE n == Len(e)
           T == {q \in Nat : q \in k + 1 .. n =>
                               \A x \in m[<<as, k + 1, q>>] : Join(as, l, x) \in m[<<as, i, q>>]}
<1>1. n \in Nat
  BY LenProperties
<1>2. as \in Productions /\ Operand(as) \in Productions
      /\ as # "value" /\ Operand(as) # "value"
  BY DEF Chains, Operand, Productions
<1>3. \A p \in 1 .. n, q \in 1 .. n :
        m[<<as, p, q>>] \subseteq BOOLEAN /\ m[<<Operand(as), p, q>>] \subseteq BOOLEAN
  BY <1>2, MeaningGives
<1>4. ASSUME NEW p \in 1 .. n, NEW q \in 1 .. n, NEW x \in m[<<Operand(as), p, q>>]
      PROVE  x \in m[<<as, p, q>>]
  <2>1. ChainGives(e, m, as, p, q, x)
    BY <1>4 DEF ChainGives
  <2> QED
    BY <2>1, MeaningGives
<1> HIDE DEF n
<1>5. ASSUME NEW q \in Nat, \A p \in Nat : p < q => p \in T PROVE q \in T
  <2> SUFFICES ASSUME q \in k + 1 .. n, NEW x \in m[<<as, k + 1, q>>]
               PROVE  Join(as, l, x) \in m[<<as, i, q>>]
    OBVIOUS
  <2>1. /\ k + 1 \in 1 .. n /\ k - 1 \in 1 .. n /\ q \in 1 .. n
        /\ k \in i + 1 .. q - 1
    BY <1>1 DEF n
  <2>2. l \in m[<<as, i, k - 1>>] /\ l \in BOOLEAN
    BY <1>3, <1>4, <2>1 DEF n
  <2>3. CASE x \in m[<<Operand(as), k + 1, q>>]
    <3>1. ChainGives(e, m, as, i, q, Join(as, l, x))
      BY <2>1, <2>2, <2>3 DEF ChainGives
    <3> QED
      BY <2>1, <3>1, MeaningGives DEF n
  <2>4. CASE x \notin m[<<Operand(as), k + 1, q>>]
    <3>1. ChainGives(e, m, as, k + 1, q, x)
      BY <2>1, MeaningGives DEF n
    <3>2. PICK p \in k + 1 + 1 .. q - 1 :
            /\ e[p] = Connective(as)
            /\ \E a \in m[<<as, k + 1, p - 1>>], b \in m[<<Operand(as), p + 1, q>>] :
                 x = Join(as, a, b)
      BY <2>4, <3>1 DEF ChainGives
    <3>3. PICK a \in m[<<as, k + 1, p - 1>>], b \in m[<<Operand(as), p + 1, q>>] :
            x = Join(as, a, b)
      BY <3>2
    <3>4. /\ p - 1 \in Nat /\ p - 1 < q /\ p - 1 \in k + 1 .. n /\ p - 1 \in 1 .. n
          /\ p + 1 \in 1 .. n /\ p \in i + 1 .. q - 1
      BY <1>1, <2>1
    <3>5. Join(as, l, a) \in m[<<as, i, p - 1>>]
      BY <1>5, <3>4
    <3>6. a \in BOOLEAN /\ b \in BOOLEAN
      BY <1>3, <2>1, <3>4
    <3>7. Join(as, l, x) = Join(as, Join(as, l, a), b)
      BY <2>2, <3>3, <3>6, JoinIsAssociative
    <3>8. ChainGives(e, m, as, i, q, Join(as, l, x))
      BY <3>2, <3>4, <3>5, <3>7 DEF ChainGives
    <3> QED
      BY <2>1, <3>8, MeaningGives DEF n
  <2> QED
    BY <2>3, <2>4
<1> HIDE DEF T
<1>6. j \in Nat /\ j \in k + 1 .. n
  BY <1>1 DEF n
<1>7. j \in T
  BY <1>5, <1>6, StrongInduction
<1> QED
  BY <1>6, <1>7 DEF T

\* The first operand of a chain splits from the rest.
LEMMA ChainsSplit ==
  ASSUME NEW e \in Seq(STRING), NEW scope, NEW m, IsMeaning(e, scope, m), NEW as \in Chains,
         NEW i \in 1 .. Len(e), NEW j \in 1 .. Len(e), NEW v \in m[<<as, i, j>>]
  PROVE  EndsInChain(e, m, as, i, j, v)
<1> DEFINE n == Len(e)
           T == {q \in Nat : q \in 1 .. n =>
                               \A x \in m[<<as, i, q>>] : EndsInChain(e, m, as, i, q, x)}
<1>1. n \in Nat
  BY LenProperties
<1>2. as \in Productions /\ Operand(as) \in Productions
      /\ as # "value" /\ Operand(as) # "value"
  BY DEF Chains, Operand, Productions
<1>3. \A p \in 1 .. n, q \in 1 .. n :
        m[<<as, p, q>>] \subseteq BOOLEAN /\ m[<<Operand(as), p, q>>] \subseteq BOOLEAN
  BY <1>2, MeaningGives
<1>4. ASSUME NEW p \in 1 .. n, NEW q \in 1 .. n, NEW x \in m[<<Operand(as), p, q>>]
      PROVE  x \in m[<<as, p, q>>]
  <2>1. ChainGives(e, m, as, p, q, x)
    BY <1>4 DEF ChainGives
  <2> QED
    BY <2>1, MeaningGives
<1> HIDE DEF n
<1>5. ASSUME NEW q \in Nat, \A p \in Nat : p < q => p \in T PROVE q \in T
  <2> SUFFICES ASSUME q \in 1 .. n, NEW x \in m[<<as, i, q>>]
               PROVE  EndsInChain(e, m, as, i, q, x)
    OBVIOUS
  <2>1. CASE x \in m[<<Operand(as), i, q>>]
    BY <2>1 DEF EndsInChain
  <2>2. CASE x \notin m[<<Operand(as), i, q>>]
    <3>1. ChainGives(e, m, as, i, q, x)
      BY MeaningGives DEF n
    <3>2. PICK p \in i + 1 .. q - 1 :
            /\ e[p] = Connective(as)
            /\ \E a \in m[<<as, i, p - 1>>], b \in m[<<Operand(as), p + 1, q>>] :
                 x = Join(as, a, b)
      BY <2>2, <3>1 DEF ChainGives
    <3>3. PICK a \in m[<<as, i, p - 1>>], b \in m[<<Operand(as), p + 1, q>>] :
            x = Join(as, a, b)
      BY <3>2
    <3>4. p - 1 \in Nat /\ p - 1 < q /\ p - 1 \in 1 .. n /\ p + 1 \in 1 .. n
      BY <1>1 DEF n
    <3>5. EndsInChain(e, m, as, i, p - 1, a)
      BY <1>5, <3>4
    <3>6. b \in m[<<as, p + 1, q>>] /\ b \in BOOLEAN
      BY <1>3, <1>4, <3>4
    <3>7. CASE a \in m[<<Operand(as), i, p - 1>>]
      BY <3>2, <3>3, <3>6, <3>7 DEF EndsInChain
    <3>8. CASE a \notin m[<<Operand(as), i, p - 1>>]
      <4>1. PICK k \in i + 1 .. p - 1 - 1 :
              /\ e[k] = Connective(as)
              /\ \E l \in m[<<Operand(as), i, k - 1>>], r \in m[<<as, k + 1, p - 1>>] :
                   a = Join(as, l, r)
        BY <3>5, <3>8 DEF EndsInChain
      <4>2. PICK l \in m[<<Operand(as), i, k - 1>>], r \in m[<<as, k + 1, p - 1>>] :
              a = Join(as, l, r)
        BY <4>1
      <4>3. /\ k \in i + 1 .. q - 1 /\ p \in k + 1 + 1 .. q - 1
            /\ k - 1 \in 1 .. n /\ k + 1 \in 1 .. n
        BY <1>1 DEF n
      <4>4. ChainGives(e, m, as, k + 1, q, Join(as, r, b))
        BY <3>2, <4>3 DEF ChainGives
      <4>5. Join(as, r, b) \in m[<<as, k + 1, q>>]
        BY <4>3, <4>4, MeaningGives DEF n
      <4>6. l \in BOOLEAN /\ r \in BOOLEAN
        BY <1>3, <3>4, <4>3 DEF n
      <4>7. x = Join(as, l, Join(as, r, b))
        BY <3>3, <3>6, <4>2, <4>6, JoinIsAssociative
      <4> QED
        BY <4>1, <4>3, <4>5, <4>7 DEF EndsInChain
    <3> QED
      BY <3>7, <3>8
  <2> QED
    BY <2>1, <2>2
<1> HIDE DEF T
<1>6. j \in Nat /\ j \in 1 .. n
  BY <1>1 DEF n
<1>7. j \in T
  BY <1>5, <1>6, StrongInduction
<1> QED
  BY <1>6, <1>7 DEF T

\* A text tokenizes if each of its tokens does.
LEMMA TokenByToken ==
  ASSUME NEW e \in Seq(STRING)
  PROVE  Tokenizes(e) <=> \A i \in 1 .. Len(e) : Tokenizes(<<e[i]>>)
<1> DEFINE Known(t) ==
             IF t \in DOMAIN Path THEN IsRootedPath(Path[t])
             ELSE t \in DOMAIN Literal \cup Operators \cup {"exists", "&&", "||", "!", "(", ")"}
<1>1. DOMAIN e = 1 .. Len(e)
  BY LenProperties
<1>2. ASSUME NEW t PROVE Tokenizes(<<t>>) <=> Known(t)
  <2>1. DOMAIN <<t>> = {1} /\ <<t>>[1] = t
    OBVIOUS
  <2>2. Tokenizes(<<t>>) <=> \A i \in DOMAIN <<t>> : Known(<<t>>[i])
    BY DEF Tokenizes
  <2> HIDE DEF Known
  <2> QED
    BY <2>1, <2>2
<1>3. Tokenizes(e) <=> \A i \in DOMAIN e : Known(e[i])
  BY DEF Tokenizes
<1> HIDE DEF Known
<1> QED
  BY <1>1, <1>2, <1>3

\* A parser that returns a value has gone on, and not past the end.
LEMMA ParserGoesOn ==
  ASSUME NEW e \in Seq(STRING), NEW scope, NEW f, IsParser(e, scope, f),
         NEW as \in Productions, NEW i \in 1 .. Len(e) + 1
  PROVE  LET r == f[<<as, i>>]
         IN /\ r.ok \in BOOLEAN
            /\ r.ok => /\ r.at \in i + 1 .. Len(e) + 1 /\ i \in 1 .. Len(e)
                       /\ r.at - 1 \in i .. Len(e) /\ r.at - 1 \in 1 .. Len(e)
            /\ as # "value" => r.value \in BOOLEAN
            /\ r = Parse(e, scope, f, as, i)
<1> DEFINE r == f[<<as, i>>]
<1>1. Len(e) \in Nat
  BY LenProperties
<1>2. r \in Outcomes(e, scope) /\ Proper(r, as, i)
  BY ParserTypes DEF IsParser
<1>3. r.ok \in BOOLEAN /\ r.at \in 0 .. Len(e) + 1
  BY <1>2 DEF Outcomes
<1>4. r = Parse(e, scope, f, as, i)
  BY DEF IsParser
<1> HIDE DEF r
<1>5. r.ok => r.at > i
  BY <1>2 DEF Proper
<1>6. as # "value" => r.value \in BOOLEAN
  BY <1>2 DEF Proper
<1>7. r.ok => /\ r.at \in i + 1 .. Len(e) + 1 /\ i \in 1 .. Len(e)
              /\ r.at - 1 \in i .. Len(e) /\ r.at - 1 \in 1 .. Len(e)
  BY <1>1, <1>3, <1>5
<1> QED
  BY <1>3, <1>4, <1>6, <1>7 DEF r

\* What the parser returns is what the grammar gives the tokens it has passed.
ReadsRight(f, m, as, i) ==
  f[<<as, i>>].ok => f[<<as, i>>].value \in m[<<as, i, f[<<as, i>>].at - 1>>]

\* A value that parses, a literal, a reference or a group, has the value it denotes,
\* if what is parsed further on has.
LEMMA ValuesReadRight ==
  ASSUME NEW e \in Seq(STRING), NEW scope, NEW f, IsParser(e, scope, f), NEW m,
         IsMeaning(e, scope, m), Tokenizes(e), NEW i \in 1 .. Len(e) + 1,
         \A k \in 1 .. Len(e) + 1, bs \in Productions : k > i => ReadsRight(f, m, bs, k)
  PROVE  ReadsRight(f, m, "value", i)
<1> DEFINE n == Len(e)
           r == f[<<"value", i>>]
           group == f[<<"or", i + 1>>]
           t == Peek(e, i)
<1> SUFFICES ASSUME r.ok PROVE r.value \in m[<<"value", i, r.at - 1>>]
  BY DEF ReadsRight
<1>1. n \in Nat /\ "value" \in Productions /\ "or" \in Productions
  BY LenProperties DEF Productions
<1>2. /\ r.at \in i + 1 .. n + 1 /\ i \in 1 .. n /\ r.at - 1 \in i .. n /\ r.at - 1 \in 1 .. n
      /\ r = Parse(e, scope, f, "value", i)
  BY <1>1, ParserGoesOn DEF n
<1>3. r = CASE t \in DOMAIN Path \cup DOMAIN Literal -> Parsed(Read(e[i], scope), i + 1)
            [] t = "(" -> IF group.ok /\ Peek(e, group.at) = ")"
                          THEN Parsed(Bool(group.value), group.at + 1) ELSE Throws
            [] OTHER -> Throws
  BY <1>2 DEF Parse, ParseValue
<1>4. "(" \notin DOMAIN Path \cup DOMAIN Literal
  BY DEF Path, Literal
<1>5. t = e[i]
  BY <1>2, PeekInside DEF n
<1>6. i + 1 \in 1 .. n + 1 /\ i + 1 > i
  BY <1>1, <1>2
<1>7. group.ok => group.at \in i + 2 .. n + 1
  <2>1. group.ok => group.at \in i + 1 + 1 .. n + 1
    BY <1>1, <1>6, ParserGoesOn DEF n
  <2> QED
    BY <1>2, <2>1
<1>8. group.ok => group.value \in m[<<"or", i + 1, group.at - 1>>]
  BY <1>1, <1>6 DEF ReadsRight, n
<1> HIDE DEF n, r, group, t
<1>9. CASE t \in DOMAIN Path \cup DOMAIN Literal
  <2>1. r = Parsed(Read(e[i], scope), i + 1)
    BY <1>3, <1>4, <1>9
  <2>2. r.value = Read(e[i], scope) /\ r.at = i + 1
    BY <2>1 DEF Parsed
  <2>3. Tokenizes(<<e[i]>>)
    BY <1>2, TokenByToken DEF n
  <2>4. ValueGives(e, scope, m, i, i, r.value)
    BY <1>5, <1>9, <2>2, <2>3 DEF ValueGives
  <2>5. r.at - 1 = i
    BY <1>2, <2>2
  <2> QED
    BY <1>2, <2>4, <2>5, MeaningGives DEF n
<1>10. CASE t = "(" /\ group.ok /\ Peek(e, group.at) = ")"
  <2>1. r = Parsed(Bool(group.value), group.at + 1)
    BY <1>3, <1>4, <1>10
  <2>2. r.value = Bool(group.value) /\ r.at = group.at + 1
    BY <2>1 DEF Parsed
  <2>3. group.at \in 1 .. n /\ e[group.at] = ")"
    BY <1>10, TokensAreInside DEF n
  <2>4. r.at - 1 = group.at /\ i + 1 < group.at
    BY <1>2, <1>7, <1>10, <2>2, <2>3
  <2>5. ValueGives(e, scope, m, i, group.at, r.value)
    BY <1>2, <1>5, <1>8, <1>10, <2>2, <2>3, <2>4 DEF ValueGives
  <2> QED
    BY <1>2, <2>3, <2>4, <2>5, MeaningGives DEF n
<1>11. CASE ~(t \in DOMAIN Path \cup DOMAIN Literal
              \/ (t = "(" /\ group.ok /\ Peek(e, group.at) = ")"))
  <2>1. r = Throws
    BY <1>3, <1>11
  <2>2. ~Throws.ok
    BY DEF Throws
  <2> QED
    BY <2>1, <2>2 DEF r
<1> QED
  BY <1>9, <1>10, <1>11

\* The same of a comparison, if the value it begins with has.
LEMMA ComparisonsReadRight ==
  ASSUME NEW e \in Seq(STRING), NEW scope, NEW f, IsParser(e, scope, f), NEW m,
         IsMeaning(e, scope, m), NEW i \in 1 .. Len(e) + 1, ReadsRight(f, m, "value", i),
         \A k \in 1 .. Len(e) + 1, bs \in Productions : k > i => ReadsRight(f, m, bs, k)
  PROVE  ReadsRight(f, m, "comparison", i)
<1> DEFINE n == Len(e)
           r == f[<<"comparison", i>>]
           left == f[<<"value", i>>]
           right == f[<<"value", left.at + 1>>]
           t == Peek(e, left.at)
<1> SUFFICES ASSUME r.ok PROVE r.value \in m[<<"comparison", i, r.at - 1>>]
  BY DEF ReadsRight
<1>1. n \in Nat /\ "value" \in Productions /\ "comparison" \in Productions
  BY LenProperties DEF Productions
<1>2. /\ r.at \in i + 1 .. n + 1 /\ i \in 1 .. n /\ r.at - 1 \in i .. n /\ r.at - 1 \in 1 .. n
      /\ r = Parse(e, scope, f, "comparison", i)
  BY <1>1, ParserGoesOn DEF n
<1>3. r = CASE ~left.ok -> Throws
            [] left.ok /\ t = "exists" -> Parsed(left.value # Null, left.at + 1)
            [] left.ok /\ t \in Operators ->
                 IF right.ok THEN Parsed(Compare(t, left.value, right.value), right.at)
                 ELSE Throws
            [] OTHER -> Parsed(Holds(left.value), left.at)
  BY <1>2 DEF Parse, ParseComparison
<1>4. ~Throws.ok /\ "exists" \notin Operators
  BY DEF Throws, Operators
<1>5. left.ok => left.at \in i + 1 .. n + 1 /\ left.at - 1 \in i .. n
  BY <1>1, ParserGoesOn DEF n
<1>6. left.ok => left.value \in m[<<"value", i, left.at - 1>>]
  BY DEF ReadsRight
<1>7. t \in Operators \cup {"exists"} => left.at \in 1 .. n /\ t = e[left.at]
  BY EndIsNoToken, TokensAreInside DEF n
<1>8. left.ok /\ t \in Operators /\ right.ok =>
        /\ right.at \in left.at + 2 .. n + 1 /\ right.at - 1 \in 1 .. n
        /\ right.value \in m[<<"value", left.at + 1, right.at - 1>>]
  <2> SUFFICES ASSUME left.ok, t \in Operators, right.ok
               PROVE  /\ right.at \in left.at + 2 .. n + 1 /\ right.at - 1 \in 1 .. n
                      /\ right.value \in m[<<"value", left.at + 1, right.at - 1>>]
    OBVIOUS
  <2> DEFINE q == left.at + 1
  <2>1. left.at \in 1 .. n
    BY <1>7
  <2>2. q \in 1 .. n + 1 /\ q > i
    BY <1>1, <1>5, <2>1
  <2> HIDE DEF q
  <2>3. right.at \in q + 1 .. n + 1
    BY <1>1, <2>2, ParserGoesOn DEF n, q
  <2>4. ReadsRight(f, m, "value", q)
    BY <1>1, <2>2 DEF n
  <2>5. right.value \in m[<<"value", q, right.at - 1>>]
    BY <2>4 DEF ReadsRight, q
  <2> HIDE DEF left, right
  <2>6. right.at \in left.at + 2 .. n + 1 /\ right.at - 1 \in 1 .. n
    BY <1>1, <2>1, <2>3 DEF q
  <2> QED
    BY <2>5, <2>6 DEF q
<1> HIDE DEF n, r, left, right, t
<1>9. CASE left.ok /\ t = "exists"
  <2>1. r = Parsed(left.value # Null, left.at + 1)
    BY <1>3, <1>4, <1>9
  <2>2. r.value = (left.value # Null) /\ r.at = left.at + 1
    BY <2>1 DEF Parsed
  <2>3. r.at - 1 = left.at /\ i < left.at /\ left.at \in 1 .. n
    BY <1>2, <1>5, <1>7, <1>9, <2>2
  <2>4. ComparisonGives(e, m, i, left.at, r.value)
    BY <1>6, <1>7, <1>9, <2>2, <2>3 DEF ComparisonGives
  <2> QED
    BY <1>2, <2>3, <2>4, MeaningGives DEF n
<1>10. CASE left.ok /\ t \in Operators /\ right.ok
  <2>1. r = Parsed(Compare(t, left.value, right.value), right.at)
    BY <1>3, <1>4, <1>10
  <2>2. r.value = Compare(t, left.value, right.value) /\ r.at = right.at
    BY <2>1 DEF Parsed
  <2>3. left.at \in i + 1 .. r.at - 1 - 1
    BY <1>2, <1>5, <1>7, <1>8, <1>10, <2>2
  <2>4. ComparisonGives(e, m, i, r.at - 1, r.value)
    BY <1>6, <1>7, <1>8, <1>10, <2>2, <2>3 DEF ComparisonGives
  <2> QED
    BY <1>2, <1>8, <1>10, <2>2, <2>4, MeaningGives DEF n
<1>11. CASE left.ok /\ t \notin Operators \cup {"exists"}
  <2>1. r = Parsed(Holds(left.value), left.at)
    BY <1>3, <1>11
  <2>2. r.value = Holds(left.value) /\ r.at = left.at
    BY <2>1 DEF Parsed
  <2>3. ComparisonGives(e, m, i, r.at - 1, r.value)
    BY <1>6, <1>11, <2>2 DEF ComparisonGives
  <2> QED
    BY <1>2, <2>3, MeaningGives DEF n
<1>12. CASE ~left.ok \/ (t \in Operators /\ ~right.ok)
  <2>1. r = Throws
    BY <1>3, <1>4, <1>12
  <2> QED
    BY <1>4, <2>1 DEF r
<1> QED
  BY <1>9, <1>10, <1>11, <1>12

\* The same of a negation, if the comparison it may be has.
LEMMA NegationsReadRight ==
  ASSUME NEW e \in Seq(STRING), NEW scope, NEW f, IsParser(e, scope, f), NEW m,
         IsMeaning(e, scope, m), NEW i \in 1 .. Len(e) + 1, ReadsRight(f, m, "comparison", i),
         \A k \in 1 .. Len(e) + 1, bs \in Productions : k > i => ReadsRight(f, m, bs, k)
  PROVE  ReadsRight(f, m, "not", i)
<1> DEFINE n == Len(e)
           r == f[<<"not", i>>]
           operand == f[<<"not", i + 1>>]
<1> SUFFICES ASSUME r.ok PROVE r.value \in m[<<"not", i, r.at - 1>>]
  BY DEF ReadsRight
<1>1. n \in Nat /\ "not" \in Productions
  BY LenProperties DEF Productions
<1>2. /\ r.at \in i + 1 .. n + 1 /\ i \in 1 .. n /\ r.at - 1 \in i .. n /\ r.at - 1 \in 1 .. n
      /\ r = Parse(e, scope, f, "not", i)
  BY <1>1, ParserGoesOn DEF n
<1>3. r = IF Peek(e, i) # "!" THEN f[<<"comparison", i>>]
          ELSE IF operand.ok THEN Parsed(~operand.value, operand.at) ELSE Throws
  BY <1>2 DEF Parse, ParseNot
<1>4. Peek(e, i) = e[i]
  BY <1>2, PeekInside DEF n
<1>5. i + 1 \in 1 .. n + 1 /\ i + 1 > i
  BY <1>1, <1>2
<1>6. operand.ok => operand.at \in i + 1 + 1 .. n + 1
  BY <1>1, <1>5, ParserGoesOn DEF n
<1>7. operand.ok => operand.value \in m[<<"not", i + 1, operand.at - 1>>]
  BY <1>1, <1>5 DEF ReadsRight, n
<1>8. CASE Peek(e, i) # "!"
  <2>1. r.value \in m[<<"comparison", i, r.at - 1>>]
    BY <1>3, <1>8 DEF ReadsRight
  <2> HIDE DEF n, r, operand
  <2>2. NotGives(e, m, i, r.at - 1, r.value)
    BY <1>4, <1>8, <2>1 DEF NotGives
  <2> QED
    BY <1>2, <2>2, MeaningGives DEF n
<1>9. CASE Peek(e, i) = "!"
  <2> HIDE DEF n, r, operand
  <2>1. ~Throws.ok
    BY DEF Throws
  <2>2. operand.ok /\ r = Parsed(~operand.value, operand.at)
    BY <1>3, <1>9, <2>1 DEF r
  <2>3. r.value = (~operand.value) /\ r.at = operand.at
    BY <2>2 DEF Parsed
  <2>4. i < r.at - 1
    BY <1>2, <1>6, <2>2, <2>3
  <2>5. NotGives(e, m, i, r.at - 1, r.value)
    BY <1>4, <1>7, <1>9, <2>2, <2>3, <2>4 DEF NotGives
  <2> QED
    BY <1>2, <2>5, MeaningGives DEF n
<1> QED
  BY <1>8, <1>9

\* The same of a chain: it is parsed from its end and denotes from its front, and
\* they agree because && and || are associative.
LEMMA ChainsReadRight ==
  ASSUME NEW e \in Seq(STRING), NEW scope, NEW f, IsParser(e, scope, f), NEW m,
         IsMeaning(e, scope, m), NEW i \in 1 .. Len(e) + 1, NEW as \in Chains,
         ReadsRight(f, m, Operand(as), i),
         \A k \in 1 .. Len(e) + 1, bs \in Productions : k > i => ReadsRight(f, m, bs, k)
  PROVE  ReadsRight(f, m, as, i)
<1> DEFINE n == Len(e)
           r == f[<<as, i>>]
           left == f[<<Operand(as), i>>]
           right == f[<<as, left.at + 1>>]
           t == Peek(e, left.at)
<1> SUFFICES ASSUME r.ok PROVE r.value \in m[<<as, i, r.at - 1>>]
  BY DEF ReadsRight
<1>1. n \in Nat /\ as \in Productions /\ Operand(as) \in Productions
  BY LenProperties DEF Productions, Chains, Operand
<1>2. /\ r.at \in i + 1 .. n + 1 /\ i \in 1 .. n /\ r.at - 1 \in i .. n /\ r.at - 1 \in 1 .. n
      /\ r = Parse(e, scope, f, as, i)
  BY <1>1, ParserGoesOn DEF n
<1>3. r = IF ~left.ok \/ t # Connective(as) THEN left
          ELSE IF right.ok THEN Parsed(Join(as, left.value, right.value), right.at)
          ELSE Throws
  <2>1. Parse(e, scope, f, as, i) =
          IF ~left.ok \/ t # Connective(as) THEN left
          ELSE IF right.ok THEN Parsed(Join(as, left.value, right.value), right.at)
          ELSE Throws
    BY ChainParser
  <2> QED
    BY <1>2, <2>1
<1>4. ~Throws.ok
  BY DEF Throws
<1>5. left.ok => left.at \in i + 1 .. n + 1
  BY <1>1, ParserGoesOn DEF n
<1>6. left.ok => left.value \in m[<<Operand(as), i, left.at - 1>>]
  BY DEF ReadsRight
<1>7. t = Connective(as) => left.at \in 1 .. n /\ e[left.at] = Connective(as)
  BY TokensAreInside DEF n, Connective
<1>8. left.ok /\ t = Connective(as) /\ right.ok =>
        /\ right.at \in left.at + 2 .. n + 1 /\ right.at - 1 \in 1 .. n
        /\ right.value \in m[<<as, left.at + 1, right.at - 1>>]
  <2> SUFFICES ASSUME left.ok, t = Connective(as), right.ok
               PROVE  /\ right.at \in left.at + 2 .. n + 1 /\ right.at - 1 \in 1 .. n
                      /\ right.value \in m[<<as, left.at + 1, right.at - 1>>]
    OBVIOUS
  <2> DEFINE q == left.at + 1
  <2>1. left.at \in 1 .. n
    BY <1>7
  <2>2. q \in 1 .. n + 1 /\ q > i
    BY <1>1, <1>5, <2>1
  <2> HIDE DEF q
  <2>3. right.at \in q + 1 .. n + 1
    BY <1>1, <2>2, ParserGoesOn DEF n, q
  <2>4. ReadsRight(f, m, as, q)
    BY <1>1, <2>2 DEF n
  <2>5. right.value \in m[<<as, q, right.at - 1>>]
    BY <2>4 DEF ReadsRight, q
  <2> HIDE DEF left, right
  <2>6. right.at \in left.at + 2 .. n + 1 /\ right.at - 1 \in 1 .. n
    BY <1>1, <2>1, <2>3 DEF q
  <2> QED
    BY <2>5, <2>6 DEF q
<1> HIDE DEF n, r, left, right, t
<1>9. CASE ~left.ok \/ t # Connective(as)
  <2>1. r = left
    BY <1>3, <1>9
  <2>2. left.ok
    BY <2>1
  <2>3. ChainGives(e, m, as, i, r.at - 1, r.value)
    BY <1>6, <2>1, <2>2 DEF ChainGives
  <2> QED
    BY <1>2, <2>3, MeaningGives DEF n
<1>10. CASE left.ok /\ t = Connective(as)
  <2>1. right.ok /\ r = Parsed(Join(as, left.value, right.value), right.at)
    BY <1>3, <1>4, <1>10
  <2>2. r.value = Join(as, left.value, right.value) /\ r.at = right.at
    BY <2>1 DEF Parsed
  <2>3. left.at \in i + 1 .. n /\ r.at - 1 \in left.at + 1 .. n
    BY <1>1, <1>2, <1>5, <1>7, <1>8, <1>10, <2>1, <2>2
  <2> QED
    BY <1>2, <1>6, <1>7, <1>8, <1>10, <2>1, <2>2, <2>3, ChainsGrowInFront DEF n
<1> QED
  BY <1>9, <1>10

\* Of a text of known tokens, every production reads right.
LEMMA ParserIsSound ==
  ASSUME NEW e \in Seq(STRING), NEW scope, NEW f, IsParser(e, scope, f), NEW m,
         IsMeaning(e, scope, m), Tokenizes(e), NEW as \in Productions,
         NEW i \in 1 .. Len(e) + 1
  PROVE  ReadsRight(f, m, as, i)
<1> DEFINE n == Len(e)
           T == {q \in Nat : \A k \in 1 .. n + 1, bs \in Productions :
                               k = n + 1 - q => ReadsRight(f, m, bs, k)}
<1>1. n \in Nat
  BY LenProperties
<1> HIDE DEF n
<1>2. ASSUME NEW q \in Nat, \A p \in Nat : p < q => p \in T PROVE q \in T
  <2> SUFFICES ASSUME NEW k \in 1 .. n + 1, k = n + 1 - q
               PROVE  \A bs \in Productions : ReadsRight(f, m, bs, k)
    OBVIOUS
  <2>1. \A l \in 1 .. n + 1, bs \in Productions : l > k => ReadsRight(f, m, bs, l)
    <3> SUFFICES ASSUME NEW l \in 1 .. n + 1, NEW bs \in Productions, l > k
                 PROVE  ReadsRight(f, m, bs, l)
      OBVIOUS
    <3>1. n + 1 - l \in Nat /\ n + 1 - l < q /\ l = n + 1 - (n + 1 - l)
      BY <1>1
    <3> QED
      BY <1>2, <3>1
  <2>2. ReadsRight(f, m, "value", k)
    BY <2>1, ValuesReadRight DEF n
  <2>3. ReadsRight(f, m, "comparison", k)
    BY <2>1, <2>2, ComparisonsReadRight DEF n
  <2>4. ReadsRight(f, m, "not", k)
    BY <2>1, <2>3, NegationsReadRight DEF n
  <2>5. ReadsRight(f, m, "and", k)
    <3>1. "and" \in Chains /\ Operand("and") = "not"
      BY DEF Chains, Operand
    <3> QED
      BY <2>1, <2>4, <3>1, ChainsReadRight DEF n
  <2>6. ReadsRight(f, m, "or", k)
    <3>1. "or" \in Chains /\ Operand("or") = "and"
      BY DEF Chains, Operand
    <3> QED
      BY <2>1, <2>5, <3>1, ChainsReadRight DEF n
  <2> QED
    BY <2>2, <2>3, <2>4, <2>5, <2>6 DEF Productions
<1> HIDE DEF T
<1>3. n + 1 - i \in Nat /\ i \in 1 .. n + 1 /\ i = n + 1 - (n + 1 - i)
  BY <1>1 DEF n
<1>4. n + 1 - i \in T
  BY <1>2, <1>3, StrongInduction
<1> QED
  BY <1>3, <1>4 DEF T

\* The tokens at which a production goes on; where none of them follows, it ends.
Continues(as) ==
  CASE as = "value" -> {}
    [] as = "comparison" -> Operators \cup {"exists"}
    [] as = "not" -> Operators \cup {"exists"}
    [] as = "and" -> Operators \cup {"exists", "&&"}
    [] as = "or" -> Operators \cup {"exists", "&&", "||"}

\* Which tokens continue a production, and that a chain's connective does not
\* continue its operand.
LEMMA Continuations ==
  /\ ")" \notin Continues("or") /\ "eof" \notin Continues("or")
  /\ Continues("value") = {}
  /\ Continues("comparison") = Operators \cup {"exists"}
  /\ Continues("not") = Operators \cup {"exists"}
  /\ \A as \in Chains : /\ Continues(as) = Continues(Operand(as)) \cup {Connective(as)}
                        /\ Connective(as) \notin Continues(Operand(as))
<1>1. /\ Continues("value") = {}
      /\ Continues("comparison") = Operators \cup {"exists"}
      /\ Continues("not") = Operators \cup {"exists"}
      /\ Continues("and") = Operators \cup {"exists", "&&"}
      /\ Continues("or") = Operators \cup {"exists", "&&", "||"}
  BY DEF Continues
<1>2. {")", "eof", "&&", "||"} \cap (Operators \cup {"exists"}) = {}
  BY DEF Operators
<1>3. Operand("or") = "and" /\ Operand("and") = "not"
      /\ Connective("or") = "||" /\ Connective("and") = "&&"
  BY DEF Operand, Connective
<1>4. ")" \notin Continues("or") /\ "eof" \notin Continues("or")
  BY <1>1, <1>2
<1>5. /\ Continues("or") = Continues("and") \cup {"||"} /\ "||" \notin Continues("and")
      /\ Continues("and") = Continues("not") \cup {"&&"} /\ "&&" \notin Continues("not")
  BY <1>1, <1>2
<1>6. ASSUME NEW as \in Chains
      PROVE  /\ Continues(as) = Continues(Operand(as)) \cup {Connective(as)}
             /\ Connective(as) \notin Continues(Operand(as))
  <2>1. CASE as = "or"
    BY <1>3, <1>5, <2>1
  <2>2. CASE as = "and"
    BY <1>3, <1>5, <2>2
  <2> QED
    BY <2>1, <2>2 DEF Chains
<1> QED
  BY <1>1, <1>4, <1>6

\* What the grammar gives a stretch of tokens where the production ends, the
\* parser returns.
ReadsAll(e, f, m, as, i, j) ==
  Peek(e, j + 1) \notin Continues(as) => \A v \in m[<<as, i, j>>] : f[<<as, i>>] = Parsed(v, j + 1)
ReadsShorter(e, f, m, i, j) ==
  \A as \in Productions, k \in 1 .. Len(e), l \in 1 .. Len(e) :
    k <= l /\ l - k < j - i => ReadsAll(e, f, m, as, k, l)

Returns(f, as, i, v, k) ==
  LET r == f[<<as, i>>]
  IN r = Parsed(v, k) /\ r.ok /\ r.value = v /\ r.at = k

\* A span the parser reads to its end gives the value it denotes there.
LEMMA ReadsSome ==
  ASSUME NEW e, NEW f, NEW m, NEW as, NEW i, NEW j, ReadsAll(e, f, m, as, i, j),
         Peek(e, j + 1) \notin Continues(as), NEW v, v \in m[<<as, i, j>>]
  PROVE  Returns(f, as, i, v, j + 1)
<1>1. f[<<as, i>>] = Parsed(v, j + 1)
  BY DEF ReadsAll
<1>2. Parsed(v, j + 1).ok /\ Parsed(v, j + 1).value = v /\ Parsed(v, j + 1).at = j + 1
  BY DEF Parsed
<1> QED
  BY <1>1, <1>2 DEF Returns

\* A span that denotes a value as a literal, a reference or a group is parsed to it,
\* if the shorter spans are.
LEMMA AllValuesRead ==
  ASSUME NEW e \in Seq(STRING), NEW scope, NEW f, IsParser(e, scope, f), NEW m,
         IsMeaning(e, scope, m), NEW i \in 1 .. Len(e), NEW j \in i .. Len(e),
         ReadsShorter(e, f, m, i, j)
  PROVE  ReadsAll(e, f, m, "value", i, j)
<1> DEFINE n == Len(e)
           r == f[<<"value", i>>]
           group == f[<<"or", i + 1>>]
           t == Peek(e, i)
<1> SUFFICES ASSUME NEW v \in m[<<"value", i, j>>] PROVE r = Parsed(v, j + 1)
  BY DEF ReadsAll
<1>1. n \in Nat /\ i \in 1 .. n + 1 /\ j \in 1 .. n
  BY LenProperties
<1>2. r = Parse(e, scope, f, "value", i)
  BY <1>1 DEF IsParser, n, Productions
<1>3. r = CASE t \in DOMAIN Path \cup DOMAIN Literal -> Parsed(Read(e[i], scope), i + 1)
            [] t = "(" -> IF group.ok /\ Peek(e, group.at) = ")"
                          THEN Parsed(Bool(group.value), group.at + 1) ELSE Throws
            [] OTHER -> Throws
  BY <1>2 DEF Parse, ParseValue
<1>4. "(" \notin DOMAIN Path \cup DOMAIN Literal
  BY DEF Path, Literal
<1>5. t = e[i]
  BY PeekInside
<1>6. ValueGives(e, scope, m, i, j, v)
  BY <1>1, MeaningGives DEF n
<1> HIDE DEF r, group, t
<1>7. CASE i = j
  <2>1. t \in DOMAIN Path \cup DOMAIN Literal /\ v = Read(e[i], scope)
    BY <1>5, <1>6, <1>7 DEF ValueGives
  <2>2. r = Parsed(Read(e[i], scope), i + 1)
    BY <1>3, <1>4, <2>1
  <2> QED
    BY <1>7, <2>1, <2>2
<1>8. CASE i # j
  <2>1. /\ i + 1 < j /\ e[i] = "(" /\ e[j] = ")"
        /\ \E b \in m[<<"or", i + 1, j - 1>>] : v = Bool(b)
    BY <1>6, <1>8 DEF ValueGives
  <2>2. PICK b \in m[<<"or", i + 1, j - 1>>] : v = Bool(b)
    BY <2>1
  <2>3. /\ i + 1 \in 1 .. n /\ j - 1 \in 1 .. n /\ i + 1 <= j - 1
        /\ (j - 1) - (i + 1) < j - i /\ j - 1 + 1 = j /\ "or" \in Productions
    BY <1>1, <2>1 DEF Productions
  <2>4. ReadsAll(e, f, m, "or", i + 1, j - 1)
    BY <2>3 DEF ReadsShorter
  <2>5. Peek(e, j) = ")"
    BY <1>1, <2>1, PeekInside
  <2>6. Peek(e, j - 1 + 1) \notin Continues("or")
    BY <2>3, <2>5, Continuations
  <2>7. group.ok /\ group.value = b /\ group.at = j - 1 + 1
    <3>1. Returns(f, "or", i + 1, b, j - 1 + 1)
      BY <2>4, <2>6, ReadsSome
    <3> QED
      BY <3>1 DEF Returns, group
  <2>8. r = Parsed(Bool(group.value), group.at + 1)
    BY <1>3, <1>4, <1>5, <2>1, <2>3, <2>5, <2>7
  <2> QED
    BY <2>2, <2>3, <2>7, <2>8
<1> QED
  BY <1>7, <1>8

\* The same of a comparison, if the values over the span are parsed to theirs.
LEMMA AllComparisonsRead ==
  ASSUME NEW e \in Seq(STRING), NEW scope, NEW f, IsParser(e, scope, f), NEW m,
         IsMeaning(e, scope, m), NEW i \in 1 .. Len(e), NEW j \in i .. Len(e),
         ReadsShorter(e, f, m, i, j), ReadsAll(e, f, m, "value", i, j)
  PROVE  ReadsAll(e, f, m, "comparison", i, j)
<1> DEFINE n == Len(e)
           r == f[<<"comparison", i>>]
           left == f[<<"value", i>>]
           right == f[<<"value", left.at + 1>>]
           t == Peek(e, left.at)
<1> SUFFICES ASSUME Peek(e, j + 1) \notin Continues("comparison"),
                    NEW v \in m[<<"comparison", i, j>>]
             PROVE  r = Parsed(v, j + 1)
  BY DEF ReadsAll
<1>1. n \in Nat /\ i \in 1 .. n + 1 /\ j \in 1 .. n
  BY LenProperties
<1>2. r = Parse(e, scope, f, "comparison", i)
  BY <1>1 DEF IsParser, n, Productions
<1>3. r = CASE ~left.ok -> Throws
            [] left.ok /\ t = "exists" -> Parsed(left.value # Null, left.at + 1)
            [] left.ok /\ t \in Operators ->
                 IF right.ok THEN Parsed(Compare(t, left.value, right.value), right.at)
                 ELSE Throws
            [] OTHER -> Parsed(Holds(left.value), left.at)
  BY <1>2 DEF Parse, ParseComparison
<1>4. "exists" \notin Operators /\ Peek(e, j + 1) \notin Operators \cup {"exists"}
  BY Continuations DEF Operators
<1>5. \A k : Peek(e, k) \notin Continues("value")
  BY Continuations
<1>6. ComparisonGives(e, m, i, j, v)
  BY <1>1, MeaningGives DEF n
<1>7. ASSUME NEW k \in i .. n, NEW l \in k .. n, l - k < j - i
      PROVE  ReadsAll(e, f, m, "value", k, l)
  <2>1. k \in 1 .. n /\ l \in 1 .. n /\ k <= l /\ "value" \in Productions
    BY <1>1 DEF Productions
  <2> QED
    BY <1>7, <2>1 DEF ReadsShorter
<1>8. CASE \E u \in m[<<"value", i, j>>] : v = Holds(u)
  <2>1. PICK u \in m[<<"value", i, j>>] : v = Holds(u)
    BY <1>8
  <2>2. left.ok /\ left.value = u /\ left.at = j + 1
    <3>1. Returns(f, "value", i, u, j + 1)
      BY <1>5, ReadsSome
    <3> QED
      BY <3>1 DEF Returns
  <2> HIDE DEF r, left, right
  <2>3. r = Parsed(Holds(left.value), left.at)
    BY <1>3, <1>4, <2>2
  <2> QED
    BY <2>1, <2>2, <2>3
<1>9. CASE /\ i < j /\ e[j] = "exists"
           /\ \E u \in m[<<"value", i, j - 1>>] : v = (u # Null)
  <2>1. PICK u \in m[<<"value", i, j - 1>>] : v = (u # Null)
    BY <1>9
  <2>2. j - 1 \in i .. n /\ (j - 1) - i < j - i /\ j - 1 + 1 = j
    BY <1>1, <1>9
  <2>3. ReadsAll(e, f, m, "value", i, j - 1)
    BY <1>1, <1>7, <2>2
  <2>4. left.ok /\ left.value = u /\ left.at = j - 1 + 1
    <3>1. Returns(f, "value", i, u, j - 1 + 1)
      BY <1>5, <2>3, ReadsSome
    <3> QED
      BY <3>1 DEF Returns
  <2> HIDE DEF r, left, right
  <2>5. t = "exists"
    BY <1>1, <1>9, <2>2, <2>4, PeekInside
  <2>6. r = Parsed(left.value # Null, left.at + 1)
    BY <1>3, <1>4, <2>4, <2>5
  <2> QED
    BY <2>1, <2>2, <2>4, <2>6
<1>10. CASE \E k \in i + 1 .. j - 1 :
              /\ e[k] \in Operators
              /\ \E a \in m[<<"value", i, k - 1>>], b \in m[<<"value", k + 1, j>>] :
                   v = Compare(e[k], a, b)
  <2>1. PICK k \in i + 1 .. j - 1 :
          /\ e[k] \in Operators
          /\ \E a \in m[<<"value", i, k - 1>>], b \in m[<<"value", k + 1, j>>] :
               v = Compare(e[k], a, b)
    BY <1>10
  <2>2. PICK a \in m[<<"value", i, k - 1>>], b \in m[<<"value", k + 1, j>>] :
          v = Compare(e[k], a, b)
    BY <2>1
  <2>3. /\ k - 1 \in i .. n /\ (k - 1) - i < j - i /\ k - 1 + 1 = k /\ k \in 1 .. n
        /\ k + 1 \in i .. n /\ j \in k + 1 .. n /\ j - (k + 1) < j - i
    BY <1>1
  <2>4. ReadsAll(e, f, m, "value", i, k - 1) /\ ReadsAll(e, f, m, "value", k + 1, j)
    BY <1>1, <1>7, <2>3
  <2>5. left.ok /\ left.value = a /\ left.at = k
    <3>1. Returns(f, "value", i, a, k - 1 + 1)
      BY <1>5, <2>4, ReadsSome
    <3> QED
      BY <2>3, <3>1 DEF Returns
  <2>6. right.ok /\ right.value = b /\ right.at = j + 1
    <3> DEFINE q == f[<<"value", k + 1>>]
    <3>1. q.ok /\ q.value = b /\ q.at = j + 1
      <4>1. Returns(f, "value", k + 1, b, j + 1)
        BY <1>5, <2>4, ReadsSome
      <4> QED
        BY <4>1 DEF Returns
    <3>2. right = q
      BY <2>5
    <3> HIDE DEF q, right
    <3> QED
      BY <3>1, <3>2
  <2> HIDE DEF r, left, right
  <2>7. t = e[k] /\ t # "exists"
    BY <1>4, <2>1, <2>3, <2>5, PeekInside
  <2>8. r = Parsed(Compare(t, left.value, right.value), right.at)
    BY <1>3, <2>1, <2>5, <2>6, <2>7
  <2> QED
    BY <2>2, <2>5, <2>6, <2>7, <2>8
<1> QED
  BY <1>6, <1>8, <1>9, <1>10 DEF ComparisonGives

\* The same of a negation, if the comparisons over the span are.
LEMMA AllNegationsRead ==
  ASSUME NEW e \in Seq(STRING), NEW scope, NEW f, IsParser(e, scope, f), NEW m,
         IsMeaning(e, scope, m), NEW i \in 1 .. Len(e), NEW j \in i .. Len(e),
         ReadsShorter(e, f, m, i, j), ReadsAll(e, f, m, "comparison", i, j)
  PROVE  ReadsAll(e, f, m, "not", i, j)
<1> DEFINE n == Len(e)
           r == f[<<"not", i>>]
           operand == f[<<"not", i + 1>>]
<1> SUFFICES ASSUME Peek(e, j + 1) \notin Continues("not"), NEW v \in m[<<"not", i, j>>]
             PROVE  r = Parsed(v, j + 1)
  BY DEF ReadsAll
<1>1. n \in Nat /\ i \in 1 .. n + 1 /\ j \in 1 .. n
  BY LenProperties
<1>2. r = Parse(e, scope, f, "not", i)
  BY <1>1 DEF IsParser, n, Productions
<1>3. r = IF Peek(e, i) # "!" THEN f[<<"comparison", i>>]
          ELSE IF operand.ok THEN Parsed(~operand.value, operand.at) ELSE Throws
  BY <1>2 DEF Parse, ParseNot
<1>4. Peek(e, i) = e[i]
  BY PeekInside
<1>5. NotGives(e, m, i, j, v)
  BY <1>1, MeaningGives DEF n
<1>6. CASE i < j /\ e[i] = "!"
  <2>1. \E b \in m[<<"not", i + 1, j>>] : v = (~b)
    BY <1>5, <1>6 DEF NotGives
  <2>2. PICK b \in m[<<"not", i + 1, j>>] : v = (~b)
    BY <2>1
  <2>3. i + 1 \in 1 .. n /\ i + 1 <= j /\ j - (i + 1) < j - i /\ "not" \in Productions
    BY <1>1, <1>6 DEF Productions
  <2>4. ReadsAll(e, f, m, "not", i + 1, j)
    BY <1>1, <2>3 DEF ReadsShorter
  <2>5. operand.ok /\ operand.value = b /\ operand.at = j + 1
    <3>1. Returns(f, "not", i + 1, b, j + 1)
      BY <2>4, ReadsSome
    <3> QED
      BY <3>1 DEF Returns
  <2> HIDE DEF r, operand
  <2>6. r = Parsed(~operand.value, operand.at)
    BY <1>3, <1>4, <1>6, <2>5
  <2> QED
    BY <2>2, <2>5, <2>6
<1>7. CASE e[i] # "!"
  <2>1. v \in m[<<"comparison", i, j>>]
    BY <1>5, <1>7 DEF NotGives
  <2>2. Peek(e, j + 1) \notin Continues("comparison")
    BY Continuations
  <2>3. f[<<"comparison", i>>] = Parsed(v, j + 1)
    BY <2>1, <2>2 DEF ReadsAll
  <2> QED
    BY <1>3, <1>4, <1>7, <2>3
<1>8. CASE i = j /\ e[i] = "!"
  <2>1. v \in m[<<"comparison", i, i>>]
    BY <1>5, <1>8 DEF NotGives
  <2>2. ComparisonGives(e, m, i, i, v)
    BY <2>1, MeaningGives
  <2>3. PICK u \in m[<<"value", i, i>>] : v = Holds(u)
    <3>1. i + 1 .. i - 1 = {} /\ ~(i < i)
      BY <1>1
    <3> QED
      BY <2>2, <3>1 DEF ComparisonGives
  <2>4. ValueGives(e, scope, m, i, i, u)
    BY MeaningGives
  <2>5. "!" \notin DOMAIN Path \cup DOMAIN Literal
    BY DEF Path, Literal
  <2> QED
    BY <1>8, <2>4, <2>5 DEF ValueGives
<1> QED
  BY <1>1, <1>6, <1>7, <1>8

\* The same of a chain, if its operands over the span are and no token after it
\* continues it.
LEMMA AllChainsRead ==
  ASSUME NEW e \in Seq(STRING), NEW scope, NEW f, IsParser(e, scope, f), NEW m,
         IsMeaning(e, scope, m), NEW i \in 1 .. Len(e), NEW j \in i .. Len(e),
         NEW as \in Chains, ReadsShorter(e, f, m, i, j), ReadsAll(e, f, m, Operand(as), i, j)
  PROVE  ReadsAll(e, f, m, as, i, j)
<1> DEFINE n == Len(e)
           r == f[<<as, i>>]
           left == f[<<Operand(as), i>>]
           right == f[<<as, left.at + 1>>]
           t == Peek(e, left.at)
<1> SUFFICES ASSUME Peek(e, j + 1) \notin Continues(as), NEW v \in m[<<as, i, j>>]
             PROVE  r = Parsed(v, j + 1)
  BY DEF ReadsAll
<1>0. as \in Productions /\ Operand(as) \in Productions
  BY DEF Chains, Productions, Operand
<1>1. n \in Nat /\ i \in 1 .. n + 1 /\ j \in 1 .. n
  BY LenProperties
<1>2. r = Parse(e, scope, f, as, i)
  BY <1>0, <1>1 DEF IsParser, n
<1>3. r = IF ~left.ok \/ t # Connective(as) THEN left
          ELSE IF right.ok THEN Parsed(Join(as, left.value, right.value), right.at)
          ELSE Throws
  <2>1. Parse(e, scope, f, as, i) =
          IF ~left.ok \/ t # Connective(as) THEN left
          ELSE IF right.ok THEN Parsed(Join(as, left.value, right.value), right.at)
          ELSE Throws
    BY ChainParser
  <2> QED
    BY <1>2, <2>1
<1>4. /\ Peek(e, j + 1) \notin Continues(Operand(as)) /\ Peek(e, j + 1) # Connective(as)
      /\ Connective(as) \notin Continues(Operand(as))
  <2>1. /\ Continues(as) = Continues(Operand(as)) \cup {Connective(as)}
        /\ Connective(as) \notin Continues(Operand(as))
    BY Continuations
  <2> QED
    BY <2>1
<1>5. EndsInChain(e, m, as, i, j, v)
  BY <1>1, ChainsSplit DEF n
<1>6. CASE v \in m[<<Operand(as), i, j>>]
  <2>1. left = Parsed(v, j + 1) /\ left.at = j + 1
    <3>1. Returns(f, Operand(as), i, v, j + 1)
      BY <1>4, <1>6, ReadsSome
    <3> QED
      BY <3>1 DEF Returns
  <2> HIDE DEF r, left, right
  <2> QED
    BY <1>3, <1>4, <2>1
<1>7. CASE v \notin m[<<Operand(as), i, j>>]
  <2>1. PICK k \in i + 1 .. j - 1 :
          /\ e[k] = Connective(as)
          /\ \E a \in m[<<Operand(as), i, k - 1>>], b \in m[<<as, k + 1, j>>] : v = Join(as, a, b)
    BY <1>5, <1>7 DEF EndsInChain
  <2>2. PICK a \in m[<<Operand(as), i, k - 1>>], b \in m[<<as, k + 1, j>>] : v = Join(as, a, b)
    BY <2>1
  <2>3. /\ k - 1 \in 1 .. n /\ i <= k - 1 /\ (k - 1) - i < j - i /\ k - 1 + 1 = k
        /\ k + 1 \in 1 .. n /\ k + 1 <= j /\ j - (k + 1) < j - i /\ k \in 1 .. n
    BY <1>1
  <2>4. ReadsAll(e, f, m, Operand(as), i, k - 1)
    BY <1>0, <1>1, <2>3 DEF ReadsShorter
  <2>5. ReadsAll(e, f, m, as, k + 1, j)
    BY <1>0, <1>1, <2>3 DEF ReadsShorter
  <2>6. Peek(e, k) = Connective(as)
    BY <2>1, <2>3, PeekInside
  <2>7. left.ok /\ left.value = a /\ left.at = k
    <3>1. Peek(e, k - 1 + 1) \notin Continues(Operand(as))
      BY <1>4, <2>3, <2>6
    <3>2. Returns(f, Operand(as), i, a, k - 1 + 1)
      BY <2>4, <3>1, ReadsSome
    <3> QED
      BY <2>3, <3>2 DEF Returns
  <2>8. right.ok /\ right.value = b /\ right.at = j + 1
    <3> DEFINE q == f[<<as, k + 1>>]
    <3>1. q.ok /\ q.value = b /\ q.at = j + 1
      <4>1. Returns(f, as, k + 1, b, j + 1)
        BY <2>5, ReadsSome
      <4> QED
        BY <4>1 DEF Returns
    <3>2. right = q
      BY <2>7
    <3> HIDE DEF q, right
    <3> QED
      BY <3>1, <3>2
  <2> HIDE DEF r, left, right
  <2>9. r = Parsed(Join(as, left.value, right.value), right.at)
    BY <1>3, <2>6, <2>7, <2>8
  <2> QED
    BY <2>2, <2>7, <2>8, <2>9
<1> QED
  BY <1>6, <1>7

\* Every production reads all of what the grammar gives.
LEMMA ParserIsComplete ==
  ASSUME NEW e \in Seq(STRING), NEW scope, NEW f, IsParser(e, scope, f), NEW m,
         IsMeaning(e, scope, m), NEW as \in Productions, NEW i \in 1 .. Len(e),
         NEW j \in i .. Len(e)
  PROVE  ReadsAll(e, f, m, as, i, j)
<1> DEFINE n == Len(e)
           T == {q \in Nat : \A k \in 1 .. n, l \in 1 .. n, bs \in Productions :
                               l - k = q => ReadsAll(e, f, m, bs, k, l)}
<1>1. n \in Nat
  BY LenProperties
<1> HIDE DEF n
<1>2. ASSUME NEW q \in Nat, \A p \in Nat : p < q => p \in T PROVE q \in T
  <2> SUFFICES ASSUME NEW k \in 1 .. n, NEW l \in 1 .. n, l - k = q
               PROVE  \A bs \in Productions : ReadsAll(e, f, m, bs, k, l)
    OBVIOUS
  <2>1. ReadsShorter(e, f, m, k, l)
    <3> SUFFICES ASSUME NEW bs \in Productions, NEW c \in 1 .. n, NEW d \in 1 .. n,
                        c <= d, d - c < l - k
                 PROVE  ReadsAll(e, f, m, bs, c, d)
      BY DEF ReadsShorter, n
    <3>1. d - c \in Nat /\ d - c < q
      BY <1>1
    <3>2. d - c \in T
      BY <1>2, <3>1
    <3> QED
      BY <3>2
  <2>2. l \in k .. n
    BY <1>1
  <2>3. ReadsAll(e, f, m, "value", k, l)
    BY <2>1, <2>2, AllValuesRead DEF n
  <2>4. ReadsAll(e, f, m, "comparison", k, l)
    BY <2>1, <2>2, <2>3, AllComparisonsRead DEF n
  <2>5. ReadsAll(e, f, m, "not", k, l)
    BY <2>1, <2>2, <2>4, AllNegationsRead DEF n
  <2>6. ReadsAll(e, f, m, "and", k, l)
    <3>1. "and" \in Chains /\ Operand("and") = "not"
      BY DEF Chains, Operand
    <3> QED
      BY <2>1, <2>2, <2>5, <3>1, AllChainsRead DEF n
  <2>7. ReadsAll(e, f, m, "or", k, l)
    <3>1. "or" \in Chains /\ Operand("or") = "and"
      BY DEF Chains, Operand
    <3> QED
      BY <2>1, <2>2, <2>6, <3>1, AllChainsRead DEF n
  <2> QED
    BY <2>3, <2>4, <2>5, <2>6, <2>7 DEF Productions
<1> HIDE DEF T
<1>3. j - i \in Nat /\ i \in 1 .. n /\ j \in 1 .. n
  BY <1>1 DEF n
<1>4. j - i \in T
  BY <1>2, <1>3, StrongInduction
<1> QED
  BY <1>3, <1>4 DEF T

\* The tokens that are no paths and no literals are known.
LEMMA SymbolsTokenize ==
  ASSUME NEW e \in Seq(STRING), NEW i \in 1 .. Len(e),
         e[i] \in Operators \cup {"exists", "&&", "||", "!", "(", ")"}
  PROVE  Tokenizes(<<e[i]>>)
<1>1. DOMAIN <<e[i]>> = {1} /\ <<e[i]>>[1] = e[i]
  OBVIOUS
<1>2. e[i] \notin DOMAIN Path
  BY DEF Path, Operators
<1> QED
  BY <1>1, <1>2 DEF Tokenizes

\* What has a meaning is made of known tokens.
IsKnown(e, m, as, i, j) == m[<<as, i, j>>] # {} => \A k \in i .. j : Tokenizes(<<e[k]>>)
ShorterAreKnown(e, m, i, j) ==
  \A as \in Productions, k \in 1 .. Len(e), l \in 1 .. Len(e) :
    k <= l /\ l - k < j - i => IsKnown(e, m, as, k, l)

\* A span split at a symbol has known tokens if both of its parts have.
LEMMA KnownAround ==
  ASSUME NEW e \in Seq(STRING), NEW m, NEW i \in 1 .. Len(e), NEW j \in i .. Len(e),
         ShorterAreKnown(e, m, i, j), NEW left \in Productions, NEW right \in Productions,
         NEW k \in i + 1 .. j - 1,
         e[k] \in Operators \cup {"exists", "&&", "||", "!", "(", ")"},
         NEW l \in m[<<left, i, k - 1>>], NEW r \in m[<<right, k + 1, j>>]
  PROVE  \A q \in i .. j : Tokenizes(<<e[q]>>)
<1> DEFINE n == Len(e)
<1>1. n \in Nat
  BY LenProperties
<1>2. /\ k - 1 \in 1 .. n /\ i <= k - 1 /\ (k - 1) - i < j - i /\ i \in 1 .. n /\ j \in 1 .. n
      /\ k + 1 \in 1 .. n /\ k + 1 <= j /\ j - (k + 1) < j - i /\ k \in 1 .. n
  BY <1>1
<1>3. IsKnown(e, m, left, i, k - 1) /\ IsKnown(e, m, right, k + 1, j)
  BY <1>2 DEF ShorterAreKnown
<1>4. \A q \in i .. k - 1 : Tokenizes(<<e[q]>>)
  BY <1>3 DEF IsKnown
<1>5. \A q \in k + 1 .. j : Tokenizes(<<e[q]>>)
  BY <1>3 DEF IsKnown
<1>6. Tokenizes(<<e[k]>>)
  BY <1>2, SymbolsTokenize
<1>7. \A q \in i .. j : q \in i .. k - 1 \/ q = k \/ q \in k + 1 .. j
  BY <1>1
<1> QED
  BY <1>4, <1>5, <1>6, <1>7

\* Only a span of known tokens denotes anything.
LEMMA MeaningIsOfKnown ==
  ASSUME NEW e \in Seq(STRING), NEW scope, NEW m, IsMeaning(e, scope, m),
         NEW as \in Productions, NEW i \in 1 .. Len(e), NEW j \in i .. Len(e)
  PROVE  IsKnown(e, m, as, i, j)
<1> DEFINE n == Len(e)
           T == {q \in Nat : \A k \in 1 .. n, l \in 1 .. n, bs \in Productions :
                               l - k = q => IsKnown(e, m, bs, k, l)}
<1>1. n \in Nat
  BY LenProperties
<1>2. {"value", "comparison", "not", "and", "or"} \subseteq Productions
      /\ \A bs \in Chains : Operand(bs) \in Productions /\ bs \in Productions
  BY DEF Productions, Chains, Operand
<1>3. ASSUME NEW k \in 1 .. n, NEW l \in k .. n, ShorterAreKnown(e, m, k, l)
      PROVE  IsKnown(e, m, "value", k, l)
  <2> SUFFICES ASSUME NEW v \in m[<<"value", k, l>>]
               PROVE  \A q \in k .. l : Tokenizes(<<e[q]>>)
    BY DEF IsKnown
  <2>0. l \in 1 .. n
    BY <1>1
  <2>1. ValueGives(e, scope, m, k, l, v)
    BY <2>0, MeaningGives
  <2>2. CASE k = l
    <3>1. Tokenizes(<<e[k]>>)
      BY <2>1, <2>2 DEF ValueGives
    <3>2. \A q \in k .. l : q = k
      BY <2>2
    <3> QED
      BY <3>1, <3>2
  <2>3. CASE k # l
    <3>1. /\ k + 1 < l /\ e[k] = "(" /\ e[l] = ")"
          /\ m[<<"or", k + 1, l - 1>>] # {}
      BY <2>1, <2>3 DEF ValueGives
    <3>2. /\ k + 1 \in 1 .. n /\ l - 1 \in 1 .. n /\ k + 1 <= l - 1
          /\ (l - 1) - (k + 1) < l - k /\ l \in 1 .. n
      BY <1>1, <3>1
    <3>3. IsKnown(e, m, "or", k + 1, l - 1)
      BY <1>2, <1>3, <3>2 DEF ShorterAreKnown
    <3>4. \A q \in k + 1 .. l - 1 : Tokenizes(<<e[q]>>)
      BY <3>1, <3>3 DEF IsKnown
    <3>5. Tokenizes(<<e[k]>>) /\ Tokenizes(<<e[l]>>)
      BY <3>1, <3>2, SymbolsTokenize
    <3>6. \A q \in k .. l : q = k \/ q = l \/ q \in k + 1 .. l - 1
      BY <1>1
    <3> QED
      BY <3>4, <3>5, <3>6
  <2> QED
    BY <2>2, <2>3
<1>4. ASSUME NEW k \in 1 .. n, NEW l \in k .. n, ShorterAreKnown(e, m, k, l),
             IsKnown(e, m, "value", k, l)
      PROVE  IsKnown(e, m, "comparison", k, l)
  <2> SUFFICES ASSUME NEW v \in m[<<"comparison", k, l>>]
               PROVE  \A q \in k .. l : Tokenizes(<<e[q]>>)
    BY DEF IsKnown
  <2>0. l \in 1 .. n
    BY <1>1
  <2>1. ComparisonGives(e, m, k, l, v)
    BY <2>0, MeaningGives
  <2>2. CASE m[<<"value", k, l>>] # {}
    BY <1>4, <2>2 DEF IsKnown
  <2>3. CASE k < l /\ e[l] = "exists" /\ m[<<"value", k, l - 1>>] # {}
    <3>1. l - 1 \in 1 .. n /\ k <= l - 1 /\ (l - 1) - k < l - k /\ l \in 1 .. n
      BY <1>1, <2>3
    <3>2. IsKnown(e, m, "value", k, l - 1)
      BY <1>2, <1>4, <3>1 DEF ShorterAreKnown
    <3>3. \A q \in k .. l - 1 : Tokenizes(<<e[q]>>)
      BY <2>3, <3>2 DEF IsKnown
    <3>4. Tokenizes(<<e[l]>>)
      BY <2>3, <3>1, SymbolsTokenize
    <3>5. \A q \in k .. l : q = l \/ q \in k .. l - 1
      BY <1>1
    <3> QED
      BY <3>3, <3>4, <3>5
  <2>4. CASE \E c \in k + 1 .. l - 1 :
               /\ e[c] \in Operators
               /\ \E a \in m[<<"value", k, c - 1>>], b \in m[<<"value", c + 1, l>>] : TRUE
    BY <1>2, <1>4, <2>4, KnownAround
  <2> QED
    BY <2>1, <2>2, <2>3, <2>4 DEF ComparisonGives
<1>5. ASSUME NEW k \in 1 .. n, NEW l \in k .. n, ShorterAreKnown(e, m, k, l),
             IsKnown(e, m, "comparison", k, l)
      PROVE  IsKnown(e, m, "not", k, l)
  <2> SUFFICES ASSUME NEW v \in m[<<"not", k, l>>]
               PROVE  \A q \in k .. l : Tokenizes(<<e[q]>>)
    BY DEF IsKnown
  <2>0. l \in 1 .. n
    BY <1>1
  <2>1. NotGives(e, m, k, l, v)
    BY <2>0, MeaningGives
  <2>2. CASE m[<<"comparison", k, l>>] # {}
    BY <1>5, <2>2 DEF IsKnown
  <2>3. CASE k < l /\ e[k] = "!" /\ m[<<"not", k + 1, l>>] # {}
    <3>1. k + 1 \in 1 .. n /\ k + 1 <= l /\ l - (k + 1) < l - k /\ l \in 1 .. n
      BY <1>1, <2>3
    <3>2. IsKnown(e, m, "not", k + 1, l)
      BY <1>2, <1>5, <3>1 DEF ShorterAreKnown
    <3>3. \A q \in k + 1 .. l : Tokenizes(<<e[q]>>)
      BY <2>3, <3>2 DEF IsKnown
    <3>4. Tokenizes(<<e[k]>>)
      BY <2>3, SymbolsTokenize
    <3>5. \A q \in k .. l : q = k \/ q \in k + 1 .. l
      BY <1>1
    <3> QED
      BY <3>3, <3>4, <3>5
  <2> QED
    BY <2>1, <2>2, <2>3 DEF NotGives
<1>6. ASSUME NEW k \in 1 .. n, NEW l \in k .. n, ShorterAreKnown(e, m, k, l),
             NEW bs \in Chains, IsKnown(e, m, Operand(bs), k, l)
      PROVE  IsKnown(e, m, bs, k, l)
  <2> SUFFICES ASSUME NEW v \in m[<<bs, k, l>>]
               PROVE  \A q \in k .. l : Tokenizes(<<e[q]>>)
    BY DEF IsKnown
  <2>0. l \in 1 .. n
    BY <1>1
  <2>1. ChainGives(e, m, bs, k, l, v)
    BY <2>0, MeaningGives
  <2>2. CASE m[<<Operand(bs), k, l>>] # {}
    BY <1>6, <2>2 DEF IsKnown
  <2>3. ASSUME NEW c \in k + 1 .. l - 1, e[c] = Connective(bs),
               NEW a \in m[<<bs, k, c - 1>>], NEW b \in m[<<Operand(bs), c + 1, l>>]
        PROVE  \A q \in k .. l : Tokenizes(<<e[q]>>)
    <3>1. e[c] \in Operators \cup {"exists", "&&", "||", "!", "(", ")"}
      BY <2>3 DEF Connective
    <3>2. bs \in Productions /\ Operand(bs) \in Productions
      BY <1>2
    <3> QED
      BY <1>6, <3>1, <3>2, KnownAround
  <2> QED
    BY <2>1, <2>2, <2>3 DEF ChainGives
<1> HIDE DEF n
<1>7. ASSUME NEW q \in Nat, \A p \in Nat : p < q => p \in T PROVE q \in T
  <2> SUFFICES ASSUME NEW k \in 1 .. n, NEW l \in 1 .. n, l - k = q
               PROVE  \A bs \in Productions : IsKnown(e, m, bs, k, l)
    OBVIOUS
  <2>1. ShorterAreKnown(e, m, k, l)
    <3> SUFFICES ASSUME NEW bs \in Productions, NEW c \in 1 .. n, NEW d \in 1 .. n,
                        c <= d, d - c < l - k
                 PROVE  IsKnown(e, m, bs, c, d)
      BY DEF ShorterAreKnown, n
    <3>1. d - c \in Nat /\ d - c < q
      BY <1>1
    <3>2. d - c \in T
      BY <1>7, <3>1
    <3> QED
      BY <3>2
  <2>2. l \in k .. n
    BY <1>1
  <2>3. IsKnown(e, m, "value", k, l)
    BY <1>3, <2>1, <2>2
  <2>4. IsKnown(e, m, "comparison", k, l)
    BY <1>4, <2>1, <2>2, <2>3
  <2>5. IsKnown(e, m, "not", k, l)
    BY <1>5, <2>1, <2>2, <2>4
  <2>6. IsKnown(e, m, "and", k, l)
    <3>1. "and" \in Chains /\ Operand("and") = "not"
      BY DEF Chains, Operand
    <3> QED
      BY <1>6, <2>1, <2>2, <2>5, <3>1
  <2>7. IsKnown(e, m, "or", k, l)
    <3>1. "or" \in Chains /\ Operand("or") = "and"
      BY DEF Chains, Operand
    <3> QED
      BY <1>6, <2>1, <2>2, <2>6, <3>1
  <2> QED
    BY <2>3, <2>4, <2>5, <2>6, <2>7 DEF Productions
<1> HIDE DEF T
<1>8. j - i \in Nat /\ i \in 1 .. n /\ j \in 1 .. n
  BY <1>1 DEF n
<1>9. j - i \in T
  BY <1>7, <1>8, StrongInduction
<1> QED
  BY <1>8, <1>9 DEF T

\* How far a production reads does not depend on values.
Alike(f, g, as, i) ==
  f[<<as, i>>].ok = g[<<as, i>>].ok /\ f[<<as, i>>].at = g[<<as, i>>].at


\* What the two kinds of outcome say of success and of the index reached.
LEMMA OutcomesGo ==
  /\ \A v, k : Parsed(v, k).ok /\ Parsed(v, k).at = k
  /\ ~Throws.ok /\ Throws.at = 0
  BY DEF Parsed, Throws

\* One production of two parsers of the same text, over different scopes, succeeds
\* alike and ends alike if the productions it calls do.
LEMMA ParsersGoAlike ==
  ASSUME NEW e \in Seq(STRING), NEW scope, NEW f, IsParser(e, scope, f),
         NEW other, NEW g, IsParser(e, other, g), NEW as \in Productions,
         NEW i \in 1 .. Len(e) + 1,
         \A bs \in Productions, k \in 1 .. Len(e) + 1 :
           k > i \/ (k = i /\ Rank[bs] < Rank[as]) => Alike(f, g, bs, k)
  PROVE  Alike(f, g, as, i)
<1> DEFINE n == Len(e)
           r == f[<<as, i>>]
           s == g[<<as, i>>]
<1>1. n \in Nat
  BY LenProperties
<1>2. r = Parse(e, scope, f, as, i) /\ s = Parse(e, other, g, as, i)
  BY DEF IsParser
<1>3. \A k : Peek(e, k) # "eof" => k \in 1 .. n
  BY TokensAreInside DEF n
<1>4. \A bs \in Productions, k \in 1 .. n + 1 : k > i => Alike(f, g, bs, k)
  OBVIOUS
<1>5. \A bs \in Productions : Rank[bs] < Rank[as] => Alike(f, g, bs, i)
  OBVIOUS
<1> SUFFICES r.ok = s.ok /\ r.at = s.at
  BY DEF Alike
<1> HIDE DEF n, r, s
<1>6. CASE as \in Chains
  <2> DEFINE left == f[<<Operand(as), i>>]
             right == f[<<as, left.at + 1>>]
             leftG == g[<<Operand(as), i>>]
             rightG == g[<<as, leftG.at + 1>>]
  <2>1. r = IF ~left.ok \/ Peek(e, left.at) # Connective(as) THEN left
            ELSE IF right.ok THEN Parsed(Join(as, left.value, right.value), right.at)
            ELSE Throws
    <3>1. Parse(e, scope, f, as, i) =
            IF ~left.ok \/ Peek(e, left.at) # Connective(as) THEN left
            ELSE IF right.ok THEN Parsed(Join(as, left.value, right.value), right.at)
            ELSE Throws
      BY <1>6, ChainParser
    <3> QED
      BY <1>2, <3>1
  <2>2. s = IF ~leftG.ok \/ Peek(e, leftG.at) # Connective(as) THEN leftG
            ELSE IF rightG.ok THEN Parsed(Join(as, leftG.value, rightG.value), rightG.at)
            ELSE Throws
    <3>1. Parse(e, other, g, as, i) =
            IF ~leftG.ok \/ Peek(e, leftG.at) # Connective(as) THEN leftG
            ELSE IF rightG.ok THEN Parsed(Join(as, leftG.value, rightG.value), rightG.at)
            ELSE Throws
      BY <1>6, ChainParser
    <3> QED
      BY <1>2, <3>1
  <2>3. left.ok = leftG.ok /\ left.at = leftG.at
    BY <1>5, <1>6, Ranks DEF Alike
  <2>4. left.ok => left.at > i
    <3>1. Operand(as) \in Productions
      BY <1>6, Ranks
    <3>2. left.ok => left.at \in i + 1 .. n + 1
      BY <3>1, ParserGoesOn DEF n
    <3> QED
      BY <1>1, <3>2
  <2>5. left.ok /\ Peek(e, left.at) = Connective(as) =>
          right.ok = rightG.ok /\ right.at = rightG.at
    <3> DEFINE q == left.at + 1
    <3>1. Peek(e, left.at) = Connective(as) => left.at \in 1 .. n
      BY <1>3 DEF Connective
    <3>2. left.ok /\ Peek(e, left.at) = Connective(as) => q > i /\ q \in 1 .. n + 1
      <4> HIDE DEF left
      <4> QED
        BY <1>1, <2>4, <3>1
    <3>3. rightG = g[<<as, q>>]
      BY <2>3
    <3> HIDE DEF q
    <3>4. left.ok /\ Peek(e, left.at) = Connective(as) => Alike(f, g, as, q)
      BY <1>4, <3>2
    <3> QED
      BY <3>3, <3>4 DEF Alike, q
  <2> HIDE DEF left, right, leftG, rightG
  <2>6. CASE ~left.ok \/ Peek(e, left.at) # Connective(as)
    BY <2>1, <2>2, <2>3, <2>6
  <2>7. CASE left.ok /\ Peek(e, left.at) = Connective(as)
    <3>1. r = IF right.ok THEN Parsed(Join(as, left.value, right.value), right.at) ELSE Throws
      BY <2>1, <2>7
    <3>2. s = IF rightG.ok THEN Parsed(Join(as, leftG.value, rightG.value), rightG.at)
              ELSE Throws
      BY <2>2, <2>3, <2>7
    <3> QED
      BY <2>5, <2>7, <3>1, <3>2, OutcomesGo
  <2> QED
    BY <2>6, <2>7
<1>7. CASE as = "not"
  <2> DEFINE p == f[<<"not", i + 1>>]
             q == g[<<"not", i + 1>>]
  <2>1. r = IF Peek(e, i) # "!" THEN f[<<"comparison", i>>]
            ELSE IF p.ok THEN Parsed(~p.value, p.at) ELSE Throws
    BY <1>2, <1>7 DEF Parse, ParseNot
  <2>2. s = IF Peek(e, i) # "!" THEN g[<<"comparison", i>>]
            ELSE IF q.ok THEN Parsed(~q.value, q.at) ELSE Throws
    BY <1>2, <1>7 DEF Parse, ParseNot
  <2>3. Alike(f, g, "comparison", i)
    BY <1>5, <1>7, Ranks DEF Productions
  <2>4. Peek(e, i) = "!" => p.ok = q.ok /\ p.at = q.at
    <3>1. Peek(e, i) = "!" => i + 1 \in 1 .. n + 1 /\ i + 1 > i
      BY <1>1, <1>3
    <3>2. Peek(e, i) = "!" => Alike(f, g, "not", i + 1)
      BY <1>4, <3>1 DEF Productions
    <3> QED
      BY <3>2 DEF Alike
  <2> HIDE DEF p, q
  <2>5. CASE Peek(e, i) # "!"
    BY <2>1, <2>2, <2>3, <2>5 DEF Alike
  <2>6. CASE Peek(e, i) = "!"
    <3>1. r = IF p.ok THEN Parsed(~p.value, p.at) ELSE Throws
      BY <2>1, <2>6
    <3>2. s = IF q.ok THEN Parsed(~q.value, q.at) ELSE Throws
      BY <2>2, <2>6
    <3> QED
      BY <2>4, <2>6, <3>1, <3>2, OutcomesGo
  <2> QED
    BY <2>5, <2>6
<1>8. CASE as = "comparison"
  <2> DEFINE left == f[<<"value", i>>]
             right == f[<<"value", left.at + 1>>]
             leftG == g[<<"value", i>>]
             rightG == g[<<"value", leftG.at + 1>>]
             t == Peek(e, left.at)
             u == Peek(e, leftG.at)
  <2>1. r = CASE ~left.ok -> Throws
              [] left.ok /\ t = "exists" -> Parsed(left.value # Null, left.at + 1)
              [] left.ok /\ t \in Operators ->
                   IF right.ok THEN Parsed(Compare(t, left.value, right.value), right.at)
                   ELSE Throws
              [] OTHER -> Parsed(Holds(left.value), left.at)
    BY <1>2, <1>8 DEF Parse, ParseComparison
  <2>2. s = CASE ~leftG.ok -> Throws
              [] leftG.ok /\ u = "exists" -> Parsed(leftG.value # Null, leftG.at + 1)
              [] leftG.ok /\ u \in Operators ->
                   IF rightG.ok THEN Parsed(Compare(u, leftG.value, rightG.value), rightG.at)
                   ELSE Throws
              [] OTHER -> Parsed(Holds(leftG.value), leftG.at)
    BY <1>2, <1>8 DEF Parse, ParseComparison
  <2>3. left.ok = leftG.ok /\ left.at = leftG.at /\ t = u
    BY <1>5, <1>8, Ranks DEF Alike, Productions
  <2>4. left.ok => left.at > i
    <3>1. left.ok => left.at \in i + 1 .. n + 1
      BY ParserGoesOn DEF n, Productions
    <3> QED
      BY <1>1, <3>1
  <2>5. left.ok /\ t \in Operators => right.ok = rightG.ok /\ right.at = rightG.at
    <3> DEFINE q == left.at + 1
    <3>1. t \in Operators => left.at \in 1 .. n
      BY <1>3, EndIsNoToken
    <3>2. left.ok /\ t \in Operators => q > i /\ q \in 1 .. n + 1
      <4> HIDE DEF left, t
      <4> QED
        BY <1>1, <2>4, <3>1
    <3>3. rightG = g[<<"value", q>>]
      BY <2>3
    <3> HIDE DEF q
    <3>4. left.ok /\ t \in Operators => Alike(f, g, "value", q)
      BY <1>4, <3>2 DEF Productions
    <3> QED
      BY <3>3, <3>4 DEF Alike, q
  <2>6. "exists" \notin Operators
    BY DEF Operators
  <2> HIDE DEF left, right, leftG, rightG, t, u
  <2>7. CASE ~left.ok
    BY <2>1, <2>2, <2>3, <2>7
  <2>8. CASE left.ok /\ t = "exists"
    <3>1. r = Parsed(left.value # Null, left.at + 1)
      BY <2>1, <2>6, <2>8
    <3>2. s = Parsed(leftG.value # Null, left.at + 1)
      BY <2>2, <2>3, <2>6, <2>8
    <3>3. r.ok /\ r.at = left.at + 1
      BY <3>1, OutcomesGo
    <3>4. s.ok /\ s.at = left.at + 1
      BY <3>2, OutcomesGo
    <3>5. r.ok \in BOOLEAN /\ s.ok \in BOOLEAN
      BY ParserGoesOn DEF r, s
    <3> QED
      BY <3>3, <3>4, <3>5
  <2>9. CASE left.ok /\ t \in Operators
    <3>1. r = IF right.ok THEN Parsed(Compare(t, left.value, right.value), right.at) ELSE Throws
      BY <2>1, <2>6, <2>9
    <3>2. s = IF rightG.ok THEN Parsed(Compare(u, leftG.value, rightG.value), rightG.at)
              ELSE Throws
      BY <2>2, <2>3, <2>6, <2>9
    <3> QED
      BY <2>5, <2>9, <3>1, <3>2, OutcomesGo
  <2>10. CASE left.ok /\ t \notin Operators \cup {"exists"}
    <3>1. r = Parsed(Holds(left.value), left.at)
      BY <2>1, <2>10
    <3>2. s = Parsed(Holds(leftG.value), leftG.at)
      BY <2>2, <2>3, <2>10
    <3> QED
      BY <2>3, <3>1, <3>2, OutcomesGo
  <2> QED
    BY <2>7, <2>8, <2>9, <2>10
<1>9. CASE as = "value"
  <2> DEFINE p == f[<<"or", i + 1>>]
             q == g[<<"or", i + 1>>]
             t == Peek(e, i)
  <2>1. r = CASE t \in DOMAIN Path \cup DOMAIN Literal -> Parsed(Read(e[i], scope), i + 1)
              [] t = "(" -> IF p.ok /\ Peek(e, p.at) = ")"
                            THEN Parsed(Bool(p.value), p.at + 1) ELSE Throws
              [] OTHER -> Throws
    BY <1>2, <1>9 DEF Parse, ParseValue
  <2>2. s = CASE t \in DOMAIN Path \cup DOMAIN Literal -> Parsed(Read(e[i], other), i + 1)
              [] t = "(" -> IF q.ok /\ Peek(e, q.at) = ")"
                            THEN Parsed(Bool(q.value), q.at + 1) ELSE Throws
              [] OTHER -> Throws
    BY <1>2, <1>9 DEF Parse, ParseValue
  <2>3. t = "(" => p.ok = q.ok /\ p.at = q.at
    <3>1. t = "(" => i + 1 \in 1 .. n + 1 /\ i + 1 > i
      BY <1>1, <1>3
    <3>2. t = "(" => Alike(f, g, "or", i + 1)
      BY <1>4, <3>1 DEF Productions
    <3> QED
      BY <3>2 DEF Alike
  <2>4. "(" \notin DOMAIN Path \cup DOMAIN Literal
    BY DEF Path, Literal
  <2> HIDE DEF p, q, t
  <2>5. CASE t \in DOMAIN Path \cup DOMAIN Literal
    <3>1. r = Parsed(Read(e[i], scope), i + 1) /\ s = Parsed(Read(e[i], other), i + 1)
      BY <2>1, <2>2, <2>4, <2>5
    <3> QED
      BY <3>1, OutcomesGo
  <2>6. CASE t = "("
    <3>1. r = IF p.ok /\ Peek(e, p.at) = ")" THEN Parsed(Bool(p.value), p.at + 1) ELSE Throws
      BY <2>1, <2>4, <2>6
    <3>2. s = IF q.ok /\ Peek(e, q.at) = ")" THEN Parsed(Bool(q.value), q.at + 1) ELSE Throws
      BY <2>2, <2>4, <2>6
    <3> QED
      BY <2>3, <2>6, <3>1, <3>2, OutcomesGo
  <2>7. CASE t \notin DOMAIN Path \cup DOMAIN Literal \cup {"("}
    BY <2>1, <2>2, <2>7
  <2> QED
    BY <2>5, <2>6, <2>7
<1> QED
  BY <1>6, <1>7, <1>8, <1>9 DEF Productions, Chains

\* Whether a text parses, and how far, does not depend on the scope.
LEMMA AllGoAlike ==
  ASSUME NEW e \in Seq(STRING), NEW scope, NEW f, IsParser(e, scope, f),
         NEW other, NEW g, IsParser(e, other, g), NEW as \in Productions,
         NEW i \in 1 .. Len(e) + 1
  PROVE  Alike(f, g, as, i)
<1> DEFINE n == Len(e)
           T == {q \in Nat : \A k \in 1 .. n + 1, bs \in Productions :
                               k = n + 1 - q => Alike(f, g, bs, k)}
<1>1. n \in Nat
  BY LenProperties
<1> HIDE DEF n
<1>2. ASSUME NEW q \in Nat, \A p \in Nat : p < q => p \in T PROVE q \in T
  <2> SUFFICES ASSUME NEW k \in 1 .. n + 1, k = n + 1 - q
               PROVE  \A bs \in Productions : Alike(f, g, bs, k)
    OBVIOUS
  <2>1. \A l \in 1 .. n + 1, bs \in Productions : l > k => Alike(f, g, bs, l)
    <3> SUFFICES ASSUME NEW l \in 1 .. n + 1, NEW bs \in Productions, l > k
                 PROVE  Alike(f, g, bs, l)
      OBVIOUS
    <3>1. n + 1 - l \in Nat /\ n + 1 - l < q /\ l = n + 1 - (n + 1 - l)
      BY <1>1
    <3> QED
      BY <1>2, <3>1
  <2>2. ASSUME NEW bs \in Productions,
               \A cs \in Productions : Rank[cs] < Rank[bs] => Alike(f, g, cs, k)
        PROVE  Alike(f, g, bs, k)
    <3>1. \A cs \in Productions, l \in 1 .. Len(e) + 1 :
            l > k \/ (l = k /\ Rank[cs] < Rank[bs]) => Alike(f, g, cs, l)
      BY <2>1, <2>2 DEF n
    <3>2. k \in 1 .. Len(e) + 1
      BY DEF n
    <3> QED
      BY <3>1, <3>2, ParsersGoAlike
  <2>3. /\ Rank["value"] = 0 /\ Rank["comparison"] = 1 /\ Rank["not"] = 2
        /\ Rank["and"] = 3 /\ Rank["or"] = 4
    BY DEF Rank
  <2>4. Alike(f, g, "value", k)
    BY <2>2, <2>3 DEF Productions
  <2>5. Alike(f, g, "comparison", k)
    BY <2>2, <2>3, <2>4 DEF Productions
  <2>6. Alike(f, g, "not", k)
    BY <2>2, <2>3, <2>4, <2>5 DEF Productions
  <2>7. Alike(f, g, "and", k)
    BY <2>2, <2>3, <2>4, <2>5, <2>6 DEF Productions
  <2>8. Alike(f, g, "or", k)
    BY <2>2, <2>3, <2>4, <2>5, <2>6, <2>7 DEF Productions
  <2> QED
    BY <2>4, <2>5, <2>6, <2>7, <2>8 DEF Productions
<1> HIDE DEF T
<1>3. n + 1 - i \in Nat /\ i \in 1 .. n + 1 /\ i = n + 1 - (n + 1 - i)
  BY <1>1 DEF n
<1>4. n + 1 - i \in T
  BY <1>2, <1>3, StrongInduction
<1> QED
  BY <1>3, <1>4 DEF T

\* The parser accepts exactly what has a meaning, whatever the values are, and
\* returns what it means.
LEMMA ExpressionsMean ==
  ASSUME NEW e \in Seq(STRING), NEW scope
  PROVE  LET r == ParseExpression(e, scope)
         IN /\ r.ok = AcceptsExpression(e)
            /\ AcceptsExpression(e) \in BOOLEAN
            /\ Meaning(e, scope) # {} <=> r.ok
            /\ r.ok => r.value \in BOOLEAN /\ Meaning(e, scope) = {r.value}
<1> DEFINE n == Len(e)
           r == ParseExpression(e, scope)
           plain == Object(<<>>)
           Ends(g) == e # <<>> /\ Tokenizes(e) /\ Peek(e, g[<<"or", 1>>].at) = "eof"
<1>1. n \in Nat /\ (n = 0 <=> e = <<>>) /\ 1 \in 1 .. n + 1 /\ "or" \in Productions
  BY LenProperties, EmptySeq DEF Productions
<1>2. PICK f : IsParser(e, scope, f) /\ r = IF Ends(f) THEN f[<<"or", 1>>] ELSE Throws
  BY ParserIsDefined DEF IsParser
<1>3. PICK g : /\ IsParser(e, plain, g)
               /\ ParseExpression(e, plain) = IF Ends(g) THEN g[<<"or", 1>>] ELSE Throws
  BY ParserIsDefined DEF IsParser
<1>4. PICK m : /\ IsMeaning(e, scope, m)
               /\ Meaning(e, scope) = IF n = 0 THEN {} ELSE m[<<"or", 1, n>>]
  BY MeaningIsDefined DEF IsMeaning
<1> DEFINE root == f[<<"or", 1>>]
           rootG == g[<<"or", 1>>]
<1>5. /\ root.ok \in BOOLEAN /\ root.value \in BOOLEAN
      /\ root.ok => root.at \in 2 .. n + 1
  <2>1. root.ok => root.at \in 1 + 1 .. n + 1
    BY <1>1, <1>2, ParserGoesOn DEF n
  <2>2. root.ok \in BOOLEAN /\ root.value \in BOOLEAN
    BY <1>1, <1>2, ParserGoesOn DEF n
  <2> QED
    BY <2>1, <2>2
<1>6. root.ok = rootG.ok /\ root.at = rootG.at
  <2>1. Alike(f, g, "or", 1)
    BY <1>1, <1>2, <1>3, AllGoAlike DEF n
  <2> QED
    BY <2>1 DEF Alike
<1>7. r.ok = AcceptsExpression(e)
  <2>1. AcceptsExpression(e) = ParseExpression(e, plain).ok
    BY DEF AcceptsExpression
  <2>2. Ends(f) <=> Ends(g)
    BY <1>6
  <2> HIDE DEF r, Ends, root, rootG, plain
  <2>3. CASE Ends(f)
    <3>1. r = root /\ ParseExpression(e, plain) = rootG
      BY <1>2, <1>3, <2>2, <2>3 DEF root, rootG
    <3> QED
      BY <1>6, <2>1, <3>1
  <2>4. CASE ~Ends(f)
    BY <1>2, <1>3, <2>1, <2>2, <2>4
  <2> QED
    BY <2>3, <2>4
<1>8. ASSUME r.ok
      PROVE  r.value \in Meaning(e, scope) /\ r.value \in BOOLEAN
  <2>1. ~Throws.ok
    BY DEF Throws
  <2>2. Ends(f) /\ r = root
    BY <1>2, <1>8, <2>1
  <2> HIDE DEF r
  <2>3. root.at \notin 1 .. n
    <3>1. root.at \in 1 .. n => Peek(e, root.at) # "eof"
      <4> SUFFICES ASSUME root.at \in 1 .. n, Peek(e, root.at) = "eof" PROVE FALSE
        OBVIOUS
      <4>1. e[root.at] = "eof"
        BY PeekInside DEF n
      <4>2. Tokenizes(<<e[root.at]>>)
        BY <2>2, TokenByToken DEF n
      <4>3. DOMAIN <<e[root.at]>> = {1} /\ <<e[root.at]>>[1] = e[root.at]
        OBVIOUS
      <4>4. e[root.at] \in DOMAIN Path \/ e[root.at] \in
              DOMAIN Literal \cup Operators \cup {"exists", "&&", "||", "!", "(", ")"}
        BY <4>2, <4>3 DEF Tokenizes
      <4> QED
        BY <4>1, <4>4, EndIsNoToken
    <3> QED
      BY <2>2, <3>1
  <2>4. root.ok /\ root.at - 1 = n
    <3>1. root.ok
      BY <1>8, <2>2
    <3> HIDE DEF root
    <3> QED
      BY <1>1, <1>5, <2>3, <3>1
  <2>5. ReadsRight(f, m, "or", 1)
    BY <1>1, <1>2, <1>4, <2>2, ParserIsSound DEF n
  <2>6. root.value \in m[<<"or", 1, n>>]
    BY <2>4, <2>5 DEF ReadsRight
  <2>7. n # 0
    BY <1>1, <2>2
  <2> HIDE DEF root
  <2> QED
    BY <1>4, <1>5, <2>2, <2>6, <2>7
<1>9. ASSUME NEW v \in Meaning(e, scope)
      PROVE  r.ok /\ r.value = v
  <2>1. n # 0 /\ v \in m[<<"or", 1, n>>]
    BY <1>4
  <2>2. 1 \in 1 .. Len(e) /\ n \in 1 .. Len(e)
    BY <1>1, <2>1
  <2>3. n + 1 \notin 1 .. Len(e)
    BY <1>1
  <2>4. Peek(e, n + 1) = "eof"
    BY <2>3, PeekInside
  <2>5. ReadsAll(e, f, m, "or", 1, n)
    BY <1>1, <1>2, <1>4, <2>2, ParserIsComplete
  <2>6. root = Parsed(v, n + 1)
    BY <2>1, <2>4, <2>5, Continuations DEF ReadsAll
  <2>7. Tokenizes(e)
    <3>1. IsKnown(e, m, "or", 1, n)
      BY <1>1, <1>4, <2>2, MeaningIsOfKnown
    <3> QED
      BY <2>1, <3>1, TokenByToken DEF IsKnown
  <2>8. root.ok /\ root.value = v /\ root.at = n + 1
    BY <2>6 DEF Parsed
  <2>9. Ends(f)
    BY <1>1, <2>1, <2>4, <2>7, <2>8
  <2>10. r = root
    BY <1>2, <2>9
  <2> HIDE DEF r, root
  <2> QED
    BY <2>8, <2>10
<1> HIDE DEF r, n, Ends, root, rootG
<1>10. r.ok \in BOOLEAN
  BY <1>2, <1>5 DEF root, Throws
<1>11. Meaning(e, scope) # {} <=> r.ok
  BY <1>8, <1>9
<1>12. r.ok => r.value \in BOOLEAN /\ Meaning(e, scope) = {r.value}
  BY <1>8, <1>9
<1> QED
  BY <1>7, <1>10, <1>11, <1>12 DEF r

-----------------------------------------------------------------------------
(* Verdicts.                                                               *)

\* What is stored was accepted, its expressions too.
VerdictInv ==
  /\ ShownInv
  /\ stored # None => Accepts(stored)
  /\ VerdictIsMeaning

\* Registration accepts the expressions that have a meaning.
LEMMA VerdictOfSubmit ==
  ASSUME draft \in Config, draft' = draft, Store(draft, "submit")
  PROVE  VerdictIsMeaning'
<1> DEFINE E == {draft.rule, draft.condition} \ {<<>>}
           scope == Scope(Object(<<>>))
<1>1. ASSUME NEW e \in E PROVE AcceptsExpression(e) <=> Meaning(e, scope) # {}
  <2>1. e \in Seq(STRING)
    BY DEF Config
  <2> QED
    BY <2>1, ExpressionsMean
<1>2. Accepts(draft) <=> (\A e \in E : Meaning(e, scope) # {}) /\ AcceptsText(draft)
  <2>1. Accepts(draft) <=> AcceptsText(draft) /\ \A e \in E : AcceptsExpression(e)
    BY DEF Accepts
  <2> HIDE DEF E, scope
  <2> QED
    BY <1>1, <2>1
<1>3. last'.outcome = "accepted" <=> Accepts(draft)
  BY DEF Store, Ended
<1>4. last'.op = "submit"
  BY DEF Store, Ended
<1> QED
  BY <1>2, <1>3, <1>4 DEF VerdictIsMeaning

\* An invocation does what the expressions of what is stored mean.
LEMMA VerdictOfInvoke ==
  ASSUME stored \in Config, Accepts(stored), NEW p \in Payloads,
         last' = Invocation(stored, p), stored' = stored
  PROVE  VerdictIsMeaning'
<1> DEFINE c == stored.condition
           rule == stored.rule
           scope == Scope(p)
           o == last'.outcome
<1>1. ASSUME NEW e \in {rule, c}, e # <<>>
      PROVE  /\ AcceptsExpression(e)
             /\ EvaluatePredicate(e, scope) \in BOOLEAN
             /\ Meaning(e, scope) = {EvaluatePredicate(e, scope)}
  <2>1. e \in Seq(STRING)
    BY DEF Config
  <2>2. AcceptsExpression(e)
    BY <1>1 DEF Accepts
  <2> QED
    BY <2>1, <2>2, ExpressionsMean DEF EvaluatePredicate
<1>2. last'.op = "invoke" /\ last'.payload = p
  BY DEF Invocation
<1>3. o = "skipped" <=> c # <<>> /\ ~EvaluatePredicate(c, scope)
  <2>1. Rules(stored, p) # "skipped"
    BY DEF Rules
  <2> QED
    BY <2>1 DEF Invocation
<1>4. o = "skipped" <=> c # <<>> /\ Meaning(c, scope) = {FALSE}
  <2>1. CASE c = <<>>
    BY <1>3, <2>1
  <2>2. CASE c # <<>>
    <3> DEFINE v == EvaluatePredicate(c, scope)
    <3>1. v \in BOOLEAN /\ Meaning(c, scope) = {v} /\ (o = "skipped" <=> ~v)
      BY <1>1, <1>3, <2>2
    <3> HIDE DEF v, o, c, scope
    <3>2. Meaning(c, scope) = {FALSE} <=> ~v
      BY <3>1
    <3> QED
      BY <2>2, <3>1, <3>2
  <2> QED
    BY <2>1, <2>2
<1>5. \/ "sent" \notin DOMAIN last' \/ rule = <<>> \/ IsEnvRef(Source(rule))
      \/ Meaning(rule, scope) = {o = "success"} /\ o # "malformed"
  <2> SUFFICES ASSUME "sent" \in DOMAIN last', rule # <<>>, ~IsEnvRef(Source(rule))
               PROVE  Meaning(rule, scope) = {o = "success"} /\ o # "malformed"
    OBVIOUS
  <2>1. o = Rules(stored, p)
    BY DEF Invocation
  <2>2. o = IF EvaluatePredicate(rule, scope) THEN "success" ELSE "violated"
    BY <1>1, <2>1 DEF Rules
  <2> DEFINE v == EvaluatePredicate(rule, scope)
  <2>3. v \in BOOLEAN /\ Meaning(rule, scope) = {v}
    BY <1>1
  <2>4. o = IF v THEN "success" ELSE "violated"
    BY <2>2
  <2> HIDE DEF v, o, rule, scope
  <2>5. v = (o = "success") /\ o # "malformed"
    BY <2>3, <2>4
  <2> QED
    BY <2>3, <2>5
<1> HIDE DEF o
<1> QED
  BY <1>2, <1>4, <1>5 DEF VerdictIsMeaning, o

\* The inductive step of VerdictInv.
LEMMA VerdictKept == VerdictInv /\ [Next]_vars => VerdictInv'
<1> SUFFICES ASSUME VerdictInv, [Next]_vars PROVE VerdictInv'
  OBVIOUS
<1>0. ShownInv /\ ShownInv'
  BY ShownKept DEF VerdictInv
<1>1. ASSUME NEW c, NEW op, Store(c, op)
      PROVE  /\ stored' # None => Accepts(stored')
             /\ last'.op = op
  BY <1>1 DEF Store, Ended, VerdictInv
<1>2. CASE Submit
  <2>1. Store(draft, "submit") /\ draft' = draft
    BY <1>2 DEF Submit, Store
  <2>2. VerdictIsMeaning'
    BY <1>0, <2>1, VerdictOfSubmit DEF ShownInv
  <2> QED
    BY <1>0, <1>1, <2>1, <2>2 DEF VerdictInv
<1>3. CASE Get
  BY <1>0, <1>3 DEF Get, VerdictInv, VerdictIsMeaning, Ended
<1>4. CASE Resubmit
  <2>1. PICK c : Store(c, "resubmit")
    BY <1>4 DEF Resubmit
  <2>2. last'.op = "resubmit"
    BY <2>1 DEF Store, Ended
  <2>3. VerdictIsMeaning'
    BY <2>2 DEF VerdictIsMeaning
  <2> QED
    BY <1>0, <1>1, <2>1, <2>3 DEF VerdictInv
<1>5. CASE Invoke
  <2>1. PICK p \in Payloads : last' = Invocation(stored, p)
    BY <1>5 DEF Invoke
  <2>2. stored \in Config /\ Accepts(stored) /\ stored' = stored
    BY <1>0, <1>5 DEF Invoke, VerdictInv, ShownInv
  <2>3. VerdictIsMeaning'
    BY <2>1, <2>2, VerdictOfInvoke
  <2> QED
    BY <1>0, <2>2, <2>3 DEF VerdictInv
<1>6. CASE Respond
  BY <1>0, <1>6 DEF Respond, VerdictInv, VerdictIsMeaning, Idle, Ended
<1>7. CASE UNCHANGED vars
  BY <1>0, <1>7 DEF vars, VerdictInv, VerdictIsMeaning
<1> QED
  BY <1>2, <1>3, <1>4, <1>5, <1>6, <1>7 DEF Next

\* For any draft and any payload, an expression is registered exactly when the
\* grammar gives it a meaning, and an invocation that evaluates it does what it
\* means: the parser that registration and runtime share reads every expression
\* the grammar has, reads nothing else, and gives it its one value.
THEOREM VerdictsAreMeanings == Spec => []VerdictIsMeaning
<1>1. Init => VerdictInv
  <2>1. Init => ShownInv
    BY ShownInit
  <2>2. Init => VerdictIsMeaning
    BY DEF Init, VerdictIsMeaning, Idle, Ended
  <2> QED
    BY <2>1, <2>2 DEF Init, VerdictInv
<1>2. VerdictInv => VerdictIsMeaning
  BY DEF VerdictInv
<1> QED
  BY <1>1, <1>2, VerdictKept, PTL DEF Spec
=============================================================================
