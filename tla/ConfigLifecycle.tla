-------------------------- MODULE ConfigLifecycle --------------------------
(***************************************************************************)
(* A configuration from its registration to its use.  An operator submits  *)
(* a draft, the registry checks and stores it, a read API shows it with    *)
(* its references and credentials masked, the operator submits what was    *)
(* shown, and the runtime reads the stored text again on each invocation:  *)
(* condition, field rules, environment references, templates, validation   *)
(* rules.  The checks at registration are to rule out what the runtime     *)
(* cannot use; the two read the text with code of their own.               *)
(***************************************************************************)
EXTENDS Expressions, FieldRules

CONSTANTS
    Drafts,     \* the configurations that may be submitted
    Payloads,   \* values of an invocation's context
    Env         \* process.env: the lexemes of each variable that is set

\* template is the uri, a header or a leaf of the payload, as target says;
\* password stands for what is kept under a credential's name, and is no
\* template; rule is an output.validation rule, condition that of the
\* component.  Both are tokens; <<>> means there is none.
Config == [target : {"uri", "header", "payload"}, template : Seq(STRING),
           password : Seq(STRING), rule : Seq(STRING), condition : Seq(STRING),
           fields : SUBSET Rule]

ASSUME DraftsAreConfigs == Drafts \subseteq Config

\* A payload is a JSON value, not deeper than Depth, whose arrays' indices have lexemes.
ASSUME PayloadAssumption ==
  \A p \in Payloads : \A v \in Below(p) :
    /\ v.t \in {"null", "boolean", "number", "string", "array", "object"}
    /\ v.t = "string" => v.s \in Seq(STRING)
    /\ v.t = "array" => v.e \in Seq(Range(v.e)) /\ Len(v.e) <= Len(Indices)
    /\ Children(v) \subseteq Below(p)

VARIABLES
    draft,    \* what the operator has to submit
    stored,   \* the component's configuration, or None
    shown,    \* what a read API returned of it, or None
    from,     \* the configuration that was shown
    last      \* the operation just done and how it ended, or Idle

vars == <<draft, stored, shown, from, last>>

Ended(op, outcome) == [op |-> op, outcome |-> outcome]
None == Ended("none", "none")     \* no configuration
Idle == Ended("idle", "none")

Init ==
  /\ draft \in Drafts
  /\ stored = None
  /\ shown = None
  /\ from = None
  /\ last = Idle

-----------------------------------------------------------------------------
(* Registration. *)

AcceptsText(c) ==
  /\ AcceptsTemplate(c.template)
  /\ \A f \in c.fields : AcceptsField(f)
  /\ \A s \in {c.template, c.password, Source(c.rule)} : AcceptsEnvRef(s)

Accepts(c) ==
  /\ AcceptsText(c)
  /\ \A e \in {c.rule, c.condition} \ {<<>>} : AcceptsExpression(e)

Store(c, op) ==
  /\ IF Accepts(c) THEN stored' = c /\ last' = Ended(op, "accepted")
                   ELSE last' = Ended(op, "rejected") /\ UNCHANGED stored
  /\ UNCHANGED <<draft, shown, from>>

Submit == last = Idle /\ stored = None /\ Store(draft, "submit")

\* The response to a read: maskEnvRefs, then redaction by the names of fields.
View(c) ==
  [c EXCEPT !.template = MaskEnvRef(@), !.password = Redacted,
            !.rule = IF IsEnvRef(Source(@)) THEN Mask ELSE @]

Get ==
  /\ last = Idle /\ stored # None
  /\ shown' = View(stored) /\ from' = stored
  /\ last' = Ended("get", "ok")
  /\ UNCHANGED <<draft, stored>>

\* A PUT of what was read, with the password as it was shown or put in again.
Resubmit ==
  /\ last = Idle /\ shown # None
  /\ \E password \in {shown.password, from.password} :
       Store([shown EXCEPT !.password = password], "resubmit")

-----------------------------------------------------------------------------
(* Invocation, as runtime-executor.ts orders it. *)

Scope(payload) ==
  Object([context |-> payload, env |-> Object(<<>>), output |-> Null])

Unresolved(c) ==
  \E s \in {c.template, c.password, Source(c.rule)} : ResolveEnvRef(s, Env) = Unset

\* What the request carries: a uri has to be a string without a bracket, a
\* header with one, or without a value, is not sent.
Sent(c, payload) ==
  LET v == ResolveString(ResolveEnvRef(c.template, Env), Scope(payload))
      bracketed == v.t = "string" /\ HasBracket(v.s)
  IN CASE c.target = "uri" -> IF v.t # "string" \/ bracketed THEN Missing ELSE v
       [] c.target = "header" -> IF v = Null \/ bracketed THEN Missing ELSE v
       [] c.target = "payload" -> v

\* A rule that is one reference is replaced by the variable's value, which
\* is then parsed as an expression.
Rules(c, payload) ==
  IF c.rule = <<>> THEN "success"
  ELSE LET rule == IF IsEnvRef(Source(c.rule)) THEN ResolveEnvRef(Source(c.rule), Env) ELSE c.rule
       IN IF ~AcceptsExpression(rule) THEN "malformed"
          ELSE IF EvaluatePredicate(rule, Scope(payload)) THEN "success" ELSE "violated"

Invocation(c, payload) ==
  LET wrong == {f \in c.fields : FieldFailure(f, payload) # NoFailure}
      sent == Sent(c, payload)
  IN IF c.condition # <<>> /\ ~EvaluatePredicate(c.condition, Scope(payload))
     THEN [op |-> "invoke", outcome |-> "skipped", payload |-> payload]
     ELSE IF wrong # {}
     THEN [op |-> "invoke", outcome |-> "invalid", payload |-> payload,
           at |-> {FieldFailure(f, payload) : f \in wrong}]
     ELSE IF Unresolved(c) THEN [op |-> "invoke", outcome |-> "unresolved", payload |-> payload]
     ELSE IF c.target = "uri" /\ sent = Missing
     THEN [op |-> "invoke", outcome |-> "untransformed", payload |-> payload]
     ELSE [op |-> "invoke", outcome |-> Rules(c, payload), sent |-> sent, payload |-> payload]

Invoke ==
  /\ last = Idle /\ stored # None
  /\ \E payload \in Payloads : last' = Invocation(stored, payload)
  /\ UNCHANGED <<draft, stored, shown, from>>

-----------------------------------------------------------------------------
\* The response is delivered.
Respond == last # Idle /\ last' = Idle /\ UNCHANGED <<draft, stored, shown, from>>

Next == Submit \/ Get \/ Resubmit \/ Invoke \/ Respond

Spec == Init /\ [][Next]_vars

-----------------------------------------------------------------------------
\* An invocation that got as far as its template, with a payload that holds no
\* bracket, and a template that is not to be replaced by a variable's text.
Resolved ==
  /\ "sent" \in DOMAIN last \/ last.outcome = "untransformed"
  /\ ~IsEnvRef(stored.template) /\ ~Bracketed(last.payload)

\* Text that may meet a value: "{" before a reference; "$" or a reference after one.
HasSeam(s) ==
  \E i \in DOMAIN s : \/ s[i] \in {"{", "}"} /\ OpensAt(s, i + 1)
                      \/ i < Len(s) /\ s[i] = "}" /\ s[i + 1] = "$"

\* A string that keeps what is around it apart and brings in no half of a bracket.
Whole(s) == s # <<>> /\ s[1] # "$" /\ s[Len(s)] # "{"
Unseamed(v) == \A u \in Below(v) : u.t = "string" => Whole(u.s)

(* What the scan at registration lets through, the scan at invocation        *)
(* resolves: text with the bracket of a template is sent only when it came   *)
(* with the payload or the environment, whatever is missing; a uri fails to  *)
(* resolve only if it is one reference, to something that is no string; and  *)
(* a header is left out only if it is one reference to nothing.  Excepted is *)
(* what forms at the seams, where a template has some and the payload a      *)
(* string that is empty, begins with "$" or ends in "{": resolveString joins *)
(* the pieces without looking at the result.                                 *)
NoTemplateTextSent ==
  Resolved /\ (~HasSeam(stored.template) \/ Unseamed(last.payload)) =>
    IF "sent" \in DOMAIN last /\ last.sent # Missing
    THEN last.sent.t = "string" => ~HasBracket(last.sent.s)
    ELSE ParsesAsPath(stored.template)

(* Submitting what a read API showed stores nothing or what was there: no    *)
(* placeholder takes the place of a reference or a credential.               *)
ResubmissionKeepsConfig ==
  last = Ended("resubmit", "accepted") => stored = from

(* An expression is registered exactly when the grammar gives it a meaning,  *)
(* and what an invocation then does is what it means.  A rule that is one    *)
(* environment reference is excepted: it is registered, and replaced by the  *)
(* variable's text, which seldom parses.                                     *)
VerdictIsMeaning ==
  /\ last.op = "submit" =>
       (last.outcome = "accepted" <=>
          /\ \A e \in {draft.rule, draft.condition} \ {<<>>} :
               Meaning(e, Scope(Object(<<>>))) # {}
          /\ AcceptsText(draft))
  /\ last.op = "invoke" =>
       LET Means(e) == Meaning(e, Scope(last.payload))
       IN /\ last.outcome = "skipped" <=>
               stored.condition # <<>> /\ Means(stored.condition) = {FALSE}
          /\ \/ "sent" \notin DOMAIN last \/ stored.rule = <<>> \/ IsEnvRef(Source(stored.rule))
             \/ Means(stored.rule) = {last.outcome = "success"} /\ last.outcome # "malformed"

(* An invocation is refused exactly when a rule's path reaches a wrong value *)
(* (or a wildcard stands for no array), however deep; the refusal names, for *)
(* each such rule, the first wrong place; and nothing was sent.              *)
RefusalNamesTheFirst ==
  last.op = "invoke" /\ last.outcome # "skipped" =>
    LET FirstWrong(f) == CHOOSE p \in Wrong(f, last.payload) :
                           \A q \in Wrong(f, last.payload) \ {p} : Precedes(p, q)
        refused == {f \in stored.fields : Wrong(f, last.payload) # {}}
    IN IF refused = {} THEN last.outcome # "invalid"
       ELSE last.outcome = "invalid" /\ last.at = {FirstWrong(f) : f \in refused}
=============================================================================
