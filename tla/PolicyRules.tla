----------------------------- MODULE PolicyRules -----------------------------
(***************************************************************************)
(* The rule-based policy engine of crates/policy: patterns, rules, the     *)
(* validation of a document and the evaluation of one request.  An engine  *)
(* never changes once it is built, so this is a module of operators.       *)
(*                                                                         *)
(* A text is a sequence of segments, the unit the prefixes of the model    *)
(* can cut; <<"*">> is the asterisk.  A principal is [id, kind, owner], a  *)
(* request [principal, action, resource, context], a rule [id, kind,       *)
(* on_behalf_of, action, resource, context, effect]; PlNone is an absent   *)
(* field.  A context is a function from the keys it has to values.  An     *)
(* effect is [decision, blank]: blank when its reason or its prompt says   *)
(* nothing.                                                                *)
(***************************************************************************)
EXTENDS Naturals, Sequences, SequencesExt

CONSTANT PlNone        \* an absent field
-----------------------------------------------------------------------------
(***************************************************************************)
(* Patterns.                                                               *)
(***************************************************************************)
Pattern(kind, text) == [kind |-> kind, text |-> text]

\* Pattern::parse: a lone asterisk, a text that ends in one, or the text itself.
parse_pattern(text) ==
  CASE text = <<"*">>                      -> Pattern("any", <<>>)
    [] text # <<"*">> /\ Len(text) > 0 /\ Last(text) = "*"
                                           -> Pattern("prefix", Front(text))
    [] OTHER                               -> Pattern("exact", text)

matches_pattern(pattern, value) ==
  \/ pattern.kind = "any"
  \/ pattern.kind = "prefix" /\ IsPrefix(pattern.text, value)
  \/ pattern.kind = "exact" /\ pattern.text = value

is_vacuous(pattern) == pattern = Pattern("exact", <<>>)
-----------------------------------------------------------------------------
(***************************************************************************)
(* One rule.                                                               *)
(***************************************************************************)
\* Naming a delegator asks for a delegate: "*" included, acting for nobody fails.
delegation_matches(matcher, owner) ==
  \/ matcher = PlNone
  \/ owner # PlNone /\ matches_pattern(matcher, owner)

matches_principal(rule, principal) ==
  /\ matches_pattern(rule.id, principal.id)
  /\ rule.kind \in {PlNone, principal.kind}
  /\ delegation_matches(rule.on_behalf_of, principal.owner)

\* A plausible slip: a rule that names no resource taken to mean every resource.
resource_is_optional(pattern, resource) ==
  \/ pattern = PlNone
  \/ pattern.kind = "any"
  \/ resource # PlNone /\ matches_pattern(pattern, resource)

\* A rule that names no resource answers only the question about the capability.
resource_matches(pattern, resource) ==
  \/ pattern = PlNone /\ resource = PlNone
  \/ pattern # PlNone /\ pattern.kind = "any"
  \/ pattern # PlNone /\ resource # PlNone /\ matches_pattern(pattern, resource)

\* A plausible slip: either source of a key may satisfy its constraint.
context_either(constraints, context, attributes) ==
  \/ constraints = PlNone
  \/ \A k \in DOMAIN constraints :
        \/ k \in DOMAIN context /\ context[k] = constraints[k]
        \/ k \in DOMAIN attributes /\ attributes[k] = constraints[k]

\* The request's own context first, the ambient attributes only for what it leaves out.
context_matches(constraints, context, attributes) ==
  \/ constraints = PlNone
  \/ \A k \in DOMAIN constraints :
        \/ k \in DOMAIN context /\ context[k] = constraints[k]
        \/ /\ k \notin DOMAIN context
           /\ k \in DOMAIN attributes
           /\ attributes[k] = constraints[k]

matches_rule(rule, request, attributes) ==
  /\ matches_principal(rule, request.principal)
  /\ matches_pattern(rule.action, request.action)
  /\ resource_matches(rule.resource, request.resource)
  /\ context_matches(rule.context, request.context, attributes)

validate_rule(rule) ==
  /\ ~is_vacuous(rule.action)
  /\ ~is_vacuous(rule.id)
  /\ rule.on_behalf_of = PlNone \/ ~is_vacuous(rule.on_behalf_of)
  /\ rule.resource = PlNone \/ ~is_vacuous(rule.resource)
  /\ rule.effect.decision = "allow" \/ ~rule.effect.blank
-----------------------------------------------------------------------------
(***************************************************************************)
(* The document and the engine.                                            *)
(***************************************************************************)
validate_document(rules) == \A i \in DOMAIN rules : validate_rule(rules[i])

Unmatched == [decision |-> "deny", blank |-> FALSE]

\* The first rule that matches decides; with none, the answer is a denial.
evaluate(rules, request, attributes) ==
  LET hits == {i \in DOMAIN rules : matches_rule(rules[i], request, attributes)}
  IN  IF hits = {} THEN Unmatched
      ELSE rules[CHOOSE i \in hits : \A j \in hits : i <= j].effect

\* RuleBasedPolicyEngine::from_config: PlNone when the document is refused; an absent
\* document is the empty one.
engine_new(document) ==
  LET rules == IF document = PlNone THEN <<>> ELSE document
  IN  IF validate_document(rules) THEN rules ELSE PlNone
-----------------------------------------------------------------------------
(***************************************************************************)
(* Properties.                                                             *)
(***************************************************************************)
WithoutCapabilityRules(rules) == SelectSeq(rules, LAMBDA r : r.resource # PlNone)

(***************************************************************************)
(* An accepted document decides a request by what the request itself says: *)
(* ambient attributes under a key the request's context names never tell   *)
(* (context_matches()), a rule that names no resource has no say over a    *)
(* named one (resource_matches()), a rule for delegates none over a        *)
(* principal acting for nobody, and rules appended behind a document never *)
(* change what it already allowed or asked approval for.                   *)
(***************************************************************************)
DecidedByTheRequest(document, request, attributes) ==
  LET rules  == engine_new(document)
      answer == evaluate(rules, request, attributes)
      own    == [k \in DOMAIN attributes \ DOMAIN request.context |-> attributes[k]]
  IN  rules # PlNone =>
        /\ answer = evaluate(rules, request, own)
        /\ (request.resource # PlNone) =>
              answer = evaluate(WithoutCapabilityRules(rules), request, attributes)
        /\ (request.principal.owner = PlNone) =>
              answer = evaluate(SelectSeq(rules, LAMBDA r : r.on_behalf_of = PlNone),
                                request, attributes)
        /\ \A k \in 0 .. Len(rules) :
              LET early == evaluate(SubSeq(rules, 1, k), request, attributes)
              IN  (early.decision # "deny") => answer = early
=============================================================================
