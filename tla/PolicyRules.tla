---------------------------- MODULE PolicyRules ----------------------------
(***************************************************************************)
(* The verdict of a list of policy rules (policy/rules.ts).  Whether a     *)
(* rule matches the text is an input; what a rule that matches renders,    *)
(* and which outcome of a list prevails under the two resolution modes, is *)
(* what this module says.                                                  *)
(***************************************************************************)
EXTENDS Integers, Sequences

\* What a rule comes to on the text at hand.  "silent" is a rule that is
\* disabled, in shadow mode, out of phase, unmatched, or a quota under its limit.
Does == {"silent", "topic_allow", "flag", "redact", "block", "approval", "unmetered", "unknown"}

Rule(id, does) == [id |-> id, does |-> does]

\* The settings an evaluation runs under.
Options(denyWins, failClosed, granted) ==
  [denyWins |-> denyWins, failClosed |-> failClosed, granted |-> granted]

NoOutcome == [decision |-> "allow", ask |-> FALSE, claim |-> FALSE]
Outcome(decision) == [NoOutcome EXCEPT !.decision = decision]

\* ruleOutcome.  A quota rule without a counter slot, and an action the engine
\* does not know, render an outcome under some settings only.
Renders(rule, opts) ==
  /\ rule.does # "silent"
  /\ rule.does = "unmetered" => opts.failClosed

RuleOutcome(rule, opts) ==
  CASE rule.does \in {"topic_allow", "flag"} -> NoOutcome
    [] rule.does = "redact" -> Outcome("redact")
    [] rule.does \in {"block", "unmetered"} -> Outcome("block")
    [] rule.does = "approval" -> IF opts.granted THEN [NoOutcome EXCEPT !.claim = TRUE]
                                 ELSE [Outcome("block") EXCEPT !.ask = TRUE]
    [] rule.does = "unknown" -> Outcome(IF opts.denyWins THEN "block" ELSE "allow")

OutcomeStrength(rule, outcome) ==
  IF outcome.decision = "block" THEN 3
  ELSE IF outcome.decision = "redact" THEN 2
  ELSE IF rule.does = "topic_allow" \/ outcome.claim THEN 0 ELSE 1

Prevails(rule, best, opts) ==
  LET strength == OutcomeStrength(rule, RuleOutcome(rule, opts))
      bestStrength == OutcomeStrength(best, RuleOutcome(best, opts))
  IN strength > bestStrength \/ (strength = bestStrength /\ rule.id < best.id)

\* The rules of a list that render an outcome, by their positions.
Rendered(rules, opts) == {i \in DOMAIN rules : Renders(rules[i], opts)}

\* Variant: among matched rules the last in the list prevails.
ResolveLast(rules, opts) ==
  CHOOSE i \in Rendered(rules, opts) : \A j \in Rendered(rules, opts) : j <= i

\* resolveMatched: the strongest outcome, among equals the smallest rule id.  The loop
\* keeps the best of the rules it has passed, 0 while none of them rendered.
ResolveMatched(rules, opts) ==
  LET best[i \in 0..Len(rules)] ==
        IF i = 0 THEN 0
        ELSE IF /\ i \in Rendered(rules, opts)
                /\ best[i - 1] = 0 \/ Prevails(rules[i], rules[best[i - 1]], opts)
          THEN i ELSE best[i - 1]
  IN best[Len(rules)]

\* Under first_match the first rule that renders decides.
FirstMatched(rules, opts) ==
  CHOOSE i \in Rendered(rules, opts) : \A j \in Rendered(rules, opts) : i <= j

\* evaluatePolicyRules.
EvaluatePolicyRules(rules, opts) ==
  IF Rendered(rules, opts) = {} THEN NoOutcome
  ELSE RuleOutcome(rules[IF opts.denyWins THEN ResolveMatched(rules, opts)
                         ELSE FirstMatched(rules, opts)], opts)

\* evaluateFloor: every rule armed, first match, and closed whatever failMode says.
EvaluateFloor(rules, granted) == EvaluatePolicyRules(rules, Options(FALSE, TRUE, granted))

\* Some rule of the list renders a refusal.
SomeRuleRefuses(rules, opts) ==
  \E i \in Rendered(rules, opts) : RuleOutcome(rules[i], opts).decision = "block"
=============================================================================
