------------------------- MODULE GovernanceEvaluate -------------------------
(***************************************************************************)
(* evaluate() of the governance server (governance/evaluate.ts): the       *)
(* verdict on an action somebody else carries out.  "sent" stands for      *)
(* PERMITTED.                                                              *)
(***************************************************************************)
EXTENDS GovernedCall

Evaluates == call.surface = "evaluate"

EvaluateGate ==
  /\ Evaluates
  /\ Step("gate", "builtin_pii_scan", MayRefuse(IntegrityGate(call), "principal"))

\* Only a block of the scan counts; a redact has nothing to apply it to.
EvaluatePii ==
  /\ Evaluates
  /\ Step("builtin_pii_scan", "policy_floor",
          IF Blocked(call) THEN {call} ELSE {call, PiiBlock(call)})

EvaluateFloorLayer ==
  /\ Evaluates
  /\ Step("policy_floor", "policy_rules", Floor(call))

\* Rules run without failMode here, and a redact is a refusal.
EvaluateApplyRules(c, rules, denyWins) ==
  LET opts == Options(denyWins, FALSE, granted)
      noted == IF denyWins /\ SomeRuleRefuses(rules, opts) THEN With(c, "ruledOut") ELSE c
  IN IF EvaluatePolicyRules(rules, opts).decision = "allow" THEN noted ELSE Block(noted, "policy_rules")

EvaluateRules ==
  /\ Evaluates
  /\ Step("policy_rules", "hook",
          IF Blocked(call) THEN {call}
          ELSE {EvaluateApplyRules(call, rules, denyWins) : rules \in RuleLists, denyWins \in BOOLEAN})

EvaluateCatch(c, layer, malformed) ==
  IF FailsClosed(layer, malformed) THEN Block(With(c, "failureSeen"), "detector")
  ELSE With(c, "failureSeen")

\* A throw, the hook's included, ends the evaluation; no event is sent.
EvaluateLayerThrows ==
  /\ Evaluates
  /\ call.at \in {"builtin_pii_scan", "policy_floor", "policy_rules", "hook"}
  /\ ~Blocked(call)
  /\ \E malformed \in BOOLEAN :
       /\ malformed => call.at = "policy_rules"
       /\ LET layer == IF call.at = "hook" THEN "policy_rules" ELSE call.at
              c == EvaluateCatch(call, layer, malformed)
          IN call' = At(c, IF Blocked(c) THEN "done" ELSE "sent")
  /\ UNCHANGED <<config, gate, granted>>

\* The hook is asked only about what is permitted, and a timeout is a refusal.
EvaluateHook ==
  /\ Evaluates
  /\ Step("hook", "conclude", MayRefuse(call, "hook"))

EvaluateConclude ==
  /\ Evaluates
  /\ call.at = "conclude"
  /\ LET c == Convert(call) IN
     call' = IF Blocked(c) THEN Event(c, "blocked") ELSE At(Record(c, "completed"), "sent")
  /\ UNCHANGED <<config, gate, granted>>

EvaluateNext ==
  \/ EvaluateGate \/ EvaluatePii \/ EvaluateFloorLayer \/ EvaluateRules
  \/ EvaluateLayerThrows \/ EvaluateHook \/ EvaluateConclude
=============================================================================
