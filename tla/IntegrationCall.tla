-------------------------- MODULE IntegrationCall --------------------------
(***************************************************************************)
(* A call through a framework integration: applyPreCallPolicy              *)
(* (integrations/core.ts) and the caller that carries its verdict out, as  *)
(* the Bedrock integration does.  A throw of a guarded layer ends the      *)
(* pipeline with the verdict failMode gives, whatever was decided before.  *)
(***************************************************************************)
EXTENDS WrapperCall

Integration == call.surface = "integration"

\* The principal is read before the guard.
IntegrationGate ==
  /\ Integration
  /\ Step("gate", "session_taint", MayRefuse(IntegrityGate(call), "principal"))

IntegrationTaint ==
  /\ Integration
  /\ Step("session_taint", "canary", MayRefuse(call, "session_taint"))

IntegrationCanary ==
  /\ Integration
  /\ Step("canary", "builtin_pii_scan", Canary(call))

\* A redaction is only decided here; the caller applies it.
IntegrationScan(c) ==
  IF Blocked(c) THEN {c}
  ELSE {c} \cup {CASE verdict = "block" \/ (verdict = "redact" /\ via) -> PiiBlock(Found(c, via))
                   [] verdict = "redact" /\ ~via -> [Found(c, via) EXCEPT !.action = "redacted"]
                   [] OTHER -> Found(c, via)
                 : verdict \in ScanVerdicts \ {"clean"}, via \in BOOLEAN}

IntegrationPii ==
  /\ Integration
  /\ Step("builtin_pii_scan", "multi_turn_injection", IntegrationScan(call))

IntegrationMultiTurn ==
  /\ Integration
  /\ Step("multi_turn_injection", "policy_floor", MayRefuse(call, "multi_turn_injection"))

IntegrationFloor ==
  /\ Integration
  /\ Step("policy_floor", "policy_rules", Floor(call))

IntegrationApplyRules(verdict) ==
  LET c == verdict.call IN
  CASE verdict.outcome.decision = "block" -> Block(c, "policy_rules")
    [] verdict.outcome.decision = "redact" /\ c.action # "redacted" ->
         [c EXCEPT !.action = "redacted", !.reason = "policy_violation"]
    [] OTHER -> c

IntegrationRules ==
  /\ Integration
  /\ call.at = "policy_rules"
  /\ IF Blocked(call) THEN call' = At(call, "hook")
     ELSE \E rules \in RuleLists, denyWins \in BOOLEAN, wait \in BOOLEAN :
            LET verdict == RulesVerdict(call, rules, denyWins) IN
            call' = IF wait /\ verdict.outcome.ask /\ ~config.monitor
                      THEN At(verdict.call, "holding")
                      ELSE At(IntegrationApplyRules(verdict), "hook")
  /\ UNCHANGED <<config, gate, granted>>

\* preCallFailureCompliance, the verdict for a layer that threw.  Open, it forgets
\* a refusal.
PreCallFailure(c, failClosed) ==
  IF failClosed THEN Block(c, "detector")
  ELSE [(IF Blocked(c) THEN With(c, "abandoned") ELSE c) EXCEPT !.action = "allowed", !.reason = "none"]

\* The catch returns a verdict of its own.
IntegrationCatch(c, layer, malformed) ==
  PreCallFailure(With(c, "failureSeen"), FailsClosed(layer, malformed))

IntegrationLayerThrows ==
  /\ Integration
  /\ call.at \in WrapGuarded
  /\ ~Blocked(call) \/ call.at = "session_taint"
  /\ \E malformed \in BOOLEAN :
       /\ malformed => call.at = "policy_rules"
       /\ call' = At(IntegrationCatch(call, call.at, malformed), "caller")
  /\ UNCHANGED <<config, gate, granted>>

\* A hook that renders no verdict writes its own action over a redaction.
Unanswered(c, answer) ==
  IF Blocked(c) THEN c
  ELSE [c EXCEPT !.action = IF answer = "timeout" THEN "hook_timeout" ELSE "hook_error"]

IntegrationHookResult(c, answer) ==
  CASE HookBlocks(answer) -> Block(c, "hook")
    [] ~HookBlocks(answer) /\ answer \in {"timeout", "throws"} -> Unanswered(c, answer)
    [] HookRedacts(c, answer) ->
         IF Has(c, "via") THEN Block(c, "hook") ELSE RedactedByHook(c)
    [] OTHER -> c

IntegrationHookResults(c) ==
  UNION {IF ShouldRunHook(c, trigger) THEN {IntegrationHookResult(c, answer) : answer \in HookAnswers}
         ELSE {c} : trigger \in Triggers}

IntegrationHook ==
  /\ Integration
  /\ Step("hook", "external_backend", IntegrationHookResults(call))

IntegrationBackend ==
  /\ Integration
  /\ Step("external_backend", "conclude", BackendResults(call))

\* Revalidation and conversion; a redacted prompt then pays the anonymizer.
IntegrationConclude ==
  /\ Integration
  /\ call.at = "conclude"
  /\ LET c == Convert(Revalidate(call)) IN
     call' = At(c, IF c.action = "redacted" THEN "anonymizer" ELSE "caller")
  /\ UNCHANGED <<config, gate, granted>>

Anonymized ==
  /\ Integration
  /\ Step("anonymizer", "caller", {call})

\* Variant: what the caller sends is the text it was given.
CarryOutUnredacted(c) == IF Blocked(c) THEN {Event(c, "blocked")} ELSE {At(c, "sent")}

\* The caller throws for a block, redacts what it sends, and forwards the rest.
CarryOut(c) ==
  CASE Blocked(c) -> {Event(c, "blocked")}
    [] c.action = "redacted" ->
         {IF Blocked(d) THEN Event(d, "blocked") ELSE At(d, "sent") : d \in ApplyRedaction(c)}
    [] OTHER -> {At(c, "sent")}

\* Anything but an allow is audited; hook_timeout and hook_error are allows.
IntegrationCaller ==
  /\ Integration
  /\ call.at = "caller"
  /\ \E c \in CarryOut(call), sampled \in BOOLEAN :
       call' = IF c.at = "sent" /\ (config.monitor \/ sampled \/ c.action = "redacted")
                 THEN With(c, "audited") ELSE c
  /\ UNCHANGED <<config, gate, granted>>

\* An integration records an error as it records an answer.
IntegrationAnswered ==
  /\ Integration
  /\ call.at = "sent"
  /\ call' \in {Event(call, "error")}
               \cup {IF Has(call, "audited") THEN At(call, "building") ELSE At(call, "done")}
  /\ UNCHANGED <<config, gate, granted>>

IntegrationNext ==
  \/ IntegrationGate \/ IntegrationTaint \/ IntegrationCanary \/ IntegrationPii
  \/ IntegrationMultiTurn \/ IntegrationFloor \/ IntegrationRules \/ IntegrationLayerThrows
  \/ IntegrationHook \/ IntegrationBackend \/ IntegrationConclude \/ Anonymized
  \/ IntegrationCaller \/ IntegrationAnswered
=============================================================================
