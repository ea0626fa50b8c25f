---------------------------- MODULE WrapperCall ----------------------------
(***************************************************************************)
(* A call through a wrapped client (proxy/wrapper.ts): the pre-call plan,  *)
(* the provider, and the event.  A throw of a guarded layer skips to the   *)
(* hook; the call itself goes on.                                          *)
(***************************************************************************)
EXTENDS GovernedCall

Wrap == call.surface = "wrap"

\* A redaction is applied to the request in place; one that fails may leave it
\* half done, and blocks whatever failMode says.
RedactionFails(c) == [Block(c, "redaction") EXCEPT !.outbound = "partial"]
ApplyRedaction(c) == {[c EXCEPT !.outbound = "redacted"], RedactionFails(c)}

WrapGate ==
  /\ Wrap
  /\ Step("gate", "session_taint", {IntegrityGate(call)})

\* Principal and taint latch share one layer of the guard.
WrapPrincipalAndTaint ==
  /\ Wrap
  /\ Step("session_taint", "canary",
          UNION {MayRefuse(c, "session_taint") : c \in MayRefuse(call, "principal")})

WrapCanary ==
  /\ Wrap
  /\ Step("canary", "builtin_pii_scan", Canary(call))

WrapScan(c) ==
  IF Blocked(c) THEN {c}
  ELSE {c} \cup UNION {CASE verdict = "block" \/ (verdict = "redact" /\ via) -> {PiiBlock(Found(c, via))}
                         [] verdict = "redact" /\ ~via ->
                              {IF d.outbound = "redacted" THEN [d EXCEPT !.action = "redacted"] ELSE d :
                                 d \in ApplyRedaction(Found(c, via))}
                         [] OTHER -> {Found(c, via)}
                       : verdict \in ScanVerdicts \ {"clean"}, via \in BOOLEAN}

WrapPii ==
  /\ Wrap
  /\ Step("builtin_pii_scan", "multi_turn_injection", WrapScan(call))

WrapMultiTurn ==
  /\ Wrap
  /\ Step("multi_turn_injection", "policy_floor", MayRefuse(call, "multi_turn_injection"))

WrapFloor ==
  /\ Wrap
  /\ Step("policy_floor", "policy_rules", Floor(call))

\* The verdict of the rules; one that asks for an approval may hold the call.
RulesVerdict(c, rules, denyWins) ==
  LET opts == Options(denyWins, config.failClosed, granted)
      outcome == EvaluatePolicyRules(rules, opts)
      noted == IF denyWins /\ SomeRuleRefuses(rules, opts) THEN With(c, "ruledOut") ELSE c
      claimed == IF outcome.claim THEN With(noted, "claim") ELSE noted
  IN [call |-> claimed, outcome |-> outcome]

WrapApplyRules(verdict) ==
  LET c == verdict.call IN
  CASE verdict.outcome.decision = "block" -> {Block(c, "policy_rules")}
    [] verdict.outcome.decision = "redact" /\ c.action # "redacted" ->
         {IF d.outbound = "redacted"
            THEN [d EXCEPT !.action = "redacted", !.reason = "policy_violation"] ELSE d :
            d \in ApplyRedaction(c)}
    [] OTHER -> {c}

WrapRules ==
  /\ Wrap
  /\ call.at = "policy_rules"
  /\ IF Blocked(call) THEN call' = At(call, "hook")
     ELSE \E rules \in RuleLists, denyWins \in BOOLEAN, wait \in BOOLEAN :
            LET verdict == RulesVerdict(call, rules, denyWins) IN
            IF wait /\ verdict.outcome.ask /\ ~config.monitor
              THEN call' = At(verdict.call, "holding")
              ELSE \E c \in WrapApplyRules(verdict) : call' = At(c, "hook")
  /\ UNCHANGED <<config, gate, granted>>

\* awaitApproval: only a grant lifts the block; a timeout, a closing gate and a
\* failure of the wait leave it standing.
HoldEndsWith(c) ==
  {Block(c, "policy_rules")} \cup
  (IF granted THEN {With(With(c, "claim"), "approved")} ELSE {})

AwaitApproval ==
  /\ call.surface \in {"wrap", "integration"}
  /\ Step("holding", "hook", HoldEndsWith(call))

WrapGuarded == {"session_taint", "canary", "builtin_pii_scan", "multi_turn_injection",
                "policy_floor", "policy_rules"}

WrapCatch(c, layer, malformed) ==
  LET d == With(c, "failureSeen") IN
  IF FailsClosed(layer, malformed) THEN With(Block(d, "detector"), "failedClosed") ELSE d

\* Reading the metadata may throw for any call; a layer only for one it looks at.
WrapLayerThrows ==
  /\ Wrap
  /\ call.at \in WrapGuarded
  /\ ~Blocked(call) \/ call.at = "session_taint"
  /\ \E malformed \in BOOLEAN :
       /\ malformed => call.at = "policy_rules"
       /\ call' = At(WrapCatch(call, call.at, malformed), "hook")
  /\ UNCHANGED <<config, gate, granted>>

WrapHookResult(c, answer) ==
  CASE HookBlocks(answer) -> {Block(c, "hook")}
    [] HookRedacts(c, answer) ->
         IF Has(c, "via") THEN {Block(c, "hook")}
         ELSE {[RedactedByHook(c) EXCEPT !.outbound = "redacted"], RedactionFails(c)}
    [] OTHER -> {c}

HookResults(c) ==
  UNION {IF ShouldRunHook(c, trigger) THEN UNION {WrapHookResult(c, answer) : answer \in HookAnswers}
         ELSE {c} : trigger \in Triggers}

WrapHook ==
  /\ Wrap
  /\ Step("hook", "external_backend", HookResults(call))

WrapBackend ==
  /\ Wrap
  /\ Step("external_backend", "conclude", BackendResults(call))

\* Variant: a redacted call is sampled like an allowed one.
AuditAllowed(c, sampled) ==
  sampled \/ config.monitor \/ Blocked(c) \/ Has(c, "converted") \/ Has(c, "failureSeen")

\* Enforce mode samples ordinary allowed calls only.
AuditThisCall(c, sampled) ==
  \/ config.monitor
  \/ sampled
  \/ c.action # "allowed"
  \/ Has(c, "converted")
  \/ Has(c, "failureSeen")

\* The end of the pre-call plan, in one turn: revalidation, conversion, and
\* either the blocked event and the error or the outgoing request.
WrapConclude ==
  /\ Wrap
  /\ call.at = "conclude"
  /\ LET c == Convert(Revalidate(call)) IN
     IF Blocked(c)
       THEN call' = Event(c, "blocked")
       ELSE \E sampled \in BOOLEAN :
              call' = At(IF AuditThisCall(c, sampled) THEN With(c, "audited") ELSE c, "sent")
  /\ UNCHANGED <<config, gate, granted>>

----------------------------------------------------------------------------
(* The provider answers.                                                   *)

Unrecorded(c) == With(At(c, "done"), "unrecorded")

\* An error is always recorded; so is nothing of a stream that streaming_mode skips.
StreamSkipped ==
  /\ Wrap
  /\ call.at = "sent"
  /\ ~config.monitor
  /\ call' = Unrecorded(call)
  /\ UNCHANGED <<config, gate, granted>>

ProviderFails ==
  /\ Wrap
  /\ call.at = "sent"
  /\ call' = Event(call, "error")
  /\ UNCHANGED <<config, gate, granted>>

\* A value; its event is built and governed if the call is audited.
ProviderAnswers ==
  /\ Wrap
  /\ call.at = "sent"
  /\ call' = IF Has(call, "audited") THEN At(call, "value") ELSE At(call, "done")
  /\ UNCHANGED <<config, gate, granted>>

\* A stream; one the caller did not announce is not recorded under "skip".
ProviderStreams ==
  /\ Wrap
  /\ call.at = "sent"
  /\ \/ call' = IF Has(call, "audited") THEN At(call, "streaming") ELSE At(call, "done")
     \/ call' = Unrecorded(call)
  /\ UNCHANGED <<config, gate, granted>>

\* The caller drains the stream or leaves it; both are recorded as an answer.
StreamEnds ==
  /\ Wrap
  /\ call.at = "streaming"
  /\ call' = At(call, "drained")
  /\ UNCHANGED <<config, gate, granted>>

WrapNext ==
  \/ WrapGate \/ WrapPrincipalAndTaint \/ WrapCanary \/ WrapPii \/ WrapMultiTurn
  \/ WrapFloor \/ WrapRules \/ AwaitApproval \/ WrapLayerThrows \/ WrapHook
  \/ WrapBackend \/ WrapConclude
  \/ StreamSkipped \/ ProviderFails \/ ProviderAnswers \/ ProviderStreams \/ StreamEnds
=============================================================================
