----------------------------- MODULE PythonCall -----------------------------
(***************************************************************************)
(* A call through a client wrapped by the Python SDK: apply_pre_call_policy *)
(* (policy.py) and the interceptor that carries its verdict out, makes the *)
(* call and writes the event (wrap.py).  The layers decide as the          *)
(* integrations of the TypeScript SDK do; the hook has no trigger, the     *)
(* post-call policy reads the raw answer, and what it says overlays the    *)
(* whole event.                                                            *)
(***************************************************************************)
EXTENDS PostCall

Python == call.surface = "python"

----------------------------------------------------------------------------
(* Before the call.                                                        *)

\* The principal is looked at inside the guard here, before any named layer.
PythonGate ==
  /\ Python
  /\ Step("gate", "session_taint", MayRefuse(IntegrityGate(call), "principal"))

PythonTaint ==
  /\ Python
  /\ Step("session_taint", "canary", MayRefuse(call, "session_taint"))

PythonCanary ==
  /\ Python
  /\ Step("canary", "builtin_pii_scan", Canary(call))

PythonPii ==
  /\ Python
  /\ Step("builtin_pii_scan", "multi_turn_injection", IntegrationScan(call))

PythonMultiTurn ==
  /\ Python
  /\ Step("multi_turn_injection", "policy_floor", MayRefuse(call, "multi_turn_injection"))

PythonFloor ==
  /\ Python
  /\ Step("policy_floor", "policy_rules", Floor(call))

\* The wait for an approval is skipped in monitor mode.
PythonRules ==
  /\ Python
  /\ call.at = "policy_rules"
  /\ IF Blocked(call) THEN call' = At(call, "hook")
     ELSE \E rules \in RuleLists, denyWins \in BOOLEAN, wait \in BOOLEAN :
            LET verdict == RulesVerdict(call, rules, denyWins) IN
            call' = IF wait /\ verdict.outcome.ask /\ ~config.monitor
                      THEN At(verdict.call, "holding")
                      ELSE At(IntegrationApplyRules(verdict), "hook")
  /\ UNCHANGED <<config, gate, granted>>

\* The wait ends in this thread: a grant lifts the block, all else leaves it.
PythonAwaitApproval ==
  /\ Python
  /\ Step("holding", "hook", HoldEndsWith(call))

\* _resolve_detector_failure: a verdict of its own, past the hook, the backend,
\* the grant and monitor mode.
PythonLayerThrows ==
  /\ Python
  /\ call.at \in WrapGuarded
  /\ ~Blocked(call) \/ call.at = "session_taint"
  /\ \E malformed \in BOOLEAN :
       /\ malformed => call.at = "policy_rules"
       /\ call' = At(IntegrationCatch(call, call.at, malformed), "caller")
  /\ UNCHANGED <<config, gate, granted>>

\* on_pre_call runs whenever it is set, unless the gate was closed at the start.
PythonHook ==
  /\ Python
  /\ Step("hook", "external_backend",
          {call} \cup IF Has(call, "degraded") THEN {}
                      ELSE {IntegrationHookResult(call, answer) : answer \in HookAnswers})

PythonBackend ==
  /\ Python
  /\ Step("external_backend", "conclude", BackendResults(call))

\* revalidate_approval, the conversion, and then the anonymizer of a redacted prompt.
PythonConclude ==
  /\ Python
  /\ call.at = "conclude"
  /\ LET c == Convert(Revalidate(call)) IN
     call' = At(c, IF c.action = "redacted" THEN "anonymizer" ELSE "caller")
  /\ UNCHANGED <<config, gate, granted>>

PythonAnonymized ==
  /\ Python
  /\ Step("anonymizer", "caller", {call})

\* Variant: a redaction is applied and not looked at again.
CarryOutUnasserted(c) ==
  IF Blocked(c) THEN {Event(c, "blocked")}
  ELSE IF c.action = "redacted" THEN {[At(c, "sent") EXCEPT !.outbound = "partial"]}
  ELSE {At(c, "sent")}

\* A block is recorded and raised; so is a redaction that does not take, which
\* assert_redaction_applied finds out by scanning what is about to go out.
PythonCarryOut(c) ==
  IF c.action = "redacted"
    THEN {IF Blocked(d) THEN Event(d, "blocked") ELSE At(d, "sent") : d \in ApplyRedaction(c)}
    ELSE {IF Blocked(c) THEN Event(c, "blocked") ELSE At(c, "sent")}

\* Variant: the sampling gate of the TypeScript SDK.
EmitAuditByAction(c, sampled) == sampled \/ config.monitor \/ c.action # "allowed"

\* _emit_audit: only a call nothing was found in is sampled.
EmitAudit(c, sampled) ==
  \/ sampled
  \/ config.monitor
  \/ c.action # "allowed"
  \/ c.reason # "none"
  \/ Has(c, "failureSeen")

PythonCaller ==
  /\ Python
  /\ call.at = "caller"
  /\ \E c \in PythonCarryOut(call), sampled \in BOOLEAN :
       call' = IF c.at = "sent" /\ EmitAudit(c, sampled) THEN With(c, "audited") ELSE c
  /\ UNCHANGED <<config, gate, granted>>

----------------------------------------------------------------------------
(* The answer and its event.                                               *)

\* The nets of build_audit_event: a canary first, then PII, over all content.
StoredBy(c, truth) ==
  UNION {PiiNet(d) : d \in CanaryNet([c EXCEPT !.truth = truth, !.stored = "raw"])}

PythonCallFails ==
  /\ Python
  /\ call.at = "sent"
  /\ call' = Event(call, "error")
  /\ UNCHANGED <<config, gate, granted>>

\* A value, a stream, or the manager of a .stream() helper.
PythonAnswers ==
  /\ Python
  /\ call.at = "sent"
  /\ call' \in {At(call, "py_answered"), At(call, "py_streaming"), At(call, "py_manager")}
  /\ UNCHANGED <<config, gate, granted>>

\* The helper sends its request when the manager is entered; an entry that fails,
\* and a manager nobody enters, settle nothing.
PythonManager ==
  /\ Python
  /\ call.at = "py_manager"
  /\ call' \in {At(call, "py_streaming"), Unrecorded(call)}
  /\ UNCHANGED <<config, gate, granted>>

\* A stream that breaks off is recorded with what had arrived, past the post-call
\* policy; one the caller leaves is not recorded.
PythonStreamEnds ==
  /\ Python
  /\ call.at = "py_streaming"
  /\ call' \in {At(call, "py_answered"), Unrecorded(call)}
               \cup {Event(c, "error") : c \in UNION {StoredBy(call, truth) : truth \in Truths}}
  /\ UNCHANGED <<config, gate, granted>>

\* Nothing guards the building: a throw reaches the caller in place of the answer.
PythonBuildsEvent ==
  /\ Python
  /\ call.at = "py_answered"
  /\ \/ \E truth \in Truths : \E c \in StoredBy(call, truth) : call' = At(c, "py_post_hook")
     \/ call' = Unrecorded(call)
  /\ UNCHANGED <<config, gate, granted>>

\* The redacted copy is made from the raw answer, whatever the nets left of it.
PythonRedactedCopy(c) ==
  IF c.truth \cap {"canary", "floor", "view"} # {} THEN "placeholder" ELSE "spans"

\* apply_post_call_policy and _merge_post_call.  A layer that throws leaves the
\* copy to the nets, and its compliance lies over that of the call.
PythonPostCallOutcomes(c) ==
  {Event(Merge(c, PostDecision(c.truth, answer), PythonRedactedCopy(c)), "completed") :
     answer \in PostHookAnswers}
  \cup {[Event(With(c, "unscanned"), "completed") EXCEPT !.told = "allowed"]}

PythonPostCall ==
  /\ Python
  /\ call.at = "py_post_hook"
  /\ \E c \in PythonPostCallOutcomes(call) :
       call' = IF Has(call, "audited") THEN c ELSE At(call, "done")
  /\ UNCHANGED <<config, gate, granted>>

PythonNext ==
  \/ PythonGate \/ PythonTaint \/ PythonCanary \/ PythonPii \/ PythonMultiTurn
  \/ PythonFloor \/ PythonRules \/ PythonAwaitApproval \/ PythonLayerThrows
  \/ PythonHook \/ PythonBackend \/ PythonConclude \/ PythonAnonymized \/ PythonCaller
  \/ PythonCallFails \/ PythonAnswers \/ PythonManager \/ PythonStreamEnds
  \/ PythonBuildsEvent \/ PythonPostCall
=============================================================================
