---------------------------- MODULE GovernedCall ----------------------------
(***************************************************************************)
(* What the surfaces that govern a call have in common: the client wrapper *)
(* (proxy/wrapper.ts), the framework integrations (integrations/core.ts),  *)
(* evaluate() (governance/evaluate.ts) and the Python SDK (policy.py and   *)
(* wrap.py).  A call walks through layers; each layer is a set of possible *)
(* results, because what a detector finds in a text is an input.           *)
(*                                                                         *)
(* The environment moves while a call awaits a sidecar, an approval, a     *)
(* hook, a policy backend or the provider: the integrity gate opens or     *)
(* closes and the approval grant comes or goes (module PolicySync).        *)
(***************************************************************************)
EXTENDS PolicyRules

CONSTANTS
  Surfaces,    \* the surfaces calls are made on
  RuleLists,   \* lists of rules as they may come to on a text
  FloorLists   \* the same for the policy floor

ASSUME GovernedCallAssumption ==
  /\ Surfaces \subseteq {"wrap", "integration", "evaluate", "python"}
  /\ RuleLists \cup FloorLists \subseteq Seq([id : Nat, does : Does])

VARIABLES
  config,    \* failMode = "closed", enforcementMode = "monitor"
  gate,      \* isPolicyEnforcementDegraded(config) at this moment
  granted,   \* hasApproval of the claim at this moment
  call       \* the call

vars == <<config, gate, granted, call>>

Actions == {"allowed", "blocked", "redacted", "hook_timeout", "hook_error"}
Reasons == {"none", "pii_detected", "policy_violation"}

\* What a call carries besides its verdict.  degraded, via, canary, floor,
\* failedClosed, failureSeen, claim and audited are variables of the code;
\* the others record what became of a verdict, for the properties.
Marks == {"degraded", "via", "canary", "floor", "failedClosed", "failureSeen", "claim",
          "audited", "converted", "weakened", "abandoned", "approved", "ruledOut",
          "unrecorded", "unscanned"}

Layers == {"gate", "principal", "session_taint", "canary", "builtin_pii_scan",
           "multi_turn_injection", "policy_floor", "policy_rules", "hook",
           "external_backend", "approval", "redaction", "detector"}

Fresh(surface) ==
  [surface |-> surface, at |-> "gate", action |-> "allowed", reason |-> "none",
   marks |-> {}, refusals |-> {}, outbound |-> "raw",
   event |-> "none", told |-> "none", truth |-> {}, stored |-> "none"]

Blocked(c) == c.action = "blocked"
Has(c, mark) == mark \in c.marks
With(c, mark) == [c EXCEPT !.marks = @ \cup {mark}]
At(c, place) == [c EXCEPT !.at = place]

\* The verdict an event tells of; one that monitor mode converted rides along as
\* shadow_outcome.
Told(c) == IF Has(c, "converted") THEN "would_block" ELSE c.action
Record(c, kind) == [c EXCEPT !.event = kind, !.told = Told(c)]
Event(c, kind) == At(Record(c, kind), "done")

Block(c, layer) ==
  [c EXCEPT !.action = "blocked", !.reason = "policy_violation", !.refusals = @ \cup {layer}]

Init ==
  /\ config \in [failClosed : BOOLEAN, monitor : BOOLEAN]
  /\ gate \in BOOLEAN
  /\ granted \in BOOLEAN
  /\ call \in {Fresh(surface) : surface \in Surfaces}

\* The call leaves its place with one of the results.
Step(place, next, results) ==
  /\ call.at = place
  /\ \E c \in results : call' = At(c, next)
  /\ UNCHANGED <<config, gate, granted>>

AwaitPlaces == {"gate", "builtin_pii_scan", "holding", "hook", "external_backend",
                "anonymizer", "sent", "streaming", "post_hook", "py_manager", "py_streaming", "py_post_hook"}

EnvironmentMoves ==
  /\ call.at \in AwaitPlaces
  /\ \/ gate' = ~gate /\ UNCHANGED granted
     \/ granted' = ~granted /\ UNCHANGED gate
  /\ UNCHANGED <<config, call>>

----------------------------------------------------------------------------
(* The layers.                                                             *)

\* The integrity gate, read once at the start of a call.
IntegrityGate(c) == IF gate THEN With(Block(c, "gate"), "degraded") ELSE c

\* Variant: a layer's verdict takes the place of the one before.
MayRefuseAnew(c, layer) == {[c EXCEPT !.action = "allowed"], Block(c, layer)}

\* A layer that may refuse a call that is not refused yet.
MayRefuse(c, layer) == IF Blocked(c) THEN {c} ELSE {c, Block(c, layer)}

\* A canary in the text.  A hook cannot lift this block, nor monitor mode convert it.
Canary(c) == IF Blocked(c) THEN {c} ELSE {c, With(Block(c, "canary"), "canary")}

\* What a content scan comes to under pii_policy; a hit that only a decoded view
\* shows cannot be redacted and is refused instead.
ScanVerdicts == {"clean", "detect_only", "redact", "block"}
Found(c, via) == [c EXCEPT !.reason = "pii_detected",
                           !.marks = IF via THEN @ \cup {"via"} ELSE @]
PiiBlock(c) == [Block(c, "builtin_pii_scan") EXCEPT !.reason = "pii_detected"]

\* The floor: a redact of the floor is a block too.
Floor(c) ==
  IF Blocked(c) THEN {c}
  ELSE {IF EvaluateFloor(rules, granted).decision = "allow" THEN c
        ELSE With(Block(c, "policy_floor"), "floor") : rules \in FloorLists}

\* recordDetectorFailure: closed for the floor class, for a malformed rule, and
\* under failMode closed.
FailsClosed(layer, malformed) ==
  \/ layer \in {"policy_floor", "canary"}
  \/ malformed
  \/ config.failClosed

\* What the hook answers, and when it is asked at all.
HookAnswers == {"allow", "block", "redact", "timeout", "throws"}
Triggers == {"never", "always", "on_pii", "on_block"}
ShouldRunHook(c, trigger) ==
  /\ ~Has(c, "degraded")
  /\ \/ trigger = "always"
     \/ trigger = "on_pii" /\ c.reason = "pii_detected"
     \/ trigger = "on_block" /\ Blocked(c)

HookBlocks(answer) ==
  answer = "block" \/ (answer \in {"timeout", "throws"} /\ config.failClosed)

HookRedacts(c, answer) ==
  answer = "redact" /\ c.action # "redacted" /\ ~Has(c, "canary") /\ ~Has(c, "floor")

\* The redaction a hook asks for takes the place of whatever stood before.
RedactedByHook(c) ==
  LET d == IF Blocked(c) THEN With(c, "weakened") ELSE c
  IN [d EXCEPT !.action = "redacted", !.reason = "policy_violation"]

\* What asking the customer's policy engine comes to (evaluateExternalBackend).
\* A refused address, a failed request and a body that is no verdict are errors.
BackendAnswers == {"allow", "deny", "error", "timeout"}

\* mergeExternalBackendDecision: all but an allow deny, unless the engine observes.
MergeBackend(c, answer, shadow) ==
  IF answer # "allow" /\ ~shadow THEN Block(c, "external_backend") ELSE c

\* runExternalBackendStep.  A refused call does not ask, nor one without an engine.
BackendResults(c) ==
  IF Blocked(c) THEN {c}
  ELSE {c} \cup {MergeBackend(c, answer, shadow) : answer \in BackendAnswers, shadow \in BOOLEAN}

\* Variant: the grant is not looked at again.
RevalidateNothing(c) == c

\* revalidateApproval, after every layer that can delay the call.
Revalidate(c) ==
  IF Has(c, "claim") /\ ~Blocked(c) /\ ~granted THEN Block(c, "approval") ELSE c

\* Variant: the gate is judged by the snapshot taken at the start of the call.
MonitorConvertsBySnapshot(c) == config.monitor /\ ~Has(c, "degraded")

\* monitorConversionApplies, which derives the gate again.
MonitorConversionApplies(c) == config.monitor /\ ~Has(c, "degraded") /\ ~gate

\* Monitor mode turns a verdict into an allow; a canary leak and a layer that
\* could not run are no verdicts.
Convert(c) ==
  IF Blocked(c) /\ ~Has(c, "canary") /\ ~Has(c, "failedClosed") /\ MonitorConversionApplies(c)
    THEN With([c EXCEPT !.action = "allowed"], "converted") ELSE c

\* The stored copy is governed by what the text holds.
Findings == {"floor", "rule", "pii", "view", "canary"}
StoredCopies == {"none", "raw", "spans", "placeholder", "unscanned"}

\* The caller is done and may make another call.
NextCall ==
  /\ call.at = "done" \/ (call.surface = "evaluate" /\ call.at = "sent")
  /\ \E surface \in Surfaces : call' = Fresh(surface)
  /\ UNCHANGED <<config, gate, granted>>
=============================================================================
