--------------------------- MODULE GovernedCalls ---------------------------
(***************************************************************************)
(* The composition: calls on every surface, the environment they meet, and *)
(* what governance promises of them.                                       *)
(***************************************************************************)
EXTENDS PythonCall, GovernanceEvaluate

Next ==
  \/ EnvironmentMoves
  \/ WrapNext
  \/ IntegrationNext
  \/ PythonNext
  \/ EvaluateNext
  \/ PostNext
  \/ NextCall

Spec == Init /\ [][Next]_vars

TypeOK ==
  /\ config \in [failClosed : BOOLEAN, monitor : BOOLEAN]
  /\ gate \in BOOLEAN
  /\ granted \in BOOLEAN
  /\ call.surface \in Surfaces
  /\ call.action \in Actions
  /\ call.reason \in Reasons
  /\ call.marks \subseteq Marks
  /\ call.refusals \subseteq Layers
  /\ call.outbound \in {"raw", "redacted", "partial"}
  /\ call.event \in {"none", "blocked", "error", "completed"}
  /\ call.told \in Actions \cup {"none", "would_block"}
  /\ call.truth \subseteq Findings
  /\ call.stored \in StoredCopies

Sent == call.at = "sent"

\* A refusal of any layer stands to the end: the call goes out only if monitor
\* mode converted the verdict, a hook's redaction took its place, or an
\* integration's or the Python SDK's guard, failing open before the layers were
\* through, gave a verdict of its own; and the last happens to the gate and the
\* principal only.
RefusalStands ==
  Sent /\ call.refusals # {} =>
    \/ config.monitor /\ Has(call, "converted")
    \/ Has(call, "weakened")
    \/ /\ Has(call, "abandoned")
       /\ ~config.failClosed
       /\ call.surface \in {"integration", "python"}
       /\ call.refusals \subseteq {"gate", "principal"}

\* What holds at the moment of sending.  A canary leak is never sent, a layer that
\* failed closed only under a hook's redaction, a floor block only in monitor mode, and
\* no converted verdict while the gate is closed.  A call that an approval grant let
\* through goes out under a live grant, or is converted: evaluate() does not look
\* again, and an integration may still await the anonymizer.
SendStands ==
  [][call.at # "sent" /\ call'.at = "sent" =>
       /\ ~Has(call', "canary")
       /\ Has(call', "failedClosed") => Has(call', "weakened")
       /\ Has(call', "floor") => Has(call', "converted")
       /\ Has(call', "converted") => ~gate
       /\ Has(call', "degraded") => Has(call', "abandoned")
       /\ Has(call', "claim") /\ call'.surface # "evaluate" /\ call'.action # "redacted" =>
            granted \/ Has(call', "converted")]_vars

\* A call the record calls redacted went out redacted, and a redaction that was
\* left half done goes out in monitor mode only.
CallRedaction ==
  Sent => /\ call.action = "redacted" => call.outbound = "redacted"
          /\ call.outbound = "partial" => Has(call, "converted")

\* Whatever enforcement did is on the record: a call that was refused, redacted,
\* converted or lost a detector leaves an event, unless it streamed past the
\* recorder or building its event failed, and Python even records a mere finding.
\* The integrations sample a lost detector and a hook without a verdict away, and a
\* throw inside evaluate() leaves none.  The event tells the verdict the call went by,
\* unless the response phase of the Python SDK lost a detector and wrote over it.
CallOnRecord ==
  /\ call.event # "none" =>
       \/ call.told = IF Has(call, "converted") THEN "would_block" ELSE call.action
       \/ call.surface = "python" /\ Has(call, "unscanned")
  /\ call.at = "done" /\ call.event = "none" /\ ~Has(call, "unrecorded") =>
    \/ /\ call.action = "allowed" /\ call.refusals = {} /\ ~Has(call, "failureSeen")
       /\ call.surface = "python" => call.reason = "none"
    \/ /\ call.surface = "integration"
       /\ ~Blocked(call) /\ call.action # "redacted"
       /\ Has(call, "failureSeen") \/ call.action # "allowed"
    \/ call.surface = "evaluate" /\ Has(call, "failureSeen")

\* Under deny_wins one rule that refuses is enough, wherever it stands in the
\* list, unless an approval of another rule lifted the verdict.
StrongestRulePrevails ==
  Sent /\ Has(call, "ruledOut") =>
    call.marks \cap {"converted", "weakened", "abandoned", "approved"} # {}

\* The stored copy: never a canary, even of an answer that broke off; of a whole
\* answer never what the floor matched on a wrapped client, never PII that policy
\* acts on, and never spans where only a view found it.  Python's nets hold PII back
\* from the record of a broken answer and of one no scan was run on, too.
CallStored ==
  call.event \in {"error", "completed"} /\ call.surface # "evaluate" =>
    /\ "canary" \in call.truth => call.stored \in {"placeholder", "unscanned"}
    /\ "pii" \in call.truth /\ call.surface = "python" => call.stored # "raw"
    /\ call.event = "completed" /\ ~Has(call, "unscanned") =>
         /\ "floor" \in call.truth /\ call.surface \in {"wrap", "python"} => call.stored \in {"placeholder", "unscanned"}
         /\ "pii" \in call.truth => call.stored # "raw"
         /\ "view" \in call.truth => call.stored \in {"placeholder", "unscanned"}

\* "No hook result, including an explicit allow verdict, can weaken an earlier
\* enforcement decision" (failure-dispositions.ts).
Strength(c) == CASE Blocked(c) -> 2 [] c.action = "redacted" -> 1 [] OTHER -> 0

HookNeverWeakens ==
  [][call.at = "hook" /\ call'.at = "external_backend" => Strength(call') >= Strength(call)]_vars

\* "response delivered unchanged, stored copy withheld" (detector-guard.ts).
UnscannedWithheld ==
  call.event = "completed" /\ Has(call, "unscanned") => call.stored # "raw"
=============================================================================
