------------------------------ MODULE PostCall ------------------------------
(***************************************************************************)
(* The event of an answered call: the post-call policy on the response     *)
(* (applyPostCallPolicy and mergePostCallOutcome, integrations/core.ts)    *)
(* and the net over what is stored (policy/stored-content.ts), which runs  *)
(* before it for a value and after it for a stream.  The host gets the     *)
(* response unchanged; only the stored copy is governed.                   *)
(***************************************************************************)
EXTENDS IntegrationCall

\* What a response may hold: a view is a way to find PII.
Truths == {truth \in SUBSET Findings : "view" \in truth => "pii" \in truth}

\* scrubCanaryForStorage on the stored response: the token becomes a placeholder,
\* and a scan that fails withholds the copy.
CanaryNet(c) ==
  (IF "canary" \in c.truth /\ c.stored = "raw" THEN {[c EXCEPT !.stored = "placeholder"]} ELSE {c})
  \cup {[c EXCEPT !.stored = "unscanned"]}

\* What the post-call policy reads: the net may have taken the text away.
Seen(c) == IF c.stored = "raw" THEN c.truth ELSE {}

\* buildAuditEvent, the net last.  A build that throws leaves no event.
BuildEvent ==
  /\ call.at = "value"
  /\ \/ \E truth \in Truths :
          \E c \in CanaryNet([call EXCEPT !.truth = truth, !.stored = "raw"]) :
            call' = At(c, "post_hook")
     \/ call' = Unrecorded(call)
  /\ UNCHANGED <<config, gate, granted>>

\* wrapStreamingIterator builds its own event, without the net so far.
BuildStreamEvent ==
  /\ call.at = "drained"
  /\ \/ \E truth \in Truths :
          call' = [At(call, "post_stream_hook") EXCEPT !.truth = truth, !.stored = "raw"]
     \/ call' = Unrecorded(call)
  /\ UNCHANGED <<config, gate, granted>>

\* The event of a stream that breaks off holds what had arrived.  The post-call
\* policy skips an error event; the net does not.
StreamBreaksOff ==
  /\ Wrap
  /\ call.at = "streaming"
  /\ call' \in {Unrecorded(call)}
               \cup {Event(c, "error") : c \in UNION {CanaryNet([call EXCEPT !.truth = truth, !.stored = "raw"]) :
                                                       truth \in Truths}}
  /\ UNCHANGED <<config, gate, granted>>

PostHookAnswers == {"pass", "flag", "redact_response", "timeout"}

\* Variant: the floor is not asserted again after the hook.
DecisionWithoutFloor(seen, answer) ==
  CASE seen \cap {"pii", "canary"} # {} -> "redact_response"
    [] seen \cap {"pii", "canary"} = {} /\ answer \in {"flag", "redact_response"} -> answer
    [] OTHER -> IF seen \cap {"floor", "rule"} # {} THEN "redact_response" ELSE "pass"

\* The hook may turn a redaction of the rules into a flag; the scans that follow
\* and the floor, asserted again at the end, are beyond it.
PostDecision(seen, answer) ==
  CASE seen \cap {"pii", "canary", "floor"} # {} -> "redact_response"
    [] seen \cap {"pii", "canary", "floor"} = {} /\ answer \in {"flag", "redact_response"} -> answer
    [] OTHER -> IF "rule" \in seen THEN "redact_response" ELSE "pass"

\* redactForStorage has no spans to find in a copy the net took away.
RedactedCopy(c) ==
  CASE Seen(c) \cap {"canary", "floor", "view"} # {} -> "placeholder"
    [] c.stored # "raw" -> c.stored
    [] OTHER -> "spans"

\* mergePostCallOutcome: only a redaction replaces the stored copy.
Merge(c, decision, copy) ==
  IF decision = "redact_response" THEN [c EXCEPT !.stored = copy] ELSE c

\* responsePhaseFailureCompliance: the event says that its copy is withheld.
ResponsePhaseFailure(c) == With(c, "unscanned")

\* Any layer of the response phase may throw: the outcome is then a flag that
\* carries the unscanned marker as its copy.
PostCallOutcomes(c) ==
  {Merge(c, PostDecision(Seen(c), answer), RedactedCopy(c)) : answer \in PostHookAnswers}
  \cup {Merge(ResponsePhaseFailure(c), "flag", "unscanned")}

PostCallGovernance ==
  /\ call.at = "post_hook"
  /\ \E c \in PostCallOutcomes(call) : call' = Event(c, "completed")
  /\ UNCHANGED <<config, gate, granted>>

StreamGovernance ==
  /\ call.at = "post_stream_hook"
  /\ \E c \in UNION {CanaryNet(d) : d \in PostCallOutcomes(call)} : call' = Event(c, "completed")
  /\ UNCHANGED <<config, gate, granted>>

\* The PII half of buildIntegrationEvent's net covers the response too.
PiiNet(c) ==
  (CASE "pii" \in Seen(c) -> {[c EXCEPT !.stored = IF "view" \in c.truth THEN "placeholder" ELSE "spans"]}
     [] OTHER -> {c})
  \cup {[c EXCEPT !.stored = "unscanned"]}

BuildIntegrationEvent ==
  /\ call.at = "building"
  /\ \/ \E truth \in Truths :
          \E c \in UNION {PiiNet(d) : d \in CanaryNet([call EXCEPT !.truth = truth, !.stored = "raw"])} :
            call' = Event(c, "completed")
     \/ call' = Unrecorded(call)
  /\ UNCHANGED <<config, gate, granted>>

PostNext ==
  \/ BuildEvent \/ BuildStreamEvent \/ PostCallGovernance \/ StreamGovernance
  \/ BuildIntegrationEvent \/ StreamBreaksOff
=============================================================================
