--------------------------- MODULE AuditEvidence ---------------------------
(***************************************************************************)
(* The sender composed with the verifier: what obsvr-verify concludes from *)
(* the events the ingest service ended up with.  All the damage there is   *)
(* comes from the sender's own losses, so nothing is forged here; the      *)
(* question is whether the gap markers let the verdict tell how much is    *)
(* missing (proxy/audit-gap.ts, governance/verify-chain.ts).               *)
(***************************************************************************)
EXTENDS AuditSender

\* A recorded event as the verifier reads it.
Exported(e) ==
  [sdk_session_id |-> e.sdk_session_id, seq_no |-> e.seq_no, timestamp_sdk |-> 0,
   prompt |-> IF IsGapMarker(e) THEN <<0, e.gap>> ELSE <<1>>, response |-> <<>>,
   verdict |-> "allowed", class |-> IF IsGapMarker(e) THEN "audit.gap" ELSE "llm_call",
   lineage |-> "none", prev_sig |-> e.prev_sig, sdk_sig |-> e.sdk_sig,
   chain_format |-> 5, device_key_id |-> "none", device_sig |-> 0]

\* No session id and no signature of the sender's contains a separator.
OnePart(text) == <<<<"text", text>>>>

\* Only events the sender signed exist, each under the number it was signed by:
\* the second and third part of the preimage.
SigOf(payload) ==
  LET signedAs(e) == [session |-> e.sdk_session_id, seq |-> e.seq_no]
      e == CHOOSE r \in recorded : signedAs(r) = [session |-> payload[2][2], seq |-> payload[3][2]]
  IN e.sdk_sig

Cli == INSTANCE CliVerify WITH Hmac <- SigOf, allowGaps <- FALSE, PartsOf <- OnePart

\* The export of everything the ingest service holds.
Bundle ==
  LET order == Cli!Ranked(recorded, LAMBDA a, b : a.sdk_sig < b.sdk_sig)
  IN [i \in DOMAIN order |-> Exported(order[i])]

\* obsvr-verify --api-key on the export.
Verdict == Cli!KeyedReport(Bundle, [keyed |-> TRUE, pinned |-> {}])

\* Everything has settled and no overflow is waiting for its marker.
AtRest == phase = "idle" /\ gapPendingCount = 0

MarkersLost == \E e \in lost \cup unread : IsGapMarker(e) /\ e \notin recorded

\* Events of the application that were refused in a response nobody could read.
RefusedUnseen == Cardinality({e \in unread : ~IsGapMarker(e)})

RecordedAppEvents == Cardinality({e \in recorded : ~IsGapMarker(e)})

----------------------------------------------------------------------------

\* Exit code 0 of the keyed tier at rest means the record is complete: every
\* event the application offered is in it, unless a marker itself was lost.
\* Short of it are only the events refused in a response the sender could not
\* read, which it took for delivered.
CleanMeansComplete ==
  AtRest /\ ~MarkersLost /\ Verdict.exitCode = 0
    => RecordedAppEvents + RefusedUnseen = offered

\* Exit code 3 never understates the loss: what is missing was declared, or
\* refused in a response the sender could not read.
IncompleteIsDeclared ==
  AtRest /\ ~MarkersLost /\ Verdict.valid
    => RecordedAppEvents + Verdict.eventsDeclaredLost + RefusedUnseen >= offered

\* While nothing signed was lost or refused unseen, the chain verifies: overflow
\* alone, retries and re-deliveries leave no hole and no fork in it.
OverflowKeepsChain == AtRest /\ lost \cup unread = {} => Verdict.valid

\* The loss of the first event of a session is detected by the keyed tier.
HeadLossDetected ==
  AtRest /\ Verdict.valid => Cli!StructuralReport(Bundle).valid
=============================================================================
