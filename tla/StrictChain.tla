----------------------------- MODULE StrictChain -----------------------------
(***************************************************************************)
(* What a strict receipt may say (governance/strict-receipt.ts, and        *)
(* strict-receipt-v2.ts, which builds on it) and what an auditor accepts:  *)
(* verifyStrictReceiptChain of strict-receipt-verify.ts and                *)
(* verifyStrictReceiptV2Chain of strict-receipt-v2-verify.ts.              *)
(*                                                                         *)
(* A receipt is known by its hash, which is its position in `signed`: the  *)
(* same body signed again is the same receipt.  0 is no receipt.  The      *)
(* fields that are hashes of others, the key and its encoding are left     *)
(* out: one device signs, and the auditor pins its key.                    *)
(***************************************************************************)
EXTENDS IntentAlignment, FiniteSets

Suspends(receipt) == receipt.record = "decision" /\ receipt.outcome \in {"STEP_UP", "DEFER"}
Resolves(receipt) == receipt.record = "resolution"

\* The head of buildStrictReceiptBody: a genesis has no predecessor and any
\* other receipt has one.
HeadFits(receipt) == receipt.seq = 1 <=> receipt.prev = 0

\* MODIFY names other arguments than the action was proposed with.
EvaluationFits(receipt) ==
  receipt.outcome = "MODIFY" => receipt.input.base.arguments = "changed"

SuspensionFits(receipt) ==
  Suspends(receipt) =>
    /\ receipt.expires >= receipt.time
    /\ receipt.outcome = "STEP_UP" => receipt.required = {}
    /\ receipt.outcome = "DEFER" => receipt.required # {} /\ receipt.request = "none"

ResolutionFits(receipt) ==
  Resolves(receipt) =>
    /\ receipt.outcome \in FinalOutcomes
    /\ receipt.method \in {"approval_denied", "expired", "cancelled"} => receipt.outcome = "DENY"

\* buildStrictReceiptBody: signStrictReceipt signs nothing else.
WellFormed(receipt) ==
  HeadFits(receipt) /\ EvaluationFits(receipt) /\ SuspensionFits(receipt)
  /\ ResolutionFits(receipt)

\* sameAction: a resolution is about the action that was suspended.
SameAction(left, right) ==
  /\ left.action = right.action
  /\ left.input.context.action = right.input.context.action
  /\ left.input.context.target = right.input.context.target

\* compatibleResolution.
MethodFits(prior, method) ==
  \/ method \in {"expired", "cancelled"}
  \/ method \in {"approval_granted", "approval_denied"} /\ prior.outcome = "STEP_UP"
  \/ method = "context_supplied" /\ prior.outcome = "DEFER"

\* compatibleResolutionOutcome, of profile 2.0.
OutcomeFits(method, outcome) ==
  CASE method \in {"approval_denied", "expired", "cancelled"} -> outcome = "DENY"
    [] method = "approval_granted" -> Grants(outcome)
    [] OTHER -> outcome \in FinalOutcomes

\* The time of a resolution against its suspension: profile 2.0 grants only
\* before the expiry and expires only from it on, profile 1.0 lets a grant
\* happen at the expiry and takes an expiry at any time.
TimeFits(profile, prior, resolution) ==
  /\ resolution.time >= prior.time
  /\ resolution.method \in {"approval_granted", "context_supplied"} =>
       IF profile = "2.0" THEN resolution.time < prior.expires
                          ELSE resolution.time <= prior.expires
  /\ profile = "2.0" /\ resolution.method = "expired" => resolution.time >= prior.expires

ResolutionStands(profile, signed, chain, i) ==
  LET resolution == signed[chain[i]]
  IN  /\ \A j \in 1..(i - 1) : ~( /\ Resolves(signed[chain[j]])
                                  /\ signed[chain[j]].resolves = resolution.resolves)
      /\ \E j \in 1..(i - 1) :
           LET prior == signed[chain[j]]
           IN  /\ chain[j] = resolution.resolves
               /\ Suspends(prior)
               /\ MethodFits(prior, resolution.method)
               /\ profile = "2.0" => OutcomeFits(resolution.method, resolution.outcome)
               /\ TimeFits(profile, prior, resolution)
               /\ SameAction(prior, resolution)
               /\ prior.input.context.agent = resolution.input.context.agent

\* What a receipt has to be to those before it.
Continues(profile, signed, chain, i) ==
  LET receipt == signed[chain[i]]
      first == signed[chain[1]]
  IN  /\ receipt.seq = i
      /\ receipt.session = first.session
      /\ profile = "2.0" => /\ receipt.input.context.agent = first.input.context.agent
                            /\ \A j \in 1..(i - 1) : chain[j] # chain[i]
      /\ i > 1 => /\ receipt.prev = chain[i - 1]
                  /\ receipt.time >= signed[chain[i - 1]].time

\* verifyStrictReceiptChain, verifyStrictReceiptV2Chain: no error is reported.
ChainVerifies(profile, signed, chain) ==
  /\ chain # <<>>
  /\ \A i \in DOMAIN chain :
       /\ WellFormed(signed[chain[i]])
       /\ Continues(profile, signed, chain, i)
       /\ Resolves(signed[chain[i]]) => ResolutionStands(profile, signed, chain, i)
=============================================================================
