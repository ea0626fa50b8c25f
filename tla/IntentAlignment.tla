--------------------------- MODULE IntentAlignment ---------------------------
(***************************************************************************)
(* The outcome a strict receipt records: what the policy pipeline found,   *)
(* held against the intent the agent declared                              *)
(* (policy/intent-alignment.ts and intent-alignment-v2.ts, on the context  *)
(* of governance/action-context.ts and action-context-v2.ts).              *)
(*                                                                         *)
(* A context keeps what a rule can tell apart: whether one declared intent *)
(* is active, whether the action, its target, the scopes it asks for and   *)
(* its data classes are the rule's, and whether the agent holds the        *)
(* scopes.  `prior` is the standing outcome of every earlier action of the *)
(* session, oldest first.  Both profiles evaluate alike.                   *)
(***************************************************************************)
EXTENDS Naturals, Sequences

FinalOutcomes == {"ALLOW", "DENY", "MODIFY"}
AlignmentOutcomes == FinalOutcomes \cup {"STEP_UP", "DEFER"}
Grants(outcome) == outcome \in {"ALLOW", "MODIFY"}

ActionContexts ==
  [agent : {"agent", "other"}, intents : {"one", "several", "undeclared"},
   action : {"listed", "unlisted"}, target : {"absent", "listed", "unlisted"},
   scopes : {"held", "unheld", "outside"}, classes : {"allowed", "outside"}]

\* normalizedBaseResult: approval fields only on a block that asks for
\* approval, modified arguments only on a redaction.  A partial approval
\* names no request, action or expiry.
BaseResults(requests, times) ==
  {base \in [taken : {"allowed", "blocked", "redacted", "not_evaluated"},
             approval : {"none", "partial", "bound"}, request : requests \cup {"none"},
             expires : times, arguments : {"none", "unproven", "changed"}] :
     /\ base.approval # "none" => base.taken = "blocked"
     /\ base.approval = "bound" <=> base.request # "none"
     /\ base.arguments # "none" => base.taken = "redacted"}

\* intentScope: the one scope a declared intent has in the policy.
IntentRules ==
  [targets : BOOLEAN, denyAfter : SUBSET AlignmentOutcomes, maxPrior : Nat]

----------------------------------------------------------------------------
(* evaluateIntentAlignment: the first layer that speaks decides.           *)

Silent == [outcome |-> "none", required |-> {}]
Says(outcome) == [outcome |-> outcome, required |-> {}]
DefersFor(fields) == [outcome |-> "DEFER", required |-> fields]

BaseLayer(base) ==
  CASE base.taken = "blocked" /\ base.approval = "none" -> Says("DENY")
    [] base.taken = "not_evaluated" -> DefersFor({"policy_evaluation"})
    [] OTHER -> Silent

IntentLayer(context) ==
  CASE context.intents = "several"    -> DefersFor({"active_intents"})
    [] context.intents = "undeclared" -> DefersFor({"intent_policy"})
    [] OTHER -> Silent

ScopeLayer(rule, context) ==
  LET targeted == context.target = "listed" /\ rule.targets
      untargeted == context.target = "absent" /\ ~rule.targets
  IN  CASE context.action = "unlisted" -> Says("DENY")
        [] context.target = "absent" /\ rule.targets -> DefersFor({"action.target"})
        [] ~targeted /\ ~untargeted -> Says("DENY")
        [] context.scopes # "held" \/ context.classes = "outside" -> Says("DENY")
        [] OTHER -> Silent

\* Variant: the limit on prior actions is not consulted.
UnlimitedHistory(rule, prior) ==
  IF \E i \in DOMAIN prior : prior[i].outcome \in rule.denyAfter
    THEN Says("DENY") ELSE Silent

HistoryLayer(rule, prior) ==
  IF \/ \E i \in DOMAIN prior : prior[i].outcome \in rule.denyAfter
     \/ Len(prior) > rule.maxPrior
    THEN Says("DENY")
    ELSE Silent

OutcomeLayer(base) ==
  CASE base.approval = "bound"   -> Says("STEP_UP")
    [] base.approval = "partial" -> DefersFor({"approval_binding"})
    [] base.taken = "redacted" /\ base.arguments # "changed" ->
         DefersFor({"modified_arguments_hash"})
    [] base.taken = "redacted" -> Says("MODIFY")
    [] OTHER -> Says("ALLOW")

AlignedOutcome(rule, prior, context, base) ==
  LET layers == <<BaseLayer(base), IntentLayer(context), ScopeLayer(rule, context),
                  HistoryLayer(rule, prior), OutcomeLayer(base)>>
      first == CHOOSE i \in DOMAIN layers :
                 /\ layers[i] # Silent
                 /\ \A j \in 1..(i - 1) : layers[j] = Silent
  IN  layers[first]
=============================================================================
