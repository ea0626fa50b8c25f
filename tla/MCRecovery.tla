---------------------------- MODULE MCRecovery ----------------------------
(***************************************************************************)
(* Recovery with two actions.  The direct sessions are offered everything  *)
(* a rule can tell apart; behind a runtime two kinds of action suffice,    *)
(* one that is authorized at once and one that waits for approval.         *)
(***************************************************************************)
EXTENDS Recovery, TLC

CONSTANTS a1, a2
TwoActions == {a1, a2}
\* The actions are interchangeable: no property and no fairness names one.
ActionSymmetry == Permutations(TwoActions)

Context(agent, intents, target) ==
  [agent |-> agent, intents |-> intents, action |-> "listed", target |-> target,
   scopes |-> "held", classes |-> "allowed"]
Base(taken, arguments) ==
  [taken |-> taken, approval |-> "none", request |-> "none", expires |-> 0,
   arguments |-> arguments]
Fine == Context("agent", "one", "absent")
Proposal(context, base) == [context |-> context, base |-> base]

Plain == Proposal(Fine, Base("allowed", "none"))
ForApproval ==
  Proposal(Fine, [taken |-> "blocked", approval |-> "bound", request |-> "ticket",
                  expires |-> 1, arguments |-> "none"])
Other ==
  {Proposal(Context("other", "one", "absent"), Base("allowed", "none")),
   Proposal(Context("agent", "several", "absent"), Base("allowed", "none")),
   Proposal(Context("agent", "one", "listed"), Base("allowed", "none")),
   Proposal(Fine, Base("blocked", "none")),
   Proposal(Fine, Base("not_evaluated", "none")),
   Proposal(Fine, Base("redacted", "unproven")),
   Proposal(Fine, Base("redacted", "changed")),
   Proposal(Fine, [Base("blocked", "none") EXCEPT !.approval = "partial"])}
MCProposals ==
  [channel \in {"direct", "runtime"} |->
     IF channel = "direct" THEN {Plain, ForApproval} \cup Other ELSE {Plain, ForApproval}]

Rule(targets, denyAfter, maxPrior) ==
  [targets |-> targets, denyAfter |-> denyAfter, maxPrior |-> maxPrior]
Setup(profile, channel, rule) == [profile |-> profile, channel |-> channel, rule |-> rule]
MCSetups ==
  {Setup("1.0", "direct", Rule(FALSE, {"STEP_UP"}, 1)),
   Setup("1.0", "runtime", Rule(FALSE, {"DENY"}, 2)),
   Setup("2.0", "runtime", Rule(FALSE, {"DENY"}, 2))}
MCClock == {0, 1}
MCMaxSigned == [channel \in {"direct", "runtime"} |-> IF channel = "direct" THEN 3 ELSE 2]
=============================================================================
