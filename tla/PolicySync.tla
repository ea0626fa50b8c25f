----------------------------- MODULE PolicySync -----------------------------
(***************************************************************************)
(* Policy synchronisation of the TypeScript SDK: pollPoliciesOnce with the *)
(* kill switch and the staleness budget (proxy/config.ts), the approval    *)
(* store and the blocking wait on it (policy/approvals.ts), the escrow     *)
(* share of a fleet quota (governance/escrow.ts), and one call that needs  *)
(* an approval.                                                            *)
(*                                                                         *)
(* Polls overlap: the interval timer starts one whether or not the last    *)
(* has answered, and a held call starts its own.  Each is answered from    *)
(* the state of the policy service at some moment, and the answers are     *)
(* applied in any order.  Time is the passing of deadlines: a grant may    *)
(* expire, the staleness budget run out, or the hold's deadline pass, at   *)
(* any moment.                                                             *)
(***************************************************************************)
EXTENDS Naturals, FiniteSets

CONSTANTS
  Configs,      \* the configurations of the SDK and the rule in play
  TimerPolls,   \* how many polls of the interval timer may be outstanding
  Share,        \* units in one escrow grant
  MaxIssued,    \* bound on what the policy service publishes
  MaxEpoch      \* bound on the escrow epochs it hands out

Config == [failClosed : BOOLEAN, pinned : BOOLEAN, rule : {"approval", "quota"}]

ASSUME PolicySyncAssumption ==
  /\ Configs \subseteq Config
  /\ Share \in Nat \ {0}
  /\ MaxIssued \in Nat \ {0}
  /\ MaxEpoch \in Nat \ {0}
  /\ "hold" \notin TimerPolls

VARIABLES
  config,     \* failMode = "closed", whether a policy key is pinned, and the
              \* one rule in play: a require_approval rule or an escrowed quota
  server,     \* the policy service: issued, ruleVersion, grants, paused, epoch
  published,  \* what it has published: issued -> [rules, grants]
  polls,      \* outstanding polls
  policy,     \* policySync, policyRules and the grant store of the SDK; the
              \* failure counters of policySync decide nothing and are left out;
              \* "outlived" is history: the answer applied last left approvals
              \* out, and the grants in force are not those of its issue
  escrow,     \* the rule's escrow grant, or NoEscrow
  expired,    \* ids of the grants whose expires_at has passed
  hold,       \* the call that needs an approval
  spent,      \* history: units spent under each epoch
  withdrawn   \* history: epochs in force when the service withdrew escrow

client == <<policy, escrow, hold>>
vars == <<config, server, published, polls, policy, escrow, expired, hold, spent, withdrawn>>

PollIds == TimerPolls \cup {"hold"}
Issues == 0..MaxIssued
Epochs == 1..MaxEpoch
NoHash == 0      \* a grant without rule_hash names no definition of its rule
Grant == [id : Issues, ruleHash : Issues]
NoEscrow == [epoch |-> 0, remaining |-> 0, consumed |-> 0]
NoReport == [epoch |-> 0, consumed |-> 0]
EscrowGrant == [epoch : 0..MaxEpoch, remaining : 0..Share, consumed : 0..Share]

Snapshot == [rules : Issues, grants : SUBSET Grant]
PolicyStore == [rules : Issues, grants : SUBSET Grant, outlived : BOOLEAN,
                appliedIssued : Issues, disabled : BOOLEAN, stale : BOOLEAN]
Idle == [at |-> "idle"]
Answer == [kind : {"unauthorized", "policies"}, issued : 1..MaxIssued, epoch : 0..MaxEpoch]
Poll == {Idle}
        \cup [at : {"sent"}, report : [epoch : 0..MaxEpoch, consumed : 0..Share]]
        \cup [at : {"answered"}, answer : Answer]

\* A call no longer held, or not yet: its claim and its deadline are gone.
NotHeld(at) == [at |-> at, ruleHash |-> NoHash, deadlinePassed |-> FALSE]

Init ==
  /\ config \in Configs
  /\ server = [issued |-> 1, ruleVersion |-> 1, grants |-> {}, paused |-> FALSE,
               escrowed |-> FALSE, epoch |-> 0]
  /\ published = [i \in {1} |-> [rules |-> 1, grants |-> {}]]
  /\ polls = [p \in PollIds |-> Idle]
  /\ policy = [rules |-> 0, grants |-> {}, outlived |-> FALSE, appliedIssued |-> 0,
               disabled |-> FALSE, stale |-> FALSE]
  /\ escrow = NoEscrow
  /\ expired = {}
  /\ hold = NotHeld("idle")
  /\ spent = [e \in Epochs |-> 0]
  /\ withdrawn = {}

----------------------------------------------------------------------------
(* The policy service, as the SDK sees it.                                 *)

\* It publishes a change under the next issued_at.
Publish(rules, grants) ==
  /\ server.issued < MaxIssued
  /\ server' = [server EXCEPT !.issued = @ + 1, !.ruleVersion = rules, !.grants = grants]
  /\ published' = [i \in 1..server.issued + 1 |->
                     IF i = server.issued + 1 THEN [rules |-> rules, grants |-> grants]
                                              ELSE published[i]]

EditRule == Publish(server.issued + 1, server.grants)
\* A grant is minted for the rule as it is defined, or for no definition of it.
Approve ==
  /\ config.rule = "approval"
  /\ \E hash \in {server.ruleVersion, NoHash} :
       Publish(server.ruleVersion,
               server.grants \cup {[id |-> server.issued + 1, ruleHash |-> hash]})
Revoke == \E g \in server.grants : Publish(server.ruleVersion, server.grants \ {g})

Withdraw(paused, escrowed) ==
  /\ server.issued < MaxIssued
  /\ server' = [server EXCEPT !.issued = @ + 1, !.paused = paused, !.escrowed = escrowed]
  /\ published' = [i \in 1..server.issued + 1 |->
                     IF i = server.issued + 1 THEN published[server.issued] ELSE published[i]]
PauseOrResume == Withdraw(~server.paused, server.escrowed)
ChangeEscrow == config.rule = "quota" /\ Withdraw(server.paused, ~server.escrowed)

ServerChanges ==
  /\ EditRule \/ Approve \/ Revoke \/ PauseOrResume \/ ChangeEscrow
  /\ UNCHANGED <<config, polls, client, expired, spent, withdrawn>>

\* A report against the current epoch is reconciled and a fresh epoch granted;
\* any other report is ignored and the current grant repeated.
NextEpoch(report) ==
  IF report.epoch = server.epoch /\ server.epoch < MaxEpoch
    THEN server.epoch + 1 ELSE server.epoch

\* A paused project, or a revoked key, is answered 401 or 403.
Serve(p) ==
  /\ polls[p].at = "sent"
  /\ LET epoch == IF server.escrowed THEN NextEpoch(polls[p].report) ELSE 0
         answer == [kind |-> IF server.paused THEN "unauthorized" ELSE "policies",
                    issued |-> server.issued,
                    epoch |-> IF server.paused THEN 0 ELSE epoch]
     IN /\ polls' = [polls EXCEPT ![p] = [at |-> "answered", answer |-> answer]]
        /\ server' = [server EXCEPT !.epoch = IF answer.epoch > 0 THEN epoch ELSE @]
  /\ UNCHANGED <<config, published, client, expired, spent, withdrawn>>

----------------------------------------------------------------------------
(* pollPoliciesOnce.                                                       *)

\* The consumption report is taken just before the request goes out.
SnapshotConsumption == [epoch |-> escrow.epoch, consumed |-> escrow.consumed]

Sent == [at |-> "sent", report |-> SnapshotConsumption]

StartTimerPoll ==
  /\ \E p \in TimerPolls : /\ polls[p] = Idle
                           /\ polls' = [polls EXCEPT ![p] = Sent]
  /\ UNCHANGED <<config, server, published, client, expired, spent, withdrawn>>

Done(p) == polls' = [polls EXCEPT ![p] = Idle]

\* Every failure leaves the last good policy in force, and its age growing.
PollFails(p) == Done(p) /\ UNCHANGED <<policy, escrow, withdrawn>>

\* No answer within config.timeout, a broken connection, a status that is not
\* ok, a body cut short or of the wrong shape.
FetchFails(p) ==
  /\ polls[p] # Idle
  /\ PollFails(p)
  /\ UNCHANGED <<config, server, published, expired, hold, spent>>

\* Variant: the issue of the last applied policy is not compared.
VerifyPolicySignatureOnly(answer, signed, carried) ==
  signed /\ (carried \/ published[answer.issued].grants = {})

\* verifyPolicySignature: signed, and not older than the last applied policy.
\* Approvals the answer leaves out are verified as an empty list of them.
VerifyPolicySignature(answer, signed, carried) ==
  /\ signed
  /\ carried \/ published[answer.issued].grants = {}
  /\ answer.issued >= policy.appliedIssued

\* Variant: an epoch already in force is applied again.
ApplyEscrowGrantAgain(epoch) ==
  IF epoch < escrow.epoch THEN escrow
  ELSE [epoch |-> epoch, remaining |-> Share, consumed |-> 0]

\* applyEscrowGrant: an epoch that does not exceed the current one is stale.
ApplyEscrowGrant(epoch) ==
  IF epoch <= escrow.epoch THEN escrow
  ELSE [epoch |-> epoch, remaining |-> Share, consumed |-> 0]

\* applyEscrowResponse: a rule absent from the map has no escrow.
ApplyEscrowResponse(epoch) ==
  IF epoch = 0
    THEN /\ escrow' = NoEscrow
         /\ withdrawn' = withdrawn \cup ({escrow.epoch} \ {0})
    ELSE /\ escrow' = ApplyEscrowGrant(epoch)
         /\ UNCHANGED withdrawn

\* Variant: rules are taken over before the signature is looked at.
RefuseSignatureLate(p) ==
  /\ Done(p)
  /\ policy' = [policy EXCEPT !.rules = published[polls[p].answer.issued].rules]
  /\ UNCHANGED <<escrow, withdrawn>>

\* A signature that fails keeps the last good policy, grants and escrow.
RefuseSignature(p) == PollFails(p)

\* An answer without approvals replaces the rules and leaves the grants.
ApplyPolicies(p, carried) ==
  LET answer == polls[p].answer
      issue == published[answer.issued]
  IN
  /\ Done(p)
  /\ policy' = [rules |-> issue.rules,
                grants |-> IF carried THEN issue.grants ELSE policy.grants,
                outlived |-> ~carried /\ policy.grants # issue.grants,
                appliedIssued |-> IF config.pinned THEN answer.issued ELSE policy.appliedIssued,
                disabled |-> FALSE, stale |-> FALSE]
  /\ ApplyEscrowResponse(answer.epoch)

\* The kill switch: governed calls are blocked until a poll succeeds.
RemoteDisable(p) ==
  /\ Done(p)
  /\ policy' = [policy EXCEPT !.disabled = TRUE]
  /\ UNCHANGED <<escrow, withdrawn>>

\* The answer arrives.  Without a pinned key its signature is not looked at.
AnswerArrives(p) ==
  /\ polls[p].at = "answered"
  /\ \/ polls[p].answer.kind = "unauthorized" /\ RemoteDisable(p)
     \/ /\ polls[p].answer.kind = "policies"
        /\ \E signed, carried \in BOOLEAN :
             IF config.pinned /\ ~VerifyPolicySignature(polls[p].answer, signed, carried)
               THEN RefuseSignature(p)
               ELSE ApplyPolicies(p, carried)
  /\ UNCHANGED <<config, server, published, expired, hold, spent>>

----------------------------------------------------------------------------
(* The integrity gate, the escrow share and the held call.                 *)

\* Variant: only the kill switch closes the gate.
DegradedByKillSwitch == policy.disabled

\* isPolicyEnforcementDegraded: a refusal, or under failMode closed a policy
\* older than the staleness budget.
Degraded == policy.disabled \/ (config.failClosed /\ policy.stale)

BudgetElapses ==
  /\ ~policy.stale
  /\ policy' = [policy EXCEPT !.stale = TRUE]
  /\ UNCHANGED <<config, server, published, polls, escrow, expired, hold, spent, withdrawn>>

GrantExpires ==
  /\ \E g \in UNION {published[i].grants : i \in DOMAIN published} :
       g.id \notin expired /\ expired' = expired \cup {g.id}
  /\ UNCHANGED <<config, server, published, polls, client, spent, withdrawn>>

\* spendEscrowShare, by a call the escrowed rule meters.
SpendEscrowShare ==
  /\ escrow.remaining > 0
  /\ escrow' = [escrow EXCEPT !.remaining = @ - 1, !.consumed = @ + 1]
  /\ spent' = [spent EXCEPT ![escrow.epoch] = @ + 1]
  /\ UNCHANGED <<config, server, published, polls, policy, expired, hold, withdrawn>>

\* matchApproval: a live grant minted for this definition of the rule, or for
\* none: a grant without rule_hash satisfies every definition.
Matches(g, ruleHash) == g.id \notin expired /\ g.ruleHash \in {NoHash, ruleHash}
HasApproval(ruleHash) == \E g \in policy.grants : Matches(g, ruleHash)

Unchanged == UNCHANGED <<config, server, published, policy, escrow, expired, spent, withdrawn>>

\* A require_approval rule: with a live grant the call goes on, otherwise a
\* request is filed and the call held, its claim pinned to the rule it met.
EvaluateRule ==
  /\ hold.at \in {"idle", "sent", "refused"}
  /\ config.rule = "approval"
  /\ policy.rules > 0
  /\ ~Degraded
  /\ hold' = [at |-> IF HasApproval(policy.rules) THEN "deciding" ELSE "checking",
              ruleHash |-> policy.rules, deadlinePassed |-> FALSE]
  /\ UNCHANGED polls /\ Unchanged

\* One turn of the loop of awaitApproval, in its order of questions.
CheckHold ==
  /\ hold.at = "checking"
  /\ hold' = IF HasApproval(hold.ruleHash)
                THEN [hold EXCEPT !.at = "deciding", !.deadlinePassed = FALSE]
              ELSE IF Degraded \/ hold.deadlinePassed THEN NotHeld("refused")
              ELSE [hold EXCEPT !.at = "sleeping"]
  /\ UNCHANGED polls /\ Unchanged

\* Variant: the refresh of a hold is started and not awaited.
WakeUnawaited ==
  /\ hold.at = "sleeping"
  /\ polls["hold"] = Idle
  /\ polls' = [polls EXCEPT !["hold"] = Sent]
  /\ UNCHANGED hold /\ Unchanged

Wake ==
  /\ hold.at = "sleeping"
  /\ polls["hold"] = Idle
  /\ polls' = [polls EXCEPT !["hold"] = Sent]
  /\ hold' = [hold EXCEPT !.at = "refreshing"]
  /\ Unchanged

\* refresh() resolves, whatever became of the poll.
Refreshed ==
  /\ hold.at = "refreshing"
  /\ polls["hold"] = Idle
  /\ hold' = [hold EXCEPT !.at = "checking"]
  /\ UNCHANGED polls /\ Unchanged

DeadlinePasses ==
  /\ hold.at \in {"checking", "sleeping", "refreshing"}
  /\ ~hold.deadlinePassed
  /\ hold' = [hold EXCEPT !.deadlinePassed = TRUE]
  /\ UNCHANGED polls /\ Unchanged

\* Variant: the grant is not looked at again after the hook and the backend.
SendUnchecked ==
  /\ hold.at = "deciding"
  /\ hold' = NotHeld("sent")
  /\ UNCHANGED polls /\ Unchanged

\* The layers after the rules are done; revalidateApproval decides.
RevalidateAndSend ==
  /\ hold.at = "deciding"
  /\ hold' = NotHeld(IF HasApproval(hold.ruleHash) THEN "sent" ELSE "refused")
  /\ UNCHANGED polls /\ Unchanged

Next ==
  \/ ServerChanges
  \/ StartTimerPoll
  \/ \E p \in PollIds : Serve(p) \/ FetchFails(p) \/ AnswerArrives(p)
  \/ BudgetElapses \/ GrantExpires \/ SpendEscrowShare
  \/ EvaluateRule \/ CheckHold \/ Wake \/ Refreshed \/ DeadlinePasses \/ RevalidateAndSend

Spec == Init /\ [][Next]_vars

\* Deadlines pass, the SDK's own steps are taken, and the poll of a hold
\* settles.  The abort timer settles it only until the headers are in; that the
\* body then arrives or breaks off is assumed of the network.
Fairness ==
  /\ WF_vars(BudgetElapses)
  /\ WF_vars(DeadlinePasses)
  /\ WF_vars(CheckHold) /\ WF_vars(Wake) /\ WF_vars(Refreshed) /\ WF_vars(RevalidateAndSend)
  /\ WF_vars(FetchFails("hold") \/ AnswerArrives("hold"))

FairSpec == Spec /\ Fairness

----------------------------------------------------------------------------
(* Properties.                                                             *)

TypeOK ==
  /\ config \in Configs
  /\ server \in [issued : 1..MaxIssued, ruleVersion : 1..MaxIssued, grants : SUBSET Grant,
                 paused : BOOLEAN, escrowed : BOOLEAN, epoch : 0..MaxEpoch]
  /\ published \in [1..server.issued -> Snapshot]
  /\ polls \in [PollIds -> Poll]
  /\ policy \in PolicyStore
  /\ escrow \in EscrowGrant
  /\ expired \subseteq Issues
  /\ hold \in [at : {"idle", "checking", "sleeping", "refreshing", "deciding", "sent", "refused"},
               ruleHash : Issues, deadlinePassed : BOOLEAN]
  /\ spent \in [Epochs -> Nat]
  /\ withdrawn \subseteq Epochs

\* Whatever order answers arrive in, rules and grants are those of one issue,
\* under a pinned key of the issue recorded as applied: the rules of one answer
\* never stand with the grants of another.  The exception is grants that outlive
\* an answer without approvals: they are those of some other issue, and under a
\* pinned key of an earlier one, and the issue applied has no grants at all.
StoreIsOneIssue ==
  policy.rules > 0 =>
    \E i, j \in DOMAIN published :
      /\ policy.rules = published[i].rules
      /\ policy.grants = published[j].grants
      /\ config.pinned => i = policy.appliedIssued
      /\ i # j => /\ policy.outlived
                  /\ config.pinned => j < i /\ published[i].grants = {}

\* A late answer never rolls a signed policy back.
SignedPolicyNeverRollsBack ==
  config.pinned => policy'.appliedIssued >= policy.appliedIssued

\* A call that needed an approval leaves only under a grant that was given for
\* the very definition of the rule it met, or for every definition of it (one
\* without rule_hash), and that has not expired since.
SentUnderLiveGrant ==
  [][hold'.at = "sent" /\ hold.at # "sent" =>
       \E i \in DOMAIN published : \E g \in published[i].grants :
         g.ruleHash \in {NoHash, hold.ruleHash} /\ g.id \notin expired]_vars

\* An escrow share is spent at most once, however answers are repeated and
\* reordered, until the service withdraws escrow: the epoch in force is forgotten
\* then, and a late answer may bring back the share of that or an earlier epoch.
ShareSpentOnce ==
  \A e \in Epochs : spent[e] > Share => \E w \in withdrawn : e <= w

\* With failMode closed, a project that is paused for good ends up refused for
\* good, whatever the network does and whatever answers are still under way.
PausedForGoodIsRefused ==
  <>[](config.failClosed /\ server.paused) => <>[]Degraded

\* A held call is sent or refused in the end.
HoldEnds == hold.at = "checking" ~> hold.at \in {"sent", "refused"}
=============================================================================
