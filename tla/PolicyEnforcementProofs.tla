----------------------- MODULE PolicyEnforcementProofs -----------------------
(***************************************************************************)
(* Theorems about PolicyEnforcement, for every number of polls, issues,    *)
(* epochs, grants, scopes and sessions, and for every list of quota rules. *)
(***************************************************************************)
EXTENDS PolicyEnforcement, Counting, SequenceTheorems, FiniteSetTheorems, WellFoundedInduction,
        NaturalsInduction, TLAPS

----------------------------------------------------------------------------
(* The inductive invariant of the policy, its approvals and its shares.    *)

\* An answer under way is that of an issue that was published.
AnswersPublished ==
  \A p \in PollIds : polls[p].at = "answered" => polls[p].answer.issued <= server.issued

\* The grants in the SDK's store are those of an issue, under a pinned key of one
\* no later than the issue recorded as applied; the first issue has none, like
\* the store before its first answer.
GrantsOfAnIssue ==
  \E j \in DOMAIN published :
    /\ policy.grants = published[j].grants
    /\ config.pinned => j = 1 \/ j <= policy.appliedIssued

Withdrawn(e) == \E w \in withdrawn : e <= w

\* What is left of a share and what was spent under its epoch do not exceed it,
\* and nothing was spent under an epoch still to come, unless escrow was
\* withdrawn at or after that epoch.
SharesAccount ==
  /\ escrow.remaining + escrow.consumed <= Share
  /\ escrow.remaining > 0 => escrow.epoch > 0
  /\ \A e \in Epochs : spent[e] > 0 => e <= escrow.epoch \/ Withdrawn(e)
  /\ \A e \in Epochs : e = escrow.epoch => spent[e] + escrow.remaining <= Share \/ Withdrawn(e)

SyncInv ==
  /\ TypeOK
  /\ AnswersPublished
  /\ StoreIsOneIssue
  /\ GrantsOfAnIssue
  /\ SharesAccount
  /\ ShareSpentOnce

----------------------------------------------------------------------------
(* It holds initially.                                                     *)

\* The invariant holds before the first poll.
LEMMA SyncInitially == Init => SyncInv
<1> SUFFICES ASSUME Init PROVE SyncInv
  OBVIOUS
<1> USE PolicySyncAssumption DEF PolicySyncAssumption
<1>1. TypeOK
  <2>1. published \in [1..server.issued -> Snapshot]
    <3>1. [rules |-> 1, grants |-> {}] \in Snapshot
      BY DEF Snapshot, Issues
    <3>2. server.issued = 1 /\ 1..1 = {1}
      BY DEF Init
    <3> QED
      BY <3>1, <3>2 DEF Init
  <2>2. polls \in [PollIds -> Poll]
    BY DEF Init, Poll
  <2>3. escrow \in EscrowGrant
    BY DEF Init, NoEscrow, EscrowGrant
  <2>4. /\ config \in Configs
        /\ server \in [issued : 1..MaxIssued, ruleVersion : 1..MaxIssued, grants : SUBSET Grant,
                       paused : BOOLEAN, escrowed : BOOLEAN, epoch : 0..MaxEpoch]
        /\ policy \in PolicyStore
    BY DEF Init, Issues, PolicyStore
  <2>5. /\ expired \subseteq Issues
        /\ hold \in [at : {"idle", "checking", "sleeping", "refreshing", "deciding", "sent", "refused"},
                     ruleHash : Issues, deadlinePassed : BOOLEAN]
        /\ spent \in [Epochs -> Nat]
        /\ withdrawn \subseteq Epochs
    BY DEF Init, Issues, NotHeld, NoHash
  <2> QED
    BY <2>1, <2>2, <2>3, <2>4, <2>5 DEF TypeOK
<1>2. AnswersPublished
  BY DEF Init, AnswersPublished, Idle
<1>3. StoreIsOneIssue /\ GrantsOfAnIssue
  <2>1. /\ policy.rules = 0 /\ policy.grants = {}
        /\ 1 \in DOMAIN published /\ published[1].grants = {}
    BY DEF Init
  <2> QED
    BY <2>1 DEF StoreIsOneIssue, GrantsOfAnIssue
<1>4. SharesAccount /\ ShareSpentOnce
  BY DEF Init, SharesAccount, ShareSpentOnce, NoEscrow, Epochs
<1> QED
  BY <1>1, <1>2, <1>3, <1>4 DEF SyncInv

----------------------------------------------------------------------------
(* What the parts of the invariant depend on.                              *)

\* Publishing adds one issue and changes none.
LEMMA PublishingAdds ==
  ASSUME TypeOK, server.issued < MaxIssued, NEW s \in Snapshot,
         published' = [i \in 1..server.issued + 1 |->
                         IF i = server.issued + 1 THEN s ELSE published[i]]
  PROVE  /\ published' \in [1..server.issued + 1 -> Snapshot]
         /\ \A i \in DOMAIN published : i \in DOMAIN published' /\ published'[i] = published[i]
<1> USE PolicySyncAssumption DEF PolicySyncAssumption
<1>1. server.issued \in 1..MaxIssued /\ published \in [1..server.issued -> Snapshot]
  BY DEF TypeOK
<1> QED
  BY <1>1

\* The store of the SDK stays what the issues said while issues are only added.
LEMMA StoreKept ==
  ASSUME StoreIsOneIssue, GrantsOfAnIssue,
         \A i \in DOMAIN published : i \in DOMAIN published' /\ published'[i] = published[i],
         config' = config,
         policy'.rules = policy.rules, policy'.grants = policy.grants,
         policy'.outlived = policy.outlived, policy'.appliedIssued = policy.appliedIssued
  PROVE  StoreIsOneIssue' /\ GrantsOfAnIssue'
<1>1. StoreIsOneIssue'
  <2> SUFFICES ASSUME policy.rules > 0
               PROVE  \E i, j \in DOMAIN published' :
                        /\ policy.rules = published'[i].rules
                        /\ policy.grants = published'[j].grants
                        /\ config.pinned => i = policy.appliedIssued
                        /\ i # j => /\ policy.outlived
                                    /\ config.pinned => j < i /\ published'[i].grants = {}
    BY DEF StoreIsOneIssue
  <2>1. PICK i, j \in DOMAIN published :
          /\ policy.rules = published[i].rules
          /\ policy.grants = published[j].grants
          /\ config.pinned => i = policy.appliedIssued
          /\ i # j => /\ policy.outlived
                      /\ config.pinned => j < i /\ published[i].grants = {}
    BY DEF StoreIsOneIssue
  <2>2. /\ i \in DOMAIN published' /\ published'[i] = published[i]
        /\ j \in DOMAIN published' /\ published'[j] = published[j]
    OBVIOUS
  <2> QED
    BY <2>1, <2>2
<1>2. GrantsOfAnIssue'
  <2>1. PICK j \in DOMAIN published :
          /\ policy.grants = published[j].grants
          /\ config.pinned => j = 1 \/ j <= policy.appliedIssued
    BY DEF GrantsOfAnIssue
  <2>2. j \in DOMAIN published' /\ published'[j] = published[j]
    OBVIOUS
  <2> QED
    BY <2>1, <2>2 DEF GrantsOfAnIssue
<1> QED
  BY <1>1, <1>2

\* The account of the shares is read off these three variables.
LEMMA SharesKept ==
  ASSUME SharesAccount, ShareSpentOnce,
         escrow' = escrow, spent' = spent, withdrawn' = withdrawn
  PROVE  SharesAccount' /\ ShareSpentOnce'
  BY DEF SharesAccount, ShareSpentOnce, Withdrawn

\* The answer of a poll that was answered.
LEMMA AnswerType ==
  ASSUME TypeOK, NEW p \in PollIds, polls[p].at = "answered"
  PROVE  polls[p].answer \in Answer
<1>1. polls[p] \in Poll
  BY DEF TypeOK
<1> QED
  BY <1>1 DEF Poll, Idle

\* A poll under way reports an epoch and what was spent of it.
LEMMA ReportType ==
  ASSUME TypeOK, NEW p \in PollIds, polls[p].at = "sent"
  PROVE  polls[p].report \in [epoch : 0..MaxEpoch, consumed : 0..Share]
<1>1. polls[p] \in Poll
  BY DEF TypeOK
<1> QED
  BY <1>1 DEF Poll, Idle

----------------------------------------------------------------------------
(* The steps of the policy service.                                        *)

\* The service publishes a policy, with a new issue of every grant.
LEMMA PublishStep ==
  ASSUME SyncInv, NEW r \in 1..MaxIssued, NEW gs \in SUBSET Grant, Publish(r, gs),
         UNCHANGED <<config, polls, client, expired, spent, withdrawn>>
  PROVE  SyncInv'
<1> USE PolicySyncAssumption DEF PolicySyncAssumption
<1>1. TypeOK /\ server.issued \in 1..MaxIssued /\ server.issued < MaxIssued
  BY DEF SyncInv, TypeOK, Publish
<1>2. [rules |-> r, grants |-> gs] \in Snapshot
  BY DEF Snapshot, Issues
<1>3. /\ published' \in [1..server.issued + 1 -> Snapshot]
      /\ \A i \in DOMAIN published : i \in DOMAIN published' /\ published'[i] = published[i]
  BY <1>1, <1>2, PublishingAdds DEF Publish
<1>4. server'.issued = server.issued + 1
  BY <1>1 DEF TypeOK, Publish
<1>5. TypeOK'
  <2>1. server' \in [issued : 1..MaxIssued, ruleVersion : 1..MaxIssued, grants : SUBSET Grant,
                     paused : BOOLEAN, escrowed : BOOLEAN, epoch : 0..MaxEpoch]
    <3>1. server.issued + 1 \in 1..MaxIssued
      BY <1>1
    <3>2. server \in [issued : 1..MaxIssued, ruleVersion : 1..MaxIssued, grants : SUBSET Grant,
                      paused : BOOLEAN, escrowed : BOOLEAN, epoch : 0..MaxEpoch]
      BY <1>1 DEF TypeOK
    <3> QED
      BY <3>1, <3>2 DEF Publish
  <2>2. published' \in [1..server'.issued -> Snapshot]
    BY <1>3, <1>4
  <2> QED
    BY <1>1, <2>1, <2>2 DEF TypeOK, client
<1>6. AnswersPublished'
  <2>1. \A p \in PollIds : polls[p].at = "answered" => polls[p].answer.issued \in 1..MaxIssued
    BY <1>1, AnswerType DEF Answer
  <2> QED
    BY <1>1, <1>4, <2>1 DEF AnswersPublished, SyncInv
<1>7. StoreIsOneIssue' /\ GrantsOfAnIssue'
  BY <1>3, StoreKept DEF SyncInv, client
<1>8. SharesAccount' /\ ShareSpentOnce'
  BY SharesKept DEF SyncInv, client
<1> QED
  BY <1>5, <1>6, <1>7, <1>8 DEF SyncInv

\* The service withdraws or pauses, under a new issue.
LEMMA WithdrawStep ==
  ASSUME SyncInv, NEW paused \in BOOLEAN, NEW escrowed \in BOOLEAN, Withdraw(paused, escrowed),
         UNCHANGED <<config, polls, client, expired, spent, withdrawn>>
  PROVE  SyncInv'
<1> USE PolicySyncAssumption DEF PolicySyncAssumption
<1>1. TypeOK /\ server.issued \in 1..MaxIssued /\ server.issued < MaxIssued
  BY DEF SyncInv, TypeOK, Withdraw
<1>2. published[server.issued] \in Snapshot
  BY <1>1 DEF TypeOK
<1>3. /\ published' \in [1..server.issued + 1 -> Snapshot]
      /\ \A i \in DOMAIN published : i \in DOMAIN published' /\ published'[i] = published[i]
  BY <1>1, <1>2, PublishingAdds DEF Withdraw
<1>4. server'.issued = server.issued + 1
  BY <1>1 DEF TypeOK, Withdraw
<1>5. TypeOK'
  <2>1. server' \in [issued : 1..MaxIssued, ruleVersion : 1..MaxIssued, grants : SUBSET Grant,
                     paused : BOOLEAN, escrowed : BOOLEAN, epoch : 0..MaxEpoch]
    <3>1. server.issued + 1 \in 1..MaxIssued
      BY <1>1
    <3>2. server \in [issued : 1..MaxIssued, ruleVersion : 1..MaxIssued, grants : SUBSET Grant,
                      paused : BOOLEAN, escrowed : BOOLEAN, epoch : 0..MaxEpoch]
      BY <1>1 DEF TypeOK
    <3> QED
      BY <3>1, <3>2 DEF Withdraw
  <2>2. published' \in [1..server'.issued -> Snapshot]
    BY <1>3, <1>4
  <2> QED
    BY <1>1, <2>1, <2>2 DEF TypeOK, client
<1>6. AnswersPublished'
  <2>1. \A p \in PollIds : polls[p].at = "answered" => polls[p].answer.issued \in 1..MaxIssued
    BY <1>1, AnswerType DEF Answer
  <2> QED
    BY <1>1, <1>4, <2>1 DEF AnswersPublished, SyncInv
<1>7. StoreIsOneIssue' /\ GrantsOfAnIssue'
  BY <1>3, StoreKept DEF SyncInv, client
<1>8. SharesAccount' /\ ShareSpentOnce'
  BY SharesKept DEF SyncInv, client
<1> QED
  BY <1>5, <1>6, <1>7, <1>8 DEF SyncInv

\* Every change at the service preserves the invariant.
LEMMA ServerStep == ASSUME SyncInv, ServerChanges PROVE SyncInv'
<1> USE PolicySyncAssumption DEF PolicySyncAssumption
<1>1. /\ server.issued \in 1..MaxIssued /\ server.ruleVersion \in 1..MaxIssued
      /\ server.grants \in SUBSET Grant
      /\ server.paused \in BOOLEAN /\ server.escrowed \in BOOLEAN
  BY DEF SyncInv, TypeOK
<1>2. UNCHANGED <<config, polls, client, expired, spent, withdrawn>>
  BY DEF ServerChanges
<1>3. CASE EditRule
  <2>1. server.issued + 1 \in 1..MaxIssued
    BY <1>1, <1>3 DEF EditRule, Publish
  <2> QED
    BY <1>1, <1>2, <1>3, <2>1, PublishStep DEF EditRule
<1>4. CASE Approve
  <2>1. PICK hash \in {server.ruleVersion, NoHash} :
          Publish(server.ruleVersion,
                  server.grants \cup {[id |-> server.issued + 1, ruleHash |-> hash]})
    BY <1>4 DEF Approve
  <2>2. [id |-> server.issued + 1, ruleHash |-> hash] \in Grant
    BY <1>1, <2>1 DEF Publish, Grant, Issues, NoHash
  <2>3. server.grants \cup {[id |-> server.issued + 1, ruleHash |-> hash]} \in SUBSET Grant
    BY <1>1, <2>2
  <2> QED
    BY <1>1, <1>2, <2>1, <2>3, PublishStep
<1>5. CASE Revoke
  BY <1>1, <1>2, <1>5, PublishStep DEF Revoke
<1>6. CASE PauseOrResume
  BY <1>1, <1>2, <1>6, WithdrawStep DEF PauseOrResume
<1>7. CASE ChangeEscrow
  BY <1>1, <1>2, <1>7, WithdrawStep DEF ChangeEscrow
<1> QED
  BY <1>3, <1>4, <1>5, <1>6, <1>7 DEF ServerChanges

\* An answer says what is in force as it is given.
LEMMA ServeStep == ASSUME SyncInv, NEW p \in PollIds, Serve(p) PROVE SyncInv'
<1> USE PolicySyncAssumption DEF PolicySyncAssumption
<1> DEFINE epoch == IF server.escrowed THEN NextEpoch(polls[p].report) ELSE 0
           answer == [kind |-> IF server.paused THEN "unauthorized" ELSE "policies",
                      issued |-> server.issued,
                      epoch |-> IF server.paused THEN 0 ELSE epoch]
<1>1. /\ polls' = [polls EXCEPT ![p] = [at |-> "answered", answer |-> answer]]
      /\ server' = [server EXCEPT !.epoch = IF answer.epoch > 0 THEN epoch ELSE @]
      /\ UNCHANGED <<config, published, client, expired, spent, withdrawn>>
  BY DEF Serve
<1>2. TypeOK
  BY DEF SyncInv
<1>3. epoch \in 0..MaxEpoch
  BY <1>2 DEF TypeOK, NextEpoch
<1>4. answer \in Answer
  BY <1>2, <1>3 DEF TypeOK, Answer
<1> HIDE DEF answer, epoch
<1>5. [at |-> "answered", answer |-> answer] \in Poll
  BY <1>4 DEF Poll
<1>6. /\ server' \in [issued : 1..MaxIssued, ruleVersion : 1..MaxIssued, grants : SUBSET Grant,
                      paused : BOOLEAN, escrowed : BOOLEAN, epoch : 0..MaxEpoch]
      /\ server'.issued = server.issued
  BY <1>1, <1>2, <1>3 DEF TypeOK
<1>7. polls' \in [PollIds -> Poll]
  BY <1>1, <1>2, <1>5 DEF TypeOK
<1>8. TypeOK'
  BY <1>1, <1>2, <1>6, <1>7 DEF TypeOK, client
<1>9. AnswersPublished'
  <2> SUFFICES ASSUME NEW q \in PollIds, polls'[q].at = "answered"
               PROVE  polls'[q].answer.issued <= server'.issued
    BY DEF AnswersPublished
  <2>1. CASE q = p
    <3>1. answer.issued = server.issued
      BY DEF answer
    <3> QED
      BY <1>1, <1>2, <1>6, <2>1, <3>1 DEF TypeOK
  <2>2. CASE q # p
    <3>1. polls'[q] = polls[q]
      BY <1>1, <1>2, <2>2 DEF TypeOK
    <3> QED
      BY <1>6, <3>1 DEF SyncInv, AnswersPublished
  <2> QED
    BY <2>1, <2>2
<1>10. StoreIsOneIssue' /\ GrantsOfAnIssue'
  BY <1>1, StoreKept DEF SyncInv, client
<1>11. SharesAccount' /\ ShareSpentOnce'
  BY <1>1, SharesKept DEF SyncInv, client
<1> QED
  BY <1>8, <1>9, <1>10, <1>11 DEF SyncInv

----------------------------------------------------------------------------
(* The steps of the SDK.                                                   *)

\* Beginning or ending a poll, which says nothing new.
LEMMA PollKept ==
  ASSUME TypeOK, AnswersPublished, server' = server, NEW p \in PollIds, NEW poll \in Poll,
         poll.at # "answered", polls' = [polls EXCEPT ![p] = poll]
  PROVE  polls' \in [PollIds -> Poll] /\ AnswersPublished'
<1>1. polls \in [PollIds -> Poll]
  BY DEF TypeOK
<1>2. polls' \in [PollIds -> Poll]
  BY <1>1
<1>3. AnswersPublished'
  <2> SUFFICES ASSUME NEW q \in PollIds, polls'[q].at = "answered"
               PROVE  polls'[q].answer.issued <= server'.issued
    BY DEF AnswersPublished
  <2>1. q # p /\ polls'[q] = polls[q]
    BY <1>1
  <2> QED
    BY <2>1 DEF AnswersPublished
<1> QED
  BY <1>2, <1>3

\* A request and a finished poll are polls.
LEMMA PollForms ==
  ASSUME TypeOK
  PROVE  Sent \in Poll /\ Sent.at # "answered" /\ Idle \in Poll /\ Idle.at # "answered"
<1>1. SnapshotConsumption \in [epoch : 0..MaxEpoch, consumed : 0..Share]
  BY DEF TypeOK, EscrowGrant, SnapshotConsumption
<1> HIDE DEF SnapshotConsumption
<1> QED
  BY <1>1 DEF Sent, Idle, Poll

\* A step that leaves the service, the policy and the shares alone.
LEMMA QuietStep ==
  ASSUME SyncInv, UNCHANGED <<config, server, published, escrow, spent, withdrawn>>,
         polls' \in [PollIds -> Poll], AnswersPublished',
         policy' \in PolicyStore,
         policy'.rules = policy.rules, policy'.grants = policy.grants,
         policy'.outlived = policy.outlived, policy'.appliedIssued = policy.appliedIssued,
         expired' \subseteq Issues,
         hold' \in [at : {"idle", "checking", "sleeping", "refreshing", "deciding", "sent", "refused"},
                    ruleHash : Issues, deadlinePassed : BOOLEAN]
  PROVE  SyncInv'
<1>1. TypeOK'
  BY DEF SyncInv, TypeOK
<1>2. StoreIsOneIssue' /\ GrantsOfAnIssue'
  BY StoreKept DEF SyncInv
<1>3. SharesAccount' /\ ShareSpentOnce'
  BY SharesKept DEF SyncInv
<1> QED
  BY <1>1, <1>2, <1>3 DEF SyncInv

\* The hold's own steps, and polls that start.
LEMMA HoldSteps ==
  ASSUME SyncInv, StartTimerPoll \/ EvaluateRule \/ CheckHold \/ Wake \/ Refreshed
                  \/ DeadlinePasses \/ RevalidateAndSend
  PROVE  SyncInv'
<1>1. TypeOK /\ AnswersPublished
  BY DEF SyncInv
<1> DEFINE HoldType ==
      [at : {"idle", "checking", "sleeping", "refreshing", "deciding", "sent", "refused"},
       ruleHash : Issues, deadlinePassed : BOOLEAN]
<1>2. hold \in HoldType /\ polls \in [PollIds -> Poll] /\ expired \subseteq Issues
      /\ policy \in PolicyStore
  BY <1>1 DEF TypeOK
<1>3. ASSUME polls' = polls, server' = server PROVE polls' \in [PollIds -> Poll] /\ AnswersPublished'
  BY <1>1, <1>2, <1>3 DEF AnswersPublished
<1>4. CASE StartTimerPoll
  <2>1. PICK p \in TimerPolls : polls' = [polls EXCEPT ![p] = Sent]
    BY <1>4 DEF StartTimerPoll
  <2>2. /\ UNCHANGED <<config, server, published, escrow, spent, withdrawn>>
        /\ UNCHANGED <<policy, expired, hold>>
    BY <1>4 DEF StartTimerPoll, client
  <2>3. polls' \in [PollIds -> Poll] /\ AnswersPublished'
    BY <1>1, <2>1, <2>2, PollForms, PollKept DEF PollIds
  <2> QED
    BY <1>2, <2>2, <2>3, QuietStep
<1>5. CASE Wake
  <2>1. /\ polls' = [polls EXCEPT !["hold"] = Sent]
        /\ hold' = [hold EXCEPT !.at = "refreshing"]
        /\ Unchanged
    BY <1>5 DEF Wake
  <2>2. polls' \in [PollIds -> Poll] /\ AnswersPublished'
    BY <1>1, <2>1, PollForms, PollKept DEF PollIds, Unchanged
  <2>3. hold' \in HoldType
    BY <1>2, <2>1
  <2> QED
    BY <1>2, <2>1, <2>2, <2>3, QuietStep DEF Unchanged
<1>6. CASE EvaluateRule \/ CheckHold \/ Refreshed \/ DeadlinePasses \/ RevalidateAndSend
  <2>1. UNCHANGED polls /\ Unchanged
    BY <1>6 DEF EvaluateRule, CheckHold, Refreshed, DeadlinePasses, RevalidateAndSend
  <2>2. hold' \in HoldType
    <3>1. CASE EvaluateRule
      BY <1>2, <3>1 DEF EvaluateRule, PolicyStore
    <3>2. CASE CheckHold
      <4>1. \/ hold' = [hold EXCEPT !.at = "deciding", !.deadlinePassed = FALSE]
            \/ hold' = NotHeld("refused")
            \/ hold' = [hold EXCEPT !.at = "sleeping"]
        BY <3>2 DEF CheckHold
      <4>2. NotHeld("refused") \in HoldType
        BY PolicySyncAssumption DEF PolicySyncAssumption, NotHeld, NoHash, Issues
      <4> QED
        BY <1>2, <4>1, <4>2
    <3>3. CASE Refreshed
      BY <1>2, <3>3 DEF Refreshed
    <3>4. CASE DeadlinePasses
      BY <1>2, <3>4 DEF DeadlinePasses
    <3>5. CASE RevalidateAndSend
      <4>1. NotHeld("sent") \in HoldType /\ NotHeld("refused") \in HoldType
        BY PolicySyncAssumption DEF PolicySyncAssumption, NotHeld, NoHash, Issues
      <4> QED
        BY <3>5, <4>1 DEF RevalidateAndSend
    <3> QED
      BY <1>6, <3>1, <3>2, <3>3, <3>4, <3>5
  <2> QED
    BY <1>2, <1>3, <2>1, <2>2, QuietStep DEF Unchanged
<1> QED
  BY <1>4, <1>5, <1>6

\* The clocks: a policy grows old, a grant expires.
LEMMA ClockSteps ==
  ASSUME SyncInv, BudgetElapses \/ GrantExpires
  PROVE  SyncInv'
<1>1. TypeOK /\ AnswersPublished
  BY DEF SyncInv
<1>2. polls' = polls /\ server' = server /\ hold' = hold
      /\ UNCHANGED <<config, server, published, escrow, spent, withdrawn>>
  BY DEF BudgetElapses, GrantExpires, client
<1>3. polls' \in [PollIds -> Poll] /\ AnswersPublished'
      /\ hold' \in [at : {"idle", "checking", "sleeping", "refreshing", "deciding", "sent", "refused"},
                    ruleHash : Issues, deadlinePassed : BOOLEAN]
  BY <1>1, <1>2 DEF TypeOK, AnswersPublished
<1>4. policy \in PolicyStore
      /\ expired \subseteq Issues
  BY <1>1 DEF TypeOK
<1>5. CASE BudgetElapses
  <2>1. policy' = [policy EXCEPT !.stale = TRUE] /\ expired' = expired
    BY <1>5 DEF BudgetElapses
  <2>2. /\ policy' \in PolicyStore
        /\ policy'.rules = policy.rules /\ policy'.grants = policy.grants
        /\ policy'.outlived = policy.outlived /\ policy'.appliedIssued = policy.appliedIssued
    BY <1>4, <2>1 DEF PolicyStore
  <2> QED
    BY <1>2, <1>3, <1>4, <2>1, <2>2, QuietStep
<1>6. CASE GrantExpires
  <2>1. PICK g \in UNION {published[i].grants : i \in DOMAIN published} :
          expired' = expired \cup {g.id}
    BY <1>6 DEF GrantExpires
  <2>2. PICK i \in DOMAIN published : g \in published[i].grants
    BY <2>1
  <2>3. published[i] \in Snapshot
    BY <1>1, <2>2 DEF TypeOK
  <2>4. g \in Grant
    BY <2>2, <2>3 DEF Snapshot
  <2>5. expired' \subseteq Issues
    BY <1>4, <2>1, <2>4 DEF Grant
  <2>6. policy' = policy
    BY <1>6 DEF GrantExpires, client
  <2> QED
    BY <1>2, <1>3, <1>4, <2>5, <2>6, QuietStep
<1> QED
  BY <1>5, <1>6

\* A unit of the share in force is spent under its epoch.
LEMMA SpendStep == ASSUME SyncInv, SpendEscrowShare PROVE SyncInv'
<1> USE PolicySyncAssumption DEF PolicySyncAssumption
<1>1. TypeOK /\ AnswersPublished /\ SharesAccount /\ ShareSpentOnce
  BY DEF SyncInv
<1>2. /\ escrow.remaining > 0
      /\ escrow' = [escrow EXCEPT !.remaining = @ - 1, !.consumed = @ + 1]
      /\ spent' = [spent EXCEPT ![escrow.epoch] = @ + 1]
      /\ UNCHANGED <<config, server, published, polls, policy, expired, hold, withdrawn>>
  BY DEF SpendEscrowShare
<1>3. escrow \in EscrowGrant /\ spent \in [Epochs -> Nat]
  BY <1>1 DEF TypeOK
<1>4. /\ escrow.remaining \in 1..Share /\ escrow.consumed \in 0..Share
      /\ escrow.epoch \in Epochs
      /\ escrow.remaining + escrow.consumed <= Share
  BY <1>1, <1>2, <1>3 DEF SharesAccount, EscrowGrant, Epochs
<1>5. /\ escrow'.remaining = escrow.remaining - 1
      /\ escrow'.consumed = escrow.consumed + 1
      /\ escrow'.epoch = escrow.epoch
      /\ escrow' \in EscrowGrant
  <2>1. escrow.remaining - 1 \in 0..Share /\ escrow.consumed + 1 \in 0..Share
    BY <1>4
  <2>2. escrow \in [epoch : 0..MaxEpoch, remaining : 0..Share, consumed : 0..Share]
    BY <1>3 DEF EscrowGrant
  <2> QED
    BY <1>2, <2>1, <2>2 DEF EscrowGrant
<1>6. /\ spent' \in [Epochs -> Nat]
      /\ \A e \in Epochs : spent'[e] = IF e = escrow.epoch THEN spent[e] + 1 ELSE spent[e]
  BY <1>2, <1>3, <1>4
<1>7. TypeOK'
  BY <1>1, <1>2, <1>5, <1>6 DEF TypeOK
<1>8. AnswersPublished'
  BY <1>1, <1>2 DEF AnswersPublished
<1>9. StoreIsOneIssue' /\ GrantsOfAnIssue'
  BY <1>2, StoreKept DEF SyncInv
<1>10. \A e \in Epochs : Withdrawn(e)' <=> Withdrawn(e)
  BY <1>2 DEF Withdrawn
<1>11. /\ \A e \in Epochs : spent[e] > 0 => e <= escrow.epoch \/ Withdrawn(e)
       /\ \A e \in Epochs : e = escrow.epoch => spent[e] + escrow.remaining <= Share \/ Withdrawn(e)
  BY <1>1 DEF SharesAccount
<1>12. \A e \in Epochs : spent'[e] > 0 => e <= escrow'.epoch \/ Withdrawn(e)'
  <2> SUFFICES ASSUME NEW e \in Epochs, spent'[e] > 0 PROVE e <= escrow'.epoch \/ Withdrawn(e)'
    OBVIOUS
  <2>1. CASE e = escrow.epoch
    BY <1>4, <1>5, <2>1 DEF Epochs
  <2>2. CASE e # escrow.epoch
    BY <1>5, <1>6, <1>10, <1>11, <2>2
  <2> QED
    BY <2>1, <2>2
<1>13. \A e \in Epochs : e = escrow'.epoch => spent'[e] + escrow'.remaining <= Share \/ Withdrawn(e)'
  <2>1. spent[escrow.epoch] \in Nat /\ spent'[escrow.epoch] = spent[escrow.epoch] + 1
    BY <1>3, <1>4, <1>6
  <2>2. spent'[escrow.epoch] + escrow'.remaining = spent[escrow.epoch] + escrow.remaining
    BY <1>4, <1>5, <2>1
  <2> QED
    BY <1>4, <1>5, <1>10, <1>11, <2>2
<1>14. SharesAccount'
  <2>1. escrow'.remaining + escrow'.consumed <= Share
    BY <1>4, <1>5
  <2>2. escrow'.remaining > 0 => escrow'.epoch > 0
    BY <1>4, <1>5 DEF Epochs
  <2> QED
    BY <1>12, <1>13, <2>1, <2>2 DEF SharesAccount
<1>15. ShareSpentOnce'
  <2> SUFFICES ASSUME NEW e \in Epochs, spent'[e] > Share PROVE Withdrawn(e)'
    BY DEF ShareSpentOnce, Withdrawn
  <2>1. CASE e = escrow.epoch
    <3>1. spent[e] \in Nat /\ spent[e] + escrow.remaining > Share
      BY <1>3, <1>4, <1>6, <2>1
    <3> QED
      BY <1>10, <1>11, <2>1, <3>1, <1>4, <1>3
  <2>2. CASE e # escrow.epoch
    <3>1. Withdrawn(e)
      BY <1>1, <1>6, <2>2 DEF ShareSpentOnce, Withdrawn
    <3> QED
      BY <1>10, <3>1
  <2> QED
    BY <2>1, <2>2
<1> QED
  BY <1>7, <1>8, <1>9, <1>14, <1>15 DEF SyncInv

----------------------------------------------------------------------------
(* The steps of a poll that ends.                                          *)

\* A poll that failed changes nothing the invariant reads but itself.
LEMMA FetchFailsStep == ASSUME SyncInv, NEW p \in PollIds, FetchFails(p) PROVE SyncInv'
<1>1. TypeOK /\ AnswersPublished
  BY DEF SyncInv
<1>2. /\ polls' = [polls EXCEPT ![p] = Idle]
      /\ UNCHANGED <<config, server, published, policy, escrow, expired, hold, spent, withdrawn>>
  BY DEF FetchFails, PollFails, Done
<1>3. polls' \in [PollIds -> Poll] /\ AnswersPublished'
  BY <1>1, <1>2, PollForms, PollKept
<1> QED
  BY <1>1, <1>2, <1>3, QuietStep DEF TypeOK

\* A share granted again never gives back what was spent of it.
LEMMA EscrowApplied ==
  ASSUME SyncInv, NEW epoch \in 0..MaxEpoch, ApplyEscrowResponse(epoch), spent' = spent
  PROVE  /\ escrow' \in EscrowGrant /\ withdrawn' \subseteq Epochs
         /\ SharesAccount' /\ ShareSpentOnce'
<1> USE PolicySyncAssumption DEF PolicySyncAssumption
<1>1. /\ escrow \in [epoch : 0..MaxEpoch, remaining : 0..Share, consumed : 0..Share]
      /\ spent \in [Epochs -> Nat] /\ withdrawn \subseteq Epochs
  BY DEF SyncInv, TypeOK, EscrowGrant
<1>2. SharesAccount /\ ShareSpentOnce
  BY DEF SyncInv
<1>3. /\ \A e \in Epochs : spent[e] > 0 => e <= escrow.epoch \/ Withdrawn(e)
      /\ \A e \in Epochs : e = escrow.epoch => spent[e] + escrow.remaining <= Share \/ Withdrawn(e)
  BY <1>2 DEF SharesAccount
<1>4. CASE epoch = 0
  <2>1. escrow' = NoEscrow /\ withdrawn' = withdrawn \cup ({escrow.epoch} \ {0})
    BY <1>4 DEF ApplyEscrowResponse
  <2>2. /\ escrow' \in EscrowGrant /\ escrow'.epoch = 0
        /\ escrow'.remaining = 0 /\ escrow'.consumed = 0
    BY <2>1 DEF NoEscrow, EscrowGrant
  <2>3. withdrawn' \subseteq Epochs
    <3>1. escrow.epoch \in 0..MaxEpoch
      BY <1>1
    <3>2. {escrow.epoch} \ {0} \subseteq Epochs
      BY <3>1 DEF Epochs
    <3> QED
      BY <1>1, <2>1, <3>2
  <2>4. \A e \in Epochs : Withdrawn(e) => Withdrawn(e)'
    BY <2>1 DEF Withdrawn
  <2>5. \A e \in Epochs : e <= escrow.epoch => Withdrawn(e)'
    BY <1>1, <2>1 DEF Withdrawn, Epochs
  <2>6. \A e \in Epochs : spent'[e] > 0 => e <= escrow'.epoch \/ Withdrawn(e)'
    BY <1>3, <2>4, <2>5
  <2>7. \A e \in Epochs : e = escrow'.epoch => spent'[e] + escrow'.remaining <= Share \/ Withdrawn(e)'
    BY <2>2 DEF Epochs
  <2>8. SharesAccount'
    BY <2>2, <2>6, <2>7 DEF SharesAccount
  <2>9. ShareSpentOnce'
    BY <1>2, <2>4 DEF ShareSpentOnce, Withdrawn
  <2> QED
    BY <2>2, <2>3, <2>8, <2>9
<1>5. CASE epoch # 0 /\ epoch <= escrow.epoch
  <2>1. escrow' = escrow /\ withdrawn' = withdrawn
    BY <1>5 DEF ApplyEscrowResponse, ApplyEscrowGrant
  <2> QED
    BY <1>1, <1>2, <2>1, SharesKept DEF EscrowGrant
<1>6. CASE epoch # 0 /\ ~(epoch <= escrow.epoch)
  <2>1. /\ escrow' = [epoch |-> epoch, remaining |-> Share, consumed |-> 0]
        /\ withdrawn' = withdrawn
    BY <1>6 DEF ApplyEscrowResponse, ApplyEscrowGrant
  <2>2. /\ escrow' \in EscrowGrant /\ escrow'.epoch = epoch
        /\ escrow'.remaining = Share /\ escrow'.consumed = 0
    BY <2>1 DEF EscrowGrant
  <2>3. \A e \in Epochs : Withdrawn(e)' <=> Withdrawn(e)
    BY <2>1 DEF Withdrawn
  <2>4. \A e \in Epochs : spent'[e] > 0 => e <= escrow'.epoch \/ Withdrawn(e)'
    <3>1. \A e \in Epochs : e <= escrow.epoch => e <= epoch
      BY <1>1, <1>6 DEF Epochs
    <3> QED
      BY <1>3, <2>2, <2>3, <3>1
  <2>5. \A e \in Epochs : e = escrow'.epoch => spent'[e] + escrow'.remaining <= Share \/ Withdrawn(e)'
    <3> SUFFICES ASSUME epoch \in Epochs, ~Withdrawn(epoch) PROVE spent[epoch] + Share <= Share
      BY <2>2, <2>3
    <3>1. spent[epoch] \in Nat /\ ~(spent[epoch] > 0)
      BY <1>1, <1>3, <1>6
    <3>2. spent[epoch] = 0
      BY <3>1
    <3> QED
      BY <3>2
  <2>6. SharesAccount'
    <3>1. escrow'.remaining + escrow'.consumed <= Share /\ escrow'.epoch > 0
      BY <1>6, <2>2
    <3> QED
      BY <2>4, <2>5, <3>1 DEF SharesAccount
  <2>7. ShareSpentOnce'
    BY <1>2, <2>3 DEF ShareSpentOnce, Withdrawn
  <2> QED
    BY <1>1, <2>1, <2>2, <2>6, <2>7
<1> QED
  BY <1>4, <1>5, <1>6

\* An answer that is applied: what it carries replaces policy and grants at once,
\* and grants it does not carry may stay only where its issue has none.
LEMMA ApplyStep ==
  ASSUME SyncInv, NEW p \in PollIds, NEW signed \in BOOLEAN, NEW carried \in BOOLEAN,
         polls[p].at = "answered", ApplyPolicies(p, carried),
         config.pinned => VerifyPolicySignature(polls[p].answer, signed, carried),
         UNCHANGED <<config, server, published, expired, hold, spent>>
  PROVE  SyncInv'
<1> USE PolicySyncAssumption DEF PolicySyncAssumption
<1>1. TypeOK /\ AnswersPublished
  BY DEF SyncInv
<1> DEFINE answer == polls[p].answer
<1>2. answer \in Answer
  BY <1>1, AnswerType
<1>3. answer.issued \in 1..MaxIssued /\ answer.epoch \in 0..MaxEpoch /\ answer.issued <= server.issued
  BY <1>1, <1>2 DEF Answer, AnswersPublished
<1>4. /\ Done(p)
      /\ policy' = [rules |-> published[answer.issued].rules,
                    grants |-> IF carried THEN published[answer.issued].grants ELSE policy.grants,
                    outlived |-> ~carried /\ policy.grants # published[answer.issued].grants,
                    appliedIssued |-> IF config.pinned THEN answer.issued ELSE policy.appliedIssued,
                    disabled |-> FALSE, stale |-> FALSE]
      /\ ApplyEscrowResponse(answer.epoch)
      /\ config.pinned => /\ carried \/ published[answer.issued].grants = {}
                          /\ answer.issued >= policy.appliedIssued
  BY DEF ApplyPolicies, VerifyPolicySignature
<1> HIDE DEF answer
<1>5. answer.issued \in DOMAIN published /\ published[answer.issued] \in Snapshot
  <2>1. server.issued \in 1..MaxIssued /\ published \in [1..server.issued -> Snapshot]
    BY <1>1 DEF TypeOK
  <2> QED
    BY <1>3, <2>1
<1>6. policy' \in PolicyStore
  <2>1. /\ answer.issued \in Issues
        /\ policy.appliedIssued \in Issues /\ policy.grants \in SUBSET Grant
    BY <1>1, <1>3 DEF TypeOK, PolicyStore, Issues
  <2>2. published[answer.issued].rules \in Issues /\ published[answer.issued].grants \in SUBSET Grant
    BY <1>5 DEF Snapshot
  <2>3. (IF carried THEN published[answer.issued].grants ELSE policy.grants) \in SUBSET Grant
    BY <2>1, <2>2
  <2>4. (IF config.pinned THEN answer.issued ELSE policy.appliedIssued) \in Issues
    BY <2>1
  <2> QED
    BY <1>4, <2>2, <2>3, <2>4 DEF PolicyStore
<1>7. polls' \in [PollIds -> Poll] /\ AnswersPublished'
  BY <1>1, <1>4, PollForms, PollKept DEF Done
<1>8. /\ escrow' \in EscrowGrant /\ withdrawn' \subseteq Epochs
      /\ SharesAccount' /\ ShareSpentOnce'
  BY <1>3, <1>4, EscrowApplied
<1>9. TypeOK'
  BY <1>1, <1>6, <1>7, <1>8 DEF TypeOK
<1>10. PICK j \in DOMAIN published :
         /\ policy.grants = published[j].grants
         /\ config.pinned => j = 1 \/ j <= policy.appliedIssued
  BY DEF SyncInv, GrantsOfAnIssue
<1>11. config.pinned => j <= answer.issued
  <2>1. policy.appliedIssued \in Nat /\ DOMAIN published \subseteq Nat
    BY <1>1 DEF TypeOK, PolicyStore, Issues
  <2> QED
    BY <1>3, <1>4, <1>10, <2>1
<1> DEFINE of == IF policy'.grants = published[answer.issued].grants THEN answer.issued ELSE j
<1>12. /\ of \in DOMAIN published /\ policy'.grants = published[of].grants
       /\ config.pinned => of <= answer.issued
       /\ of # answer.issued => policy'.outlived /\ ~carried
  <2>1. /\ policy'.grants = IF carried THEN published[answer.issued].grants ELSE policy.grants
        /\ policy'.outlived = (~carried /\ policy.grants # published[answer.issued].grants)
        /\ answer.issued <= answer.issued
    BY <1>3, <1>4
  <2>2. CASE policy'.grants = published[answer.issued].grants
    BY <1>5, <2>1, <2>2
  <2>3. CASE policy'.grants # published[answer.issued].grants
    <3>1. ~carried /\ policy'.grants = policy.grants /\ policy'.outlived
      BY <2>1, <2>3
    <3> QED
      BY <1>10, <1>11, <2>3, <3>1
  <2> QED
    BY <2>2, <2>3
<1> HIDE DEF of
<1>13. /\ policy'.rules = published[answer.issued].rules
       /\ config.pinned => policy'.appliedIssued = answer.issued
  BY <1>4
<1>14. of \in Nat /\ answer.issued \in Nat
  BY <1>1, <1>3, <1>12 DEF TypeOK
<1>15. StoreIsOneIssue'
  BY <1>4, <1>5, <1>12, <1>13, <1>14 DEF StoreIsOneIssue
<1>16. GrantsOfAnIssue'
  BY <1>12, <1>13 DEF GrantsOfAnIssue
<1> QED
  BY <1>7, <1>8, <1>9, <1>15, <1>16 DEF SyncInv

\* An answer preserves the invariant, whichever issue it carries.
LEMMA AnswerStep == ASSUME SyncInv, NEW p \in PollIds, AnswerArrives(p) PROVE SyncInv'
<1>1. TypeOK /\ AnswersPublished
  BY DEF SyncInv
<1>2. /\ polls[p].at = "answered"
      /\ UNCHANGED <<config, server, published, expired, hold, spent>>
  BY DEF AnswerArrives
<1>3. ASSUME Done(p), UNCHANGED <<escrow, withdrawn>>,
             policy' = policy \/ policy' = [policy EXCEPT !.disabled = TRUE]
      PROVE  SyncInv'
  <2>1. polls' \in [PollIds -> Poll] /\ AnswersPublished'
    BY <1>1, <1>2, <1>3, PollForms, PollKept DEF Done
  <2>2. policy \in PolicyStore
    BY <1>1 DEF TypeOK
  <2>3. /\ policy' \in PolicyStore
        /\ policy'.rules = policy.rules /\ policy'.grants = policy.grants
        /\ policy'.outlived = policy.outlived /\ policy'.appliedIssued = policy.appliedIssued
    BY <1>3, <2>2 DEF PolicyStore
  <2>4. hold' \in [at : {"idle", "checking", "sleeping", "refreshing", "deciding", "sent", "refused"},
                   ruleHash : Issues, deadlinePassed : BOOLEAN]
        /\ expired' \subseteq Issues
    BY <1>1, <1>2 DEF TypeOK
  <2> QED
    BY <1>2, <1>3, <2>1, <2>3, <2>4, QuietStep
<1>4. CASE RemoteDisable(p)
  BY <1>3, <1>4 DEF RemoteDisable
<1>5. CASE RefuseSignature(p)
  BY <1>3, <1>5 DEF RefuseSignature, PollFails
<1>6. ASSUME NEW signed \in BOOLEAN, NEW carried \in BOOLEAN, ApplyPolicies(p, carried),
             config.pinned => VerifyPolicySignature(polls[p].answer, signed, carried)
      PROVE  SyncInv'
  BY <1>2, <1>6, ApplyStep
<1> QED
  BY <1>4, <1>5, <1>6 DEF AnswerArrives

----------------------------------------------------------------------------
(* The theorems.                                                           *)

\* Every step of the synchronisation preserves the invariant.
LEMMA SyncStepKeeps == SyncInv /\ [Next]_vars => SyncInv'
<1> SUFFICES ASSUME SyncInv, [Next]_vars PROVE SyncInv'
  OBVIOUS
<1>1. CASE Next
  <2>1. CASE ServerChanges
    BY <2>1, ServerStep
  <2>2. ASSUME NEW p \in PollIds, Serve(p) \/ FetchFails(p) \/ AnswerArrives(p) PROVE SyncInv'
    BY <2>2, ServeStep, FetchFailsStep, AnswerStep
  <2>3. CASE BudgetElapses \/ GrantExpires
    BY <2>3, ClockSteps
  <2>4. CASE SpendEscrowShare
    BY <2>4, SpendStep
  <2>5. CASE StartTimerPoll \/ EvaluateRule \/ CheckHold \/ Wake \/ Refreshed
             \/ DeadlinePasses \/ RevalidateAndSend
    BY <2>5, HoldSteps
  <2> QED
    BY <1>1, <2>1, <2>2, <2>3, <2>4, <2>5 DEF Next
<1>2. CASE UNCHANGED vars
  <2>1. /\ UNCHANGED <<config, server, published, polls, policy, escrow, expired, hold,
                       spent, withdrawn>>
    BY <1>2 DEF vars
  <2> QED
    BY <2>1 DEF SyncInv, TypeOK, AnswersPublished, StoreIsOneIssue, GrantsOfAnIssue,
                SharesAccount, ShareSpentOnce, Withdrawn
<1> QED
  BY <1>1, <1>2

\* Policy synchronisation runs its own course whatever the stores do.
LEMMA EnforcementSteps ==
  /\ EnforcementInit => Init /\ StoresInit
  /\ [EnforcementNext]_enforcementVars => [Next]_vars
<1>1. EnforcementInit => Init /\ StoresInit
  BY DEF EnforcementInit
<1>2. [EnforcementNext]_enforcementVars => [Next]_vars
  BY DEF EnforcementNext, enforcementVars
<1> QED
  BY <1>1, <1>2

\* The state is well typed, and the shares, answers and grants are accounted for.
THEOREM SyncInvariant == EnforcementSpec => []SyncInv
<1>1. EnforcementInit => SyncInv
  BY SyncInitially, EnforcementSteps
<1>2. SyncInv /\ [EnforcementNext]_enforcementVars => SyncInv'
  BY SyncStepKeeps, EnforcementSteps
<1> QED
  BY <1>1, <1>2, PTL DEF EnforcementSpec

\* In whatever order overlapping polls are answered, rules and grants in force
\* are those of one issue, under a pinned key of the one recorded as applied; the
\* grants may be another's only since an answer came without approvals, and under
\* a pinned key only an earlier one's, where the issue applied has none
\* (pollPoliciesOnce, updateApprovals).
THEOREM OneIssue == EnforcementSpec => []StoreIsOneIssue
<1>1. SyncInv => StoreIsOneIssue
  BY DEF SyncInv
<1> QED
  BY <1>1, SyncInvariant, PTL

\* However answers are repeated and reordered, no epoch's share is spent twice
\* before the service withdraws escrow (applyEscrowGrant, spendEscrowShare).
THEOREM SpentOnce == EnforcementSpec => []ShareSpentOnce
<1>1. SyncInv => ShareSpentOnce
  BY DEF SyncInv
<1> QED
  BY <1>1, SyncInvariant, PTL

----------------------------------------------------------------------------
(* What a call is sent under.                                              *)

\* Only revalidation sends, under a grant the store holds at that moment.
LEMMA SendsUnderGrant ==
  ASSUME SyncInv, Next, hold'.at = "sent", hold.at # "sent"
  PROVE  \E i \in DOMAIN published : \E g \in published[i].grants :
           g.ruleHash \in {NoHash, hold.ruleHash} /\ g.id \notin expired
<1>1. hold \in [at : {"idle", "checking", "sleeping", "refreshing", "deciding", "sent", "refused"},
                ruleHash : Issues, deadlinePassed : BOOLEAN]
  BY DEF SyncInv, TypeOK
<1>2. CASE RevalidateAndSend
  <2>1. HasApproval(hold.ruleHash)
    BY <1>2 DEF RevalidateAndSend, NotHeld
  <2>2. PICK g \in policy.grants : Matches(g, hold.ruleHash)
    BY <2>1 DEF HasApproval
  <2>3. PICK i \in DOMAIN published : policy.grants = published[i].grants
    BY DEF SyncInv, GrantsOfAnIssue
  <2> QED
    BY <2>2, <2>3 DEF Matches
<1>3. CASE hold' = hold
  BY <1>3
<1>4. CASE EvaluateRule
  BY <1>1, <1>4 DEF EvaluateRule
<1>5. CASE CheckHold
  BY <1>1, <1>5 DEF CheckHold, NotHeld
<1>6. CASE Wake \/ Refreshed \/ DeadlinePasses
  BY <1>1, <1>6 DEF Wake, Refreshed, DeadlinePasses
<1> QED
  BY <1>2, <1>3, <1>4, <1>5, <1>6
     DEF Next, ServerChanges, StartTimerPoll, Serve, FetchFails, AnswerArrives, BudgetElapses,
         GrantExpires, SpendEscrowShare, client

\* A call that needed an approval leaves only under a published, unexpired grant
\* for the definition of the rule it met, or for every definition of it
\* (awaitApproval, matchApproval, revalidateApproval).
THEOREM SentUnderGrant == EnforcementSpec => SentUnderLiveGrant
<1> DEFINE Sends == hold'.at = "sent" /\ hold.at # "sent" =>
                      \E i \in DOMAIN published : \E g \in published[i].grants :
                        g.ruleHash \in {NoHash, hold.ruleHash} /\ g.id \notin expired
<1>1. SyncInv /\ [EnforcementNext]_enforcementVars => [Sends]_vars
  BY SendsUnderGrant, EnforcementSteps
<1> QED
  BY <1>1, SyncInvariant, PTL DEF EnforcementSpec, SentUnderLiveGrant

----------------------------------------------------------------------------
(* The stores that remember sessions.                                      *)

\* Both stores are finite, a latch entry carries the time its session was last
\* marked or enforced, and no entry comes from the future.
SessionInv ==
  /\ clock \in Nat
  /\ IsFiniteSet(DOMAIN tainted) /\ DOMAIN tainted \subseteq Scopes
  /\ seen \in [Scopes -> Nat] /\ \A s \in Scopes : seen[s] <= clock
  /\ tainted = [s \in DOMAIN tainted |-> seen[s]]
  /\ IsFiniteSet(DOMAIN sessions)
  /\ sessions = [s \in DOMAIN sessions |-> sessions[s]]
  /\ \A s \in DOMAIN sessions : sessions[s].at \in Nat /\ sessions[s].at <= clock

IsMap(f) == f = [k \in DOMAIN f |-> f[k]]

\* What marking leaves of a latch: every session and the one marked, except
\* that a full latch loses one of its oldest for a session that is new.
MarkLeaves(store, scope, latch) ==
  \E kept \in SUBSET DOMAIN store :
    /\ latch = [s \in kept \cup {scope} |-> IF s = scope THEN clock ELSE store[s]]
    /\ \/ kept = DOMAIN store
       \/ /\ scope \notin DOMAIN store
          /\ ~(Cardinality(DOMAIN store) < MaxSessions)
          /\ \E o \in DOMAIN store : /\ kept = DOMAIN store \ {o}
                                     /\ \A p \in DOMAIN store : store[o] <= store[p]

\* Marking a session tainted keeps the marks of all the others but the oldest.
LEMMA MarkedLatch ==
  \A store, scope : IsMap(store) =>
    \A latch \in MarkTainted(store, scope) : MarkLeaves(store, scope, latch)
<1> SUFFICES ASSUME NEW store, NEW scope, IsMap(store), NEW latch \in MarkTainted(store, scope)
             PROVE  MarkLeaves(store, scope, latch)
  OBVIOUS
<1> DEFINE marked(kept) == Put(Restrict(store, kept), scope, clock)
<1>1. ASSUME NEW kept \in SUBSET DOMAIN store
      PROVE  marked(kept) = [s \in kept \cup {scope} |-> IF s = scope THEN clock ELSE store[s]]
  BY DEF Restrict, Put
<1>2. CASE scope \in DOMAIN store \/ Cardinality(DOMAIN store) < MaxSessions
  <2>1. latch = marked(DOMAIN store)
    BY <1>2 DEF MarkTainted
  <2> QED
    BY <1>1, <2>1 DEF MarkLeaves
<1>3. CASE ~(scope \in DOMAIN store \/ Cardinality(DOMAIN store) < MaxSessions)
  <2>1. PICK o \in DOMAIN store : /\ \A p \in DOMAIN store : store[o] <= store[p]
                                  /\ latch = marked(DOMAIN store \ {o})
    BY <1>3 DEF MarkTainted
  <2> QED
    BY <1>1, <1>3, <2>1 DEF MarkLeaves
<1> QED
  BY <1>2, <1>3

\* A turn touches the latch, and then marks its session or does not.
LEMMA LatchAfterTurn ==
  ASSUME SessionInv, NEW scope \in Scopes, NEW turn \in TurnFindings, TakeTurn(scope, turn)
  PROVE  /\ DOMAIN tainted' \subseteq DOMAIN tainted \cup {scope}
         /\ tainted' = [s \in DOMAIN tainted' |-> IF s = scope THEN clock ELSE tainted[s]]
         /\ \/ DOMAIN tainted \subseteq DOMAIN tainted'
            \/ /\ ~(Cardinality(DOMAIN tainted) < MaxSessions)
               /\ \E o \in DOMAIN tainted :
                    /\ DOMAIN tainted \ DOMAIN tainted' \subseteq {o}
                    /\ \A p \in DOMAIN tainted : tainted[o] <= tainted[p]
<1> DEFINE latch == TouchTaint(tainted, scope)
<1>1. /\ latch = [s \in DOMAIN tainted |-> IF s = scope THEN clock ELSE tainted[s]]
      /\ DOMAIN latch = DOMAIN tainted
  BY DEF TouchTaint, SessionInv
<1>2. tainted' = latch \/ tainted' \in MarkTainted(latch, scope)
  <2>1. ASSUME NEW l \in MarkTainted(latch, scope), NEW m \in MarkTainted(l, scope) PROVE m = l
    <3>1. MarkLeaves(latch, scope, l)
      BY <1>1, <2>1, MarkedLatch DEF IsMap
    <3>2. scope \in DOMAIN l /\ l[scope] = clock /\ IsMap(l)
      BY <3>1 DEF MarkLeaves, IsMap
    <3>3. m = [s \in DOMAIN l |-> IF s = scope THEN clock ELSE l[s]]
      <4>1. MarkLeaves(l, scope, m)
        BY <2>1, <3>2, MarkedLatch
      <4> QED
        BY <3>2, <4>1 DEF MarkLeaves
    <3> QED
      BY <3>2, <3>3 DEF IsMap
  <2> HIDE DEF latch
  <2>2. ASSUME NEW l, l = latch \/ l \in MarkTainted(latch, scope), ScoreTurn(scope, turn, l)
        PROVE  tainted' = latch \/ tainted' \in MarkTainted(latch, scope)
    <3>1. tainted' = l \/ tainted' \in MarkTainted(l, scope)
      BY <2>2 DEF ScoreTurn
    <3> QED
      BY <2>1, <2>2, <3>1
  <2> QED
    BY <2>2 DEF TakeTurn, latch
<1> HIDE DEF latch
<1>3. CASE tainted' = latch
  BY <1>1, <1>3
<1>4. CASE tainted' \in MarkTainted(latch, scope)
  <2>1. MarkLeaves(latch, scope, tainted')
    BY <1>1, <1>4, MarkedLatch DEF IsMap
  <2>2. PICK kept \in SUBSET DOMAIN latch :
          /\ tainted' = [s \in kept \cup {scope} |-> IF s = scope THEN clock ELSE latch[s]]
          /\ \/ kept = DOMAIN latch
             \/ /\ scope \notin DOMAIN latch
                /\ ~(Cardinality(DOMAIN latch) < MaxSessions)
                /\ \E o \in DOMAIN latch : /\ kept = DOMAIN latch \ {o}
                                           /\ \A p \in DOMAIN latch : latch[o] <= latch[p]
    BY <2>1 DEF MarkLeaves
  <2>3. DOMAIN tainted' = kept \cup {scope}
    BY <2>2
  <2>4. tainted' = [s \in DOMAIN tainted' |-> IF s = scope THEN clock ELSE tainted[s]]
    BY <1>1, <2>2
  <2>5. CASE kept = DOMAIN latch
    BY <1>1, <2>3, <2>4, <2>5
  <2>6. CASE kept # DOMAIN latch
    <3>1. \A s \in DOMAIN tainted : latch[s] = tainted[s]
      BY <1>1, <2>2, <2>6
    <3> QED
      BY <1>1, <2>2, <2>3, <2>4, <2>6, <3>1
  <2> QED
    BY <2>5, <2>6
<1> QED
  BY <1>2, <1>3, <1>4

\* Eviction drops what is negligible, or keeps half a store of younger scores.
LEMMA Evicted ==
  ASSUME SessionInv, NEW kept \in EvictIfNeeded
  PROVE  /\ kept \subseteq DOMAIN sessions
         /\ \A s \in DOMAIN sessions \ kept :
              \/ Negligible(sessions[s])
              \/ Cardinality({o \in kept : sessions[o].at >= sessions[s].at}) >= MaxSessions \div 2
<1> USE ScopeStoresAssumption DEF ScopeStoresAssumption
<1> DEFINE live == {s \in DOMAIN sessions : ~Negligible(sessions[s])}
<1>1. /\ IsFiniteSet(DOMAIN sessions) /\ IsFiniteSet(live)
      /\ Cardinality(DOMAIN sessions) \in Nat /\ Cardinality(live) \in Nat
      /\ Cardinality(live) <= Cardinality(DOMAIN sessions)
  BY FS_Subset, FS_CardinalityType DEF SessionInv
<1> HIDE DEF live
<1>2. CASE Cardinality(DOMAIN sessions) < MaxSessions
  <2>1. ~(Cardinality(live) >= MaxSessions)
    BY <1>1, <1>2
  <2>2. EvictIfNeeded = {DOMAIN sessions}
    BY <1>1, <1>2, <2>1 DEF EvictIfNeeded, live
  <2> QED
    BY <2>2
<1>3. CASE Cardinality(DOMAIN sessions) >= MaxSessions /\ Cardinality(live) < MaxSessions
  <2>1. ~(Cardinality(DOMAIN sessions) < MaxSessions) /\ ~(Cardinality(live) >= MaxSessions)
    BY <1>1, <1>3
  <2>2. EvictIfNeeded = {live}
    BY <1>3, <2>1 DEF EvictIfNeeded, live
  <2> QED
    BY <2>2 DEF live
<1>4. CASE Cardinality(live) >= MaxSessions
  <2>1. ~(Cardinality(DOMAIN sessions) < MaxSessions) /\ ~(Cardinality(live) < MaxSessions)
    BY <1>1, <1>4
  <2>2. EvictIfNeeded = {k \in SUBSET live :
                           /\ Cardinality(k) = Cardinality(live) \div 2
                           /\ \A o \in k, d \in live \ k : sessions[o].at >= sessions[d].at}
    BY <1>4, <2>1 DEF EvictIfNeeded, live
  <2>3. /\ kept \subseteq live
        /\ Cardinality(kept) = Cardinality(live) \div 2
        /\ \A o \in kept, d \in live \ kept : sessions[o].at >= sessions[d].at
    BY <2>2
  <2>4. Cardinality(kept) >= MaxSessions \div 2
    BY <1>1, <1>4, <2>3
  <2>5. ASSUME NEW s \in DOMAIN sessions \ kept, ~Negligible(sessions[s])
        PROVE  {o \in kept : sessions[o].at >= sessions[s].at} = kept
    BY <2>3, <2>5 DEF live
  <2> QED
    BY <2>3, <2>4, <2>5 DEF live
<1> QED
  BY <1>1, <1>2, <1>3, <1>4

\* A turn keeps the scores eviction leaves, and renews its own.
LEMMA ScoresAfterTurn ==
  ASSUME SessionInv, NEW scope \in Scopes, NEW turn \in TurnFindings, TakeTurn(scope, turn)
  PROVE  \/ sessions' = sessions
         \/ \E kept \in EvictIfNeeded : \E entry :
              /\ entry.at = clock
              /\ sessions' = [s \in kept \cup {scope} |-> IF s = scope THEN entry ELSE sessions[s]]
<1>1. ASSUME NEW latch, ScoreTurn(scope, turn, latch)
      PROVE  \E kept \in EvictIfNeeded : \E entry :
               /\ entry.at = clock
               /\ sessions' = [s \in kept \cup {scope} |-> IF s = scope THEN entry ELSE sessions[s]]
  <2>1. PICK kept \in EvictIfNeeded :
          \E score, turns :
            sessions' = Put(Restrict(sessions, kept), scope,
                            [score |-> score, at |-> clock, turns |-> turns])
    BY <1>1 DEF ScoreTurn
  <2>2. PICK score, turns :
          sessions' = Put(Restrict(sessions, kept), scope,
                          [score |-> score, at |-> clock, turns |-> turns])
    BY <2>1
  <2> DEFINE entry == [score |-> score, at |-> clock, turns |-> turns]
  <2>3. entry.at = clock
    OBVIOUS
  <2>4. sessions' = [s \in kept \cup {scope} |-> IF s = scope THEN entry ELSE sessions[s]]
    BY <2>2 DEF Put, Restrict
  <2> QED
    BY <2>3, <2>4
<1> QED
  BY <1>1 DEF TakeTurn

\* A turn keeps the invariant of the stores, and neither forgets a taint nor
\* drops a score except as the stores promise.
LEMMA TurnStep ==
  ASSUME SessionInv, NEW scope \in Scopes, NEW turn \in TurnFindings, TakeTurn(scope, turn)
  PROVE  SessionInv' /\ TaintOutlastsFlood /\ ScoresOutlastFlood
<1>1. /\ clock' = clock /\ clock \in Nat
      /\ seen' = IF scope \in DOMAIN tainted \cup DOMAIN tainted'
                   THEN [seen EXCEPT ![scope] = clock] ELSE seen
  BY DEF TakeTurn, SessionInv
<1>2. /\ IsFiniteSet(DOMAIN tainted) /\ DOMAIN tainted \subseteq Scopes
      /\ seen \in [Scopes -> Nat] /\ \A s \in Scopes : seen[s] <= clock
      /\ tainted = [s \in DOMAIN tainted |-> seen[s]]
      /\ IsFiniteSet(DOMAIN sessions)
      /\ \A s \in DOMAIN sessions : sessions[s].at \in Nat /\ sessions[s].at <= clock
  BY DEF SessionInv
<1>3. /\ seen' \in [Scopes -> Nat] /\ \A s \in Scopes : seen'[s] <= clock
      /\ \A s \in Scopes : s # scope => seen'[s] = seen[s]
      /\ scope \in DOMAIN tainted \cup DOMAIN tainted' => seen'[scope] = clock
  BY <1>1, <1>2
<1>4. /\ IsFiniteSet(DOMAIN tainted') /\ DOMAIN tainted' \subseteq Scopes
      /\ tainted' = [s \in DOMAIN tainted' |-> seen'[s]]
  <2>1. DOMAIN tainted' \subseteq DOMAIN tainted \cup {scope}
        /\ tainted' = [s \in DOMAIN tainted' |-> IF s = scope THEN clock ELSE tainted[s]]
    BY LatchAfterTurn
  <2>2. IsFiniteSet(DOMAIN tainted \cup {scope})
    BY <1>2, FS_AddElement
  <2>3. IsFiniteSet(DOMAIN tainted')
    BY <2>1, <2>2, FS_Subset
  <2>4. \A s \in DOMAIN tainted' : (IF s = scope THEN clock ELSE tainted[s]) = seen'[s]
    BY <1>2, <1>3, <2>1
  <2> QED
    BY <1>2, <2>1, <2>3, <2>4
<1>5. TaintOutlastsFlood
  <2> SUFFICES ASSUME NEW s \in DOMAIN tainted \ DOMAIN tainted'
               PROVE  /\ Cardinality(DOMAIN tainted) >= MaxSessions
                      /\ \A o \in DOMAIN tainted' : seen'[o] >= seen[s]
    BY DEF TaintOutlastsFlood
  <2>1. /\ DOMAIN tainted' \subseteq DOMAIN tainted \cup {scope}
        /\ ~(Cardinality(DOMAIN tainted) < MaxSessions)
    BY LatchAfterTurn
  <2>2. \A p \in DOMAIN tainted : tainted[s] <= tainted[p]
    BY LatchAfterTurn
  <2>3. Cardinality(DOMAIN tainted) >= MaxSessions
    BY <1>2, <2>1, FS_CardinalityType, ScopeStoresAssumption DEF ScopeStoresAssumption
  <2>4. \A p \in DOMAIN tainted : tainted[p] = seen[p]
    BY <1>2
  <2>5. seen[s] \in Nat /\ seen[s] <= clock
    BY <1>2
  <2>6. ASSUME NEW o \in DOMAIN tainted' PROVE seen'[o] >= seen[s]
    <3>1. CASE o = scope
      BY <1>1, <1>3, <2>5, <3>1
    <3>2. CASE o # scope
      <4>1. o \in DOMAIN tainted /\ seen'[o] = seen[o] /\ seen[o] \in Nat
        BY <1>2, <1>3, <2>1, <3>2
      <4>2. seen[s] <= seen[o]
        BY <2>2, <2>4, <4>1
      <4> QED
        BY <2>5, <4>1, <4>2
    <3> QED
      BY <3>1, <3>2
  <2> QED
    BY <2>3, <2>6
<1>6. CASE sessions' = sessions
  <2>1. SessionInv'
    BY <1>1, <1>3, <1>4, <1>6 DEF SessionInv
  <2>2. ScoresOutlastFlood
    BY <1>6 DEF ScoresOutlastFlood
  <2> QED
    BY <1>5, <2>1, <2>2
<1>7. ASSUME NEW kept \in EvictIfNeeded, NEW entry, entry.at = clock,
             sessions' = [s \in kept \cup {scope} |-> IF s = scope THEN entry ELSE sessions[s]]
      PROVE  SessionInv' /\ ScoresOutlastFlood
  <2>1. /\ kept \subseteq DOMAIN sessions
        /\ \A s \in DOMAIN sessions \ kept :
             \/ Negligible(sessions[s])
             \/ Cardinality({o \in kept : sessions[o].at >= sessions[s].at}) >= MaxSessions \div 2
    BY Evicted
  <2>2. DOMAIN sessions' = kept \cup {scope} /\ IsFiniteSet(kept) /\ IsFiniteSet(kept \cup {scope})
    BY <1>2, <1>7, <2>1, FS_Subset, FS_AddElement
  <2>3. \A s \in DOMAIN sessions' : sessions'[s].at \in Nat /\ sessions'[s].at <= clock
    BY <1>1, <1>2, <1>7, <2>1
  <2>4. SessionInv'
    BY <1>1, <1>3, <1>4, <1>7, <2>2, <2>3 DEF SessionInv
  <2>5. ASSUME NEW s \in DOMAIN sessions \ DOMAIN sessions', ~Negligible(sessions[s])
        PROVE  Cardinality({o \in DOMAIN sessions' \cap DOMAIN sessions :
                              sessions[o].at >= sessions[s].at}) >= MaxSessions \div 2
    <3> DEFINE stay == {o \in kept : sessions[o].at >= sessions[s].at}
               all == {o \in DOMAIN sessions' \cap DOMAIN sessions :
                         sessions[o].at >= sessions[s].at}
    <3>1. Cardinality(stay) >= MaxSessions \div 2
      BY <2>1, <2>2, <2>5
    <3>2. stay \subseteq all /\ IsFiniteSet(all)
      BY <1>2, <2>1, <2>2, FS_Subset
    <3>3. /\ Cardinality(stay) <= Cardinality(all)
          /\ Cardinality(stay) \in Nat /\ Cardinality(all) \in Nat
      BY <3>2, FS_Subset, FS_CardinalityType
    <3>4. MaxSessions \div 2 \in Nat
      BY ScopeStoresAssumption DEF ScopeStoresAssumption
    <3> HIDE DEF stay, all
    <3>5. Cardinality(all) >= MaxSessions \div 2
      BY <3>1, <3>3, <3>4
    <3> QED
      BY <3>5 DEF all
  <2>6. ScoresOutlastFlood
    BY <2>5 DEF ScoresOutlastFlood
  <2> QED
    BY <2>4, <2>6
<1> QED
  BY <1>5, <1>6, <1>7, ScoresAfterTurn

\* What leaves the sessions alone forgets none of them.
LEMMA SessionsKept ==
  ASSUME SessionInv, UNCHANGED sessionStoreVars, clock' \in Nat, clock' >= clock
  PROVE  SessionInv' /\ TaintOutlastsFlood /\ ScoresOutlastFlood
<1>1. tainted' = tainted /\ sessions' = sessions /\ seen' = seen
  BY DEF sessionStoreVars
<1>2. \A s \in Scopes : seen[s] \in Nat /\ seen[s] <= clock'
  BY DEF SessionInv
<1>3. \A s \in DOMAIN sessions : sessions[s].at \in Nat /\ sessions[s].at <= clock'
  BY DEF SessionInv
<1> QED
  BY <1>1, <1>2, <1>3 DEF SessionInv, TaintOutlastsFlood, ScoresOutlastFlood

\* Every step of the process preserves the session invariant.
LEMMA SessionStep ==
  SessionInv /\ [EnforcementNext]_enforcementVars
    => SessionInv' /\ TaintOutlastsFlood /\ ScoresOutlastFlood
<1> SUFFICES ASSUME SessionInv, [EnforcementNext]_enforcementVars
             PROVE  SessionInv' /\ TaintOutlastsFlood /\ ScoresOutlastFlood
  OBVIOUS
<1>1. clock \in Nat
  BY DEF SessionInv
<1>2. CASE UNCHANGED storeVars
  BY <1>1, <1>2, SessionsKept DEF storeVars
<1>3. CASE Tick
  BY <1>1, <1>3, SessionsKept DEF Tick
<1>4. CASE MetersNext
  <2>1. CASE ~Tick
    <3>1. UNCHANGED <<clock, sessionStoreVars>>
      BY <1>4, <2>1 DEF MetersNext, AskSaturated, MeetRules, CallReturns, ResetQuota
    <3> QED
      BY <1>1, <3>1, SessionsKept
  <2> QED
    BY <1>3, <2>1
<1>5. CASE SessionsNext
  BY <1>3, <1>5, TurnStep DEF SessionsNext
<1> QED
  BY <1>2, <1>4, <1>5 DEF EnforcementNext, enforcementVars

\* No session is marked at the start.
LEMMA SessionInitially == StoresInit => SessionInv
<1> SUFFICES ASSUME StoresInit PROVE SessionInv
  OBVIOUS
<1>1. DOMAIN <<>> = {} /\ IsFiniteSet({})
  BY FS_EmptySet
<1>2. tainted = <<>> /\ sessions = <<>> /\ seen = [s \in Scopes |-> 0] /\ clock = 0
  BY DEF StoresInit
<1> QED
  BY <1>1, <1>2 DEF SessionInv

\* The stores that remember sessions stay as SessionInv says.
THEOREM SessionsInvariant == EnforcementSpec => []SessionInv
<1>1. EnforcementInit => SessionInv
  BY SessionInitially, EnforcementSteps
<1> QED
  BY <1>1, SessionStep, PTL DEF EnforcementSpec

\* A late answer carries no older issue into force under a pinned key.
LEMMA SignedForward ==
  SyncInv /\ [EnforcementNext]_enforcementVars => SignedPolicyNeverRollsBack
<1> SUFFICES ASSUME SyncInv, [Next]_vars, config.pinned
             PROVE  policy'.appliedIssued >= policy.appliedIssued
  BY EnforcementSteps DEF SignedPolicyNeverRollsBack
<1>1. policy \in PolicyStore
      /\ policy.appliedIssued \in Nat
  BY DEF SyncInv, TypeOK, PolicyStore, Issues
<1>2. CASE policy' = policy \/ BudgetElapses
  BY <1>1, <1>2 DEF BudgetElapses, PolicyStore
<1>3. ASSUME NEW p \in PollIds, AnswerArrives(p), policy' # policy
      PROVE  policy'.appliedIssued >= policy.appliedIssued
  <2>1. CASE RemoteDisable(p)
    BY <1>1, <2>1 DEF RemoteDisable, PolicyStore
  <2>2. ASSUME NEW carried \in BOOLEAN, ApplyPolicies(p, carried),
               polls[p].answer.issued >= policy.appliedIssued
        PROVE  policy'.appliedIssued >= policy.appliedIssued
    BY <1>1, <2>2 DEF ApplyPolicies
  <2> QED
    BY <1>3, <2>1, <2>2 DEF AnswerArrives, RefuseSignature, PollFails, VerifyPolicySignature
<1> QED
  BY <1>2, <1>3
     DEF Next, vars, ServerChanges, StartTimerPoll, Serve, FetchFails, PollFails, GrantExpires,
         SpendEscrowShare, EvaluateRule, CheckHold, Wake, Refreshed, DeadlinePasses,
         RevalidateAndSend, Unchanged, client

\* Nothing in force is undone by what comes later: a signed policy not by an
\* older answer (verifyPolicySignature), a taint not by marking other sessions
\* (markTainted), an accumulated score not by theirs (evictIfNeeded).
THEOREM NothingUndone == EnforcementSpec => NothingRollsBack
<1>1. SyncInv /\ SessionInv /\ [EnforcementNext]_enforcementVars
        => SignedPolicyNeverRollsBack /\ TaintOutlastsFlood /\ ScoresOutlastFlood
  BY SessionStep, SignedForward
<1> QED
  BY <1>1, SyncInvariant, SessionsInvariant, PTL DEF EnforcementSpec, NothingRollsBack

----------------------------------------------------------------------------
(* The fold of the model is a total.                                        *)

\* The fold of the model is a total.
LEMMA FoldIsTotal ==
  ASSUME NEW S, IsFiniteSet(S), NEW f
  PROVE  FoldFunctionOnSet(LAMBDA n, sum : n + sum, 0, f, S) = Total(f, S)
<1> DEFINE step(g) == [s \in SUBSET S |-> IF s = {} THEN 0
                         ELSE LET x == CHOOSE y \in s : TRUE IN f[x] + g[s \ {x}]]
           iter == CHOOSE g : g = step(g)
           fold == FoldFunctionOnSet(LAMBDA n, sum : n + sum, 0, f, S)
<1>1. fold = iter[S]
  BY DEF FoldFunctionOnSet, MapThenFoldSet
<1> SUFFICES fold = Total(f, S)
  OBVIOUS
<1> HIDE DEF fold
<1>2. ASSUME NEW g PROVE step(g) = SumStep(f, S, g)
  BY DEF SumStep
<1>3. PICK g : Sums(f, S, g)
  BY SumExists
<1>4. g = step(g)
  BY <1>2, <1>3 DEF Sums
<1>5. iter = step(iter)
  BY <1>4
<1> HIDE DEF iter, step
<1>6. Sums(f, S, iter)
  BY <1>2, <1>5 DEF Sums
<1> QED
  BY <1>1, <1>6, TotalIs

----------------------------------------------------------------------------
(* Windows of use.                                                         *)

Uses == [Ticks -> Nat]
Span(first, width) == {t \in Ticks : first <= t /\ t < first + width}
Within(f, first, width) == Total(f, Span(first, width))

\* Nothing was used from a time on.
Quiet(f, from) == \A t \in Ticks : t >= from => f[t] = 0

\* A window that opened at s holds at most so much, nothing was used after it,
\* and what was used in the last such span before it is at most as much.
Fits(f, s, w, most) ==
  /\ Quiet(f, s + w)
  /\ Within(f, s, w) <= most
  /\ Within(f, s - w + 1, w - 1) <= most

SpansFit(f, w, most) == \A first \in Ticks : Within(f, first, w) <= 2 * most

\* Spans of ticks are finite, and a use of them is a number.
LEMMA SpanFinite ==
  /\ IsFiniteSet(Ticks)
  /\ \A first, width : IsFiniteSet(Span(first, width)) /\ Span(first, width) \subseteq Ticks
  /\ \A f \in Uses : \A first, width : Within(f, first, width) \in Nat
<1>1. IsFiniteSet(Ticks)
  BY ScopeStoresAssumption, FS_Interval DEF ScopeStoresAssumption, Ticks
<1>2. ASSUME NEW first, NEW width PROVE IsFiniteSet(Span(first, width)) /\ Span(first, width) \subseteq Ticks
  BY <1>1, FS_Subset DEF Span
<1>3. ASSUME NEW f \in Uses, NEW first, NEW width PROVE Within(f, first, width) \in Nat
  <2>1. \A t \in Span(first, width) : f[t] \in Nat
    BY <1>2 DEF Uses
  <2> QED
    BY <1>2, <2>1, TotalRemoves DEF Within
<1> QED
  BY <1>1, <1>2, <1>3

\* What the model sums up is the use of a span.
LEMMA UsedIsWithin == \A u, first, width : UsedWithin(u, first, width) = Within(used[u], first, width)
<1> SUFFICES ASSUME NEW u, NEW first, NEW width
             PROVE  UsedWithin(u, first, width) = Within(used[u], first, width)
  OBVIOUS
<1> DEFINE S == Span(first, width)
           f == used[u]
<1>1. UsedWithin(u, first, width) = FoldFunctionOnSet(LAMBDA n, sum : n + sum, 0, f, S)
  BY DEF UsedWithin, Span
<1>2. IsFiniteSet(S)
  BY SpanFinite
<1> HIDE DEF S, f
<1>3. FoldFunctionOnSet(LAMBDA n, sum : n + sum, 0, f, S) = Total(f, S)
  BY <1>2, FoldIsTotal
<1> DEFINE fold == FoldFunctionOnSet(LAMBDA n, sum : n + sum, 0, f, S)
<1>4. UsedWithin(u, first, width) = fold /\ fold = Total(f, S)
  BY <1>1, <1>3
<1> HIDE DEF fold
<1> QED
  BY <1>4 DEF Within, S, f

\* A use that lies in two spans is at most their sum.
LEMMA SpanCovered ==
  ASSUME NEW f \in Uses, NEW a, NEW v, NEW b, NEW x, NEW c, NEW y,
         \A t \in Span(a, v) : f[t] = 0 \/ t \in Span(b, x) \/ t \in Span(c, y)
  PROVE  Within(f, a, v) <= Within(f, b, x) + Within(f, c, y)
<1>1. /\ IsFiniteSet(Span(a, v)) /\ IsFiniteSet(Span(b, x)) /\ IsFiniteSet(Span(c, y))
      /\ \A t \in Span(a, v) \cup Span(b, x) \cup Span(c, y) : f[t] \in Nat
  BY SpanFinite DEF Uses
<1> QED
  BY <1>1, TotalCovered DEF Within

\* Nothing used in a span.
LEMMA SpanQuiet ==
  ASSUME NEW f, NEW a, NEW v, \A t \in Span(a, v) : f[t] = 0
  PROVE  Within(f, a, v) = 0
BY SpanFinite, TotalZero DEF Within

\* A use adds to the spans it lies in.
LEMMA SpanBumped ==
  ASSUME NEW f \in Uses, NEW c \in Ticks, NEW n \in Nat, NEW a, NEW v,
         NEW g \in Uses, \A t \in Ticks : g[t] = IF t = c THEN f[t] + n ELSE f[t]
  PROVE  /\ c \in Span(a, v) => Within(g, a, v) = Within(f, a, v) + n
         /\ c \notin Span(a, v) => Within(g, a, v) = Within(f, a, v) + 0
<1> DEFINE S == Span(a, v)
<1>1. IsFiniteSet(S) /\ (\A t \in S : f[t] \in Nat)
      /\ \A t \in S : g[t] = IF t = c THEN f[t] + n ELSE f[t]
  BY SpanFinite DEF Uses
<1> HIDE DEF S
<1>2. Total(g, S) = Total(f, S) + (IF c \in S THEN n ELSE 0)
  BY <1>1, TotalBumped
<1> QED
  BY <1>2 DEF Within, S

\* Once a window has ended the next may open.
LEMMA NextWindow ==
  ASSUME NEW f \in Uses, NEW s \in Int, NEW w \in Nat \ {0}, NEW most, NEW c \in Ticks,
         s + w <= c, Fits(f, s, w, most), most \in Nat
  PROVE  Fits(f, c, w, most) /\ Within(f, c, w) = 0
<1>1. c \in Nat /\ \A t \in Ticks : t \in Nat
  BY ScopeStoresAssumption DEF ScopeStoresAssumption, Ticks
<1>2. \A t \in Ticks : t >= c => f[t] = 0
  BY <1>1 DEF Fits, Quiet
<1>3. Within(f, c, w) = 0
  <2>1. \A t \in Span(c, w) : f[t] = 0
    BY <1>1, <1>2 DEF Span
  <2> QED
    BY <2>1, SpanQuiet
<1>4. Within(f, c - w + 1, w - 1) <= most
  <2>1. \A t \in Span(c - w + 1, w - 1) : f[t] = 0 \/ t \in Span(s, w) \/ t \in Span(0, 0)
    BY <1>1 DEF Span, Fits, Quiet
  <2>2. Within(f, c - w + 1, w - 1) <= Within(f, s, w) + Within(f, 0, 0)
    BY <2>1, SpanCovered
  <2>3. Within(f, 0, 0) = 0
    <3>1. \A t \in Span(0, 0) : f[t] = 0
      BY <1>1 DEF Span
    <3> QED
      BY <3>1, SpanQuiet
  <2>4. Within(f, s, w) <= most /\ Within(f, s, w) \in Nat /\ Within(f, c - w + 1, w - 1) \in Nat
    BY SpanFinite DEF Fits
  <2> QED
    BY <2>2, <2>3, <2>4
<1>5. Quiet(f, c + w)
  BY <1>1, <1>2 DEF Quiet
<1> QED
  BY <1>3, <1>4, <1>5 DEF Fits

\* While a window is open its use may grow up to what it holds.
LEMMA UseInWindow ==
  ASSUME NEW f \in Uses, NEW s \in Int, NEW w \in Nat \ {0}, NEW most \in Nat, NEW c \in Ticks,
         s <= c, c < s + w, NEW n \in Nat, Fits(f, s, w, most), Within(f, s, w) + n <= most,
         SpansFit(f, w, most), Quiet(f, c + 1),
         NEW g \in Uses, \A t \in Ticks : g[t] = IF t = c THEN f[t] + n ELSE f[t]
  PROVE  /\ Fits(g, s, w, most) /\ SpansFit(g, w, most) /\ Quiet(g, c + 1)
         /\ Within(g, s, w) = Within(f, s, w) + n
<1>1. c \in Nat /\ \A t \in Ticks : t \in Nat
  BY ScopeStoresAssumption DEF ScopeStoresAssumption, Ticks
<1>2. g \in Uses /\ \A a, v : /\ c \in Span(a, v) => Within(g, a, v) = Within(f, a, v) + n
                              /\ c \notin Span(a, v) => Within(g, a, v) = Within(f, a, v) + 0
  <2>1. ASSUME NEW a, NEW v
        PROVE  /\ c \in Span(a, v) => Within(g, a, v) = Within(f, a, v) + n
               /\ c \notin Span(a, v) => Within(g, a, v) = Within(f, a, v) + 0
    BY SpanBumped
  <2> QED
    BY <2>1
<1>3. \A a, v : Within(g, a, v) \in Nat /\ Within(f, a, v) \in Nat
  BY <1>2, SpanFinite
<1>4. Within(g, s, w) = Within(f, s, w) + n
  <2>1. c \in Span(s, w)
    BY <1>1 DEF Span
  <2> QED
    BY <1>2, <2>1
<1>5. Within(g, s - w + 1, w - 1) = Within(f, s - w + 1, w - 1)
  <2>1. c \notin Span(s - w + 1, w - 1)
    BY <1>1 DEF Span
  <2>2. Within(g, s - w + 1, w - 1) = Within(f, s - w + 1, w - 1) + 0
    BY <1>2, <2>1
  <2> QED
    BY <1>3, <2>2
<1>6. Quiet(g, s + w) /\ Quiet(g, c + 1)
  BY <1>1 DEF Quiet, Fits, Uses
<1>7. Fits(g, s, w, most)
  BY <1>4, <1>5, <1>6 DEF Fits
<1>8. ASSUME NEW first \in Ticks PROVE Within(g, first, w) <= 2 * most
  <2>1. CASE c \notin Span(first, w)
    <3>1. Within(g, first, w) = Within(f, first, w) + 0
      BY <1>2, <2>1
    <3>2. Within(f, first, w) <= 2 * most
      BY DEF SpansFit
    <3> QED
      BY <1>3, <3>1, <3>2
  <2>2. CASE c \in Span(first, w)
    <3>1. \A t \in Span(first, w) : \/ g[t] = 0
                                    \/ t \in Span(s - w + 1, w - 1)
                                    \/ t \in Span(s, w)
      BY <1>1, <1>6, <2>2 DEF Span, Quiet
    <3>2. Within(g, first, w) <= Within(g, s - w + 1, w - 1) + Within(g, s, w)
      BY <1>2, <3>1, SpanCovered
    <3>3. Within(g, s - w + 1, w - 1) <= most /\ Within(g, s, w) <= most
      BY <1>7 DEF Fits
    <3>4. Within(g, s - w + 1, w - 1) \in Nat /\ Within(g, s, w) \in Nat /\ Within(g, first, w) \in Nat
      BY <1>3
    <3> QED
      BY <3>2, <3>3, <3>4
  <2> QED
    BY <2>1, <2>2
<1> QED
  BY <1>2, <1>4, <1>6, <1>7, <1>8 DEF SpansFit

----------------------------------------------------------------------------
(* The meters.                                                             *)

\* The rules of a configuration.
SetupFits == setup.rules \in Seq(QuotaRule) /\ clock \in Ticks

\* A meter holds well-formed entries, opened by now for the window of a rule, and
\* none ends before its expiry bound.
Widths == {r.window : r \in Range(setup.rules)}
Entry == [count : Nat, start : Nat, window : Nat \ {0}]
MeterFits(m) ==
  /\ DOMAIN m = {"entries", "earliest"}
  /\ m.earliest \in Nat /\ IsFiniteSet(DOMAIN m.entries)
  /\ \A s \in DOMAIN m.entries :
       /\ m.entries[s] \in Entry /\ m.entries[s].start <= clock
       /\ m.entries[s].window \in Widths
       /\ m.earliest <= Expires(m.entries[s])

\* Full of windows that are still open.
Crowded(m) == FullMeter(m) /\ \A s \in DOMAIN m.entries : Expires(m.entries[s]) > clock

\* Nothing but expired entries left, and nothing came in.
Sheds(m, o) ==
  /\ \A s \in DOMAIN o.entries : s \in DOMAIN m.entries /\ o.entries[s] = m.entries[s]
  /\ \A s \in DOMAIN m.entries \ DOMAIN o.entries : Expires(m.entries[s]) <= clock

\* The least of a set of numbers.
LEMMA LeastIs ==
  ASSUME NEW T, T \subseteq Nat, T # {}
  PROVE  Min(T) \in T /\ \A y \in T : Min(T) <= y
<1>1. PICK x \in T : \A y \in T : ~(y < x)
  BY LeastOf
<1>2. \A y \in T : x <= y
  BY <1>1
<1> QED
  BY <1>1, <1>2 DEF Min

\* The rules of the configuration.
LEMMA RulesAre ==
  ASSUME SetupFits
  PROVE  /\ Len(setup.rules) \in Nat
         /\ \A i \in 1..Len(setup.rules) :
              setup.rules[i] \in QuotaRule /\ setup.rules[i] \in Range(setup.rules)
         /\ \A r \in Range(setup.rules) :
              /\ r \in QuotaRule /\ r.unit \in QuotaUnits
              /\ r.limit \in Nat \ {0} /\ r.window \in Nat \ {0}
              /\ \E i \in 1..Len(setup.rules) : r = setup.rules[i]
<1> DEFINE rs == setup.rules
<1>1. rs \in Seq(QuotaRule)
  BY DEF SetupFits
<1> SUFFICES /\ Len(rs) \in Nat
             /\ \A i \in 1..Len(rs) : rs[i] \in QuotaRule /\ rs[i] \in Range(rs)
             /\ \A r \in Range(rs) :
                  /\ r \in QuotaRule /\ r.unit \in QuotaUnits
                  /\ r.limit \in Nat \ {0} /\ r.window \in Nat \ {0}
                  /\ \E i \in 1..Len(rs) : r = rs[i]
  OBVIOUS
<1> HIDE DEF rs
<1>2. Len(rs) \in Nat /\ DOMAIN rs = 1..Len(rs)
  BY <1>1, LenProperties
<1>3. \A i \in 1..Len(rs) : rs[i] \in QuotaRule
  BY <1>1, ElementOfSeq
<1>4. \A r \in QuotaRule : r.unit \in QuotaUnits /\ r.limit \in Nat \ {0} /\ r.window \in Nat \ {0}
  BY DEF QuotaRule
<1>5. \A r \in Range(rs) : \E i \in 1..Len(rs) : r = rs[i]
  BY <1>2 DEF Range
<1>6. \A i \in 1..Len(rs) : rs[i] \in Range(rs)
  BY <1>2 DEF Range
<1> QED
  BY <1>2, <1>3, <1>4, <1>5, <1>6

\* A counter may stop one beyond the highest limit, and still exceeds every one.
LEMMA BeyondLimits ==
  ASSUME SetupFits
  PROVE  Beyond \in Nat /\ Beyond >= 1 /\ \A r \in Range(setup.rules) : r.limit < Beyond
<1> DEFINE rs == setup.rules
           n == Len(rs)
           upto(j) == {0} \cup {rs[i].limit : i \in 1..j}
           Bad == {j \in Nat : j <= n /\ ~\E x \in upto(j) : \A y \in upto(j) : x >= y}
<1>1. n \in Nat /\ \A i \in 1..n : rs[i].limit \in Nat
  BY RulesAre
<1>2. \A r \in Range(rs) : \E i \in 1..n : r = rs[i]
  BY RulesAre
<1>3. \A i \in 1..n : rs[i] \in Range(rs)
  BY RulesAre
<1>4. Beyond = 1 + Max({0} \cup {r.limit : r \in Range(rs)})
  BY DEF Beyond
<1> SUFFICES Beyond \in Nat /\ Beyond >= 1 /\ \A r \in Range(rs) : r.limit < Beyond
  OBVIOUS
<1> HIDE DEF rs, n
<1>5. Bad = {}
  <2> SUFFICES ASSUME Bad # {} PROVE FALSE
    OBVIOUS
  <2>1. PICK j \in Bad : \A k \in Bad : ~(k < j)
    <3>1. Bad \subseteq Nat
      OBVIOUS
    <3> HIDE DEF Bad
    <3> QED
      BY <3>1, LeastOf
  <2>2. j \in Nat /\ j <= n /\ j # 0
    <3>1. upto(0) = {0}
      OBVIOUS
    <3>2. 0 \notin Bad
      BY <3>1
    <3> QED
      BY <2>1, <3>2
  <2>3. j - 1 \in Nat /\ j - 1 <= n /\ j \in 1..n /\ j - 1 < j
    BY <1>1, <2>2
  <2>4. j - 1 \notin Bad
    BY <2>1, <2>3
  <2>5. PICK x \in upto(j - 1) : \A y \in upto(j - 1) : x >= y
    BY <2>3, <2>4
  <2>6. upto(j) = upto(j - 1) \cup {rs[j].limit}
    <3>1. \A i \in 1..j : i \in 1..(j - 1) \/ i = j
      BY <2>2
    <3>2. j \in 1..j /\ \A i \in 1..(j - 1) : i \in 1..j
      BY <2>2
    <3> QED
      BY <3>1, <3>2
  <2>7. \A i \in 1..(j - 1) : i \in 1..n
    BY <1>1, <2>2
  <2>8. (\A y \in upto(j - 1) : y \in Nat) /\ rs[j].limit \in Nat
    BY <1>1, <2>3, <2>7
  <2> DEFINE l == rs[j].limit
             U == upto(j - 1)
             V == upto(j)
  <2>9. V = U \cup {l} /\ x \in U /\ (\A y \in U : x >= y /\ y \in Nat) /\ l \in Nat /\ x \in Nat
    BY <2>5, <2>6, <2>8
  <2>10. ~\E z \in V : \A y \in V : z >= y
    BY <2>1
  <2> HIDE DEF U, V, l
  <2>11. CASE x >= l
    <3>1. \A y \in V : x >= y
      BY <2>9, <2>11
    <3> QED
      BY <2>9, <2>10, <3>1
  <2>12. CASE ~(x >= l)
    <3>1. \A y \in V : l >= y
      BY <2>9, <2>12
    <3> QED
      BY <2>9, <2>10, <3>1
  <2> QED
    BY <2>11, <2>12
<1>6. PICK x \in upto(n) : \A y \in upto(n) : x >= y
  <2>1. n \notin Bad
    BY <1>5
  <2> QED
    BY <1>1, <2>1
<1> DEFINE U == {0} \cup {r.limit : r \in Range(rs)}
<1>7. upto(n) = U
  BY <1>2, <1>3
<1>8. \A y \in upto(n) : y \in Nat
  BY <1>1
<1>9. \A r \in Range(rs) : r.limit \in U
  OBVIOUS
<1>10. 0 \in U /\ x \in U /\ \A y \in U : x >= y /\ y \in Nat
  BY <1>6, <1>7, <1>8
<1> HIDE DEF U
<1>11. Max(U) \in U /\ \A y \in U : Max(U) >= y
  BY <1>10 DEF Max
<1>12. Beyond = 1 + Max(U) /\ Max(U) \in Nat
  BY <1>4, <1>10, <1>11 DEF U
<1>13. \A r \in Range(rs) : r.limit \in Nat /\ Max(U) >= r.limit
  BY <1>9, <1>10, <1>11
<1> QED
  BY <1>12, <1>13

\* Making room drops expired entries only, and leaves a full meter crowded.
LEMMA RoomMade ==
  ASSUME SetupFits, NEW m, MeterFits(m), NEW o, o = MakeRoom(m)
  PROVE  MeterFits(o) /\ Sheds(m, o) /\ (FullMeter(o) => Crowded(o))
<1>1. clock \in Nat /\ \A s \in DOMAIN m.entries : /\ Expires(m.entries[s]) \in Nat
                                                   /\ m.earliest <= Expires(m.entries[s])
  BY ScopeStoresAssumption DEF SetupFits, MeterFits, Entry, Expires, Ticks, ScopeStoresAssumption
<1>2. CASE ~(FullMeter(m) /\ clock >= m.earliest)
  <2>1. o = m
    BY <1>2 DEF MakeRoom
  <2>2. FullMeter(m) => \A s \in DOMAIN m.entries : Expires(m.entries[s]) > clock
    BY <1>1, <1>2 DEF MeterFits
  <2> QED
    BY <2>1, <2>2 DEF Crowded, Sheds
<1>3. CASE FullMeter(m) /\ clock >= m.earliest
  <2> DEFINE live == LiveScopes(m)
             ends == {Never} \cup {Expires(m.entries[s]) : s \in live}
  <2>1. /\ o.entries = Restrict(m.entries, live) /\ o.earliest = Min(ends)
        /\ DOMAIN o = {"entries", "earliest"}
    BY <1>3 DEF MakeRoom, SweepExpired
  <2>2. /\ live \subseteq DOMAIN m.entries /\ IsFiniteSet(live)
        /\ \A s \in DOMAIN m.entries : s \in live <=> Expires(m.entries[s]) > clock
    BY FS_Subset DEF MeterFits, LiveScopes
  <2>3. ends \subseteq Nat /\ ends # {}
    BY <1>1, <2>2, ScopeStoresAssumption DEF Never, ScopeStoresAssumption
  <2>4. \A s \in live : Expires(m.entries[s]) \in ends
    OBVIOUS
  <2> HIDE DEF ends, live
  <2>5. Min(ends) \in Nat /\ \A s \in live : Min(ends) <= Expires(m.entries[s])
    BY <2>3, <2>4, LeastIs
  <2>6. DOMAIN o.entries = live /\ \A s \in live : o.entries[s] = m.entries[s]
    BY <2>1, <2>2 DEF Restrict
  <2>7. MeterFits(o)
    BY <2>1, <2>2, <2>5, <2>6 DEF MeterFits
  <2>8. Sheds(m, o)
    BY <1>1, <2>2, <2>6 DEF Sheds
  <2> QED
    BY <2>2, <2>6, <2>7, <2>8 DEF Crowded
<1> QED
  BY <1>2, <1>3

\* A window is opened anew.
Fresh(width) == [count |-> 0, start |-> clock, window |-> width]

\* An opened window is the scope's only change in the meter.
LEMMA Opens ==
  ASSUME SetupFits, NEW m, MeterFits(m), NEW scope, NEW w \in Widths,
         NEW o, o = OpenWindow(m, scope, w)
  PROVE  /\ MeterFits(o) /\ DOMAIN o.entries = DOMAIN m.entries \cup {scope}
         /\ o.entries[scope] = Fresh(w)
         /\ \A s \in DOMAIN m.entries : s # scope => o.entries[s] = m.entries[s]
<1>1. w \in Nat \ {0}
  BY RulesAre DEF Widths
<1>2. clock \in Nat /\ m.earliest \in Nat
  BY ScopeStoresAssumption DEF SetupFits, Ticks, ScopeStoresAssumption, MeterFits
<1>3. /\ DOMAIN o.entries = DOMAIN m.entries \cup {scope}
      /\ \A s \in DOMAIN o.entries : o.entries[s] = IF s = scope THEN Fresh(w) ELSE m.entries[s]
      /\ o.earliest = Min({m.earliest, clock + w}) /\ DOMAIN o = {"entries", "earliest"}
  BY DEF OpenWindow, Put, TrackExpiry, Fresh
<1>4. IsFiniteSet(DOMAIN m.entries \cup {scope})
  BY FS_AddElement DEF MeterFits
<1>5. /\ o.earliest \in Nat /\ o.earliest <= m.earliest /\ o.earliest <= clock + w
  <2> DEFINE T == {m.earliest, clock + w}
  <2>1. T \subseteq Nat /\ T # {} /\ m.earliest \in T /\ clock + w \in T
    BY <1>1, <1>2
  <2> HIDE DEF T
  <2>2. Min(T) \in T /\ \A y \in T : Min(T) <= y
    BY <2>1, LeastIs
  <2> QED
    BY <1>3, <2>1, <2>2 DEF T
<1>6. Fresh(w) \in Entry /\ Fresh(w).start = clock /\ Fresh(w).window = w /\ Expires(Fresh(w)) = clock + w
  BY <1>1, <1>2 DEF Fresh, Entry, Expires
<1>7. ASSUME NEW s \in DOMAIN o.entries
      PROVE  /\ o.entries[s] \in Entry /\ o.entries[s].start <= clock
             /\ o.entries[s].window \in Widths
             /\ o.earliest <= Expires(o.entries[s])
  <2>1. CASE s = scope
    BY <1>1, <1>2, <1>3, <1>5, <1>6, <2>1
  <2>2. CASE s # scope
    <3>1. /\ s \in DOMAIN m.entries /\ o.entries[s] = m.entries[s]
      BY <1>3, <2>2
    <3>2. Expires(m.entries[s]) \in Nat /\ m.earliest <= Expires(m.entries[s])
      BY <3>1 DEF MeterFits, Expires, Entry
    <3>3. o.earliest <= Expires(o.entries[s])
      BY <1>2, <1>5, <3>1, <3>2
    <3> QED
      BY <3>1, <3>3 DEF MeterFits
  <2> QED
    BY <2>1, <2>2
<1>8. MeterFits(o)
  BY <1>3, <1>4, <1>5, <1>7 DEF MeterFits
<1> QED
  BY <1>3, <1>8

\* What getOrCreate gives a scope: its open window, a new one, or no slot in a
\* crowded store; of the other entries it loses expired ones at most.
Gets(m, scope, width, o) ==
  /\ scope \notin DOMAIN o.entries => scope \notin DOMAIN m.entries /\ Crowded(o)
  /\ scope \in DOMAIN o.entries =>
       /\ clock < o.entries[scope].start + width
       /\ \/ scope \in DOMAIN m.entries /\ o.entries[scope] = m.entries[scope]
          \/ /\ o.entries[scope] = Fresh(width)
             /\ scope \in DOMAIN m.entries => m.entries[scope].start + width <= clock
  /\ \A s \in DOMAIN o.entries : s # scope => s \in DOMAIN m.entries /\ o.entries[s] = m.entries[s]
  /\ \A s \in DOMAIN m.entries \ DOMAIN o.entries : Expires(m.entries[s]) <= clock
  /\ Crowded(m) /\ scope \notin DOMAIN m.entries => scope \notin DOMAIN o.entries

\* Getting an entry does that, whatever the meter.
LEMMA Got ==
  ASSUME SetupFits, NEW m, MeterFits(m), NEW scope, NEW w \in Widths,
         NEW o, o = GetOrCreate(m, scope, w)
  PROVE  MeterFits(o) /\ Gets(m, scope, w, o)
<1>1. w \in Nat \ {0} /\ clock \in Nat
  BY RulesAre, ScopeStoresAssumption DEF Widths, SetupFits, Ticks, ScopeStoresAssumption
<1>2. \A s \in DOMAIN m.entries : m.entries[s].start \in Nat
  BY DEF MeterFits, Entry
<1>3. CASE scope \in DOMAIN m.entries /\ clock - m.entries[scope].start < w
  <2>1. o = m
    BY <1>1, <1>2, <1>3 DEF GetOrCreate
  <2>2. clock < m.entries[scope].start + w
    BY <1>1, <1>2, <1>3
  <2> QED
    BY <1>3, <2>1, <2>2 DEF Gets
<1>4. CASE scope \in DOMAIN m.entries /\ clock - m.entries[scope].start >= w
  <2>1. o = OpenWindow(m, scope, w)
    BY <1>1, <1>2, <1>4 DEF GetOrCreate
  <2>2. /\ MeterFits(o) /\ DOMAIN o.entries = DOMAIN m.entries \cup {scope}
        /\ o.entries[scope] = Fresh(w)
        /\ \A s \in DOMAIN m.entries : s # scope => o.entries[s] = m.entries[s]
    BY <2>1, Opens
  <2>3. m.entries[scope].start + w <= clock /\ Fresh(w).start = clock
    BY <1>1, <1>2, <1>4 DEF Fresh
  <2> QED
    BY <1>1, <1>4, <2>2, <2>3 DEF Gets
<1>5. CASE scope \notin DOMAIN m.entries
  <2> DEFINE roomy == MakeRoom(m)
  <2>1. MeterFits(roomy) /\ Sheds(m, roomy) /\ (FullMeter(roomy) => Crowded(roomy))
    BY RoomMade
  <2>2. scope \notin DOMAIN roomy.entries
    BY <1>5, <2>1 DEF Sheds
  <2>3. CASE FullMeter(roomy)
    <3>1. o = roomy
      BY <1>5, <2>3 DEF GetOrCreate
    <3> HIDE DEF roomy
    <3> QED
      BY <1>5, <2>1, <2>2, <2>3, <3>1 DEF Gets, Sheds
  <2>4. CASE ~FullMeter(roomy)
    <3>1. o = OpenWindow(roomy, scope, w)
      BY <1>5, <2>4 DEF GetOrCreate
    <3> HIDE DEF roomy
    <3>2. /\ MeterFits(o) /\ DOMAIN o.entries = DOMAIN roomy.entries \cup {scope}
          /\ o.entries[scope] = Fresh(w)
          /\ \A s \in DOMAIN roomy.entries : s # scope => o.entries[s] = roomy.entries[s]
      BY <2>1, <3>1, Opens
    <3>3. ~Crowded(m)
      <4> SUFFICES ASSUME Crowded(m) PROVE FALSE
        OBVIOUS
      <4>1. \A s \in DOMAIN m.entries : Expires(m.entries[s]) \in Nat
        BY DEF MeterFits, Entry, Expires
      <4>2. DOMAIN roomy.entries = DOMAIN m.entries
        BY <1>1, <2>1, <4>1 DEF Sheds, Crowded
      <4> QED
        BY <2>4, <4>2 DEF Crowded, FullMeter
    <3>4. Fresh(w).start = clock
      BY DEF Fresh
    <3> QED
      BY <1>1, <1>5, <2>1, <2>2, <3>2, <3>3, <3>4 DEF Gets, Sheds
  <2> QED
    BY <2>3, <2>4
<1> QED
  BY <1>1, <1>2, <1>3, <1>4, <1>5

\* Counting adds to the entry of one scope, up to a number beyond every limit.
Adds(m, scope, n, a) ==
  /\ DOMAIN a.entries = DOMAIN m.entries
  /\ \A s \in DOMAIN m.entries :
       /\ s # scope => a.entries[s] = m.entries[s]
       /\ a.entries[s].start = m.entries[s].start /\ a.entries[s].window = m.entries[s].window
       /\ a.entries[s].count \in Nat
  /\ scope \in DOMAIN m.entries =>
       \/ a.entries[scope].count = m.entries[scope].count + n
       \/ a.entries[scope].count = Beyond /\ m.entries[scope].count + n >= Beyond

\* And so does counting.
LEMMA Added ==
  ASSUME SetupFits, NEW m, MeterFits(m), NEW scope, NEW n \in Nat, NEW a, a = AddTo(m, scope, n)
  PROVE  MeterFits(a) /\ Adds(m, scope, n, a)
<1>1. CASE scope \notin DOMAIN m.entries
  <2>1. a = m
    BY <1>1 DEF AddTo
  <2>2. \A s \in DOMAIN m.entries : m.entries[s].count \in Nat
    BY DEF MeterFits, Entry
  <2> QED
    BY <1>1, <2>1, <2>2 DEF Adds
<1>2. CASE scope \in DOMAIN m.entries
  <2> DEFINE e == m.entries[scope]
             k == Min({Beyond, e.count + n})
  <2>1. e \in Entry /\ e.count \in Nat /\ Beyond \in Nat
    BY <1>2, BeyondLimits DEF MeterFits, Entry
  <2>2. k \in Nat /\ (k = e.count + n \/ (k = Beyond /\ e.count + n >= Beyond))
    <3> DEFINE T == {Beyond, e.count + n}
    <3>1. T \subseteq Nat /\ T # {} /\ e.count + n \in T /\ Beyond \in T
      BY <2>1
    <3> HIDE DEF T
    <3>2. Min(T) \in T /\ \A y \in T : Min(T) <= y
      BY <3>1, LeastIs
    <3>3. Min(T) = e.count + n \/ Min(T) = Beyond
      BY <3>2 DEF T
    <3>4. k = Min(T)
      BY DEF T
    <3> HIDE DEF k
    <3> QED
      BY <2>1, <3>1, <3>2, <3>3, <3>4
  <2>3. /\ DOMAIN a = DOMAIN m
        /\ a.entries = [m.entries EXCEPT ![scope] = [@ EXCEPT !.count = k]]
        /\ a.earliest = m.earliest
    BY <1>2 DEF AddTo, MeterFits
  <2> HIDE DEF k
  <2>4. /\ DOMAIN a.entries = DOMAIN m.entries
        /\ \A s \in DOMAIN m.entries : s # scope => a.entries[s] = m.entries[s]
        /\ a.entries[scope] = [e EXCEPT !.count = k]
    BY <1>2, <2>3
  <2>5. /\ a.entries[scope] \in Entry /\ a.entries[scope].count = k
        /\ a.entries[scope].start = e.start /\ a.entries[scope].window = e.window
    BY <2>1, <2>2, <2>4 DEF Entry
  <2>6. MeterFits(a)
    <3>1. Expires(a.entries[scope]) = Expires(e)
      BY <2>5 DEF Expires
    <3> QED
      BY <1>2, <2>3, <2>4, <2>5, <3>1 DEF MeterFits
  <2>7. \A s \in DOMAIN m.entries : m.entries[s].count \in Nat
    BY DEF MeterFits, Entry
  <2> QED
    BY <1>2, <2>2, <2>4, <2>5, <2>6, <2>7 DEF Adds
<1> QED
  BY <1>1, <1>2

----------------------------------------------------------------------------
(* What the watched scope uses, against its entry in a meter.              *)

\* An open window: what was used in it is counted, and of tokens what the calls
\* under way may add still fits.
OpenFits(u, w, most, f, n, s, count) ==
  /\ Fits(f, s, w, most)
  /\ Within(f, s, w) <= count \/ count >= Beyond
  /\ u = "tokens" => Within(f, s, w) + n * MaxCost <= most

\* Without an entry the last window is over.
WatchFits(u, w, most, m, f, n) ==
  IF Watched \in DOMAIN m.entries
    THEN OpenFits(u, w, most, f, n, m.entries[Watched].start, m.entries[Watched].count)
    ELSE \E s \in Int : s + w <= clock /\ Fits(f, s, w, most)

\* An entry that opened at this instant is empty; another is as it was.
StartsEmpty(w, m, f, o) ==
  Watched \in DOMAIN o.entries =>
    /\ clock < o.entries[Watched].start + w
    /\ \/ Watched \in DOMAIN m.entries /\ o.entries[Watched] = m.entries[Watched]
       \/ o.entries[Watched].count = 0 /\ Within(f, o.entries[Watched].start, w) = 0

\* A new window may open once the last is over.
LEMMA FreshFits ==
  ASSUME SetupFits, NEW u, NEW w \in Nat \ {0}, NEW most \in Nat, NEW f \in Uses, NEW n,
         u = "tokens" => n * MaxCost \in Nat /\ n * MaxCost <= most,
         NEW s \in Int, s + w <= clock, Fits(f, s, w, most)
  PROVE  OpenFits(u, w, most, f, n, clock, 0) /\ Within(f, clock, w) = 0
<1>1. clock \in Ticks
  BY DEF SetupFits
<1>2. Fits(f, clock, w, most) /\ Within(f, clock, w) = 0
  BY <1>1, NextWindow
<1>3. u = "tokens" => Within(f, clock, w) + n * MaxCost <= most
  BY <1>2
<1> QED
  BY <1>2, <1>3 DEF OpenFits

\* Dropping expired entries keeps the account.
LEMMA WatchShed ==
  ASSUME SetupFits, NEW u, NEW w \in Nat \ {0}, NEW most, NEW f, NEW n,
         NEW m, MeterFits(m), \A s \in DOMAIN m.entries : m.entries[s].window = w,
         NEW o, Sheds(m, o), WatchFits(u, w, most, m, f, n)
  PROVE  WatchFits(u, w, most, o, f, n)
<1>1. CASE Watched \in DOMAIN o.entries
  BY <1>1 DEF WatchFits, Sheds
<1>2. CASE Watched \notin DOMAIN o.entries /\ Watched \in DOMAIN m.entries
  <2> DEFINE s == m.entries[Watched].start
  <2>1. s \in Int /\ s + w <= clock
    BY <1>2 DEF Sheds, MeterFits, Entry, Expires
  <2>2. Fits(f, s, w, most)
    BY <1>2 DEF WatchFits, OpenFits
  <2> HIDE DEF s
  <2> QED
    BY <1>2, <2>1, <2>2 DEF WatchFits
<1>3. CASE Watched \notin DOMAIN o.entries /\ Watched \notin DOMAIN m.entries
  BY <1>3 DEF WatchFits
<1> QED
  BY <1>1, <1>2, <1>3

\* So does getting an entry, whosever it is.
LEMMA WatchGets ==
  ASSUME SetupFits, NEW u, NEW w \in Nat \ {0}, NEW most \in Nat, NEW f \in Uses, NEW n,
         u = "tokens" => n * MaxCost \in Nat /\ n * MaxCost <= most,
         NEW m, MeterFits(m), \A s \in DOMAIN m.entries : m.entries[s].window = w,
         NEW scope, NEW o, Gets(m, scope, w, o), WatchFits(u, w, most, m, f, n)
  PROVE  /\ WatchFits(u, w, most, o, f, n)
         /\ scope = Watched => StartsEmpty(w, m, f, o)
<1>1. CASE scope # Watched
  <2>1. CASE Watched \in DOMAIN o.entries
    BY <1>1, <2>1 DEF WatchFits, Gets
  <2>2. CASE Watched \notin DOMAIN o.entries /\ Watched \in DOMAIN m.entries
    <3> DEFINE s == m.entries[Watched].start
    <3>1. s \in Int /\ s + w <= clock
      BY <2>2 DEF Gets, MeterFits, Entry, Expires
    <3>2. Fits(f, s, w, most)
      BY <2>2 DEF WatchFits, OpenFits
    <3> HIDE DEF s
    <3> QED
      BY <1>1, <2>2, <3>1, <3>2 DEF WatchFits
  <2>3. CASE Watched \notin DOMAIN o.entries /\ Watched \notin DOMAIN m.entries
    BY <1>1, <2>3 DEF WatchFits
  <2> QED
    BY <1>1, <2>1, <2>2, <2>3
<1>2. CASE scope = Watched /\ Watched \notin DOMAIN o.entries
  BY <1>2 DEF WatchFits, Gets, StartsEmpty
<1>3. CASE scope = Watched /\ Watched \in DOMAIN o.entries
  <2>1. clock < o.entries[Watched].start + w
    BY <1>3 DEF Gets
  <2>2. CASE Watched \in DOMAIN m.entries /\ o.entries[Watched] = m.entries[Watched]
    BY <1>3, <2>1, <2>2 DEF WatchFits, StartsEmpty
  <2>3. CASE ~(Watched \in DOMAIN m.entries /\ o.entries[Watched] = m.entries[Watched])
    <3>1. /\ o.entries[Watched] = Fresh(w)
          /\ Watched \in DOMAIN m.entries => m.entries[Watched].start + w <= clock
      BY <1>3, <2>3 DEF Gets
    <3>2. PICK s \in Int : s + w <= clock /\ Fits(f, s, w, most)
      <4>1. CASE Watched \in DOMAIN m.entries
        <5>1. m.entries[Watched].start \in Int
          BY <4>1 DEF MeterFits, Entry
        <5>2. Fits(f, m.entries[Watched].start, w, most)
          BY <4>1 DEF WatchFits, OpenFits
        <5> QED
          BY <3>1, <4>1, <5>1, <5>2
      <4>2. CASE Watched \notin DOMAIN m.entries
        BY <4>2 DEF WatchFits
      <4> QED
        BY <4>1, <4>2
    <3>3. OpenFits(u, w, most, f, n, clock, 0) /\ Within(f, clock, w) = 0
      BY <3>2, FreshFits
    <3>4. o.entries[Watched].start = clock /\ o.entries[Watched].count = 0
      BY <3>1 DEF Fresh
    <3> QED
      BY <1>3, <2>1, <3>3, <3>4 DEF WatchFits, StartsEmpty
  <2> QED
    BY <2>2, <2>3
<1> QED
  BY <1>1, <1>2, <1>3

\* Counting more keeps it.
LEMMA WatchAdds ==
  ASSUME SetupFits, NEW u, NEW w \in Nat \ {0}, NEW most, NEW f \in Uses, NEW n,
         NEW m, MeterFits(m), NEW scope, NEW k \in Nat, NEW a, Adds(m, scope, k, a),
         WatchFits(u, w, most, m, f, n)
  PROVE  WatchFits(u, w, most, a, f, n)
<1>1. CASE Watched \notin DOMAIN m.entries
  BY <1>1 DEF WatchFits, Adds
<1>2. CASE Watched \in DOMAIN m.entries /\ scope # Watched
  BY <1>2 DEF WatchFits, Adds
<1>3. CASE Watched \in DOMAIN m.entries /\ scope = Watched
  <2> DEFINE s == m.entries[Watched].start
             c == m.entries[Watched].count
             d == a.entries[Watched].count
  <2>1. a.entries[Watched].start = s /\ Watched \in DOMAIN a.entries
    BY <1>3 DEF Adds
  <2>2. c \in Nat /\ d \in Nat /\ (d = c + k \/ d = Beyond) /\ Within(f, s, w) \in Nat /\ Beyond \in Nat
    BY <1>3, SpanFinite, BeyondLimits DEF Adds, MeterFits, Entry
  <2>3. OpenFits(u, w, most, f, n, s, c)
    BY <1>3 DEF WatchFits
  <2> HIDE DEF s, c, d
  <2>4. Within(f, s, w) <= d \/ d >= Beyond
    BY <2>2, <2>3 DEF OpenFits
  <2>5. OpenFits(u, w, most, f, n, s, d)
    BY <2>3, <2>4 DEF OpenFits
  <2> QED
    BY <2>1, <2>5 DEF WatchFits, d
<1> QED
  BY <1>1, <1>2, <1>3

----------------------------------------------------------------------------
(* A call meets the rules one by one.                                      *)

MetersFit(ms) == DOMAIN ms = QuotaUnits /\ \A u \in QuotaUnits : MeterFits(ms[u])

\* What the rules met so far have found.
FoundFits(found, scope) ==
  /\ found.decision \in {"allowed", "refused"} /\ found.unmetered \subseteq QuotaUnits
  /\ MetersFit(found.meters)
  /\ \A u \in found.unmetered : /\ scope \notin DOMAIN found.meters[u].entries
                                /\ Crowded(found.meters[u])

\* One rule is met: its meter gets the scope an entry and counts the call, and an
\* entry that has reached the limit is not let by.
Meets(found, q, scope, checkOnly, next) ==
  LET u == q.unit
      m == found.meters[u]
      a == next.meters[u]
  IN /\ \E o : /\ MeterFits(o) /\ Gets(m, scope, q.window, o)
               /\ MeterFits(a)
               /\ IF u = "requests" /\ ~checkOnly THEN Adds(o, scope, 1, a) ELSE a = o
     /\ \A v \in QuotaUnits : v # u => next.meters[v] = found.meters[v]
     /\ next.unmetered = found.unmetered \cup (IF scope \in DOMAIN a.entries THEN {} ELSE {u})
     /\ next.decision = "allowed" =>
          /\ found.decision = "allowed"
          /\ scope \in DOMAIN a.entries =>
               a.entries[scope].count - (IF u = "requests" /\ ~checkOnly THEN 1 ELSE 0) < q.limit

\* Evaluating a rule does that: the decision it leaves alone let the scope by.
LEMMA RuleMet ==
  ASSUME SetupFits, NEW found, NEW scope, FoundFits(found, scope), NEW checkOnly \in BOOLEAN,
         NEW q \in Range(setup.rules), NEW next, next = EvaluateQuota(found, q, scope, checkOnly)
  PROVE  FoundFits(next, scope) /\ Meets(found, q, scope, checkOnly, next)
<1> DEFINE u == q.unit
           w == q.window
           m == found.meters[u]
           o == GetOrCreate(m, scope, w)
           counts == u = "requests" /\ ~checkOnly
           a == IF counts THEN AddTo(o, scope, 1) ELSE o
           spent0 == IF counts THEN 1 ELSE 0
           metered == scope \in DOMAIN a.entries
           exceeded == metered /\ a.entries[scope].count - spent0 >= q.limit
<1>1. u \in QuotaUnits /\ w \in Widths /\ q.limit \in Nat
  BY RulesAre DEF Widths
<1>2. MeterFits(m)
  BY <1>1 DEF FoundFits, MetersFit
<1>3. /\ next.meters = [found.meters EXCEPT ![u] = a]
      /\ next.unmetered = found.unmetered \cup (IF metered THEN {} ELSE {u})
      /\ next.decision = IF exceeded \/ (~metered /\ setup.failClosed) THEN "refused" ELSE found.decision
  BY DEF EvaluateQuota, CountsCall
<1> HIDE DEF u, w, m
<1>4. MeterFits(o) /\ Gets(m, scope, w, o)
  BY <1>1, <1>2, Got
<1> HIDE DEF o
<1>5. MeterFits(a) /\ (IF counts THEN Adds(o, scope, 1, a) ELSE a = o)
  <2>1. CASE counts
    <3>1. a = AddTo(o, scope, 1)
      BY <2>1
    <3> HIDE DEF a, counts
    <3> QED
      BY <1>4, <2>1, <3>1, Added
  <2>2. CASE ~counts
    BY <1>4, <2>2
  <2> QED
    BY <2>1, <2>2
<1>6. DOMAIN a.entries = DOMAIN o.entries
  BY <1>5 DEF Adds
<1>7. scope \in DOMAIN a.entries => a.entries[scope].count \in Nat
  BY <1>5 DEF MeterFits, Entry
<1>8. ~metered => Crowded(a) /\ scope \notin DOMAIN m.entries
  <2>1. CASE ~counts
    BY <1>4, <1>5, <2>1 DEF Gets
  <2>2. CASE counts
    <3>1. ~metered => Crowded(o) /\ scope \notin DOMAIN m.entries
      BY <1>4, <1>6 DEF Gets
    <3>2. Adds(o, scope, 1, a)
      BY <1>5, <2>2
    <3>3. ASSUME ~metered PROVE Crowded(a)
      <4>1. \A s \in DOMAIN a.entries : Expires(a.entries[s]) = Expires(o.entries[s])
        BY <3>2 DEF Adds, Expires
      <4> QED
        BY <1>6, <3>1, <3>3, <4>1 DEF Crowded, FullMeter
    <3> QED
      BY <3>1, <3>3
  <2> QED
    BY <2>1, <2>2
<1> HIDE DEF a
<1>9. DOMAIN found.meters = QuotaUnits
  BY DEF FoundFits, MetersFit
<1>10. next.meters[u] = a /\ DOMAIN next.meters = QuotaUnits
       /\ \A v \in QuotaUnits : v # u => next.meters[v] = found.meters[v]
  BY <1>1, <1>3, <1>9
<1>11. MetersFit(next.meters)
  BY <1>5, <1>10 DEF FoundFits, MetersFit
<1>12. ASSUME NEW v \in next.unmetered
       PROVE  v \in QuotaUnits /\ scope \notin DOMAIN next.meters[v].entries /\ Crowded(next.meters[v])
  <2>1. CASE v = u
    <3>1. ~metered
      <4>1. CASE u \in found.unmetered
        <5>1. scope \notin DOMAIN m.entries /\ Crowded(m)
          BY <4>1 DEF FoundFits, m
        <5> QED
          BY <1>4, <1>6, <5>1 DEF Gets
      <4>2. CASE u \notin found.unmetered
        BY <1>3, <1>12, <2>1, <4>2
      <4> QED
        BY <4>1, <4>2
    <3> QED
      BY <1>1, <1>8, <1>10, <2>1, <3>1
  <2>2. CASE v # u
    <3>1. v \in found.unmetered
      BY <1>3, <1>12, <2>2
    <3>2. v \in QuotaUnits /\ scope \notin DOMAIN found.meters[v].entries /\ Crowded(found.meters[v])
      BY <3>1 DEF FoundFits
    <3>3. next.meters[v] = found.meters[v]
      BY <1>10, <2>2, <3>2
    <3> QED
      BY <3>2, <3>3
  <2> QED
    BY <2>1, <2>2
<1>13. next.decision \in {"allowed", "refused"}
  BY <1>3 DEF FoundFits
<1>14. FoundFits(next, scope)
  BY <1>11, <1>12, <1>13 DEF FoundFits
<1>15. next.decision = "allowed" => found.decision = "allowed" /\ ~exceeded
  BY <1>3
<1>16. next.decision = "allowed" =>
         /\ found.decision = "allowed"
         /\ scope \in DOMAIN a.entries => a.entries[scope].count - spent0 < q.limit
  BY <1>1, <1>7, <1>15
<1>17. Meets(found, q, scope, checkOnly, next)
  BY <1>3, <1>4, <1>5, <1>10, <1>16 DEF Meets, u, w, m
<1> QED
  BY <1>14, <1>17

\* What is kept of the watched scope, whatever the meters become within a step.
UseFits ==
  /\ used \in [QuotaUnits -> Uses]
  /\ flight[Watched] \in Nat /\ flight[Watched] <= MaxInFlight[Watched]

AccountFits(ms, n) ==
  \A r \in Range(setup.rules) :
    WatchFits(r.unit, r.window, MostOf(r), ms[r.unit], used[r.unit], n)

\* The watched scope was let by: its window is open, and what was used in it is
\* below the limit; of requests, the call that is let by is counted as well.
AdmitsIn(u, w, limit, m, f) ==
  LET e == m.entries[Watched] IN
  /\ clock < e.start + w
  /\ Within(f, e.start, w) < limit
  /\ u = "requests" => Within(f, e.start, w) + 1 <= e.count \/ e.count >= Beyond

LetBy(r, found) ==
  \/ r.unit \in found.unmetered
  \/ /\ Watched \in DOMAIN found.meters[r.unit].entries
     /\ AdmitsIn(r.unit, r.window, r.limit, found.meters[r.unit], used[r.unit])

\* What a rule lets through in a window, and what calls under way may add, are numbers.
LEMMA MostIs ==
  ASSUME SetupFits, NEW r \in Range(setup.rules)
  PROVE  /\ MostOf(r) \in Nat
         /\ r.unit = "requests" => MostOf(r) = r.limit
         /\ r.unit = "tokens" => MostOf(r) = r.limit - 1 + MaxInFlight[Watched] * MaxCost
         /\ r.unit = "tokens" =>
              \A n \in Nat : n <= MaxInFlight[Watched] =>
                n * MaxCost \in Nat /\ n * MaxCost <= MaxInFlight[Watched] * MaxCost
                                    /\ n * MaxCost <= MostOf(r)
<1>1. r.limit \in Nat \ {0} /\ MaxInFlight[Watched] \in Nat /\ MaxCost \in Nat /\ r.unit \in QuotaUnits
  BY RulesAre, ScopeStoresAssumption DEF ScopeStoresAssumption
<1> DEFINE k == MaxInFlight[Watched]
           c == MaxCost
           l == r.limit
<1> HIDE DEF k, c, l
<1>2. k * c \in Nat /\ \A n \in Nat : n * c \in Nat
  BY <1>1 DEF k, c
<1>3. \A n \in Nat : n <= k => n * c <= k * c
  <2> SUFFICES ASSUME NEW n \in Nat, n <= k PROVE n * c <= k * c
    OBVIOUS
  <2>1. k - n \in Nat /\ c \in Nat /\ k \in Nat
    BY <1>1 DEF k, c
  <2>2. (k - n) * c \in Nat
    BY <2>1
  <2>3. k * c = (k - n) * c + n * c
    BY <2>1
  <2> QED
    BY <1>2, <2>2, <2>3
<1>4. MostOf(r) = IF r.unit = "requests" THEN l ELSE l - 1 + k * c
  BY DEF MostOf, l, k, c
<1>5. l \in Nat /\ l >= 1 /\ l - 1 + k * c \in Nat
  BY <1>1, <1>2 DEF l
<1>6. MostOf(r) \in Nat /\ (r.unit = "requests" => MostOf(r) = l)
      /\ (r.unit = "tokens" => MostOf(r) = l - 1 + k * c)
  BY <1>4, <1>5
<1>7. ASSUME NEW n \in Nat, n <= k PROVE n * c \in Nat /\ n * c <= k * c /\ n * c <= l - 1 + k * c
  BY <1>2, <1>3, <1>5, <1>7
<1> QED
  BY <1>6, <1>7 DEF k, c, l

\* The windows of the entries are all the same when the rules' are.
LEMMA SameWindow ==
  ASSUME SetupFits, OneWindow, NEW r \in Range(setup.rules), NEW m, MeterFits(m)
  PROVE  \A s \in DOMAIN m.entries : m.entries[s].window = r.window
BY DEF MeterFits, Widths, OneWindow

\* Meeting a rule keeps the account of every rule, whosever the call.
LEMMA MeetsKeeps ==
  ASSUME SetupFits, UseFits, OneWindow, NEW found, NEW scope, FoundFits(found, scope),
         NEW checkOnly \in BOOLEAN, NEW q \in Range(setup.rules), NEW next,
         Meets(found, q, scope, checkOnly, next), AccountFits(found.meters, flight[Watched])
  PROVE  AccountFits(next.meters, flight[Watched])
<1> SUFFICES ASSUME NEW r \in Range(setup.rules)
             PROVE  WatchFits(r.unit, r.window, MostOf(r), next.meters[r.unit], used[r.unit], flight[Watched])
  BY DEF AccountFits
<1> DEFINE u == r.unit
           w == r.window
           most == MostOf(r)
           m == found.meters[u]
           a == next.meters[u]
           f == used[u]
           n == flight[Watched]
<1>1. WatchFits(u, w, most, m, f, n)
  BY DEF AccountFits
<1>2. u \in QuotaUnits /\ w \in Nat \ {0} /\ w = q.window /\ most \in Nat
      /\ (u = "tokens" => n * MaxCost \in Nat /\ n * MaxCost <= most)
  BY RulesAre, MostIs DEF OneWindow, UseFits
<1>3. MeterFits(m) /\ f \in Uses
  BY <1>2 DEF FoundFits, MetersFit, UseFits
<1>4. \A s \in DOMAIN m.entries : m.entries[s].window = w
  BY <1>3, SameWindow
<1>5. CASE u # q.unit
  <2>1. a = m
    BY <1>2, <1>5 DEF Meets
  <2> QED
    BY <1>1, <2>1
<1>6. CASE u = q.unit
  <2>1. PICK o : /\ MeterFits(o) /\ Gets(m, scope, w, o)
                 /\ IF u = "requests" /\ ~checkOnly THEN Adds(o, scope, 1, a) ELSE a = o
    BY <1>2, <1>6 DEF Meets
  <2> HIDE DEF u, w, most, m, a, f, n
  <2>2. WatchFits(u, w, most, o, f, n)
    BY <1>1, <1>2, <1>3, <1>4, <2>1, WatchGets
  <2>3. WatchFits(u, w, most, a, f, n)
    BY <1>2, <1>3, <2>1, <2>2, WatchAdds
  <2> QED
    BY <2>3 DEF u, w, most, a, f, n
<1> QED
  BY <1>5, <1>6

\* A rule that lets the watched scope by admits it, and those before it still do.
LEMMA MeetsLetsBy ==
  ASSUME SetupFits, UseFits, OneWindow, NEW found, FoundFits(found, Watched),
         NEW q \in Range(setup.rules), NEW next, FoundFits(next, Watched),
         Meets(found, q, Watched, FALSE, next), AccountFits(found.meters, flight[Watched]),
         next.decision = "allowed"
  PROVE  LetBy(q, next) /\ \A r \in Range(setup.rules) : LetBy(r, found) => LetBy(r, next)
<1> DEFINE u == q.unit
           w == q.window
           most == MostOf(q)
           m == found.meters[u]
           a == next.meters[u]
           f == used[u]
           n == flight[Watched]
<1>1. WatchFits(u, w, most, m, f, n)
  BY DEF AccountFits
<1>2. u \in QuotaUnits /\ w \in Nat \ {0} /\ most \in Nat /\ q.limit \in Nat \ {0}
      /\ (u = "tokens" => n * MaxCost \in Nat /\ n * MaxCost <= most)
  BY RulesAre, MostIs DEF OneWindow, UseFits
<1>3. MeterFits(m) /\ f \in Uses
  BY <1>2 DEF FoundFits, MetersFit, UseFits
<1>4. \A s \in DOMAIN m.entries : m.entries[s].window = w
  BY <1>3, SameWindow
<1>5. PICK o : /\ MeterFits(o) /\ Gets(m, Watched, w, o) /\ MeterFits(a)
               /\ IF u = "requests" THEN Adds(o, Watched, 1, a) ELSE a = o
  BY DEF Meets
<1>6. /\ next.unmetered = found.unmetered \cup (IF Watched \in DOMAIN a.entries THEN {} ELSE {u})
      /\ Watched \in DOMAIN a.entries =>
           a.entries[Watched].count - (IF u = "requests" THEN 1 ELSE 0) < q.limit
      /\ \A v \in QuotaUnits : v # u => next.meters[v] = found.meters[v]
  BY DEF Meets
<1>7. Beyond \in Nat /\ Beyond >= 1 /\ q.limit < Beyond
  BY BeyondLimits
<1> DEFINE s == o.entries[Watched].start
           c == o.entries[Watched].count
           d == a.entries[Watched].count
           l == q.limit
<1> HIDE DEF u, w, most, m, a, f, n, l
<1>8. WatchFits(u, w, most, o, f, n) /\ StartsEmpty(w, m, f, o)
  BY <1>1, <1>2, <1>3, <1>4, <1>5, WatchGets
<1>9. DOMAIN a.entries = DOMAIN o.entries /\ (Watched \in DOMAIN m.entries => Watched \in DOMAIN o.entries)
  BY <1>5 DEF Adds, Gets
<1>10. ASSUME Watched \in DOMAIN o.entries
       PROVE  /\ a.entries[Watched].start = s /\ c \in Nat /\ d \in Nat
              /\ Within(f, s, w) \in Nat
              /\ u = "requests" => d = c + 1 \/ (d = Beyond /\ c + 1 >= Beyond)
              /\ u # "requests" => d = c
  BY <1>3, <1>5, <1>10, SpanFinite DEF Adds, MeterFits, Entry
<1>11. ASSUME Watched \in DOMAIN o.entries
       PROVE  AdmitsIn(u, w, l, a, f)
  <2>1. d - (IF u = "requests" THEN 1 ELSE 0) < l
    BY <1>6, <1>9, <1>11 DEF l
  <2>2. c < l /\ (u = "requests" => d = c + 1)
    <3>1. l \in Nat /\ l < Beyond
      BY <1>2, <1>7 DEF l
    <3> HIDE DEF c, d
    <3>2. CASE u = "requests"
      BY <1>7, <1>10, <1>11, <2>1, <3>1, <3>2
    <3>3. CASE u # "requests"
      BY <1>7, <1>10, <1>11, <2>1, <3>1, <3>3
    <3> QED
      BY <3>2, <3>3
  <2>3. Within(f, s, w) <= c \/ c >= Beyond
    BY <1>8, <1>11 DEF WatchFits, OpenFits
  <2>4. clock < s + w
    BY <1>8, <1>11 DEF StartsEmpty
  <2>5. Within(f, s, w) < l /\ (u = "requests" => Within(f, s, w) + 1 <= d)
    <3>1. l \in Nat /\ l < Beyond
      BY <1>2, <1>7 DEF l
    <3> HIDE DEF c, d, s
    <3> QED
      BY <1>7, <1>10, <1>11, <2>2, <2>3, <3>1
  <2> QED
    BY <1>10, <1>11, <2>4, <2>5 DEF AdmitsIn
<1>12. LetBy(q, next)
  <2>1. CASE Watched \in DOMAIN o.entries
    BY <1>9, <1>11, <2>1 DEF LetBy, u, w, l, a, f
  <2>2. CASE Watched \notin DOMAIN o.entries
    <3>1. u \in next.unmetered
      BY <1>6, <1>9, <2>2
    <3> QED
      BY <3>1 DEF LetBy, u
  <2> QED
    BY <2>1, <2>2
<1>13. ASSUME NEW r \in Range(setup.rules), LetBy(r, found)
       PROVE  LetBy(r, next)
  <2> DEFINE k == r.limit
  <2>1. r.unit \in QuotaUnits /\ r.window = w /\ k \in Nat \ {0}
    BY RulesAre DEF OneWindow, w
  <2>2. CASE r.unit \in found.unmetered
    BY <1>6, <2>2 DEF LetBy
  <2>3. CASE r.unit \notin found.unmetered /\ r.unit # u
    <3>1. next.meters[r.unit] = found.meters[r.unit]
      BY <1>6, <2>1, <2>3
    <3> QED
      BY <1>13, <2>3, <3>1 DEF LetBy
  <2>4. CASE r.unit \notin found.unmetered /\ r.unit = u
    <3>1. Watched \in DOMAIN m.entries /\ AdmitsIn(u, w, k, m, f)
      BY <1>13, <2>1, <2>4 DEF LetBy, m, f
    <3> HIDE DEF k
    <3>2. Watched \in DOMAIN o.entries /\ clock < s + w
      BY <1>8, <1>9, <3>1 DEF StartsEmpty
    <3>3. /\ Within(f, s, w) < k
          /\ u = "requests" => (c = 0 /\ Within(f, s, w) = 0) \/ Within(f, s, w) + 1 <= c \/ c >= Beyond
      <4>1. CASE o.entries[Watched] = m.entries[Watched]
        BY <3>1, <4>1 DEF AdmitsIn
      <4>2. CASE o.entries[Watched] # m.entries[Watched]
        <5>1. c = 0 /\ Within(f, s, w) = 0
          BY <1>8, <3>2, <4>2 DEF StartsEmpty
        <5> QED
          BY <2>1, <5>1 DEF k
      <4> QED
        BY <4>1, <4>2
    <3>4. u = "requests" => Within(f, s, w) + 1 <= d \/ d >= Beyond
      <4> HIDE DEF c, d, s
      <4> QED
        BY <1>7, <1>10, <3>2, <3>3
    <3>5. AdmitsIn(u, w, k, a, f)
      BY <1>10, <3>2, <3>3, <3>4 DEF AdmitsIn
    <3> QED
      BY <1>9, <2>1, <2>4, <3>2, <3>5 DEF LetBy, k, a, f
  <2> QED
    BY <2>2, <2>3, <2>4
<1> QED
  BY <1>12, <1>13

\* What the rules have found after the first k of them.
EvaluatedUpTo(k, found, scope, checkOnly) ==
  /\ FoundFits(found, scope)
  /\ OneWindow /\ AccountFits(meters, flight[Watched]) =>
       /\ AccountFits(found.meters, flight[Watched])
       /\ scope = Watched /\ ~checkOnly /\ found.decision = "allowed" =>
            \A j \in 1..k : LetBy(setup.rules[j], found)

\* Evaluating a list of rules keeps the account, and a call it allows was let by
\* every rule of it.
LEMMA RulesEvaluated ==
  ASSUME SetupFits, UseFits, MetersFit(meters), NEW scope, NEW checkOnly \in BOOLEAN,
         NEW found, found = EvaluateRules(scope, checkOnly)
  PROVE  EvaluatedUpTo(Len(setup.rules), found, scope, checkOnly)
<1> DEFINE n == Len(setup.rules)
           base == [meters |-> meters, unmetered |-> {}, decision |-> "allowed"]
           after(x, i) == IF x.decision = "refused" /\ ~setup.denyWins THEN x
                          ELSE EvaluateQuota(x, setup.rules[i], scope, checkOnly)
           step(g) == [i \in 0..n |-> IF i = 0 THEN base ELSE after(g[i - 1], i)]
           run == CHOOSE g : g = step(g)
           follows(k, g) == \A i \in 0..k : g[i] = IF i = 0 THEN base ELSE after(g[i - 1], i)
<1>1. found = run[n]
  BY DEF EvaluateRules
<1>2. n \in Nat /\ \A i \in 1..n : setup.rules[i] \in Range(setup.rules)
  BY RulesAre
<1>3. ASSUME NEW x, NEW i \in 1..n, EvaluatedUpTo(i - 1, x, scope, checkOnly)
      PROVE  EvaluatedUpTo(i, after(x, i), scope, checkOnly)
  <2> DEFINE q == setup.rules[i]
             y == after(x, i)
  <2>1. q \in Range(setup.rules) /\ FoundFits(x, scope)
    BY <1>2, <1>3 DEF EvaluatedUpTo
  <2>2. CASE x.decision = "refused" /\ ~setup.denyWins
    <3>1. y = x
      BY <2>2
    <3> HIDE DEF y
    <3> QED
      BY <1>3, <2>2, <3>1 DEF EvaluatedUpTo, y
  <2>3. CASE ~(x.decision = "refused" /\ ~setup.denyWins)
    <3>1. y = EvaluateQuota(x, q, scope, checkOnly)
      BY <2>3
    <3> HIDE DEF y, q, after
    <3>2. FoundFits(y, scope) /\ Meets(x, q, scope, checkOnly, y)
      BY <2>1, <3>1, RuleMet
    <3>3. ASSUME OneWindow, AccountFits(meters, flight[Watched])
          PROVE  AccountFits(x.meters, flight[Watched]) /\ AccountFits(y.meters, flight[Watched])
      <4>1. AccountFits(x.meters, flight[Watched])
        BY <1>3, <3>3 DEF EvaluatedUpTo
      <4> QED
        BY <2>1, <3>2, <3>3, <4>1, MeetsKeeps
    <3>4. ASSUME OneWindow, AccountFits(meters, flight[Watched]), scope = Watched, ~checkOnly,
                 y.decision = "allowed", NEW j \in 1..i
          PROVE  LetBy(setup.rules[j], y)
      <4>1. Meets(x, q, Watched, FALSE, y) /\ FoundFits(x, Watched) /\ FoundFits(y, Watched)
        BY <2>1, <3>2, <3>4
      <4>2. LetBy(q, y) /\ \A r \in Range(setup.rules) : LetBy(r, x) => LetBy(r, y)
        BY <2>1, <3>3, <3>4, <4>1, MeetsLetsBy
      <4>3. CASE j = i
        BY <4>2, <4>3 DEF q
      <4>4. CASE j # i
        <5>1. j \in 1..(i - 1) /\ j \in 1..n
          BY <1>2, <4>4
        <5>2. x.decision = "allowed"
          BY <3>2, <3>4 DEF Meets
        <5>3. LetBy(setup.rules[j], x)
          BY <1>3, <3>4, <5>1, <5>2 DEF EvaluatedUpTo
        <5> QED
          BY <1>2, <4>2, <5>1, <5>3
      <4> QED
        BY <4>3, <4>4
    <3>5. EvaluatedUpTo(i, y, scope, checkOnly)
      BY <3>2, <3>3, <3>4 DEF EvaluatedUpTo
    <3> QED
      BY <3>5 DEF y
  <2> QED
    BY <2>2, <2>3
<1>4. EvaluatedUpTo(0, base, scope, checkOnly)
  BY DEF EvaluatedUpTo, FoundFits
<1> HIDE DEF after, base, n
<1>5. \E g : follows(n, g)
  <2> DEFINE Bad == {k \in Nat : ~\E g : follows(k, g)}
  <2> SUFFICES ASSUME Bad # {} PROVE FALSE
    BY <1>2
  <2>1. PICK k \in Bad : \A j \in Bad : ~(j < k)
    <3>1. Bad \subseteq Nat
      OBVIOUS
    <3> HIDE DEF Bad
    <3> QED
      BY <3>1, LeastOf
  <2>2. k # 0 /\ k \in Nat
    <3>1. follows(0, [i \in {0} |-> base])
      OBVIOUS
    <3> QED
      BY <2>1, <3>1
  <2>3. k - 1 \in Nat /\ k - 1 < k
    BY <2>2
  <2>4. PICK g : follows(k - 1, g)
    BY <2>1, <2>3
  <2> DEFINE h == [i \in 0..k |-> IF i = k THEN after(g[k - 1], k) ELSE g[i]]
  <2>5. \A i \in 0..k : i # k => i \in 0..(k - 1) /\ (i # 0 => i - 1 \in 0..k /\ i - 1 # k)
    BY <2>2
  <2>6. \A i \in 0..k : i # k => h[i] = g[i]
    OBVIOUS
  <2>7. h[k] = after(g[k - 1], k) /\ h[k - 1] = g[k - 1]
    BY <2>2
  <2> HIDE DEF h
  <2>8. ASSUME NEW i \in 0..k PROVE h[i] = IF i = 0 THEN base ELSE after(h[i - 1], i)
    <3>1. CASE i = k
      BY <2>2, <2>7, <3>1
    <3>2. CASE i # k
      <4>1. g[i] = IF i = 0 THEN base ELSE after(g[i - 1], i)
        BY <2>4, <2>5, <3>2
      <4>2. h[i] = g[i] /\ (i # 0 => h[i - 1] = g[i - 1])
        BY <2>5, <2>6, <3>2
      <4> QED
        BY <4>1, <4>2
    <3> QED
      BY <3>1, <3>2
  <2>9. follows(k, h)
    BY <2>8
  <2> HIDE DEF follows
  <2> QED
    BY <2>1, <2>9
<1>6. run = step(run)
  <2>1. PICK g : follows(n, g)
    BY <1>5
  <2> DEFINE h == [i \in 0..n |-> g[i]]
  <2>2. ASSUME NEW i \in 0..n PROVE h[i] = IF i = 0 THEN base ELSE after(h[i - 1], i)
    <3>1. i # 0 => i - 1 \in 0..n
      BY <1>2
    <3>2. h[i] = g[i] /\ (i # 0 => h[i - 1] = g[i - 1])
      BY <3>1
    <3> HIDE DEF h
    <3> QED
      BY <2>1, <3>2
  <2>3. h = step(h)
    BY <2>2
  <2> QED
    BY <2>3
<1> HIDE DEF run
<1>7. run[0] = base /\ \A i \in 1..n : run[i] = after(run[i - 1], i)
  <2>1. \A i \in 0..n : step(run)[i] = IF i = 0 THEN base ELSE after(run[i - 1], i)
    OBVIOUS
  <2> HIDE DEF step
  <2>2. \A i \in 0..n : run[i] = IF i = 0 THEN base ELSE after(run[i - 1], i)
    BY <1>6, <2>1
  <2> QED
    BY <1>2, <2>2
<1> DEFINE Bad == {k \in Nat : k <= n /\ ~EvaluatedUpTo(k, run[k], scope, checkOnly)}
<1>8. Bad = {}
  <2> SUFFICES ASSUME Bad # {} PROVE FALSE
    OBVIOUS
  <2>1. PICK k \in Bad : \A j \in Bad : ~(j < k)
    <3>1. Bad \subseteq Nat
      OBVIOUS
    <3> HIDE DEF Bad
    <3> QED
      BY <3>1, LeastOf
  <2>2. k \in Nat /\ k <= n /\ k # 0
    BY <1>4, <1>7, <2>1
  <2>3. k - 1 \in Nat /\ k - 1 < k /\ k - 1 <= n /\ k \in 1..n
    BY <1>2, <2>2
  <2>4. EvaluatedUpTo(k - 1, run[k - 1], scope, checkOnly)
    BY <2>1, <2>3
  <2>5. EvaluatedUpTo(k, after(run[k - 1], k), scope, checkOnly)
    BY <1>3, <2>3, <2>4
  <2> QED
    BY <1>7, <2>1, <2>3, <2>5
<1>9. EvaluatedUpTo(n, run[n], scope, checkOnly)
  BY <1>2, <1>8
<1> QED
  BY <1>1, <1>9 DEF n

\* The account of the token rules, in whatever meter.
TokenAccount(m) ==
  \A r \in Range(setup.rules) :
    r.unit = "tokens" =>
      WatchFits("tokens", r.window, MostOf(r), m, used["tokens"], flight[Watched])

\* The window the watched scope has open counts so many tokens more.
Counted(w, m, tokens) ==
  LET e == m.entries[Watched] IN
  /\ clock < e.start + w
  /\ Within(used["tokens"], e.start, w) + tokens <= e.count \/ e.count >= Beyond

\* One token rule gets the scope an entry and counts the tokens of the call.
LEMMA TokensCounted ==
  ASSUME SetupFits, UseFits, NEW m, MeterFits(m), NEW scope, NEW tokens \in Nat,
         NEW q \in Range(setup.rules), q.unit = "tokens",
         NEW w, w = q.window, NEW o, o = GetOrCreate(m, scope, w),
         NEW a, a = AddTo(o, scope, tokens)
  PROVE  /\ MeterFits(a)
         /\ OneWindow /\ TokenAccount(m) =>
              /\ TokenAccount(a)
              /\ scope = Watched /\ Watched \in DOMAIN a.entries => Counted(w, a, tokens)
<1> DEFINE f == used["tokens"]
           n == flight[Watched]
<1>1. w \in Nat \ {0} /\ w \in Widths
  BY RulesAre DEF Widths
<1>2. f \in Uses
  BY DEF UseFits, QuotaUnits
<1>3. MeterFits(o) /\ Gets(m, scope, w, o)
  BY <1>1, Got
<1>4. MeterFits(a) /\ Adds(o, scope, tokens, a)
  BY <1>3, Added
<1> HIDE DEF f, n
<1>5. ASSUME OneWindow, TokenAccount(m), NEW r \in Range(setup.rules), r.unit = "tokens"
      PROVE  /\ WatchFits("tokens", r.window, MostOf(r), a, f, n)
             /\ r = q /\ scope = Watched /\ Watched \in DOMAIN a.entries => Counted(w, a, tokens)
  <2> DEFINE most == MostOf(r)
  <2>1. r.window = w /\ most \in Nat /\ n * MaxCost \in Nat /\ n * MaxCost <= most
    BY <1>5, MostIs DEF OneWindow, UseFits, n
  <2>2. WatchFits("tokens", w, most, m, f, n)
    BY <1>5, <2>1 DEF TokenAccount, f, n
  <2>3. \A s \in DOMAIN m.entries : m.entries[s].window = w
    BY <1>5, <2>1, SameWindow
  <2> HIDE DEF most
  <2>4. WatchFits("tokens", w, most, o, f, n) /\ (scope = Watched => StartsEmpty(w, m, f, o))
    BY <1>1, <1>2, <1>3, <2>1, <2>2, <2>3, WatchGets
  <2>5. WatchFits("tokens", w, most, a, f, n)
    BY <1>1, <1>2, <1>3, <1>4, <2>4, WatchAdds
  <2>6. ASSUME scope = Watched, Watched \in DOMAIN a.entries
        PROVE  Counted(w, a, tokens)
    <3> DEFINE s == o.entries[Watched].start
               c == o.entries[Watched].count
               d == a.entries[Watched].count
    <3>1. /\ Watched \in DOMAIN o.entries /\ a.entries[Watched].start = s
          /\ d = c + tokens \/ d = Beyond
          /\ clock < s + w
      BY <1>4, <2>4, <2>6 DEF Adds, StartsEmpty
    <3>2. c \in Nat /\ Within(f, s, w) \in Nat /\ Beyond \in Nat
      BY <1>2, <1>3, <3>1, SpanFinite, BeyondLimits DEF MeterFits, Entry
    <3>3. Within(f, s, w) <= c \/ c >= Beyond
      BY <2>4, <3>1 DEF WatchFits, OpenFits
    <3> HIDE DEF s, c, d
    <3>4. Within(f, s, w) + tokens <= d \/ d >= Beyond
      BY <3>1, <3>2, <3>3
    <3> QED
      BY <3>1, <3>4 DEF Counted, d, f
  <2> QED
    BY <2>1, <2>5, <2>6 DEF most
<1> QED
  BY <1>4, <1>5 DEF TokenAccount, f, n

\* What is recorded after the first k rules.
RecordedUpTo(k, m, scope, tokens) ==
  /\ MeterFits(m)
  /\ OneWindow /\ TokenAccount(meters.tokens) =>
       /\ TokenAccount(m)
       /\ scope = Watched /\ Watched \in DOMAIN m.entries =>
            \A j \in 1..k : setup.rules[j].unit = "tokens" =>
                            Counted(setup.rules[j].window, m, tokens)

\* Recording what a call used keeps the account, and the window that is open
\* afterwards counts it.
LEMMA TokensRecorded ==
  ASSUME SetupFits, UseFits, MetersFit(meters), NEW scope, NEW tokens \in Nat,
         NEW m, m = RecordTokenUsage(scope, tokens)
  PROVE  RecordedUpTo(Len(setup.rules), m, scope, tokens)
<1> DEFINE n == Len(setup.rules)
           base == meters.tokens
           after(x, i) == IF setup.rules[i].unit = "tokens"
                            THEN AddTo(GetOrCreate(x, scope, setup.rules[i].window), scope, tokens)
                          ELSE x
           step(g) == [i \in 0..n |-> IF i = 0 THEN base ELSE after(g[i - 1], i)]
           run == CHOOSE g : g = step(g)
           follows(k, g) == \A i \in 0..k : g[i] = IF i = 0 THEN base ELSE after(g[i - 1], i)
<1>1. m = run[n]
  BY DEF RecordTokenUsage
<1>2. n \in Nat /\ \A i \in 1..n : setup.rules[i] \in Range(setup.rules)
  BY RulesAre
<1>3. ASSUME NEW x, NEW i \in 1..n, RecordedUpTo(i - 1, x, scope, tokens)
      PROVE  RecordedUpTo(i, after(x, i), scope, tokens)
  <2> DEFINE q == setup.rules[i]
             y == after(x, i)
  <2>1. q \in Range(setup.rules) /\ MeterFits(x)
    BY <1>2, <1>3 DEF RecordedUpTo
  <2>2. CASE q.unit # "tokens"
    <3>1. y = x
      BY <2>2
    <3>2. \A j \in 1..i : setup.rules[j].unit = "tokens" => j \in 1..(i - 1)
      BY <2>2
    <3> HIDE DEF y
    <3> QED
      BY <1>3, <3>1, <3>2 DEF RecordedUpTo, y
  <2>3. CASE q.unit = "tokens"
    <3> DEFINE w == q.window
               o == GetOrCreate(x, scope, w)
    <3>1. y = AddTo(o, scope, tokens)
      BY <2>3
    <3> HIDE DEF y, q, after, o
    <3>2. /\ MeterFits(y)
          /\ OneWindow /\ TokenAccount(x) =>
               /\ TokenAccount(y)
               /\ scope = Watched /\ Watched \in DOMAIN y.entries => Counted(q.window, y, tokens)
      <4>1. w = q.window /\ o = GetOrCreate(x, scope, w)
        BY DEF o
      <4> HIDE DEF w
      <4> QED
        BY <2>1, <2>3, <3>1, <4>1, TokensCounted
    <3>3. ASSUME OneWindow, TokenAccount(meters.tokens) PROVE TokenAccount(x)
      BY <1>3, <3>3 DEF RecordedUpTo
    <3>4. OneWindow => \A j \in 1..i : setup.rules[j].window = q.window
      <4>1. \A j \in 1..i : j \in 1..n
        BY <1>2
      <4> QED
        BY <1>2, <2>1, <4>1 DEF OneWindow
    <3>5. RecordedUpTo(i, y, scope, tokens)
      BY <3>2, <3>3, <3>4 DEF RecordedUpTo
    <3> QED
      BY <3>5 DEF y
  <2> QED
    BY <2>2, <2>3
<1>4. RecordedUpTo(0, base, scope, tokens)
  <2>1. MeterFits(base)
    BY DEF MetersFit, QuotaUnits
  <2> QED
    BY <2>1 DEF RecordedUpTo
<1> HIDE DEF after, base, n
<1>5. \E g : follows(n, g)
  <2> DEFINE Bad == {k \in Nat : ~\E g : follows(k, g)}
  <2> SUFFICES ASSUME Bad # {} PROVE FALSE
    BY <1>2
  <2>1. PICK k \in Bad : \A j \in Bad : ~(j < k)
    <3>1. Bad \subseteq Nat
      OBVIOUS
    <3> HIDE DEF Bad
    <3> QED
      BY <3>1, LeastOf
  <2>2. k # 0 /\ k \in Nat
    <3>1. follows(0, [i \in {0} |-> base])
      OBVIOUS
    <3> QED
      BY <2>1, <3>1
  <2>3. k - 1 \in Nat /\ k - 1 < k
    BY <2>2
  <2>4. PICK g : follows(k - 1, g)
    BY <2>1, <2>3
  <2> DEFINE h == [i \in 0..k |-> IF i = k THEN after(g[k - 1], k) ELSE g[i]]
  <2>5. \A i \in 0..k : i # k => i \in 0..(k - 1) /\ (i # 0 => i - 1 \in 0..k /\ i - 1 # k)
    BY <2>2
  <2>6. \A i \in 0..k : i # k => h[i] = g[i]
    OBVIOUS
  <2>7. h[k] = after(g[k - 1], k) /\ h[k - 1] = g[k - 1]
    BY <2>2
  <2> HIDE DEF h
  <2>8. ASSUME NEW i \in 0..k PROVE h[i] = IF i = 0 THEN base ELSE after(h[i - 1], i)
    <3>1. CASE i = k
      BY <2>2, <2>7, <3>1
    <3>2. CASE i # k
      <4>1. g[i] = IF i = 0 THEN base ELSE after(g[i - 1], i)
        BY <2>4, <2>5, <3>2
      <4>2. h[i] = g[i] /\ (i # 0 => h[i - 1] = g[i - 1])
        BY <2>5, <2>6, <3>2
      <4> QED
        BY <4>1, <4>2
    <3> QED
      BY <3>1, <3>2
  <2>9. follows(k, h)
    BY <2>8
  <2> HIDE DEF follows
  <2> QED
    BY <2>1, <2>9
<1>6. run = step(run)
  <2>1. PICK g : follows(n, g)
    BY <1>5
  <2> DEFINE h == [i \in 0..n |-> g[i]]
  <2>2. ASSUME NEW i \in 0..n PROVE h[i] = IF i = 0 THEN base ELSE after(h[i - 1], i)
    <3>1. i # 0 => i - 1 \in 0..n
      BY <1>2
    <3>2. h[i] = g[i] /\ (i # 0 => h[i - 1] = g[i - 1])
      BY <3>1
    <3> HIDE DEF h
    <3> QED
      BY <2>1, <3>2
  <2>3. h = step(h)
    BY <2>2
  <2> QED
    BY <2>3
<1> HIDE DEF run
<1>7. run[0] = base /\ \A i \in 1..n : run[i] = after(run[i - 1], i)
  <2>1. \A i \in 0..n : step(run)[i] = IF i = 0 THEN base ELSE after(run[i - 1], i)
    OBVIOUS
  <2> HIDE DEF step
  <2>2. \A i \in 0..n : run[i] = IF i = 0 THEN base ELSE after(run[i - 1], i)
    BY <1>6, <2>1
  <2> QED
    BY <1>2, <2>2
<1> DEFINE Bad == {k \in Nat : k <= n /\ ~RecordedUpTo(k, run[k], scope, tokens)}
<1>8. Bad = {}
  <2> SUFFICES ASSUME Bad # {} PROVE FALSE
    OBVIOUS
  <2>1. PICK k \in Bad : \A j \in Bad : ~(j < k)
    <3>1. Bad \subseteq Nat
      OBVIOUS
    <3> HIDE DEF Bad
    <3> QED
      BY <3>1, LeastOf
  <2>2. k \in Nat /\ k <= n /\ k # 0
    BY <1>4, <1>7, <2>1
  <2>3. k - 1 \in Nat /\ k - 1 < k /\ k - 1 <= n /\ k \in 1..n
    BY <1>2, <2>2
  <2>4. RecordedUpTo(k - 1, run[k - 1], scope, tokens)
    BY <2>1, <2>3
  <2>5. RecordedUpTo(k, after(run[k - 1], k), scope, tokens)
    BY <1>3, <2>3, <2>4
  <2> QED
    BY <1>7, <2>1, <2>3, <2>5
<1>9. RecordedUpTo(n, run[n], scope, tokens)
  BY <1>2, <1>8
<1> QED
  BY <1>1, <1>9 DEF n

----------------------------------------------------------------------------
(* The account of the limits.                                              *)

\* Meters, uses, calls under way and the scopes a step left unmetered: a unit
\* goes unmetered in a crowded store, and where the rules have one window the
\* watched scope's use fits each of them.
LimitsFit(ms, us, n, unmetered) ==
  /\ MetersFit(ms) /\ us \in [QuotaUnits -> Uses]
  /\ n \in Nat /\ n <= MaxInFlight[Watched]
  /\ unmetered \subseteq QuotaUnits /\ \A u \in unmetered : Crowded(ms[u])
  /\ OneWindow =>
       \A r \in Range(setup.rules) :
         /\ WatchFits(r.unit, r.window, MostOf(r), ms[r.unit], us[r.unit], n)
         /\ Quiet(us[r.unit], clock + 1)
         /\ SpansFit(us[r.unit], r.window, MostOf(r))

\* The invariant of the meters: their type, and the account of the limits.
QuotaInv ==
  /\ setup \in StoreSetups /\ clock \in Ticks /\ flight \in [Scopes -> Nat]
  /\ LimitsFit(meters, used, flight[Watched], verdict.unmetered)

\* What the steps below use of the invariant.
LEMMA QuotaFacts ==
  ASSUME QuotaInv
  PROVE  /\ SetupFits /\ UseFits /\ MetersFit(meters)
         /\ OneWindow => AccountFits(meters, flight[Watched]) /\ TokenAccount(meters.tokens)
<1>1. SetupFits
  BY ScopeStoresAssumption DEF QuotaInv, SetupFits, ScopeStoresAssumption
<1>2. UseFits /\ MetersFit(meters)
  BY DEF QuotaInv, LimitsFit, UseFits
<1>3. OneWindow => AccountFits(meters, flight[Watched])
  BY DEF QuotaInv, LimitsFit, AccountFits
<1>4. AccountFits(meters, flight[Watched]) => TokenAccount(meters.tokens)
  BY DEF AccountFits, TokenAccount
<1> QED
  BY <1>1, <1>2, <1>3, <1>4

\* A step within one instant need only keep the account.
LEMMA LimitsStand ==
  ASSUME QuotaInv, setup' = setup, clock' = clock, flight' \in [Scopes -> Nat],
         LimitsFit(meters', used', flight'[Watched], verdict'.unmetered)
  PROVE  QuotaInv'
<1>1. MetersFit(meters)'
  <2>1. MetersFit(meters')
    BY DEF LimitsFit
  <2> QED
    BY <2>1 DEF MetersFit, MeterFits, Widths, Expires
<1>2. (\A u \in verdict.unmetered : Crowded(meters[u]))'
  <2>1. \A u \in verdict'.unmetered : Crowded(meters'[u])
    BY DEF LimitsFit
  <2> QED
    BY <2>1 DEF Crowded, FullMeter, Expires
<1>3. ASSUME OneWindow'
      PROVE  (\A r \in Range(setup.rules) :
                 /\ WatchFits(r.unit, r.window, MostOf(r), meters[r.unit], used[r.unit], flight[Watched])
                 /\ Quiet(used[r.unit], clock + 1)
                 /\ SpansFit(used[r.unit], r.window, MostOf(r)))'
  <2>1. OneWindow
    BY <1>3 DEF OneWindow
  <2>2. \A r \in Range(setup.rules) :
          /\ WatchFits(r.unit, r.window, MostOf(r), meters'[r.unit], used'[r.unit], flight'[Watched])
          /\ Quiet(used'[r.unit], clock + 1)
          /\ SpansFit(used'[r.unit], r.window, MostOf(r))
    BY <2>1 DEF LimitsFit
  <2> QED
    BY <2>2 DEF WatchFits, OpenFits, Beyond
<1>4. /\ setup' \in StoreSetups /\ clock' \in Ticks
      /\ used' \in [QuotaUnits -> Uses] /\ flight'[Watched] \in Nat
      /\ flight'[Watched] <= MaxInFlight[Watched] /\ verdict'.unmetered \subseteq QuotaUnits
  BY DEF QuotaInv, LimitsFit
<1> QED
  BY <1>1, <1>2, <1>3, <1>4 DEF QuotaInv, LimitsFit

\* Nothing used: every window fits.
LEMMA NothingUsed ==
  ASSUME NEW f, \A t \in Ticks : f[t] = 0, NEW most \in Nat
  PROVE  /\ \A s, w : Fits(f, s, w, most)
         /\ \A w : SpansFit(f, w, most)
         /\ \A from : Quiet(f, from)
<1>1. \A a, v : Within(f, a, v) = 0
  <2> SUFFICES ASSUME NEW a, NEW v PROVE Within(f, a, v) = 0
    OBVIOUS
  <2>1. \A t \in Span(a, v) : f[t] = 0
    BY DEF Span
  <2> QED
    BY <2>1, SpanQuiet
<1> QED
  BY <1>1 DEF Fits, SpansFit, Quiet

\* At first nothing is metered and nothing used.
LEMMA QuotaInitially == StoresInit => QuotaInv
<1> SUFFICES ASSUME StoresInit PROVE QuotaInv
  OBVIOUS
<1>1. /\ setup \in StoreSetups /\ clock = 0 /\ clock \in Ticks /\ flight \in [Scopes -> Nat]
      /\ flight[Watched] = 0 /\ MaxInFlight[Watched] \in Nat /\ Never \in Nat
  BY ScopeStoresAssumption DEF StoresInit, Ticks, Never, ScopeStoresAssumption
<1>2. SetupFits
  BY <1>1, ScopeStoresAssumption DEF SetupFits, ScopeStoresAssumption
<1>3. ASSUME NEW u \in QuotaUnits
      PROVE  /\ meters[u] = [entries |-> <<>>, earliest |-> Never] /\ used[u] \in Uses
             /\ \A t \in Ticks : used[u][t] = 0
  BY DEF StoresInit, Uses
<1>4. ASSUME NEW u \in QuotaUnits
      PROVE  MeterFits(meters[u]) /\ DOMAIN meters[u].entries = {}
  <2>1. DOMAIN meters[u].entries = {} /\ DOMAIN meters[u] = {"entries", "earliest"}
        /\ meters[u].earliest = Never
    BY <1>3
  <2> QED
    BY <1>1, <2>1, FS_EmptySet DEF MeterFits
<1>5. MetersFit(meters) /\ used \in [QuotaUnits -> Uses]
  BY <1>3, <1>4 DEF MetersFit, StoresInit
<1>6. ASSUME NEW r \in Range(setup.rules)
      PROVE  /\ WatchFits(r.unit, r.window, MostOf(r), meters[r.unit], used[r.unit], flight[Watched])
             /\ Quiet(used[r.unit], clock + 1)
             /\ SpansFit(used[r.unit], r.window, MostOf(r))
  <2> DEFINE f == used[r.unit]
             w == r.window
             most == MostOf(r)
  <2>1. r.unit \in QuotaUnits /\ w \in Nat /\ most \in Nat
    BY <1>2, RulesAre, MostIs
  <2>2. \A t \in Ticks : f[t] = 0
    BY <1>3, <2>1
  <2>3. Watched \notin DOMAIN meters[r.unit].entries
    BY <1>4, <2>1
  <2> HIDE DEF f, w, most
  <2>4. (\A s, v : Fits(f, s, v, most)) /\ (\A v : SpansFit(f, v, most)) /\ \A from : Quiet(f, from)
    BY <2>1, <2>2, NothingUsed
  <2>5. 0 - w \in Int /\ (0 - w) + w <= clock
    BY <1>1, <2>1
  <2>6. WatchFits(r.unit, w, most, meters[r.unit], f, flight[Watched])
    BY <2>3, <2>4, <2>5 DEF WatchFits
  <2> QED
    BY <2>4, <2>6 DEF f, w, most
<1>7. verdict.unmetered = {}
  BY DEF StoresInit, NoVerdict
<1> QED
  BY <1>1, <1>5, <1>6, <1>7 DEF QuotaInv, LimitsFit

\* Time passes: entries may expire, and nothing is used ahead of it.
LEMMA TickFits == ASSUME QuotaInv, Tick PROVE QuotaInv'
<1>1. /\ clock \in Nat /\ clock' = clock + 1 /\ clock' \in Ticks /\ setup' = setup
      /\ meters' = meters /\ used' = used /\ flight' = flight /\ verdict'.unmetered = {}
  BY ScopeStoresAssumption DEF QuotaInv, Tick, meterVars, Ticks, ScopeStoresAssumption, NoVerdict
<1>2. MetersFit(meters)'
  <2>1. MetersFit(meters)
    BY DEF QuotaInv, LimitsFit
  <2> QED
    BY <1>1, <2>1 DEF MetersFit, MeterFits, Widths, Expires, Entry
<1>3. ASSUME OneWindow'
      PROVE  (\A r \in Range(setup.rules) :
                 /\ WatchFits(r.unit, r.window, MostOf(r), meters[r.unit], used[r.unit], flight[Watched])
                 /\ Quiet(used[r.unit], clock + 1)
                 /\ SpansFit(used[r.unit], r.window, MostOf(r)))'
  <2>1. OneWindow
    BY <1>1, <1>3 DEF OneWindow
  <2>2. \A r \in Range(setup.rules) :
          /\ r.window \in Nat
          /\ WatchFits(r.unit, r.window, MostOf(r), meters[r.unit], used[r.unit], flight[Watched])
          /\ Quiet(used[r.unit], clock + 1)
          /\ SpansFit(used[r.unit], r.window, MostOf(r))
    BY <2>1, QuotaFacts, RulesAre DEF QuotaInv, LimitsFit
  <2>3. \A r \in Range(setup.rules) : Quiet(used[r.unit], clock + 1 + 1)
    BY <1>1, <2>2, ScopeStoresAssumption DEF Quiet, Ticks, ScopeStoresAssumption
  <2>4. \A s \in Int, w \in Nat : s + w <= clock => s + w <= clock + 1
    BY <1>1
  <2> QED
    BY <1>1, <2>2, <2>3, <2>4 DEF WatchFits, OpenFits, Beyond
<1> QED
  BY <1>1, <1>2, <1>3 DEF QuotaInv, LimitsFit

\* Room is made: expired entries go.
LEMMA SaturatedFits == ASSUME QuotaInv, AskSaturated PROVE QuotaInv'
<1>1. SetupFits /\ UseFits /\ MetersFit(meters)
  BY QuotaFacts
<1>2. /\ setup' = setup /\ clock' = clock /\ flight' = flight /\ used' = used
      /\ verdict'.unmetered = {} /\ DOMAIN meters' = QuotaUnits
      /\ \A u \in QuotaUnits : meters'[u] = meters[u] \/ meters'[u] = MakeRoom(meters[u])
  BY DEF AskSaturated, NoVerdict, QuotaUnits
<1>3. ASSUME NEW u \in QuotaUnits
      PROVE  MeterFits(meters[u]) /\ MeterFits(meters'[u]) /\ Sheds(meters[u], meters'[u])
  <2> DEFINE m == meters[u]
             o == meters'[u]
  <2>1. MeterFits(m) /\ (o = m \/ o = MakeRoom(m))
    BY <1>1, <1>2 DEF MetersFit
  <2> HIDE DEF m, o
  <2>2. o = m => MeterFits(o) /\ Sheds(m, o)
    BY <2>1 DEF Sheds
  <2>3. o = MakeRoom(m) => MeterFits(o) /\ Sheds(m, o)
    BY <1>1, <2>1, RoomMade
  <2> QED
    BY <2>1, <2>2, <2>3 DEF m, o
<1>4. ASSUME OneWindow, NEW r \in Range(setup.rules)
      PROVE  WatchFits(r.unit, r.window, MostOf(r), meters'[r.unit], used[r.unit], flight[Watched])
  <2> DEFINE u == r.unit
             w == r.window
             most == MostOf(r)
             m == meters[u]
             o == meters'[u]
             f == used[u]
             n == flight[Watched]
  <2>1. WatchFits(u, w, most, m, f, n)
    BY <1>4 DEF QuotaInv, LimitsFit
  <2>2. u \in QuotaUnits /\ w \in Nat \ {0} /\ MeterFits(m) /\ Sheds(m, o)
    BY <1>1, <1>3, RulesAre
  <2>3. \A s \in DOMAIN m.entries : m.entries[s].window = w
    BY <1>1, <1>4, <2>2, SameWindow
  <2> HIDE DEF u, w, most, m, o, f, n
  <2>4. WatchFits(u, w, most, o, f, n)
    BY <1>1, <2>1, <2>2, <2>3, WatchShed
  <2> QED
    BY <2>4 DEF u, w, most, o, f, n
<1>5. LimitsFit(meters', used', flight'[Watched], verdict'.unmetered)
  BY <1>2, <1>3, <1>4 DEF QuotaInv, LimitsFit, MetersFit
<1> QED
  BY <1>2, <1>5, LimitsStand DEF QuotaInv

\* What a step records as used.
LEMMA UseRecorded ==
  ASSUME QuotaInv, NEW unit \in QuotaUnits, NEW scope, NEW n \in Nat, RecordUse(unit, scope, n)
  PROVE  /\ used' \in [QuotaUnits -> Uses]
         /\ \A v \in QuotaUnits : v # unit => used'[v] = used[v]
         /\ scope # Watched \/ n = 0 => used' = used
         /\ scope = Watched /\ MetersUnit(unit) =>
              \A t \in Ticks : used'[unit][t] = IF t = clock THEN used[unit][t] + n ELSE used[unit][t]
<1>1. used \in [QuotaUnits -> [Ticks -> Nat]] /\ clock \in Ticks
  BY DEF QuotaInv, LimitsFit, Uses
<1>2. CASE ~(scope = Watched /\ MetersUnit(unit))
  BY <1>1, <1>2 DEF RecordUse, Uses
<1>3. CASE scope = Watched /\ MetersUnit(unit)
  <2> DEFINE f == used[unit]
             g == [f EXCEPT ![clock] = @ + n]
  <2>1. used' = [used EXCEPT ![unit] = g]
    BY <1>1, <1>3 DEF RecordUse
  <2>2. f \in [Ticks -> Nat] /\ g \in [Ticks -> Nat]
    BY <1>1
  <2>3. \A t \in Ticks : g[t] = IF t = clock THEN f[t] + n ELSE f[t]
    BY <1>1, <2>2
  <2>4. n = 0 => g = f
    BY <1>1, <2>2
  <2> HIDE DEF g
  <2>5. used'[unit] = g /\ used' \in [QuotaUnits -> [Ticks -> Nat]]
        /\ \A v \in QuotaUnits : v # unit => used'[v] = used[v]
    BY <1>1, <2>1, <2>2
  <2>6. n = 0 => used' = used
    BY <1>1, <2>1, <2>4
  <2> QED
    BY <1>3, <2>3, <2>5, <2>6 DEF Uses
<1> QED
  BY <1>2, <1>3

\* The watched scope uses what its open window has left.
LEMMA WatchUses ==
  ASSUME SetupFits, NEW u, NEW w \in Nat \ {0}, NEW most \in Nat, NEW m, MeterFits(m),
         NEW f \in Uses, NEW n, NEW l, WatchFits(u, w, most, m, f, n),
         Quiet(f, clock + 1), SpansFit(f, w, most), Watched \in DOMAIN m.entries,
         NEW s, s = m.entries[Watched].start, NEW c, c = m.entries[Watched].count,
         clock < s + w, NEW k \in Nat, Within(f, s, w) + k <= most,
         Within(f, s, w) + k <= c \/ c >= Beyond,
         u = "tokens" => Within(f, s, w) + k + l * MaxCost <= most,
         NEW g \in Uses, \A t \in Ticks : g[t] = IF t = clock THEN f[t] + k ELSE f[t]
  PROVE  WatchFits(u, w, most, m, g, l) /\ Quiet(g, clock + 1) /\ SpansFit(g, w, most)
<1>1. s \in Int /\ s <= clock /\ clock \in Ticks /\ Fits(f, s, w, most)
  BY DEF SetupFits, MeterFits, Entry, WatchFits, OpenFits
<1>2. /\ Fits(g, s, w, most) /\ SpansFit(g, w, most) /\ Quiet(g, clock + 1)
      /\ Within(g, s, w) = Within(f, s, w) + k
  BY <1>1, UseInWindow
<1> QED
  BY <1>2 DEF WatchFits, OpenFits

\* A scope may get its allowance back.
LEMMA ResetFits == ASSUME QuotaInv, NEW scope \in Scopes, ResetQuota(scope) PROVE QuotaInv'
<1>1. SetupFits /\ UseFits /\ MetersFit(meters)
  BY QuotaFacts
<1> DEFINE m == meters.requests
           o == meters'.requests
<1>2. /\ setup' = setup /\ clock' = clock /\ flight' = flight /\ verdict'.unmetered = {}
      /\ used' = IF scope = Watched THEN [used EXCEPT !.requests = [t \in Ticks |-> 0]] ELSE used
  BY DEF ResetQuota, NoVerdict
<1>3. MeterFits(m) /\ DOMAIN meters = QuotaUnits /\ MeterFits(meters["tokens"])
  BY <1>1 DEF MetersFit, QuotaUnits
<1>4. meters' = [meters EXCEPT !["requests"] = [m EXCEPT !.entries = Restrict(@, DOMAIN @ \ {scope})]]
  BY DEF ResetQuota
<1>5. /\ DOMAIN meters' = QuotaUnits /\ meters'["tokens"] = meters["tokens"]
      /\ o = [m EXCEPT !.entries = Restrict(@, DOMAIN @ \ {scope})]
  BY <1>3, <1>4 DEF QuotaUnits
<1>6. /\ DOMAIN o = DOMAIN m /\ o.earliest = m.earliest
      /\ DOMAIN o.entries = DOMAIN m.entries \ {scope}
      /\ \A s \in DOMAIN o.entries : o.entries[s] = m.entries[s]
  BY <1>3, <1>5 DEF MeterFits, Restrict
<1>7. IsFiniteSet(DOMAIN o.entries)
  BY <1>3, <1>6, FS_Subset DEF MeterFits
<1> HIDE DEF m, o
<1>8. MeterFits(o)
  BY <1>3, <1>6, <1>7 DEF MeterFits
<1>9. MetersFit(meters')
  BY <1>3, <1>5, <1>8 DEF MetersFit, QuotaUnits, o
<1>10. /\ used' \in [QuotaUnits -> Uses] /\ used'["tokens"] = used["tokens"]
       /\ scope # Watched => used' = used
       /\ scope = Watched => \A t \in Ticks : used'["requests"][t] = 0
  BY <1>1, <1>2 DEF UseFits, Uses, QuotaUnits
<1>11. ASSUME OneWindow, NEW r \in Range(setup.rules)
       PROVE  /\ WatchFits(r.unit, r.window, MostOf(r), meters'[r.unit], used'[r.unit], flight[Watched])
              /\ Quiet(used'[r.unit], clock + 1)
              /\ SpansFit(used'[r.unit], r.window, MostOf(r))
  <2> DEFINE u == r.unit
             w == r.window
             most == MostOf(r)
             f == used'[u]
             n == flight[Watched]
  <2>1. /\ WatchFits(u, w, most, meters[u], used[u], n)
        /\ Quiet(used[u], clock + 1) /\ SpansFit(used[u], w, most)
    BY <1>11 DEF QuotaInv, LimitsFit
  <2>2. u \in QuotaUnits /\ w \in Nat \ {0} /\ most \in Nat /\ clock \in Int
    BY <1>1, RulesAre, MostIs, ScopeStoresAssumption
    DEF SetupFits, Ticks, ScopeStoresAssumption
  <2> HIDE DEF w, most, n
  <2>3. CASE u = "tokens"
    BY <1>5, <1>10, <2>1, <2>3 DEF w, most, n
  <2>4. CASE u = "requests" /\ scope # Watched
    <3>1. WatchFits(u, w, most, m, f, n)
      BY <1>10, <2>1, <2>4 DEF m
    <3>2. WatchFits(u, w, most, o, f, n)
      BY <1>6, <2>4, <3>1 DEF WatchFits
    <3> QED
      BY <1>10, <2>1, <2>4, <3>2 DEF w, most, n, o
  <2>5. CASE u = "requests" /\ scope = Watched
    <3>1. \A t \in Ticks : f[t] = 0
      BY <1>10, <2>5
    <3> HIDE DEF f
    <3>2. (\A s, v : Fits(f, s, v, most)) /\ (\A v : SpansFit(f, v, most)) /\ \A from : Quiet(f, from)
      BY <2>2, <3>1, NothingUsed
    <3>3. clock - w \in Int /\ (clock - w) + w <= clock
      BY <2>2
    <3>4. WatchFits(u, w, most, o, f, n)
      BY <1>6, <2>5, <3>2, <3>3 DEF WatchFits
    <3> QED
      BY <2>5, <3>2, <3>4 DEF w, most, n, o, f
  <2> QED
    BY <2>2, <2>3, <2>4, <2>5 DEF QuotaUnits
<1>12. LimitsFit(meters', used', flight'[Watched], verdict'.unmetered)
  BY <1>2, <1>9, <1>10, <1>11 DEF QuotaInv, LimitsFit
<1> QED
  BY <1>2, <1>12, LimitsStand DEF QuotaInv

\* A call meets the rules: what it may use was let by in every window.
LEMMA MeetFits ==
  ASSUME QuotaInv, NEW scope \in Scopes, NEW checkOnly \in BOOLEAN, MeetRules(scope, checkOnly)
  PROVE  QuotaInv'
<1>1. SetupFits /\ UseFits /\ MetersFit(meters) /\ (OneWindow => AccountFits(meters, flight[Watched]))
  BY QuotaFacts
<1> DEFINE found == EvaluateRules(scope, checkOnly)
           goes == found.decision = "allowed" /\ ~checkOnly
           uses == IF goes /\ "requests" \notin found.unmetered THEN 1 ELSE 0
<1>2. /\ setup' = setup /\ clock' = clock /\ flight[scope] < MaxInFlight[scope]
      /\ meters' = found.meters /\ verdict'.unmetered = found.unmetered
      /\ flight' = IF goes /\ MetersUnit("tokens") THEN [flight EXCEPT ![scope] = @ + 1] ELSE flight
      /\ RecordUse("requests", scope, uses)
  BY DEF MeetRules
<1>3. EvaluatedUpTo(Len(setup.rules), found, scope, checkOnly)
  BY <1>1, RulesEvaluated
<1> HIDE DEF found
<1>4. FoundFits(found, scope)
  BY <1>3 DEF EvaluatedUpTo
<1>5. /\ used' \in [QuotaUnits -> Uses] /\ used'["tokens"] = used["tokens"]
      /\ scope # Watched \/ uses = 0 => used' = used
      /\ scope = Watched /\ MetersUnit("requests") =>
           \A t \in Ticks : used'["requests"][t]
                              = IF t = clock THEN used["requests"][t] + uses ELSE used["requests"][t]
  BY <1>2, UseRecorded DEF QuotaUnits
<1>6. /\ flight' \in [Scopes -> Nat] /\ flight'[Watched] \in Nat /\ flight'[Watched] <= MaxInFlight[Watched]
      /\ flight'[Watched] = flight[Watched]
           \/ (goes /\ scope = Watched /\ flight'[Watched] = flight[Watched] + 1)
  <2>1. MaxInFlight[Watched] \in Nat /\ Watched \in Scopes /\ flight \in [Scopes -> Nat]
        /\ flight[Watched] <= MaxInFlight[Watched]
    BY <1>1, ScopeStoresAssumption DEF ScopeStoresAssumption, QuotaInv, UseFits
  <2> HIDE DEF goes
  <2> QED
    BY <1>2, <2>1
<1>7. ASSUME OneWindow, NEW r \in Range(setup.rules)
      PROVE  /\ WatchFits(r.unit, r.window, MostOf(r), meters'[r.unit], used'[r.unit], flight'[Watched])
             /\ Quiet(used'[r.unit], clock + 1)
             /\ SpansFit(used'[r.unit], r.window, MostOf(r))
  <2> DEFINE u == r.unit
             w == r.window
             most == MostOf(r)
             m == found.meters[u]
             f == used[u]
             g == used'[u]
             n == flight[Watched]
             l == flight'[Watched]
             s == m.entries[Watched].start
             c == m.entries[Watched].count
  <2>1. WatchFits(u, w, most, m, f, n) /\ Quiet(f, clock + 1) /\ SpansFit(f, w, most)
    BY <1>1, <1>3, <1>7 DEF EvaluatedUpTo, AccountFits, QuotaInv, LimitsFit
  <2>2. /\ u \in QuotaUnits /\ w \in Nat \ {0} /\ most \in Nat /\ r.limit \in Nat \ {0}
        /\ u = "requests" => most = r.limit
        /\ u = "tokens" => /\ most = r.limit - 1 + MaxInFlight[Watched] * MaxCost
                           /\ l * MaxCost \in Nat /\ l * MaxCost <= MaxInFlight[Watched] * MaxCost
                           /\ MaxInFlight[Watched] * MaxCost \in Nat
    <3>1. MaxInFlight[Watched] \in Nat /\ MaxCost \in Nat
      BY ScopeStoresAssumption DEF ScopeStoresAssumption
    <3>2. u = "tokens" => l * MaxCost \in Nat /\ l * MaxCost <= MaxInFlight[Watched] * MaxCost
                          /\ most = r.limit - 1 + MaxInFlight[Watched] * MaxCost
      BY <1>1, <1>6, MostIs
    <3>3. MaxInFlight[Watched] * MaxCost \in Nat
      BY <3>1
    <3>4. u \in QuotaUnits /\ w \in Nat \ {0} /\ most \in Nat /\ r.limit \in Nat \ {0}
          /\ (u = "requests" => most = r.limit)
      BY <1>1, RulesAre, MostIs
    <3> QED
      BY <3>2, <3>3, <3>4
  <2>3. MeterFits(m) /\ f \in Uses /\ g \in Uses /\ meters'[u] = m
    BY <1>1, <1>2, <1>4, <1>5, <2>2 DEF FoundFits, MetersFit, UseFits
  <2>4. goes /\ scope = Watched => LetBy(r, found)
    <3> SUFFICES ASSUME goes, scope = Watched PROVE LetBy(r, found)
      OBVIOUS
    <3>1. PICK j \in 1..Len(setup.rules) : r = setup.rules[j]
      BY <1>1, RulesAre
    <3> QED
      BY <1>1, <1>3, <1>7, <3>1 DEF EvaluatedUpTo
  <2>5. u \in found.unmetered /\ scope = Watched => Watched \notin DOMAIN m.entries
    BY <1>4 DEF FoundFits
  <2>6. LetBy(r, found) /\ u \notin found.unmetered =>
          /\ Watched \in DOMAIN m.entries /\ clock < s + w /\ Within(f, s, w) < r.limit
          /\ u = "requests" => Within(f, s, w) + 1 <= c \/ c >= Beyond
    BY DEF LetBy, AdmitsIn
  <2>7. Within(f, s, w) \in Nat
    BY <2>3, SpanFinite
  <2>8. MetersUnit(u)
    BY DEF MetersUnit
  <2> DEFINE k == r.limit
  <2> HIDE DEF u, w, most, m, f, g, n, l, s, c, goes, k, uses
  <2>9. CASE u = "tokens"
    <3>1. g = f
      BY <1>5, <2>9 DEF f, g, u
    <3>2. CASE l = n
      BY <2>1, <2>3, <3>1, <3>2 DEF u, w, most, m, g, l
    <3>3. CASE goes /\ scope = Watched
      <4>1. CASE u \in found.unmetered
        <5>1. WatchFits(u, w, most, m, f, l)
          BY <2>1, <2>5, <3>3, <4>1 DEF WatchFits
        <5> QED
          BY <2>1, <2>3, <3>1, <5>1 DEF u, w, most, m, g, l
      <4>2. CASE u \notin found.unmetered
        <5>1. Watched \in DOMAIN m.entries /\ Within(f, s, w) < k
          BY <2>4, <2>6, <3>3, <4>2 DEF k
        <5>2. Within(f, s, w) + l * MaxCost <= most
          <6> DEFINE x == l * MaxCost
                     y == MaxInFlight[Watched] * MaxCost
                     z == Within(f, s, w)
          <6>1. x \in Nat /\ y \in Nat /\ x <= y /\ most = k - 1 + y /\ k \in Nat /\ z \in Nat /\ z < k
            BY <2>2, <2>7, <2>9, <5>1 DEF k
          <6> HIDE DEF x, y, z
          <6>2. z + x <= most
            BY <6>1
          <6> QED
            BY <6>2 DEF x, z
        <5>3. WatchFits(u, w, most, m, f, l)
          BY <2>1, <5>1, <5>2 DEF WatchFits, OpenFits, s
        <5> QED
          BY <2>1, <2>3, <3>1, <5>3 DEF u, w, most, m, g, l
      <4> QED
        BY <4>1, <4>2
    <3> QED
      BY <1>6, <3>2, <3>3 DEF l, n
  <2>10. CASE u = "requests"
    <3>1. CASE scope # Watched \/ uses = 0
      <4>1. g = f
        BY <1>5, <3>1 DEF f, g
      <4>2. WatchFits(u, w, most, m, f, l)
        BY <2>1, <2>10 DEF WatchFits, OpenFits
      <4> QED
        BY <2>1, <2>3, <4>1, <4>2 DEF u, w, most, m, g, l
    <3>2. CASE scope = Watched /\ uses # 0
      <4>1. goes /\ u \notin found.unmetered /\ uses = 1
        BY <2>10, <3>2 DEF uses
      <4>2. \A t \in Ticks : g[t] = IF t = clock THEN f[t] + uses ELSE f[t]
        BY <1>5, <2>8, <2>10, <3>2, <4>1 DEF f, g, u
      <4>3. /\ Watched \in DOMAIN m.entries /\ clock < s + w /\ uses \in Nat
            /\ Within(f, s, w) + uses <= most
            /\ Within(f, s, w) + uses <= c \/ c >= Beyond
        BY <2>2, <2>4, <2>6, <2>7, <2>10, <3>2, <4>1
      <4>4. /\ s = m.entries[Watched].start /\ c = m.entries[Watched].count
            /\ u = "tokens" => Within(f, s, w) + uses + l * MaxCost <= most
        BY <2>10 DEF s, c
      <4>6. w \in Nat \ {0} /\ most \in Nat /\ SetupFits /\ MeterFits(m) /\ f \in Uses /\ g \in Uses
        BY <1>1, <2>2, <2>3
      <4>5. WatchFits(u, w, most, m, g, l) /\ Quiet(g, clock + 1) /\ SpansFit(g, w, most)
        BY <2>1, <4>6, <4>2, <4>3, <4>4, WatchUses, SMTT(40)
      <4> QED
        BY <2>3, <4>5 DEF u, w, most, m, g, l
    <3> QED
      BY <3>1, <3>2
  <2> QED
    BY <2>2, <2>9, <2>10 DEF QuotaUnits
<1>8. LimitsFit(meters', used', flight'[Watched], verdict'.unmetered)
  <2>1. /\ MetersFit(meters') /\ verdict'.unmetered \subseteq QuotaUnits
        /\ \A u \in verdict'.unmetered : Crowded(meters'[u])
    BY <1>2, <1>4 DEF FoundFits
  <2> QED
    BY <1>5, <1>6, <1>7, <2>1 DEF LimitsFit
<1> QED
  BY <1>2, <1>6, <1>8, LimitsStand

\* A call's answer: its tokens are recorded, and it is no longer under way.
LEMMA ReturnFits ==
  ASSUME QuotaInv, NEW scope \in Scopes, NEW tokens \in 0..MaxCost, CallReturns(scope, tokens)
  PROVE  QuotaInv'
<1>1. SetupFits /\ UseFits /\ MetersFit(meters)
      /\ (OneWindow => TokenAccount(meters.tokens))
  BY QuotaFacts
<1> DEFINE a == meters'["tokens"]
           uses == IF scope \in DOMAIN a.entries THEN tokens ELSE 0
<1>2. /\ setup' = setup /\ clock' = clock /\ verdict'.unmetered = {}
      /\ flight[scope] > 0 /\ flight' = [flight EXCEPT ![scope] = @ - 1]
      /\ RecordUse("tokens", scope, uses)
  BY DEF CallReturns, NoVerdict
<1>3. MaxCost \in Nat /\ tokens \in Nat /\ tokens <= MaxCost /\ uses \in Nat
  BY ScopeStoresAssumption DEF ScopeStoresAssumption
<1>4. DOMAIN meters = QuotaUnits /\ MeterFits(meters["tokens"]) /\ MeterFits(meters["requests"])
  BY <1>1 DEF MetersFit, QuotaUnits
<1>5. /\ DOMAIN meters' = QuotaUnits /\ meters'["requests"] = meters["requests"]
      /\ a = IF tokens > 0 THEN RecordTokenUsage(scope, tokens) ELSE meters["tokens"]
  BY <1>4 DEF CallReturns, QuotaUnits
<1> HIDE DEF a
<1>6. /\ MeterFits(a)
      /\ OneWindow /\ tokens > 0 =>
           /\ TokenAccount(a)
           /\ scope = Watched /\ Watched \in DOMAIN a.entries =>
                \A r \in Range(setup.rules) : r.unit = "tokens" => Counted(r.window, a, tokens)
  <2>1. CASE tokens > 0
    <3>1. RecordedUpTo(Len(setup.rules), a, scope, tokens)
      BY <1>1, <1>3, <1>5, <2>1, TokensRecorded
    <3>2. \A r \in Range(setup.rules) : \E j \in 1..Len(setup.rules) : r = setup.rules[j]
      BY <1>1, RulesAre
    <3> QED
      BY <1>1, <3>1, <3>2 DEF RecordedUpTo
  <2>2. CASE ~(tokens > 0)
    BY <1>4, <1>5, <2>2
  <2> QED
    BY <2>1, <2>2
<1>7. /\ used' \in [QuotaUnits -> Uses] /\ used'["requests"] = used["requests"]
      /\ scope # Watched \/ uses = 0 => used' = used
      /\ scope = Watched /\ MetersUnit("tokens") =>
           \A t \in Ticks : used'["tokens"][t]
                              = IF t = clock THEN used["tokens"][t] + uses ELSE used["tokens"][t]
  BY <1>2, <1>3, UseRecorded DEF QuotaUnits
<1>8. /\ flight' \in [Scopes -> Nat] /\ flight'[Watched] \in Nat /\ flight'[Watched] <= MaxInFlight[Watched]
      /\ scope # Watched => flight'[Watched] = flight[Watched]
      /\ scope = Watched => flight'[Watched] = flight[Watched] - 1 /\ flight[Watched] >= 1
      /\ flight[Watched] \in Nat
  <2>1. MaxInFlight[Watched] \in Nat /\ Watched \in Scopes /\ flight \in [Scopes -> Nat]
        /\ flight[Watched] <= MaxInFlight[Watched]
    BY <1>1, ScopeStoresAssumption DEF ScopeStoresAssumption, QuotaInv, UseFits
  <2> QED
    BY <1>2, <2>1
<1>9. ASSUME OneWindow, NEW r \in Range(setup.rules)
      PROVE  /\ WatchFits(r.unit, r.window, MostOf(r), meters'[r.unit], used'[r.unit], flight'[Watched])
             /\ Quiet(used'[r.unit], clock + 1)
             /\ SpansFit(used'[r.unit], r.window, MostOf(r))
  <2> DEFINE u == r.unit
             w == r.window
             most == MostOf(r)
             f == used[u]
             g == used'[u]
             n == flight[Watched]
             l == flight'[Watched]
  <2>1. /\ WatchFits(u, w, most, meters[u], f, n)
        /\ Quiet(f, clock + 1) /\ SpansFit(f, w, most)
    BY <1>9 DEF QuotaInv, LimitsFit
  <2>2. u \in QuotaUnits /\ w \in Nat \ {0} /\ most \in Nat
    BY <1>1, RulesAre, MostIs
  <2>3. f \in Uses /\ g \in Uses
    BY <1>1, <1>7, <2>2 DEF UseFits
  <2>4. MetersUnit(u)
    BY DEF MetersUnit
  <2>5. n * MaxCost \in Nat /\ l * MaxCost \in Nat
        /\ (scope = Watched => n * MaxCost = l * MaxCost + MaxCost)
    BY <1>3, <1>8
  <2> HIDE DEF w, most, f, g, n, l, uses
  <2>6. CASE u = "requests"
    <3>1. WatchFits(u, w, most, meters[u], f, l)
      BY <2>1, <2>6 DEF WatchFits, OpenFits
    <3> QED
      BY <1>5, <1>7, <2>1, <2>6, <3>1 DEF w, most, f, g, l
  <2>7. CASE u = "tokens"
    <3>1. WatchFits(u, w, most, a, f, n)
      <4>1. CASE tokens > 0
        BY <1>6, <1>9, <2>7, <4>1 DEF TokenAccount, w, most, f, n
      <4>2. CASE ~(tokens > 0)
        BY <1>5, <2>1, <2>7, <4>2
      <4> QED
        BY <4>1, <4>2
    <3> DEFINE s == a.entries[Watched].start
               c == a.entries[Watched].count
    <3>2. Within(f, s, w) \in Nat
      BY <2>3, SpanFinite
    <3> HIDE DEF s, c
    <3>3. CASE scope # Watched
      <4>1. g = f /\ l = n
        BY <1>7, <1>8, <3>3 DEF g, f, l, n
      <4> QED
        BY <2>1, <2>7, <3>1, <4>1 DEF w, most, g, l, a
    <3>4. CASE scope = Watched /\ uses = 0
      <4>1. g = f
        BY <1>7, <3>4 DEF g, f
      <4>2. Watched \in DOMAIN a.entries => Within(f, s, w) + l * MaxCost <= most
        <5> DEFINE x == l * MaxCost
                   y == n * MaxCost
                   z == Within(f, s, w)
        <5>1. Watched \in DOMAIN a.entries => z + y <= most
          BY <2>7, <3>1 DEF WatchFits, OpenFits, s
        <5>2. x \in Nat /\ y \in Nat /\ z \in Nat /\ x <= y
          BY <1>3, <2>5, <3>2, <3>4
        <5> HIDE DEF x, y, z
        <5>3. Watched \in DOMAIN a.entries => z + x <= most
          BY <2>2, <5>1, <5>2
        <5> QED
          BY <5>3 DEF x, z
      <4>3. WatchFits(u, w, most, a, f, l)
        BY <3>1, <4>2 DEF WatchFits, OpenFits, s
      <4> QED
        BY <2>1, <2>7, <4>1, <4>3 DEF w, most, g, l, a
    <3>5. CASE scope = Watched /\ uses # 0
      <4>1. Watched \in DOMAIN a.entries /\ uses = tokens /\ tokens > 0
        BY <1>3, <3>5 DEF uses
      <4>2. \A t \in Ticks : g[t] = IF t = clock THEN f[t] + tokens ELSE f[t]
        BY <1>7, <2>4, <2>7, <3>5, <4>1 DEF f, g
      <4>3. clock < s + w /\ (Within(f, s, w) + tokens <= c \/ c >= Beyond)
        BY <1>6, <1>9, <2>7, <3>5, <4>1 DEF Counted, s, c, f, w
      <4>4. /\ Within(f, s, w) + tokens <= most
            /\ Within(f, s, w) + tokens + l * MaxCost <= most
        <5> DEFINE x == l * MaxCost
                   y == n * MaxCost
                   z == Within(f, s, w)
        <5>1. z + y <= most
          BY <2>7, <3>1, <4>1 DEF WatchFits, OpenFits, s
        <5>2. x \in Nat /\ y \in Nat /\ z \in Nat /\ y = x + MaxCost
          BY <2>5, <3>2, <3>5
        <5> HIDE DEF x, y, z
        <5>3. z + tokens <= most /\ z + tokens + x <= most
          BY <1>3, <2>2, <5>1, <5>2
        <5> QED
          BY <5>3 DEF x, z
      <4>5. s = a.entries[Watched].start /\ c = a.entries[Watched].count
        BY DEF s, c
      <4>6. WatchFits(u, w, most, a, g, l) /\ Quiet(g, clock + 1) /\ SpansFit(g, w, most)
        BY <1>1, <1>3, <1>6, <2>1, <2>2, <2>3, <3>1, <4>1, <4>2, <4>3, <4>4, <4>5, WatchUses
      <4> QED
        BY <2>7, <4>6 DEF w, most, g, l, a
    <3> QED
      BY <3>3, <3>4, <3>5
  <2> QED
    BY <2>2, <2>6, <2>7 DEF QuotaUnits
<1>10. LimitsFit(meters', used', flight'[Watched], verdict'.unmetered)
  <2>1. MetersFit(meters')
    BY <1>4, <1>5, <1>6 DEF MetersFit, QuotaUnits, a
  <2> QED
    BY <1>2, <1>7, <1>8, <1>9, <2>1 DEF LimitsFit
<1> QED
  BY <1>2, <1>8, <1>10, LimitsStand

\* Each step of a behaviour keeps the account of the limits.
LEMMA QuotaStep == QuotaInv /\ [EnforcementNext]_enforcementVars => QuotaInv'
<1> SUFFICES ASSUME QuotaInv, [EnforcementNext]_enforcementVars PROVE QuotaInv'
  OBVIOUS
<1>1. ASSUME setup' = setup, clock' = clock, verdict' = verdict, UNCHANGED meterVars PROVE QuotaInv'
  <2>1. meters' = meters /\ flight' = flight /\ used' = used
    BY <1>1 DEF meterVars
  <2>2. LimitsFit(meters', used', flight'[Watched], verdict'.unmetered) /\ flight' \in [Scopes -> Nat]
    BY <1>1, <2>1 DEF QuotaInv
  <2> QED
    BY <1>1, <2>2, LimitsStand
<1>2. CASE UNCHANGED storeVars
  BY <1>1, <1>2 DEF storeVars
<1>3. CASE MetersNext
  BY <1>3, TickFits, SaturatedFits, MeetFits, ReturnFits, ResetFits DEF MetersNext
<1>4. CASE SessionsNext
  <2>1. CASE Tick
    BY <2>1, TickFits
  <2>2. ASSUME NEW s \in Scopes, NEW turn \in TurnFindings, TakeTurn(s, turn) PROVE QuotaInv'
    BY <1>1, <2>2 DEF TakeTurn
  <2> QED
    BY <1>4, <2>1, <2>2 DEF SessionsNext
<1> QED
  BY <1>2, <1>3, <1>4 DEF EnforcementNext, enforcementVars

\* The meters are well formed, a unit goes unmetered in a crowded store only, and
\* the watched scope's use fits its windows.
THEOREM QuotaInvariant == EnforcementSpec => []QuotaInv
<1>1. EnforcementInit => QuotaInv
  BY QuotaInitially, EnforcementSteps
<1> QED
  BY <1>1, QuotaStep, PTL DEF EnforcementSpec

\* What the account says of the watched scope is what a rule promises.
LEMMA AccountHolds == QuotaInv => WindowHolds /\ UnmeteredOnlyWhenFull
<1> SUFFICES ASSUME QuotaInv PROVE WindowHolds /\ UnmeteredOnlyWhenFull
  OBVIOUS
<1>1. WindowHolds
  <2> SUFFICES ASSUME OneWindow, NEW r \in Range(setup.rules), NEW first \in Ticks
               PROVE  UsedWithin(r.unit, first, r.window) <= 2 * MostOf(r)
    BY DEF WindowHolds
  <2>1. SpansFit(used[r.unit], r.window, MostOf(r))
    BY DEF QuotaInv, LimitsFit
  <2> QED
    BY <2>1, UsedIsWithin DEF SpansFit
<1>2. UnmeteredOnlyWhenFull
  <2> SUFFICES ASSUME NEW u \in verdict.unmetered
               PROVE  Cardinality(LiveScopes(meters[u])) >= MaxScopes
    BY DEF UnmeteredOnlyWhenFull
  <2>1. Crowded(meters[u])
    BY DEF QuotaInv, LimitsFit
  <2>2. LiveScopes(meters[u]) = DOMAIN meters[u].entries
    BY <2>1 DEF Crowded, LiveScopes
  <2> QED
    BY <2>1, <2>2 DEF Crowded, FullMeter
<1> QED
  BY <1>1, <1>2

\* No epoch's share is spent twice, no span as long as a rule's window sees more
\* than two windows' allowance however many scopes flood the store, and a scope
\* goes unmetered only in a store full of open windows (spendEscrowShare,
\* checkQuota, incrementQuota, recordTokenUsageForRules, makeRoom).
THEOREM LimitsKept == EnforcementSpec => []LimitsHold
<1>1. ShareSpentOnce /\ QuotaInv => LimitsHold
  BY AccountHolds DEF LimitsHold
<1> QED
  BY <1>1, SpentOnce, QuotaInvariant, PTL
===============================================================================
