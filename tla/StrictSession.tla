---------------------------- MODULE StrictSession ----------------------------
(***************************************************************************)
(* Strict receipt profiles 1.0 and 2.0: the coordinator that decides,      *)
(* suspends and resolves actions and chains their receipts                 *)
(* (strict-receipt-coordinator.ts, strict-receipt-coordinator-v2*.ts), its *)
(* one prepared receipt (strict-receipt-prepared-state.ts), the runtime    *)
(* that has a receipt admitted before it invokes the action                *)
(* (strict-receipt-runtime.ts, strict-receipt-runtime-v2.ts) and the       *)
(* admission request with its retries (strict-admission*.ts).              *)
(*                                                                         *)
(* A 1.0 coordinator may also be used without a runtime ("direct"): then a *)
(* receipt is prepared and committed in one call.  When the process id     *)
(* changes, profile 1.0 starts a new session in place; profile 2.0 saves a *)
(* signed checkpoint around every admission and is restored from it.       *)
(* Profile 2.1 is StrictReceipt's.                                         *)
(***************************************************************************)
EXTENDS StrictChain

CONSTANTS
  ActionIds,     \* ids of the actions proposed
  Setups,        \* profile, channel and intent rule of a session
  Proposals,     \* what may be proposed through each channel: context and base
  DeferTtl,      \* defer_ttl_ms
  ClockTimes,    \* what the clock may show
  MaxSigned,     \* bound on the receipts signed, by channel
  MaxLives       \* bound on the changes of process

ASSUME StrictSessionAssumption ==
  /\ \A setup \in Setups : /\ setup.profile \in {"1.0", "2.0"}
                           /\ setup.channel \in {"direct", "runtime"}
                           /\ setup.channel = "direct" => setup.profile = "1.0"
                           /\ setup.rule \in IntentRules
                           /\ \A input \in Proposals[setup.channel] : input.base.expires \in Nat
  /\ DeferTtl \in Nat \ {0} /\ ClockTimes \subseteq Nat
  /\ MaxSigned \in [{"direct", "runtime"} -> Nat] /\ MaxLives \in Nat

VARIABLES
  setup,      \* which of Setups this is
  signed,     \* history: the receipts signed
  session,    \* the committed state of the coordinator
  slot,       \* the prepared receipt, whether it is frozen, and (2.0) the
              \* receipt a restart would have to reconcile
  op,         \* where the runtime's operation is, and on which receipt
  results,    \* action ids the runtime keeps a result of
  posted,     \* receipts handed to the network
  stored,     \* the remote chain of every session
  refused,    \* history: the receipts said not to be stored when they were not
  invoked,    \* history: the receipts under which an action was invoked
  saved,      \* the checkpoint store of profile 2.0
  lives       \* history: how often the process changed

sessionVars == <<setup, signed, session, slot, op, results, posted, stored, refused, invoked, saved, lives>>

Hashes == 1..MaxSigned[setup.channel]
Runtime == setup.channel = "runtime"
V2 == setup.profile = "2.0"
Blocked == [taken |-> "blocked", approval |-> "none", request |-> "none",
            expires |-> 0, arguments |-> "none"]

NewSession(id) ==
  [id |-> id, seq |-> 0, head |-> 0, last |-> 0, prior |-> <<>>, suspended |-> {},
   resolved |-> {}, decided |-> {}, requests |-> {}]
EmptySlot == [receipt |-> 0, frozen |-> FALSE, recovering |-> 0]
NoOp == [at |-> "idle", receipt |-> 0]

SessionInit ==
  /\ setup \in Setups
  /\ signed = <<>>
  /\ session = NewSession(0)
  /\ slot = EmptySlot
  /\ op = NoOp
  /\ results = {} /\ posted = {} /\ refused = {}
  /\ stored = [s \in 0..MaxLives |-> <<>>]
  /\ invoked = <<>>
  /\ saved = [chain |-> NewSession(0), recovering |-> 0]
  /\ lives = 0

----------------------------------------------------------------------------
(* Committing a receipt to the session.                                    *)

Summary(receipts, r) ==
  [receipt |-> r, seq |-> receipts[r].seq, outcome |-> receipts[r].outcome]

\* The summary of the suspended action is replaced where it stands.
ResummarizedInPlace(prior, receipts, r) ==
  [i \in DOMAIN prior |->
     IF prior[i].receipt = receipts[r].resolves THEN Summary(receipts, r) ELSE prior[i]]

\* commitResolution: the summary of the suspended action is replaced where it
\* stands and the summaries are sorted again.
Resummarized(prior, receipts, r) ==
  LET replaced == ResummarizedInPlace(prior, receipts, r)
      summaries == {replaced[i] : i \in DOMAIN prior}
  IN  CHOOSE sorted \in [DOMAIN prior -> summaries] :
        /\ {sorted[i] : i \in DOMAIN prior} = summaries
        /\ \A i, j \in DOMAIN prior : i < j => sorted[i].seq <= sorted[j].seq

\* commitDecision, commitResolution.
WithReceipt(state, receipts, r) ==
  LET receipt == receipts[r]
      next == [state EXCEPT !.seq = receipt.seq, !.head = r, !.last = receipt.time]
  IN  IF Resolves(receipt)
        THEN [next EXCEPT !.prior = Resummarized(@, receipts, r),
                          !.resolved = @ \cup {receipt.resolves}]
        ELSE [next EXCEPT
                !.prior = Append(@, Summary(receipts, r)),
                !.decided = @ \cup {receipt.action},
                !.suspended = IF Suspends(receipt) THEN @ \cup {r} ELSE @,
                !.requests = IF receipt.outcome = "STEP_UP"
                               THEN @ \cup {[request |-> receipt.request, receipt |-> r]} ELSE @]

----------------------------------------------------------------------------
(* Preparing a receipt.                                                    *)

\* allocateTimestamp: the clock, but never before the last receipt.
Allocated == {IF t > session.last THEN t ELSE session.last : t \in ClockTimes}

\* buildActionContext takes prior actions in strictly increasing sequence.
HistoryInOrder ==
  \A i \in 2..Len(session.prior) : session.prior[i - 1].seq < session.prior[i].seq

Evaluated(input) == AlignedOutcome(setup.rule, session.prior, input.context, input.base)

\* The next receipt of the session.
Draft(time, action, input) ==
  LET verdict == Evaluated(input)
  IN  [session |-> session.id, seq |-> session.seq + 1, prev |-> session.head, time |-> time,
       record |-> "decision", action |-> action, input |-> input, outcome |-> verdict.outcome,
       required |-> {}, expires |-> 0, request |-> "none", resolves |-> 0, method |-> "none"]

\* signCoordinatorDecision, signDecisionV2: the suspension of a decision.
DecisionDraft(time, action, input) ==
  LET draft == Draft(time, action, input)
  IN  CASE draft.outcome = "STEP_UP" -> [draft EXCEPT !.expires = input.base.expires,
                                                      !.request = input.base.request]
        [] draft.outcome = "DEFER" -> [draft EXCEPT !.expires = time + DeferTtl,
                                                    !.required = Evaluated(input).required]
        [] OTHER -> draft

DecisionSignable(draft) ==
  Suspends(draft) =>
    /\ draft.expires > draft.time
    /\ \A pending \in session.requests : pending.request # draft.request

\* signCoordinatorResolution, signResolutionV2.
ResolutionDraft(time, s, input, method) ==
  [Draft(time, signed[s].action, input)
     EXCEPT !.record = "resolution", !.resolves = s, !.method = method]

\* validateDeferredChanges: a resolution supplies what the deferral asked for
\* and changes nothing else.
Settled(required, input) ==
  LET context == [input.context EXCEPT
        !.target = IF "action.target" \in required THEN "absent" ELSE @,
        !.intents = IF "active_intents" \in required THEN "one" ELSE @]
      base == [input.base EXCEPT
        !.arguments = IF "modified_arguments_hash" \in required THEN "none" ELSE @,
        !.approval = IF "approval_binding" \in required THEN "bound" ELSE @,
        !.request = IF "approval_binding" \in required THEN "none" ELSE @,
        !.expires = IF "approval_binding" \in required THEN 0 ELSE @]
  IN  [context |-> context,
       base |-> IF "policy_evaluation" \in required THEN Blocked ELSE base]
OnlyRequiredChanged(s, input) ==
  Settled(signed[s].required, input) = Settled(signed[s].required, signed[s].input)

\* Variant: a grant is taken whenever it comes.
FinalAllowedLate(s, draft) ==
  /\ draft.method \in {"approval_denied", "cancelled"} => draft.outcome = "DENY"
  /\ draft.method = "approval_granted" => draft.outcome # "DENY"

\* validateFinalResolution, validateFinal.
FinalAllowed(s, draft) ==
  /\ draft.method \in {"approval_granted", "context_supplied"} => draft.time < signed[s].expires
  /\ draft.method \in {"approval_denied", "cancelled"} => draft.outcome = "DENY"
  /\ draft.method = "approval_granted" => draft.outcome # "DENY"

\* validateResolution.
ResolutionAllowed(s, draft) ==
  LET prior == signed[s]
      approval == prior.outcome = "STEP_UP"
      byApproval == draft.method \in {"approval_granted", "approval_denied"}
  IN  /\ draft.outcome \in FinalOutcomes
      /\ draft.input.context.agent = prior.input.context.agent
      /\ SameAction(prior, draft)
      /\ approval = byApproval \/ draft.method = "cancelled"
      /\ byApproval => [request |-> prior.request, receipt |-> s] \in session.requests
      /\ ~byApproval /\ ~approval => OnlyRequiredChanged(s, draft.input)
      /\ FinalAllowed(s, draft)

Unresolved(s) ==
  /\ s \in session.suspended \ session.resolved
  /\ \E i \in DOMAIN session.prior : session.prior[i].receipt = s

\* The hash of a receipt; a receipt signed before has its hash already.
HashOf(receipt) ==
  IF \E r \in DOMAIN signed : signed[r] = receipt
    THEN CHOOSE r \in DOMAIN signed : signed[r] = receipt
    ELSE Len(signed) + 1

\* The coordinator has room: nothing is prepared, frozen or to be reconciled.
MayPropose == slot = EmptySlot /\ op = NoOp /\ HistoryInOrder

\* The receipt is signed and prepared.  Direct: committed in the same call.
\* Profile 1.0 asks for admission, 2.0 saves a checkpoint first.
Propose(receipt) ==
  LET r == HashOf(receipt)
  IN  /\ WellFormed(receipt)
      /\ r \in Hashes
      /\ signed' = IF r \in DOMAIN signed THEN signed ELSE Append(signed, receipt)
      /\ IF Runtime
           THEN /\ slot' = [receipt |-> r, frozen |-> FALSE, recovering |-> IF V2 THEN r ELSE 0]
                /\ op' = [at |-> IF V2 THEN "saving" ELSE "sending", receipt |-> r]
                /\ posted' = IF V2 THEN posted ELSE posted \cup {r}
                /\ UNCHANGED session
           ELSE session' = WithReceipt(session, signed', r) /\ UNCHANGED <<slot, op, posted>>
      /\ UNCHANGED <<setup, results, stored, refused, invoked, saved, lives>>

NewAction(a) == a \notin session.decided /\ a \notin results

\* decide, runDecision.
Decide ==
  /\ MayPropose
  /\ \E a \in ActionIds, input \in Proposals[setup.channel], time \in Allocated :
       LET draft == DecisionDraft(time, a, input)
       IN  /\ NewAction(a)
           /\ DecisionSignable(draft)
           /\ Propose(draft)

\* resolve, runResolution: not while the runtime keeps a result for the action.
Resolve ==
  /\ MayPropose
  /\ \E s \in session.suspended, input \in Proposals[setup.channel], time \in Allocated,
        method \in {"approval_granted", "approval_denied", "context_supplied", "cancelled"} :
       LET draft == ResolutionDraft(time, s, input, method)
       IN  /\ Unresolved(s)
           /\ signed[s].action \notin results
           /\ ResolutionAllowed(s, draft)
           /\ Propose(draft)

\* timeout, runTimeout: the base result is a block, whatever the context.
ExpireSuspension ==
  /\ MayPropose
  /\ \E s \in session.suspended, time \in Allocated :
       LET input == [context |-> signed[s].input.context, base |-> Blocked]
       IN  /\ Unresolved(s)
           /\ time >= signed[s].expires
           /\ Propose(ResolutionDraft(time, s, input, "expired"))

----------------------------------------------------------------------------
(* The runtime: one operation at a time, to its end.                       *)

At(step) == op.at = step
OpTo(step) == op' = [op EXCEPT !.at = step]
\* Profile 2.0 keeps the result of every operation on an action, 1.0 only that
\* of an invocation.
Keeps(r) ==
  IF V2 /\ signed[r].method # "expired" THEN results \cup {signed[r].action} ELSE results
Ends(r) == op' = NoOp /\ results' = Keeps(r)

\* A local refusal (another action id, arguments not bound): the receipt is
\* aborted in the same turn, and profile 2.0 keeps the result.
RefusedLocally ==
  /\ MayPropose /\ Runtime /\ V2
  /\ \E a \in ActionIds \ results : results' = results \cup {a}
  /\ UNCHANGED <<setup, signed, session, slot, op, posted, stored, refused, invoked, saved, lives>>

\* persistRecovery: what a save writes; one that fails may have been written.
Export == [chain |-> session, recovering |-> slot.recovering]
SaveFails == saved' \in {saved, Export}

SavePreparedReceipt ==
  /\ At("saving")
  /\ \/ saved' = Export /\ OpTo("sending") /\ posted' = posted \cup {op.receipt}
        /\ UNCHANGED <<slot, results>>
     \/ SaveFails /\ slot' = EmptySlot /\ Ends(op.receipt) /\ UNCHANGED posted
  /\ UNCHANGED <<setup, signed, session, stored, refused, invoked, lives>>

\* The remote store admits what continues its chain of the session, whenever
\* one of the attempts arrives.
StorePosted(r) ==
  LET chain == stored[signed[r].session]
  IN  /\ r \in posted
      /\ signed[r].seq = Len(chain) + 1
      /\ signed[r].prev = (IF chain = <<>> THEN 0 ELSE chain[Len(chain)])
      /\ stored' = [stored EXCEPT ![signed[r].session] = Append(@, r)]
      /\ UNCHANGED <<setup, signed, session, slot, op, results, posted, refused, invoked, saved, lives>>
IsStored(r) == \E i \in DOMAIN stored[signed[r].session] : stored[signed[r].session][i] = r

\* Variant: an action is invoked before it is known to be admitted.
Unproven(r) == TRUE
\* acceptedResponse: the store says that it holds this receipt.
Acknowledged(r) == IsStored(r)

\* match: the coordinator still has this receipt prepared.
Matches(r) == slot.receipt = r

InvokedUnder(r) ==
  /\ invoked' = Append(invoked, r)
  /\ results' = results \cup {signed[r].action}
  /\ OpTo("invoking")

\* Accepted: the receipt is committed.  Profile 1.0 invokes in the same turn
\* what it authorizes; 2.0 saves the committed state first.  A receipt the
\* coordinator no longer has prepared stays admitted, and nothing is invoked.
AdmissionSucceeds ==
  /\ At("sending") /\ Acknowledged(op.receipt)
  /\ IF Matches(op.receipt)
       THEN /\ session' = WithReceipt(session, signed, op.receipt)
            /\ slot' = EmptySlot
            /\ CASE V2 -> OpTo("recording") /\ UNCHANGED <<results, invoked>>
                 [] ~V2 /\ Grants(signed[op.receipt].outcome) -> InvokedUnder(op.receipt)
                 [] OTHER -> op' = NoOp /\ UNCHANGED <<results, invoked>>
       ELSE op' = NoOp /\ UNCHANGED <<session, slot, results, invoked>>
  /\ UNCHANGED <<setup, signed, posted, stored, refused, saved, lives>>

\* Refused with word that nothing is stored: the receipt is aborted.
AdmissionDenied ==
  /\ At("sending") /\ ~IsStored(op.receipt)
  /\ slot' = IF Matches(op.receipt) THEN EmptySlot ELSE slot
  /\ IF V2 THEN OpTo("closing") ELSE op' = NoOp
  /\ refused' = refused \cup {op.receipt}
  /\ UNCHANGED <<setup, signed, session, results, posted, stored, invoked, saved, lives>>

\* Anything else, the last timeout included: the session freezes.
AdmissionUnknown ==
  /\ At("sending")
  /\ slot' = IF Matches(op.receipt) THEN [slot EXCEPT !.frozen = TRUE] ELSE slot
  /\ Ends(op.receipt)
  /\ UNCHANGED <<setup, signed, session, posted, stored, refused, invoked, saved, lives>>

SaveAborted ==
  /\ At("closing")
  /\ SaveFails
  /\ Ends(op.receipt)
  /\ UNCHANGED <<setup, signed, session, slot, posted, stored, refused, invoked, lives>>

\* Variant: the action is invoked while the committed receipt is being saved.
InvokedUnsaved ==
  /\ At("recording")
  /\ IF Grants(signed[op.receipt].outcome) THEN InvokedUnder(op.receipt)
                                           ELSE Ends(op.receipt) /\ UNCHANGED invoked
  /\ UNCHANGED <<setup, signed, session, slot, posted, stored, refused, saved, lives>>

SaveCommittedReceipt ==
  /\ At("recording")
  /\ \/ /\ saved' = Export
        /\ IF Grants(signed[op.receipt].outcome) THEN InvokedUnder(op.receipt)
                                                 ELSE Ends(op.receipt) /\ UNCHANGED invoked
     \/ SaveFails /\ Ends(op.receipt) /\ UNCHANGED invoked
  /\ UNCHANGED <<setup, signed, session, slot, posted, stored, refused, lives>>

ActionSettles ==
  /\ At("invoking")
  /\ op' = NoOp
  /\ UNCHANGED <<setup, signed, session, slot, results, posted, stored, refused, invoked, saved, lives>>

----------------------------------------------------------------------------
(* Reconciliation and changes of process.                                  *)

\* reconcilePrepared on a frozen receipt: stored, or proven not to be.
ReconcilePrepared ==
  /\ Runtime /\ ~V2 /\ op = NoOp /\ slot.frozen
  /\ IF IsStored(slot.receipt)
       THEN session' = WithReceipt(session, signed, slot.receipt) /\ UNCHANGED refused
       ELSE refused' = refused \cup {slot.receipt} /\ UNCHANGED session
  /\ slot' = EmptySlot
  /\ UNCHANGED <<setup, signed, op, results, posted, stored, invoked, saved, lives>>

\* reconcileRecoveredAccepted: the receipt is committed, and a slot that is
\* still frozen in this process stays so.
ReconcileRecovered ==
  /\ V2 /\ op = NoOp /\ slot.recovering # 0 /\ IsStored(slot.recovering)
  /\ session' = WithReceipt(session, signed, slot.recovering)
  /\ slot' = [slot EXCEPT !.recovering = 0]
  /\ UNCHANGED <<setup, signed, op, results, posted, stored, refused, invoked, saved, lives>>

\* ensureProcess of profile 1.0: another process id, so another session, with
\* nothing prepared.  An operation on its way and the runtime's results stay.
ProcessChanges ==
  /\ ~V2 /\ lives < MaxLives
  /\ lives' = lives + 1
  /\ session' = NewSession(session.id + 1)
  /\ slot' = EmptySlot
  /\ UNCHANGED <<setup, signed, op, results, posted, stored, refused, invoked, saved>>

\* Variant: what was prepared when the checkpoint was saved is forgotten.
CrashAndForgetPrepared ==
  /\ V2 /\ lives < MaxLives
  /\ lives' = lives + 1
  /\ session' = saved.chain
  /\ slot' = EmptySlot
  /\ op' = NoOp /\ results' = {}
  /\ UNCHANGED <<setup, signed, posted, stored, refused, invoked, saved>>

\* Profile 2.0: the process dies, the next one restores the checkpoint.
CrashAndRestoreCheckpoint ==
  /\ V2 /\ lives < MaxLives
  /\ lives' = lives + 1
  /\ session' = saved.chain
  /\ slot' = [EmptySlot EXCEPT !.recovering = saved.recovering]
  /\ op' = NoOp /\ results' = {}
  /\ UNCHANGED <<setup, signed, posted, stored, refused, invoked, saved>>

SessionNext ==
  \/ Decide \/ Resolve \/ ExpireSuspension \/ RefusedLocally
  \/ SavePreparedReceipt \/ SaveAborted \/ SaveCommittedReceipt
  \/ \E r \in posted : StorePosted(r)
  \/ AdmissionSucceeds \/ AdmissionDenied \/ AdmissionUnknown \/ ActionSettles
  \/ ReconcilePrepared \/ ReconcileRecovered
  \/ ProcessChanges \/ CrashAndRestoreCheckpoint

SessionSpec == SessionInit /\ [][SessionNext]_sessionVars

----------------------------------------------------------------------------
(* Properties.                                                             *)

SessionTypeOK ==
  /\ setup \in Setups
  /\ DOMAIN signed \subseteq Hashes
  /\ session.head \in 0..Len(signed) /\ session.suspended \subseteq DOMAIN signed
  /\ slot \in [receipt : Hashes \cup {0}, frozen : BOOLEAN, recovering : Hashes \cup {0}]
  /\ op \in [at : {"idle", "saving", "sending", "closing", "recording", "invoking"},
             receipt : Hashes \cup {0}]
  /\ results \subseteq ActionIds /\ posted \subseteq DOMAIN signed
  /\ lives \in 0..MaxLives

\* The receipts of a session from its first to its head, along their links.
ChainOf(state) ==
  LET back[n \in 0..state.seq] ==
        IF n = 0 THEN state.head
        ELSE IF back[n - 1] = 0 THEN 0 ELSE signed[back[n - 1]].prev
  IN  [i \in 1..state.seq |-> back[state.seq - i]]

\* How the actions of the first n receipts of a chain stand: a resolution
\* takes the place of what it resolves.
Standing(chain, n) ==
  {chain[i] : i \in {j \in 1..n : \A k \in 1..n :
                       ~(Resolves(signed[chain[k]]) /\ signed[chain[k]].resolves = chain[j])}}

OneAgent(chain) ==
  \A i \in DOMAIN chain :
    signed[chain[i]].input.context.agent = signed[chain[1]].input.context.agent

\* What the coordinator commits and the store admits is a chain the profile's
\* own verifier accepts, whatever the clock, the suspensions and the changes
\* of process; profile 2.0 wants one agent to a session, which its coordinator
\* does not ask for.
ChainsVerify ==
  /\ \A chain \in {ChainOf(session)} \cup {stored[s] : s \in DOMAIN stored} :
       (chain # <<>> /\ (V2 => OneAgent(chain))) => ChainVerifies(setup.profile, signed, chain)
  \* Nothing that leaves out, repeats or moves one of its receipts is accepted.
  /\ LET chain == ChainOf(session)
     IN  \A other \in UNION {[1..n -> {chain[i] : i \in DOMAIN chain}] : n \in 1..Len(chain)} :
           ChainVerifies(setup.profile, signed, other) => other = SubSeq(chain, 1, Len(other))

\* The history an action is judged on is what the chain says of the session,
\* and no action is authorized against the rule on it.
HistoryHeld ==
  LET chain == ChainOf(session)
  IN  /\ HistoryInOrder
      /\ {session.prior[i].receipt : i \in DOMAIN session.prior} = Standing(chain, session.seq)
      /\ \A n \in DOMAIN chain :
           Grants(signed[chain[n]].outcome) =>
             /\ Cardinality(Standing(chain, n - 1)) <= setup.rule.maxPrior
             /\ \A r \in Standing(chain, n - 1) : signed[r].outcome \notin setup.rule.denyAfter

\* What a session behind a runtime holds as committed is the start of what the
\* store admitted, and whatever the store admitted of it is committed, on its
\* way, or held for reconciliation, in this process and after a restart: only a
\* receipt that was refused, and stored by an earlier attempt all the same, is
\* forgotten.
CommittedIsStored ==
  Runtime =>
    /\ \A state \in {session, saved.chain} :
         ChainOf(state) = SubSeq(stored[state.id], 1, state.seq)
    /\ \A i \in DOMAIN stored[session.id] :
         \/ i <= session.seq
         \/ stored[session.id][i] \in {op.receipt, slot.receipt, slot.recovering} \cup refused

\* Under profile 2.0 an action runs only after the checkpoint that survives a
\* crash says that it was decided, and that checkpoint names the receipt whose
\* fate is unknown, unless it holds it.
CheckpointTruthful ==
  V2 => /\ \A i \in DOMAIN invoked :
             /\ signed[invoked[i]].action \in saved.chain.decided
             /\ signed[invoked[i]].seq <= saved.chain.seq
        /\ \A r \in Hashes :
             (op = [at |-> "sending", receipt |-> r] \/ (slot.frozen /\ slot.receipt = r)) =>
               r = saved.recovering \/ r \in {ChainOf(saved.chain)[i] : i \in 1..saved.chain.seq}

\* An action is invoked once, under a receipt that authorizes it and that the
\* store holds, whatever is lost, repeated, resolved twice or restarted.
InvokedOnce ==
  /\ \A i, j \in DOMAIN invoked :
       signed[invoked[i]].action = signed[invoked[j]].action => i = j
  /\ \A i \in DOMAIN invoked : Grants(signed[invoked[i]].outcome) /\ IsStored(invoked[i])
=============================================================================
