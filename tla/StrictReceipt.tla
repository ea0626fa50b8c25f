--------------------------- MODULE StrictReceipt ---------------------------
(***************************************************************************)
(* Strict receipt profile 2.1 (sdk-typescript/src/governance): the runtime *)
(* that admits an action before it runs (strict-receipt-runtime-v2-1*.ts), *)
(* the coordinator of one session's receipt chain, recoverable from a      *)
(* signed checkpoint (strict-receipt-coordinator-v2-1*.ts), and what       *)
(* recovery reads from a journal (strict-runtime-recovery-v2-1.ts).        *)
(*                                                                         *)
(* Every await is a point where the process may crash, the checkpoint      *)
(* store may fail with or without having written, and the request of an    *)
(* earlier attempt may still reach the remote store.  The runtime's busy   *)
(* flag is released when the execution starts, not when it ends:           *)
(* runExclusive returns the promise of executeCommittedStrictActionV21     *)
(* without awaiting it, so an invocation overlaps with later operations.   *)
(***************************************************************************)
EXTENDS Naturals, Sequences, FiniteSets

CONSTANTS
  Actions,      \* action ids
  Verdicts,     \* what a decision may come to; a resolution does not suspend
  Endings,      \* what an invocation may come to
  MaxReceipts,  \* bound on the receipts signed
  MaxCrashes    \* bound on the crashes of the process

ASSUME StrictReceiptAssumption ==
  /\ Verdicts \subseteq {"ALLOW", "DENY", "STEP_UP"}
  /\ Endings \subseteq {"executed", "invocation_failed", "invocation_uncertain"}
  /\ MaxReceipts \in Nat
  /\ MaxCrashes \in Nat

VARIABLES
  issued,      \* history: every receipt signed; a receipt is its position
  sent,        \* receipts whose request was handed to the network
  log,         \* the remote receipt store: the chain of admitted receipts
  coord,       \* the coordinator of the running process
  runtime,     \* frozen, and the keys of the cached results
  pc,          \* where the operation on a receipt is
  snap,        \* the coordinator's head when the latest persist was called
  journal,     \* the checkpoint store: the latest journal of each receipt
  checkpoint,  \* the latest exported recovery checkpoint
  fate,        \* history: what the invocation under a receipt came to
  crashes      \* history: how often the process crashed

vars == <<issued, sent, log, coord, runtime, pc, snap, journal, checkpoint, fate, crashes>>

Ids == 1..MaxReceipts
Issued == DOMAIN issued
Outcomes == {"ALLOW", "DENY", "STEP_UP"}
\* A resolution names the suspended receipt it resolves, a decision none.
Receipt == [action : Actions, resolves : 0..MaxReceipts, outcome : Outcomes,
            seq : 1..MaxReceipts, prev : 0..MaxReceipts]
Ended == {"executed", "invocation_failed", "invocation_uncertain"}
Phases == {"none", "prepared", "remote_accepted", "committed", "invocation_started", "terminal"}
Journal == [phase : Phases, status : {"none", "nonexecuted"} \cup Ended, head : 0..MaxReceipts]
Committed == [seq : 0..MaxReceipts, head : 0..MaxReceipts, actions : SUBSET Actions,
              suspended : SUBSET Ids, resolved : SUBSET Ids, recovery : 0..MaxReceipts]
Steps == {"none", "preparing", "sending", "accepting", "committing", "closing",
          "starting", "started", "invoking", "ending", "over"}

NoJournal == [phase |-> "none", status |-> "none", head |-> 0]
EmptyChain == [seq |-> 0, head |-> 0, actions |-> {}, suspended |-> {}, resolved |-> {},
               recovery |-> 0]
\* A coordinator made from a checkpoint, with nothing prepared in it.
Restored(document) == [chain |-> document, prepared |-> 0, frozen |-> FALSE]
FreshRuntime == [frozen |-> FALSE, decided |-> {}, resolved |-> {}]

Init ==
  /\ issued = <<>>
  /\ sent = {}
  /\ log = <<>>
  /\ coord = Restored(EmptyChain)
  /\ runtime = FreshRuntime
  /\ pc = [r \in Ids |-> "none"]
  /\ snap = [r \in Ids |-> 0]
  /\ journal = [r \in Ids |-> NoJournal]
  /\ checkpoint = EmptyChain
  /\ fate = [r \in Ids |-> "none"]
  /\ crashes = 0

----------------------------------------------------------------------------
(* The coordinator.                                                        *)

ChainHead == coord.chain.head
Authorized(r) == issued[r].outcome = "ALLOW"

\* commitDecision and commitApprovalResolution, applied to the committed state.
Extended(chain, r) ==
  [chain EXCEPT !.seq = issued[r].seq, !.head = r,
     !.actions = IF issued[r].resolves = 0 THEN @ \cup {issued[r].action} ELSE @,
     !.suspended = IF issued[r].outcome = "STEP_UP" THEN @ \cup {r} ELSE @,
     !.resolved = IF issued[r].resolves = 0 THEN @ ELSE @ \cup {issued[r].resolves},
     !.recovery = 0]

CommitPrepared(r) == coord' = Restored(Extended(coord.chain, r))
AbortPrepared == coord' = Restored([coord.chain EXCEPT !.recovery = 0])
FreezePrepared == coord' = [coord EXCEPT !.frozen = TRUE]

----------------------------------------------------------------------------
(* The runtime: one operation at a time up to the start of the execution.  *)

Busy == \E r \in Ids :
          pc[r] \in {"preparing", "sending", "accepting", "committing", "closing"}

\* Variant: the committed action ids are not consulted.
UncheckedDecision(a) == a \notin runtime.decided

\* runDecision: no cached result; prepareDecision: the id is not committed.
NewDecision(a) == a \notin runtime.decided /\ a \notin coord.chain.actions

\* runApproval and pendingApproval: a known suspension, not resolved yet.
NewResolution(s) ==
  s \in (coord.chain.suspended \ coord.chain.resolved) \ runtime.resolved

MayPrepare ==
  /\ ~runtime.frozen /\ ~Busy
  /\ ~coord.frozen /\ coord.prepared = 0
  /\ coord.chain.recovery = 0

\* prepareDecision, prepareApprovalResolution: sign the next receipt and ask
\* for the first checkpoint.
Prepare(action, resolves, outcome) ==
  LET r == Len(issued) + 1
  IN  /\ r <= MaxReceipts
      /\ issued' = Append(issued, [action |-> action, resolves |-> resolves,
                                   outcome |-> outcome,
                                   seq |-> coord.chain.seq + 1, prev |-> ChainHead])
      /\ coord' = [coord EXCEPT !.prepared = r, !.chain.recovery = r]
      /\ pc' = [pc EXCEPT ![r] = "preparing"]
      /\ snap' = [snap EXCEPT ![r] = ChainHead]
      /\ UNCHANGED <<sent, log, runtime, journal, checkpoint, fate, crashes>>

RunDecision ==
  /\ MayPrepare
  /\ \E a \in Actions, outcome \in Verdicts : NewDecision(a) /\ Prepare(a, 0, outcome)

RunApproval ==
  /\ MayPrepare
  /\ \E s \in coord.chain.suspended, outcome \in Verdicts \ {"STEP_UP"} :
       NewResolution(s) /\ Prepare(issued[s].action, s, outcome)

\* The result of the operation on r is cached, or that of one that is refused.
Finished(r) ==
  IF issued[r].resolves = 0
    THEN [runtime EXCEPT !.decided = @ \cup {issued[r].action}]
    ELSE [runtime EXCEPT !.resolved = @ \cup {issued[r].resolves}]
Frozen(r) == [Finished(r) EXCEPT !.frozen = TRUE]

\* Unreadable or unbound arguments: prepared, aborted and cached in one turn.
BindingUnavailable ==
  /\ MayPrepare
  /\ \/ \E a \in Actions : /\ NewDecision(a)
                           /\ runtime' = [runtime EXCEPT !.decided = @ \cup {a}]
     \/ \E s \in coord.chain.suspended :
          /\ NewResolution(s)
          /\ runtime' = [runtime EXCEPT !.resolved = @ \cup {s}]
  /\ UNCHANGED <<issued, sent, log, coord, pc, snap, journal, checkpoint, fate, crashes>>

\* What persist writes: the head is the one it read when it was called.
Entry(r, phase, status) == [phase |-> phase, status |-> status, head |-> snap[r]]
Written(r, phase, status) == journal' = [journal EXCEPT ![r] = Entry(r, phase, status)]
\* A save that fails may have been written.
MaybeWritten(r, phase, status) == Written(r, phase, status) \/ journal' = journal
Goes(r, step) == pc' = [pc EXCEPT ![r] = step]
\* The next persist is called in the same turn.
Persists(r, step, head) == Goes(r, step) /\ snap' = [snap EXCEPT ![r] = head]

SavePrepared(r) ==
  /\ pc[r] = "preparing"
  /\ \/ /\ Written(r, "prepared", "none")
        /\ Goes(r, "sending")
        /\ sent' = sent \cup {r}
        /\ UNCHANGED <<coord, runtime>>
     \/ /\ MaybeWritten(r, "prepared", "none")
        /\ Goes(r, "over")
        /\ AbortPrepared
        /\ runtime' = Finished(r)
        /\ UNCHANGED sent
  /\ UNCHANGED <<issued, log, snap, checkpoint, fate, crashes>>

\* The remote store admits the receipt that continues its chain, whenever one
\* of its requests arrives.
StoreReceipt(r) ==
  /\ r \in sent
  /\ issued[r].seq = Len(log) + 1
  /\ issued[r].prev = (IF log = <<>> THEN 0 ELSE log[Len(log)])
  /\ log' = Append(log, r)
  /\ UNCHANGED <<issued, sent, coord, runtime, pc, snap, journal, checkpoint, fate, crashes>>

Admitted == {log[i] : i \in DOMAIN log}

\* transportPreparedStrictReceiptV21 after its attempts: accepted, ...
AdmissionAccepted(r) ==
  /\ pc[r] = "sending"
  /\ r \in Admitted
  /\ Persists(r, "accepting", ChainHead)
  /\ UNCHANGED <<issued, sent, log, coord, runtime, journal, checkpoint, fate, crashes>>

\* ... refused with proof that it is not stored, ...
AdmissionRefused(r) ==
  /\ pc[r] = "sending"
  /\ r \notin Admitted
  /\ AbortPrepared
  /\ Persists(r, "closing", ChainHead)
  /\ UNCHANGED <<issued, sent, log, runtime, journal, checkpoint, fate, crashes>>

\* ... or anything else: redirect, conflict, no answer, an unexpected one.
AdmissionUncertain(r) ==
  /\ pc[r] = "sending"
  /\ FreezePrepared
  /\ runtime' = Frozen(r)
  /\ Goes(r, "over")
  /\ UNCHANGED <<issued, sent, log, snap, journal, checkpoint, fate, crashes>>

\* The accepted receipt is journaled, then committed locally; when either
\* fails the session freezes with the receipt still prepared.
SaveAccepted(r) ==
  /\ pc[r] = "accepting"
  /\ \/ /\ Written(r, "remote_accepted", "none")
        /\ CommitPrepared(r)
        /\ Persists(r, "committing", r)
        /\ UNCHANGED runtime
     \/ /\ MaybeWritten(r, "remote_accepted", "none")
        /\ FreezePrepared
        /\ runtime' = Frozen(r)
        /\ Goes(r, "over")
        /\ UNCHANGED snap
  /\ UNCHANGED <<issued, sent, log, checkpoint, fate, crashes>>

\* The committed receipt is journaled; an unauthorized action closes, an
\* authorized one is to start unless the clock or the start record fails.
SaveCommitted(r) ==
  /\ pc[r] = "committing"
  /\ \/ /\ Written(r, "committed", "none")
        /\ Persists(r, IF Authorized(r) THEN "starting" ELSE "closing", ChainHead)
        /\ UNCHANGED runtime
     \/ /\ MaybeWritten(r, "committed", "none")
        /\ runtime' = Frozen(r)
        /\ Goes(r, "over")
        /\ UNCHANGED snap
  /\ UNCHANGED <<issued, sent, log, coord, checkpoint, fate, crashes>>

SaveNonexecuted(r) ==
  /\ pc[r] = "closing"
  /\ \/ /\ Written(r, "terminal", "nonexecuted")
        /\ runtime' = Finished(r)
     \/ /\ MaybeWritten(r, "terminal", "nonexecuted")
        /\ runtime' = Frozen(r)
  /\ Goes(r, "over")
  /\ UNCHANGED <<issued, sent, log, coord, snap, checkpoint, fate, crashes>>

----------------------------------------------------------------------------
(* executeCommittedStrictActionV21: the runtime is no longer busy.         *)

SaveStarted(r) ==
  /\ pc[r] = "starting"
  /\ \/ /\ Written(r, "invocation_started", "none")
        /\ Goes(r, "started")
        /\ UNCHANGED runtime
     \/ /\ MaybeWritten(r, "invocation_started", "none")
        /\ Goes(r, "over")
        /\ runtime' = Frozen(r)
  /\ UNCHANGED <<issued, sent, log, coord, snap, checkpoint, fate, crashes>>

\* Variant: the action is invoked while its start is being saved.
InvokeEarly(r) ==
  /\ pc[r] \in {"starting", "started"}
  /\ fate' = [fate EXCEPT ![r] = "entered"]
  /\ runtime' = Finished(r)
  /\ Goes(r, "invoking")
  /\ UNCHANGED <<issued, sent, log, coord, snap, journal, checkpoint, crashes>>

Invoke(r) ==
  /\ pc[r] = "started"
  /\ fate' = [fate EXCEPT ![r] = "entered"]
  /\ runtime' = Finished(r)
  /\ Goes(r, "invoking")
  /\ UNCHANGED <<issued, sent, log, coord, snap, journal, checkpoint, crashes>>

\* The action settles: its outcome is signed and on its way to the journal, or
\* cannot be signed and stays unresolved.
InvocationEnds(r) ==
  /\ pc[r] = "invoking"
  /\ \E outcome \in Endings : fate' = [fate EXCEPT ![r] = outcome]
  /\ \/ Persists(r, "ending", ChainHead) /\ UNCHANGED runtime
     \/ Goes(r, "over") /\ runtime' = Frozen(r) /\ UNCHANGED snap
  /\ UNCHANGED <<issued, sent, log, coord, journal, checkpoint, crashes>>

SaveOutcome(r) ==
  /\ pc[r] = "ending"
  /\ \/ Written(r, "terminal", fate[r]) /\ runtime' = Finished(r)
     \/ MaybeWritten(r, "terminal", fate[r]) /\ runtime' = Frozen(r)
  /\ Goes(r, "over")
  /\ UNCHANGED <<issued, sent, log, coord, snap, checkpoint, fate, crashes>>

----------------------------------------------------------------------------
(* Crash, restart and recovery.                                            *)

\* exportRecoveryCheckpoint: the application saves it whenever it likes.
ExportCheckpoint ==
  /\ checkpoint' = coord.chain
  /\ UNCHANGED <<issued, sent, log, coord, runtime, pc, snap, journal, fate, crashes>>

\* The process dies; the next one restores the checkpoint.
CrashAndRestore ==
  /\ crashes < MaxCrashes
  /\ crashes' = crashes + 1
  /\ coord' = Restored(checkpoint)
  /\ runtime' = FreshRuntime
  /\ pc' = [r \in Ids |-> IF pc[r] = "none" THEN "none" ELSE "over"]
  /\ UNCHANGED <<issued, sent, log, snap, journal, checkpoint, fate>>

\* Variant: any observation of the remote store settles the prepared receipt.
ReconcileUnproven ==
  /\ coord.chain.recovery # 0
  /\ coord.prepared = 0 \/ coord.frozen
  /\ coord' = [coord EXCEPT !.chain = Extended(@, coord.chain.recovery)]
  /\ UNCHANGED <<issued, sent, log, runtime, pc, snap, journal, checkpoint, fate, crashes>>

\* reconcileRecoveredAccepted, with the remote store's word that the receipt
\* is stored.  Called as inspectState advises: on a frozen session.
ReconcileAccepted ==
  /\ coord.chain.recovery # 0
  /\ coord.prepared = 0 \/ coord.frozen
  /\ coord.chain.recovery \in Admitted
  /\ coord' = [coord EXCEPT !.chain = Extended(@, coord.chain.recovery)]
  /\ UNCHANGED <<issued, sent, log, runtime, pc, snap, journal, checkpoint, fate, crashes>>

\* reconcileStrictRuntimeExecutionV21 on the journal of a receipt, with the
\* checks validateJournal makes of the head it names.
Readable(r) ==
  LET entry == journal[r]
      current == entry.head = r
      previous == entry.head = issued[r].prev
  IN  CASE entry.phase \in {"prepared", "remote_accepted"}     -> previous
        [] entry.phase \in {"committed", "invocation_started"} -> current
        [] entry.status = "nonexecuted"                        -> current \/ previous
        [] OTHER                                               -> current

Recovered(r) ==
  CASE journal[r].phase = "none" -> "none"
    [] journal[r].phase # "none" /\ ~Readable(r) -> "refused"
    [] OTHER ->
         CASE journal[r].phase \in {"prepared", "remote_accepted", "committed"} -> "pre_invocation"
           [] journal[r].phase = "invocation_started" -> "outcome_unresolved"
           [] OTHER -> journal[r].status

\* finalizeInterruptedStrictRuntimeExecutionV21, for work that is over.
FinalizeInterrupted(r) ==
  /\ pc[r] = "over"
  /\ Recovered(r) = "outcome_unresolved"
  /\ journal' = [journal EXCEPT ![r].phase = "terminal", ![r].status = "invocation_uncertain"]
  /\ UNCHANGED <<issued, sent, log, coord, runtime, pc, snap, checkpoint, fate, crashes>>

Runs(r) ==
  \/ SavePrepared(r) \/ AdmissionAccepted(r) \/ AdmissionRefused(r) \/ AdmissionUncertain(r)
  \/ SaveAccepted(r) \/ SaveCommitted(r) \/ SaveNonexecuted(r)
  \/ SaveStarted(r) \/ Invoke(r) \/ InvocationEnds(r) \/ SaveOutcome(r)

Next ==
  \/ RunDecision \/ RunApproval \/ BindingUnavailable
  \/ \E r \in Issued : Runs(r) \/ StoreReceipt(r) \/ FinalizeInterrupted(r)
  \/ ExportCheckpoint \/ CrashAndRestore \/ ReconcileAccepted

Spec == Init /\ [][Next]_vars

----------------------------------------------------------------------------
(* Properties.                                                             *)

TypeOK ==
  /\ issued \in Seq(Receipt) /\ Len(issued) <= MaxReceipts
  /\ sent \subseteq Issued
  /\ log \in Seq(Issued)
  /\ coord \in [chain : Committed, prepared : 0..MaxReceipts, frozen : BOOLEAN]
  /\ runtime \in [frozen : BOOLEAN, decided : SUBSET Actions, resolved : SUBSET Ids]
  /\ pc \in [Ids -> Steps]
  /\ snap \in [Ids -> 0..MaxReceipts]
  /\ journal \in [Ids -> Journal]
  /\ checkpoint \in Committed
  /\ fate \in [Ids -> {"none", "entered"} \cup Ended]
  /\ crashes \in 0..MaxCrashes

\* The receipts with a durable start, and those whose action was invoked.
Started == {r \in Issued : journal[r].phase = "invocation_started"
                           \/ journal[r].status \in Ended}
Entered == {r \in Issued : fate[r] # "none"}

Ledger == INSTANCE ExecutionLedger WITH started <- Started, entered <- Entered

\* An action is invoked only under an admitted receipt that authorizes it and
\* after its start is durable, and never under two receipts, whatever crashes,
\* stale checkpoints, failed saves and late requests happen.
LedgerRefined == Ledger!Spec

\* The actions and resolutions of the first n receipts of the remote chain.
ChainUpTo(n) ==
  [seq |-> n, head |-> IF n = 0 THEN 0 ELSE log[n],
   actions |-> {issued[log[i]].action : i \in {j \in 1..n : issued[log[j]].resolves = 0}},
   suspended |-> {log[i] : i \in {j \in 1..n : issued[log[j]].outcome = "STEP_UP"}},
   resolved |-> {issued[log[i]].resolves : i \in {j \in 1..n : issued[log[j]].resolves # 0}}]
Follows(chain) ==
  /\ chain.seq <= Len(log)
  /\ \A field \in {"seq", "head", "actions", "suspended", "resolved"} :
       chain[field] = ChainUpTo(chain.seq)[field]

\* What a coordinator and its checkpoint hold as committed is a prefix of the
\* remote chain: no receipt is committed that was not admitted, and none is
\* left out in between, across aborts, freezes, restores and reconciliations.
ChainIsAdmitted == Follows(coord.chain) /\ Follows(checkpoint)

\* Recovery tells the truth about an invocation: it calls what ran neither
\* uninvoked nor anything but what it came to, and it refuses a journal only
\* when another receipt was committed while the action ran.
JournalTruthful ==
  \A r \in Issued :
    /\ Recovered(r) \in {"none", "pre_invocation", "nonexecuted"} => fate[r] = "none"
    /\ Recovered(r) \in {"executed", "invocation_failed"} => fate[r] = Recovered(r)
    /\ Recovered(r) = "refused" =>
         journal[r].status \in Ended /\ issued[journal[r].head].seq > issued[r].seq

\* The journal of every ended invocation can be recovered.
TerminalRecovers == \A r \in Issued : Recovered(r) # "refused"
=============================================================================
