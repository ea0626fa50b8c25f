------------------------------ MODULE Recovery ------------------------------
(***************************************************************************)
(* The parts of the SDK that have to survive a crash or a change of        *)
(* process: the strict profile 2.1 with its journal and checkpoint, the    *)
(* strict profiles 1.0 and 2.0, and durable delivery with its outbox.      *)
(* They share no state: a behaviour is one of the three, and the other     *)
(* parts stand in one state.                                               *)
(***************************************************************************)
EXTENDS StrictReceipt, StrictSession, DurableOutbox

VARIABLE part

recoveryVars == <<vars, sessionVars, outboxVars, part>>

RecoveryInit ==
  /\ part \in {"journal", "session", "outbox"}
  /\ Init
  /\ SessionInit /\ (part # "session" => setup = CHOOSE s \in Setups : TRUE)
  /\ OutboxInit /\ (part # "outbox" => failureMode = "error")

RecoveryNext ==
  /\ UNCHANGED part
  /\ \/ part = "journal" /\ Next /\ UNCHANGED <<sessionVars, outboxVars>>
     \/ part = "session" /\ SessionNext /\ UNCHANGED <<vars, outboxVars>>
     \/ part = "outbox" /\ OutboxNext /\ UNCHANGED <<vars, sessionVars>>

\* The outbox's fairness: a request is answered, and a backoff ends.
OutboxStep(A) == part = "outbox" /\ A /\ UNCHANGED <<vars, sessionVars, part>>

RecoverySpec ==
  /\ RecoveryInit /\ [][RecoveryNext]_recoveryVars
  /\ WF_recoveryVars(OutboxStep(Answer)) /\ WF_recoveryVars(OutboxStep(BackoffEnds))

\* What a strict session holds as committed is what the remote store admitted,
\* and it is a chain an auditor accepts: of every profile, across aborts,
\* freezes, lost replies, restores and reconciliations.
CommittedIsAdmitted == ChainIsAdmitted /\ CommittedIsStored /\ ChainsVerify /\ HistoryHeld

\* What survives a crash tells the truth about what was invoked, and about what
\* may have been stored.
RecoveryTruthful == JournalTruthful /\ CheckpointTruthful

\* No action is invoked twice, nor under a receipt that was not admitted or
\* does not authorize it.
AdmittedOnce == LedgerRefined /\ [][InvokedOnce']_recoveryVars
=============================================================================
