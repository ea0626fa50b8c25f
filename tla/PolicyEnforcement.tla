-------------------------- MODULE PolicyEnforcement --------------------------
(***************************************************************************)
(* What decides whether a policy in force is really enforced: the policy   *)
(* and its approvals and escrow shares as they are synchronised, the       *)
(* meters of quota rules, and the latches that remember sessions.  They    *)
(* share no state: a behaviour is one of the three, and the other parts    *)
(* stand in one state.                                                     *)
(***************************************************************************)
EXTENDS PolicySync, ScopeStores

VARIABLE concern

enforcementVars == <<vars, storeVars, concern>>

EnforcementInit ==
  /\ concern \in {"sync", "meters", "sessions"}
  /\ Init /\ (concern # "sync" => config = CHOOSE c \in Configs : TRUE)
  /\ StoresInit /\ (concern # "meters" => setup.rules = <<>>)
  /\ (concern = "meters" => setup.rules # <<>>)
  /\ (concern = "sync" => setup = CHOOSE s \in StoreSetups : s.rules = <<>>)

EnforcementNext ==
  /\ UNCHANGED concern
  /\ \/ concern = "sync" /\ Next /\ UNCHANGED storeVars
     \/ concern = "meters" /\ MetersNext /\ UNCHANGED vars
     \/ concern = "sessions" /\ SessionsNext /\ UNCHANGED vars

\* The fairness of PolicySync, for the behaviours that are its own.
SyncStep(A) == concern = "sync" /\ A /\ UNCHANGED <<storeVars, concern>>

EnforcementSpec ==
  /\ EnforcementInit /\ [][EnforcementNext]_enforcementVars
  /\ WF_enforcementVars(SyncStep(BudgetElapses))
  /\ WF_enforcementVars(SyncStep(DeadlinePasses))
  /\ WF_enforcementVars(SyncStep(CheckHold)) /\ WF_enforcementVars(SyncStep(Wake))
  /\ WF_enforcementVars(SyncStep(Refreshed)) /\ WF_enforcementVars(SyncStep(RevalidateAndSend))
  /\ WF_enforcementVars(SyncStep(FetchFails("hold") \/ AnswerArrives("hold")))

\* No limit is overrun: neither an escrow share nor a metered window, and a
\* scope is left out of a meter only where its store is really full.
LimitsHold == ShareSpentOnce /\ WindowHolds /\ UnmeteredOnlyWhenFull

\* Nothing in force is undone by what comes later: a signed policy not by a late
\* answer, a taint and an accumulated score not by a flood of other sessions.
NothingRollsBack ==
  [][SignedPolicyNeverRollsBack /\ TaintOutlastsFlood /\ ScoresOutlastFlood]_enforcementVars
=============================================================================
