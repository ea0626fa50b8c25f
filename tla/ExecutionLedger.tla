-------------------------- MODULE ExecutionLedger --------------------------
(***************************************************************************)
(* What the strict execution profile 2.1 promises (SECURITY.md, "Strict    *)
(* profile 2.1 execution boundary"), without saying how: receipts are      *)
(* admitted to one remote chain, an authorized action is recorded as       *)
(* started after its receipt was admitted, it is entered after that        *)
(* record, and no action is started under two receipts.                    *)
(***************************************************************************)
EXTENDS Naturals, Sequences

CONSTANT Receipt   \* what a receipt says: at least its action and outcome

VARIABLES
  issued,    \* the receipts signed so far; a receipt is known by its position
  log,       \* the remote chain, a sequence of such positions
  started,   \* receipts with a durable record that their action may have begun
  entered    \* receipts whose action was invoked

ledger == <<issued, log, started, entered>>

Admitted == {log[i] : i \in DOMAIN log}
Authorizes(r) == issued[r].outcome = "ALLOW"

Init ==
  /\ issued = <<>>
  /\ log = <<>>
  /\ started = {}
  /\ entered = {}

Issue ==
  /\ \E receipt \in Receipt : issued' = Append(issued, receipt)
  /\ UNCHANGED <<log, started, entered>>

Admit(r) ==
  /\ r \notin Admitted
  /\ log' = Append(log, r)
  /\ UNCHANGED <<issued, started, entered>>

Start(r) ==
  /\ r \in Admitted
  /\ Authorizes(r)
  /\ \A s \in started : issued[s].action # issued[r].action
  /\ started' = started \cup {r}
  /\ UNCHANGED <<issued, log, entered>>

Enter(r) ==
  /\ r \in started \ entered
  /\ entered' = entered \cup {r}
  /\ UNCHANGED <<issued, log, started>>

Next ==
  \/ Issue
  \/ \E r \in DOMAIN issued : Admit(r) \/ Start(r) \/ Enter(r)

Spec == Init /\ [][Next]_ledger
=============================================================================
