----------------------------- MODULE Governance -----------------------------
(***************************************************************************)
(* Where governance meets a program: a call to a provider, judged layer by *)
(* layer; the tool calls of an agent; and the content of a request on its  *)
(* way through an adapter.  They share no state of the model: a behaviour  *)
(* is one of the three, and the other parts stand in one state.            *)
(***************************************************************************)
EXTENDS GovernedCalls, AgentTools, RequestAdapters

VARIABLE part

governanceVars == <<vars, toolVars, req, part>>

GovernanceInit ==
  /\ part \in {"call", "tools", "request"}
  /\ Init /\ (part # "call" =>
       /\ config = [failClosed |-> TRUE, monitor |-> FALSE]
       /\ call = Fresh("wrap") /\ ~gate /\ ~granted)
  /\ boundary \in IF part = "tools" THEN Boundaries ELSE {CHOOSE b \in Boundaries : b.kind = "langchain"}
  /\ ToolsInit
  /\ req \in IF part = "request" THEN {NewRequest(r) : r \in Requests} ELSE {NewRequest(CHOOSE r \in Requests : TRUE)}
  /\ RequestInit

GovernanceNext ==
  /\ UNCHANGED part
  /\ \/ part = "call" /\ Next /\ UNCHANGED <<toolVars, req>>
     \/ part = "tools" /\ ToolsNext /\ UNCHANGED <<vars, req>>
     \/ part = "request" /\ RequestNext /\ UNCHANGED <<vars, toolVars>>

GovernanceSpec == GovernanceInit /\ [][GovernanceNext]_governanceVars

\* What the record calls redacted went out without what the policy found, and the caller's
\* own objects are as they were: of the verdict, and of the content on every adapter.
RedactedMeansRedacted == CallRedaction /\ RequestRedaction /\ CallerKeeps

\* What enforcement did is on the record, once, on every surface and every adapter.
EnforcementAudited == CallOnRecord /\ RequestOnRecord

\* The stored copy is governed, and it is a copy of the answer that was given.
StoredCopyGoverned == CallStored /\ AnswerHeard
=============================================================================
