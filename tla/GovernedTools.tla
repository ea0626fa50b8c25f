---------------------------- MODULE GovernedTools ----------------------------
(***************************************************************************)
(* The gate that obsvrGovernTool (integrations/tools.ts) puts before every *)
(* entry point of a tool object.  The boundaries that hand such tools to a *)
(* framework or to a provider's runner extend this module.                 *)
(***************************************************************************)
EXTENDS ToolUse

VARIABLES
  wrapped,    \* the tools whose callbacks are behind the gate
  registry    \* GOVERNED_TOOL_NAMES: the names a gate speaks for, for the process's life

gateVars == <<wrapped, registry>>

Governed == boundary.kind \in {"agents", "runner"}

GatesInit ==
  /\ wrapped = IF boundary.kind = "agents" THEN boundary.wrapped ELSE {}
  /\ registry = wrapped

\* The event goes out before the tool runs: what the tool makes of it leaves none.
Runs(c, told) == Move(Tell(c, told), "running")

\* The pre-call pipeline rules where any layer of it is configured.
Onward(c) == IF boundary.armed THEN Move(c, "judging") ELSE Runs(c, "allowed")

\* The taint layer.  A defect in it is settled by failMode; its block leaves the guard
\* as a value, so that the guard cannot swallow it.
TaintLayer(c) ==
  IF TaintRefuses(c.tool, boundary.hints) THEN {Refuse(c)}
  ELSE {IF taint /\ boundary.taintMode # "off" THEN Onward(Note(c, "flagged")) ELSE Onward(c)}

\* Tool policy, required principal, taint layer; a call may carry no principal.
GateVerdicts(c) ==
  LET d == [c EXCEPT !.rulings = @ + 1] IN
  IF c.tool \in Denied THEN {Refuse(d)}
  ELSE (IF boundary.principal THEN {Refuse(d)} ELSE {})
       \cup TaintLayer(d)
       \cup (IF taint /\ boundary.taintMode # "off"
             THEN {IF boundary.failClosed THEN Refuse(d) ELSE Onward(Note(d, "lost"))} ELSE {})

\* The pipeline's answer.  A redaction that cannot be carried out in the arguments
\* refuses the call.
PipelineVerdicts(c) ==
  {Refuse(c), Runs(c, "allowed"), Runs([c EXCEPT !.args = "redacted"], "redacted"), Refuse(Note(c, "spanless"))}

GateAnswers(u) ==
  /\ Governed
  /\ use[u].at = "judging" /\ use[u].route # "model"
  /\ \E d \in PipelineVerdicts(use[u]) : use' = [use EXCEPT ![u] = d]
  /\ taint' \in MarkTainted
  /\ UNCHANGED <<boundary, gateVars>>

\* Its result is not judged, nor is its failure recorded.
GovernedToolEnds(u) ==
  /\ Governed
  /\ use[u].at = "running" /\ use[u].route # "model"
  /\ \E end \in {"returned", "failed"} : use' = [use EXCEPT ![u] = Move([@ EXCEPT !.result = "raw"], end)]
  /\ UNCHANGED <<boundary, taint, gateVars>>
=============================================================================
