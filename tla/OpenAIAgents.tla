---------------------------- MODULE OpenAIAgents ----------------------------
(***************************************************************************)
(* The OpenAI Agents integration (integrations/openai-agents.ts): a gate   *)
(* attached to the tools of an agent as an input guardrail, governed       *)
(* models, and a trace processor that only watches.                        *)
(***************************************************************************)
EXTENDS GovernedTools

VARIABLES
  guards,   \* the guardrail on each tool, named after the agent it was attached for
  gates,    \* what the caller of attachToolGate holds for each agent: [handle, attached]
  trace     \* agent spans of a trace: how many, how deep, and the state kept for them

agentsVars == <<guards, gates, trace>>

Agents == {"one", "two"}
Agentic == boundary.kind = "agents"

AgentsInit ==
  /\ guards = [t \in Tools |-> "none"]
  /\ gates = [a \in Agents |-> [handle |-> "none", attached |-> {}]]
  /\ trace = [spans |-> 0, depth |-> 0, root |-> 0, nested |-> {}, open |-> FALSE, steps |-> 0]

---------------------------------------------------------------------------
(* Attaching the gate *)

\* The function tools reachable from an agent: its own, and those of the agents it
\* hands off to.  boundary.owns gives each agent its tools.
Reached(a) == UNION {boundary.owns[b] : b \in {a} \cup boundary.handoffs[a]}

\* A tool that carries the guardrail already is left alone.
Ungated(a) == {t \in Reached(a) \ boundary.unguardable : guards[t] = "none"}

\* A tool of a build without guardrails makes the attachment fail as a whole: it is
\* undone and the error names the tool.  The registry keeps the names either way.
AttachToolGate(a) ==
  /\ Agentic
  /\ gates[a].handle = "none"
  /\ registry' = registry \cup Ungated(a)
  /\ IF Reached(a) \cap boundary.unguardable # {} THEN UNCHANGED <<guards, gates>>
     ELSE /\ guards' = [t \in Tools |-> IF t \in Ungated(a) THEN a ELSE guards[t]]
          /\ gates' = [gates EXCEPT ![a] = [handle |-> "held", attached |-> Ungated(a)]]
  /\ UNCHANGED <<boundary, taint, use, wrapped, trace>>

\* The handle removes exactly what its own call attached.
Detach(a) ==
  /\ Agentic
  /\ gates[a].handle = "held"
  /\ guards' = [t \in Tools |-> IF t \in gates[a].attached THEN "none" ELSE guards[t]]
  /\ gates' = [gates EXCEPT ![a].handle = "detached"]
  /\ UNCHANGED <<boundary, taint, use, gateVars, trace>>

---------------------------------------------------------------------------
(* A tool call of the framework: its guardrails, the tool, its span *)

\* The guardrail: it never throws, and where it fails itself failMode decides; its
\* refusal is then on no record.
GuardVerdicts(c) ==
  IF guards[c.tool] = "none" THEN {Move(c, "guarded")}
  ELSE LET d == [c EXCEPT !.rulings = @ + 1] IN
       {IF c.tool \in Denied THEN Refuse(d) ELSE Move(d, "guarded"),
        IF boundary.failClosed THEN Move(Note(d, "silent"), "refused") ELSE Move(Note(d, "lost"), "guarded")}

\* The caller of attachToolGate still holds a handle on this tool.
HeldGate(t) == \E a \in Agents : gates[a].handle = "held" /\ t \in Reached(a)

AgentCallsTool(u) ==
  /\ Agentic
  /\ use[u].at = "idle"
  /\ \E t \in Tools :
       LET c == [use[u] EXCEPT !.tool = t, !.route = "function"] IN
       \E d \in GuardVerdicts(IF HeldGate(t) THEN Note(c, "held") ELSE c) : use' = [use EXCEPT ![u] = d]
  /\ UNCHANGED <<boundary, taint, gateVars, agentsVars>>

\* The executor enters the tool, behind obsvrGovernTool's gate if it is a governed one.
AgentInvokesTool(u) ==
  /\ Agentic
  /\ use[u].at = "guarded"
  /\ LET c == use[u] IN
     \E d \in IF c.tool \in wrapped THEN GateVerdicts(c) ELSE {Move(c, "running")} :
       use' = [use EXCEPT ![u] = d]
  /\ UNCHANGED <<boundary, taint, gateVars, agentsVars>>

\* An agent span of a trace (boundary.spans bounds them) starts its state anew, also
\* where another is under way ...
AgentSpanStarts ==
  /\ Agentic
  /\ trace.spans < boundary.spans
  /\ trace' = [spans |-> trace.spans + 1, depth |-> trace.depth + 1,
               root |-> IF trace.depth = 0 THEN trace.spans + 1 ELSE trace.root,
               nested |-> IF trace.depth = 0 THEN trace.nested ELSE trace.nested \cup {trace.root},
               open |-> TRUE, steps |-> 0]
  /\ UNCHANGED <<boundary, taint, use, gateVars, guards, gates>>

\* ... and its end deletes what there is.
AgentSpanEnds ==
  /\ Agentic
  /\ trace.depth > 0
  /\ trace' = [trace EXCEPT !.depth = @ - 1, !.open = FALSE, !.steps = 0]
  /\ UNCHANGED <<boundary, taint, use, gateVars, guards, gates>>

\* What the processor notes at the end of a function span: a tool its policy would have
\* refused and no gate speaks for was not evaluated, and a run beyond its budget.
Observed(c) ==
  LET unjudged == c.tool \in Denied /\ c.tool \notin registry
      over == trace.steps >= MaxSteps
      noted == (IF unjudged THEN {"unjudged"} ELSE {}) \cup (IF over THEN {"overstep"} ELSE {})
                 \cup (IF trace.open THEN {"charged"} ELSE {}) \cup {"observed"}
  IN [c EXCEPT !.marks = @ \cup noted, !.saw = trace.root]

SpanEnds(u) ==
  /\ Agentic
  /\ use[u].at \in {"refused", "returned", "failed"} /\ use[u].route = "function"
  /\ ~Noted(use[u], "observed")
  /\ use' = [use EXCEPT ![u] = Observed(@)]
  /\ trace' = IF trace.open THEN [trace EXCEPT !.steps = @ + 1] ELSE trace
  /\ UNCHANGED <<boundary, taint, gateVars, guards, gates>>

---------------------------------------------------------------------------
(* A governed model *)

AgentCallsModel(u) ==
  /\ Agentic
  /\ use[u].at = "idle"
  /\ use' = [use EXCEPT ![u] = [@ EXCEPT !.at = "judging", !.route = "model"]]
  /\ UNCHANGED <<boundary, taint, gateVars, agentsVars>>

\* An allowed request leaves its event to the trace processor, and a redaction with no
\* span that can be rewritten here refuses the request.
RequestVerdicts(c) ==
  LET d == [c EXCEPT !.rulings = @ + 1] IN
  {Refuse(d), Move(d, "running"), Move([d EXCEPT !.args = "redacted"], "running"), Refuse(Note(d, "spanless"))}

ModelRequestJudged(u) ==
  /\ Agentic
  /\ use[u].at = "judging" /\ use[u].route = "model"
  /\ \E d \in RequestVerdicts(use[u]) : use' = [use EXCEPT ![u] = d]
  /\ taint' \in MarkTainted
  /\ UNCHANGED <<boundary, gateVars, agentsVars>>

\* The span of the request ends; what is stored of it goes through the observe net.
ModelSpanEnds(u) ==
  /\ Agentic
  /\ use[u].at = "running" /\ use[u].route = "model"
  /\ \E end \in {"returned", "failed"}, stored \in {"raw", "redacted"} :
       use' = [use EXCEPT ![u] = Move(Tell([@ EXCEPT !.result = stored], "observed"), end)]
  /\ UNCHANGED <<boundary, taint, gateVars, agentsVars>>

AgentsNext ==
  \/ \E a \in Agents : AttachToolGate(a) \/ Detach(a)
  \/ AgentSpanStarts \/ AgentSpanEnds
  \/ \E u \in Uses :
       \/ AgentCallsTool(u) \/ AgentInvokesTool(u) \/ SpanEnds(u)
       \/ AgentCallsModel(u) \/ ModelRequestJudged(u) \/ ModelSpanEnds(u)
=============================================================================
