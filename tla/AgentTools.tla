----------------------------- MODULE AgentTools -----------------------------
(***************************************************************************)
(* The boundaries at which an agent's tool calls are governed.  They share *)
(* the configuration and the session's taint; a behaviour is one of one.   *)
(***************************************************************************)
EXTENDS McpTools, LangChainTools, OpenAIAgents, DeferredRunner

CONSTANT Boundaries    \* the boundaries and configurations considered

ASSUME BoundaryAssumption ==
  \A b \in Boundaries :
    /\ b.kind \in {"mcp", "langchain", "agents", "runner"}
    /\ b.kind = "agents" =>
         b.wrapped \subseteq Tools /\ \A a \in Agents : b.owns[a] \subseteq Tools /\ b.handoffs[a] \subseteq Agents
    /\ b.kind = "runner" =>
         b.offers \subseteq Tools /\ b.helper \in {"stream", "drained", "openai", "anthropic"}

toolVars == <<boundary, taint, use, mcpVars, langVars, gateVars, agentsVars, runnerVars>>

ToolsInit ==
  /\ boundary \in Boundaries
  /\ taint = FALSE
  /\ use = [u \in Uses |-> NoUse]
  /\ McpInit /\ LangChainInit /\ GatesInit /\ AgentsInit /\ DeferredInit
  /\ pinning.mode # "off" \/ pinning.strict \/ (\E t \in Tools : pinning.pins[t] # "none") =>
       Mcp /\ boundary.modes # {"off"}

Settled(c) == c.at \in {"refused", "returned", "withheld", "failed", "missing"}

\* The agent's work is done.
AllSettled ==
  /\ ~Mcp
  /\ \A u \in Uses : Settled(use[u]) \/ use[u].at = "idle"
  /\ LangChain => \A c \in Chains : chain[c] # "open"
  /\ Deferred => run.finished = 1 \/ run.at = "over"
  /\ UNCHANGED toolVars

ToolsNext ==
  \/ McpNext /\ UNCHANGED <<langVars, gateVars, agentsVars, runnerVars>>
  \/ LangChainNext /\ UNCHANGED <<mcpVars, gateVars, agentsVars, runnerVars>>
  \/ \E u \in Uses :
       (GateAnswers(u) \/ GovernedToolEnds(u)) /\ UNCHANGED <<mcpVars, langVars, agentsVars, runnerVars>>
  \/ AgentsNext /\ UNCHANGED <<mcpVars, langVars, runnerVars>>
  \/ DeferredNext /\ UNCHANGED <<mcpVars, langVars, agentsVars>>
  \/ AllSettled

ToolsSpec == ToolsInit /\ [][ToolsNext]_toolVars

---------------------------------------------------------------------------
(* Properties *)

\* A call the MCP gate lets through in block mode is for a tool whose last judged
\* listing showed the configured descriptor, or, where none is configured and the
\* mode is not strict, the one it was first seen with.  A tool that found the store of
\* first sightings full is never pinned.
SwappedToolRefused ==
  [][\A u \in Uses :
       /\ Mcp /\ pinning.mode = "block"
       /\ use[u].at = "idle" /\ use'[u].at \in {"judging", "calling"}
       => LET t == use'[u].tool
              pin == pinning.pins[t]
              last == seen[t].last
          IN CASE pinning.strict -> pin # "none" /\ last = pin
               [] ~pinning.strict /\ pin # "none" -> last \in {"none", pin}
               [] OTHER -> last \in {"none", seen[t].first} \/ (store.full /\ store.tofu[t] = "none")]_toolVars

Ran(c) == c.at \in {"running", "sent", "returned", "withheld", "failed"}
Raced == PythonSdk /\ \E u \in Uses : Noted(use[u], "raced")

\* Every MCP call that runs was ruled on once; one goes unruled only behind a Python
\* wrapper.
McpRulings ==
  Mcp => \A u \in Uses : Ran(use[u]) => (use[u].rulings = 1) # Noted(use[u], "behind")

\* A LangChain call goes unruled only on the credit of a call that was announced and
\* has not spent one, or where TypeScript could not write its input down; it is ruled on
\* twice only if its run ended, or another call took its credit, in between.  Python's
\* callbacks can lose a credit.
LangChainRulings ==
  LET ran == {u \in Uses : Ran(use[u])}
      unruled == {u \in ran : use[u].rulings = 0 /\ use[u].route # "retriever" /\ ~Noted(use[u], "swallowed")}
      creditors == {u \in Uses : Noted(use[u], "announced") /\ ~Noted(use[u], "spent")}
  IN LangChain /\ ~Raced =>
       /\ Cardinality(unruled) <= Cardinality(creditors)
       /\ \A u \in ran : use[u].rulings = 2 =>
            chain[use[u].under] = "closed" \/ \E v \in unruled : Noted(use[v], "spent")

\* An OpenAI Agents call goes unruled only where nobody gated the tool, or where the
\* guardrail it was attached with went away with the handle of another agent that had
\* gated the shared tool first; a governed model is ruled on once.
AgentsRulings ==
  Agentic => \A u \in Uses : Ran(use[u]) =>
    /\ use[u].tool \in wrapped \/ use[u].route = "model" => use[u].rulings > 0
    /\ Noted(use[u], "held") /\ use[u].rulings = 0 => 
         \E a \in Agents : gates[a].handle = "detached" /\ use[u].tool \in gates[a].attached

\* A provider is reached only after governance let the call pass and if the caller
\* had not given up by then; and when it is not, everybody who waits for an error
\* hears of it, once.
RunnerRulings ==
  Deferred =>
    /\ run.reached => run.outcome /\ ~run.abandoned
    /\ \A l \in Listeners : listens[l].told <= 1
    /\ run.delivered => \A l \in Listeners : listens[l].on \in {"none", "owed"} \/ listens[l].told = 1
    /\ \A u \in Uses : Ran(use[u]) => run.reached /\ (use[u].tool \in wrapped => use[u].rulings = 1)

\* Every call is ruled on, once, at every boundary, and a ruling reaches the caller.
RulingsStand == McpRulings /\ LangChainRulings /\ AgentsRulings /\ RunnerRulings

\* Exactly one event tells of an MCP call, save one that failed closed without a word,
\* one behind the wrapper and one that Python sampled away; a refusal or a withheld
\* result is told as blocked, and a redaction as redacted, unless a rule asked for one
\* that finds no span or a TypeScript sanitizer failed open.
McpOnRecord ==
  Mcp => \A u \in Uses : Settled(use[u]) =>
    LET c == use[u] IN
    /\ c.events = IF Noted(c, "silent") \/ Noted(c, "behind") \/ c.told = "none" THEN 0 ELSE 1
    /\ c.told = "none" => PythonSdk \/ Noted(c, "silent")
    /\ c.at \in {"refused", "withheld"} => c.told = "blocked" \/ Noted(c, "silent")
    /\ c.told = "blocked" => c.result \in {"none", "withheld"}
    /\ c.told = "redacted" =>
         \/ c.args = "redacted" \/ c.result = "sanitized"
         \/ Noted(c, "spanless") \/ (Noted(c, "unsanitized") /\ ~PythonSdk)

\* A LangChain call has an event for every ruling, and one for its result.
LangChainOnRecord ==
  LangChain => \A u \in Uses : Settled(use[u]) =>
    LET c == use[u] IN
    /\ c.route = "model" =>
         /\ c.at = "refused" => c.events = 1 /\ c.told = "blocked"
         /\ c.args = "redacted" => c.at = "refused"
         /\ c.at = "failed" => c.events = 1 \/ Noted(c, "untracked")
    /\ c.route \in {"action", "start"} =>
         /\ c.events >= c.rulings + IF c.at = "returned" THEN 1 ELSE 0
         /\ c.at = "refused" => c.told = "blocked"

\* A governed tool leaves one event, from before it ran, that tells the gate's verdict.
GateOnRecord ==
  Governed => \A u \in Uses : Settled(use[u]) /\ use[u].tool \in wrapped =>
    LET c == use[u] IN
    /\ Noted(c, "silent") \/ c.events = 1
    /\ c.at = "refused" /\ ~Noted(c, "silent") <=> c.told = "blocked"
    /\ c.args = "redacted" <=> c.told = "redacted"

\* The span processor calls no call of a tool that was refused unjudged, and each
\* denied one that ran, unless a gate has ever spoken for its name.  Beyond the
\* budget of an agent run it flags each call, unless a nested run replaced the state.
AgentsOnRecord ==
  Agentic =>
    /\ \A u \in Uses : Noted(use[u], "observed") =>
         /\ use[u].at = "refused" => ~Noted(use[u], "unjudged")
         /\ use[u].at # "refused" /\ use[u].tool \in Denied =>
              Noted(use[u], "unjudged") \/ use[u].tool \in registry
    /\ \A r \in 1..trace.spans \ trace.nested :
         Cardinality({u \in Uses : Noted(use[u], "charged") /\ use[u].saw = r /\ ~Noted(use[u], "overstep")}) <= MaxSteps

\* A deferred run that is over has one event of its own, or one that says it was
\* refused; a tool run tells its start and its finish or neither; and what the runner
\* observed of a tool points to the gate's event exactly if there is one.
RunnerOnRecord ==
  Deferred =>
    /\ run.finished <= 1
    /\ run.finished = 1 =>
         /\ ~run.outcome => run.events = 0 /\ run.refusals = 1
         /\ run.outcome => run.events = 1 \/ (~ToolRun /\ ~run.error)
         /\ ToolRun => run.events = run.starts
    /\ \A u \in Uses : Noted(use[u], "observed") => (Noted(use[u], "gate") <=> use[u].events = 1)
    /\ run.finished = 1 /\ ~run.error => \A u \in Uses : Settled(use[u]) => Noted(use[u], "observed")

\* What the events say of a call is what became of it.
ToolCallsOnRecord == McpOnRecord /\ LangChainOnRecord /\ GateOnRecord /\ AgentsOnRecord /\ RunnerOnRecord

\* The tools charged to a LangChain run stay within its budget when the limit blocks,
\* save those of a race between Python's callbacks and TypeScript's unnamed tools.
BudgetKept ==
  LangChain /\ ~Raced /\ boundary.stepAction = "block" =>
    \A k \in Chains :
      Cardinality({u \in Uses : Ran(use[u]) /\ use[u].owner = k /\ use[u].tool # "nameless"}) <= MaxSteps

\* A denied tool never runs: save behind the Python wrapper, on a stray credit, where
\* TypeScript could not write its input down, where a guardrail failed open, and where a
\* framework's tool has no gate.
DeniedStaysDark ==
  /\ \A u \in Uses : Ran(use[u]) /\ use[u].tool \in Denied =>
       \/ Noted(use[u], "behind")
       \/ use[u].rulings = 0 /\ (Noted(use[u], "spent") \/ Noted(use[u], "swallowed"))
       \/ Agentic /\ use[u].tool \notin wrapped /\ (use[u].rulings = 0 \/ Noted(use[u], "lost"))
       \/ Deferred /\ use[u].tool \in boundary.uncallable
  /\ BudgetKept
=============================================================================
