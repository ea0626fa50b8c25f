--------------------------- MODULE MCGovernedCall ---------------------------
(* Small instances of the three parts of module Governance. *)
EXTENDS Governance, TLC

---------------------------------------------------------------------------
(* The provider calls *)

AllSurfaces == {"wrap", "integration", "evaluate", "python"}
WrapOnly == {"wrap"}

\* Every rule alone, and every ordered pair of unlike rules under either id order.
Pairs == {<<Rule(i, a), Rule(3 - i, b)>> : i \in {1, 2}, a \in Does, b \in Does}
Lists == {<<>>} \cup {<<Rule(1, does)>> : does \in Does} \cup Pairs
Floors == {<<>>} \cup {<<Rule(1, does)>> : does \in Does}

---------------------------------------------------------------------------
(* The tool calls *)

CONSTANTS u1, u2
TwoUses == {u1, u2}
\* The calls are interchangeable: no property names one.
UseSymmetry == Permutations(TwoUses)

\* A policy that blocks at the step limit, one that escalates there and blocks loops,
\* and one that blocks both.
Agent(sdk, named, stepAction, loopAction) ==
  [kind |-> "langchain", sdk |-> sdk, named |-> named, stepAction |-> stepAction, loopAction |-> loopAction]
LangChainBoundaries ==
  {Agent("ts", {"root", "other"}, "block", "off"), Agent("ts", {"root", "node", "other"}, "escalate", "block"),
   Agent("python", {"root", "node", "other"}, "block", "block")}

\* How a client is governed: its class patched, or an instance wrapped.
Hosts == {<<"ts", TRUE, TRUE>>, <<"python", TRUE, TRUE>>, <<"python", FALSE, TRUE>>, <<"python", FALSE, FALSE>>}
Client(host, failClosed, taintMode, modes, hints, armed) ==
  [kind |-> "mcp", sdk |-> host[1], patched |-> host[2], rebuilds |-> host[3], failClosed |-> failClosed,
   armed |-> armed, scans |-> armed, taintMode |-> taintMode, modes |-> modes, hints |-> hints]
\* Clients whose calls and results are scanned, and clients whose descriptors are pinned.
ScanningClients ==
  {Client(host, mode[1], mode[2], {"off"}, {"t2"}, TRUE) : host \in Hosts, mode \in {<<TRUE, "flag">>, <<FALSE, "block">>}}
PinningClients == {Client(<<"ts", TRUE, TRUE>>, TRUE, "off", {"warn", "block"}, {}, FALSE)}

\* Runners: the helper, and what governance is configured to do.
Runner(helper, failClosed, armed, taintMode, principal, uncallable) ==
  [kind |-> "runner", sdk |-> "ts", helper |-> helper, failClosed |-> failClosed, armed |-> armed,
   taintMode |-> taintMode, hints |-> {}, principal |-> principal, offers |-> Tools, uncallable |-> uncallable]
RunnerBoundaries ==
  {Runner("stream", TRUE, TRUE, "off", FALSE, {}), Runner("drained", TRUE, TRUE, "off", FALSE, {}),
   Runner("openai", TRUE, TRUE, "flag", FALSE, {}), Runner("anthropic", FALSE, FALSE, "block", TRUE, {"t1"})}

\* Two agents, one of which hands off to the other: one tool governed, nothing governed, a build in which
\* the other tool takes no guardrail.
AgentsOf(failClosed, armed, taintMode, governed, unguardable, spans) ==
  [kind |-> "agents", sdk |-> "ts", failClosed |-> failClosed, armed |-> armed, taintMode |-> taintMode,
   hints |-> {}, principal |-> FALSE, wrapped |-> governed, unguardable |-> unguardable, spans |-> spans,
   owns |-> [a \in Agents |-> IF a = "one" THEN {"t1"} ELSE {"t2"}],
   handoffs |-> [a \in Agents |-> IF a = "one" THEN {} ELSE {"one"}]]
AgentsBoundaries ==
  {AgentsOf(FALSE, TRUE, "flag", {"t2"}, {}, 0), AgentsOf(TRUE, FALSE, "off", {}, {}, 2),
   AgentsOf(TRUE, FALSE, "off", {"t1"}, {"t2"}, 1)}

AllBoundaries ==
  LangChainBoundaries \cup ScanningClients \cup PinningClients \cup RunnerBoundaries \cup AgentsBoundaries
OneBoundary == {Agent("ts", {"root"}, "block", "off")}

---------------------------------------------------------------------------
(* The requests *)

\* The parts that matter to an adapter, and what may be in them.
Parts(adapter) ==
  CASE adapter \in {"gemini", "vertex"} -> Slots
    [] adapter \in {"openai", "workers", "invoke"} -> {"text", "tool", "odd"}
    [] adapter \in {"vercel", "converse"} -> {"text", "tool"}
    [] OTHER -> {"text"}
MayHold(slot) == CASE slot = "fixed" -> {"span", "plain", "opaque"} [] slot = "held" -> {"span"} [] OTHER -> Secrets

\* At most two things to find; one of them in the text where the answer matters too.
Content(dirt) == [s \in Slots |-> {d[2] : d \in {e \in dirt : e[1] = s}}]
Contents(adapter) ==
  LET dirt == UNION {{s} \X MayHold(s) : s \in Parts(adapter)} IN
  {Content(D) : D \in {{}} \cup {{d, e} : d \in dirt, e \in dirt}}
Through(adapter, content, streams, mode, presidio) ==
  [adapter |-> adapter, content |-> content, streams |-> streams, monitor |-> mode = "monitor",
   skip |-> mode # "enforce", presidio |-> presidio]
AllRequests ==
  UNION {
    {Through(a, Content({<<"text", "span">>}), streams, mode, "none") :
       streams \in BOOLEAN, mode \in {"enforce", "skip", "monitor"}} \cup
    {r \in {Through(a, content, FALSE, "enforce", presidio) :
               content \in Contents(a), presidio \in {"none", "analyzer", "both"}} :
       r.presidio = "none" \/ "entity" \in Holds(r.content, Slots)} : a \in Adapters}
OneRequest == {Through("openai", Content({}), FALSE, "enforce", "none")}
=============================================================================
