--------------------------- MODULE LangChainTools ---------------------------
(***************************************************************************)
(* The LangChain callback handler, TypeScript (integrations/langchain.ts)  *)
(* and Python (integrations/langchain.py).  A runtime announces its runs,  *)
(* tool calls and model calls; a handler that throws stops what was        *)
(* announced.  The classic executor announces a tool call twice, so the    *)
(* first ruling leaves a credit which the second callback spends.          *)
(***************************************************************************)
EXTENDS ToolUse

CONSTANT MaxIterations    \* agentPolicy.loopDetection.maxIterations

VARIABLES
  chain,    \* where each run of the runtime is: unborn, open or closed
  agent,    \* the agent runs: [open, steps]
  credit,   \* tool calls announced on a run and not yet started
  turn      \* the call whose callback holds the JavaScript thread, or "none"

langVars == <<chain, agent, credit, turn>>

\* Two root runs, and a node the first one dispatches to.
Chains == {"root", "node", "other"}
Parent == [c \in Chains |-> IF c = "node" THEN "root" ELSE "none"]
NoAgent == [open |-> FALSE, steps |-> 0]

LangChain == boundary.kind = "langchain"

LangChainInit ==
  /\ chain = [c \in Chains |-> "unborn"]
  /\ agent = [c \in Chains |-> NoAgent]
  /\ credit = [c \in Chains |-> 0]
  /\ turn = "none"

---------------------------------------------------------------------------
(* Runs *)

\* An edge to the parent is remembered from a run's start to its end.
Path(c) == IF chain[c] = "open" /\ Parent[c] # "none" THEN <<c, Parent[c]>> ELSE <<c>>

FirstOn(path, Test(_)) ==
  LET hits == {i \in DOMAIN path : Test(path[i])}
  IN IF hits = {} THEN "none" ELSE path[CHOOSE i \in hits : \A j \in hits : i <= j]

AgentAbove(c) == FirstOn(Path(c), LAMBDA k : agent[k].open)
CreditAbove(c) == FirstOn(Path(c), LAMBDA k : credit[k] > 0)

\* TypeScript takes every run that names itself an agent for one; Python takes the
\* outermost, and a named one only where no ancestor is one yet.
OpensAgent(c) ==
  IF PythonSdk THEN Parent[c] = "none" \/ (c \in boundary.named /\ AgentAbove(Parent[c]) = "none")
  ELSE c \in boundary.named

ChainStarts(c) ==
  /\ LangChain /\ turn = "none"
  /\ chain[c] = "unborn"
  /\ Parent[c] # "none" => chain[Parent[c]] = "open"
  /\ chain' = [chain EXCEPT ![c] = "open"]
  /\ agent' = [agent EXCEPT ![c].open = OpensAgent(c)]
  /\ UNCHANGED <<boundary, taint, use, credit, turn>>

\* A run ends or fails, perhaps with calls of it still under way.
ChainEnds(c) ==
  /\ LangChain /\ turn = "none"
  /\ chain[c] = "open"
  /\ chain' = [chain EXCEPT ![c] = "closed"]
  /\ credit' = [credit EXCEPT ![c] = 0]
  /\ agent' = [agent EXCEPT ![c] = NoAgent]
  /\ UNCHANGED <<boundary, taint, use, turn>>

---------------------------------------------------------------------------
(* The two callbacks of a tool call.  Python's run on the threads of an executor *)
(* and interleave; a TypeScript callback runs to its end in one turn.           *)

MayStep(u) == LangChain /\ turn \in {"none", u}
Taken(u) == IF PythonSdk THEN "none" ELSE u

\* A credit that has changed since it was read is written over.
Lost(c, k) == IF credit[k] # c.saw THEN Note(c, "raced") ELSE c

\* The agent action: the credit is read ...
Announce(u) ==
  /\ MayStep(u)
  /\ use[u].at = "idle"
  /\ \E c \in Chains, t \in Tools \cup {"nameless"} :
       /\ chain[c] = "open"
       /\ use' = [use EXCEPT ![u] = [@ EXCEPT !.at = "granting", !.tool = t, !.route = "action",
                                              !.under = c, !.saw = credit[c],
                                              !.marks = {"announced"}]]
  /\ turn' = Taken(u)
  /\ UNCHANGED <<boundary, taint, chain, agent, credit>>

\* ... and granted before the gate rules, so that a refusal leaves it behind.
Grant(u) ==
  /\ MayStep(u)
  /\ use[u].at = "granting"
  /\ credit' = [credit EXCEPT ![use[u].under] = use[u].saw + 1]
  /\ use' = [use EXCEPT ![u] = [Lost(@, use[u].under) EXCEPT !.at = "gating", !.saw = 0]]
  /\ UNCHANGED <<boundary, taint, chain, agent, turn>>

\* The tool start: a credit of this run or of the one above takes the place of a ruling.
ToolStarts(u) ==
  /\ MayStep(u)
  /\ use[u].at \in {"idle", "announced"}
  /\ \E c \in Chains, t \in Tools \cup {"nameless"} :
       /\ IF use[u].at = "idle" THEN chain[c] = "open" ELSE c = use[u].under /\ t = use[u].tool
       /\ LET k == CreditAbove(c)
              started == [use[u] EXCEPT !.tool = t, !.under = c, !.route = "start"]
          IN use' = [use EXCEPT ![u] =
               IF k = "none" THEN Move(started, "gating")
               ELSE [started EXCEPT !.at = "spending", !.lender = k, !.saw = credit[k]]]
  /\ turn' = Taken(u)
  /\ UNCHANGED <<boundary, taint, chain, agent, credit>>

\* Variant: the credit is a flag that stays up.
SpendNothing(u) == credit

SpendCredit(u) == [credit EXCEPT ![use[u].lender] = use[u].saw - 1]

Spend(u) ==
  /\ MayStep(u)
  /\ use[u].at = "spending"
  /\ credit' = SpendCredit(u)
  /\ use' = [use EXCEPT ![u] = Move(Note([Lost(@, @.lender) EXCEPT !.lender = "none", !.saw = 0], "spent"), "running")]
  /\ turn' = "none"
  /\ UNCHANGED <<boundary, taint, chain, agent>>

---------------------------------------------------------------------------
(* The gate *)

\* The agent run a call is charged to.  TypeScript looks at the parent run, then at the
\* run itself, then takes the only agent run there is; Python walks up.
Owner(u) ==
  LET c == use[u].under
      above == IF use[u].route = "action" THEN Parent[c] ELSE "none"
      near(k) == IF k = "none" THEN "none"
                 ELSE IF PythonSdk THEN AgentAbove(k) ELSE IF agent[k].open THEN k ELSE "none"
      open == {k \in Chains : agent[k].open}
  IN CASE near(above) # "none" -> near(above)
       [] near(above) = "none" /\ near(c) # "none" -> near(c)
       [] OTHER -> IF ~PythonSdk /\ Cardinality(open) = 1 THEN CHOOSE k \in open : TRUE ELSE "none"

\* What the callback that ran the gate leaves behind.
Passed(c) == Move(c, IF c.route = "action" THEN "announced" ELSE "running")

\* TypeScript writes the tool's input down before the gate; what that throws is swallowed
\* (an input JSON.stringify cannot write), and the call goes on unruled and untold.
InputUnwritten(u) ==
  /\ MayStep(u) /\ ~PythonSdk
  /\ use[u].at = "gating"
  /\ use' = [use EXCEPT ![u] = Passed(Note(@, "swallowed"))]
  /\ turn' = "none"
  /\ UNCHANGED <<boundary, taint, chain, agent, credit>>

\* The tool policy, and the run's step count is read.  A tool without a name meets no
\* policy: TypeScript still counts it, Python records that it was not evaluated.
GateTool(u) ==
  /\ MayStep(u)
  /\ use[u].at = "gating"
  /\ LET owner == Owner(u)
         c == [use[u] EXCEPT !.rulings = @ + 1, !.owner = owner]
         nameless == PythonSdk /\ c.tool = "nameless"
     IN use' = [use EXCEPT ![u] =
          IF c.tool \in Denied THEN Refuse(c)
          ELSE [(IF nameless THEN Tell(Note(c, "not_evaluated"), "not_evaluated") ELSE c)
                 EXCEPT !.at = "counting", !.saw = IF owner = "none" THEN 0 ELSE agent[owner].steps]]
  /\ turn' = IF use[u].tool \in Denied THEN "none" ELSE turn
  /\ UNCHANGED <<boundary, taint, chain, agent, credit>>

\* Variant: the limit is met one step late.
StepsOverLate(count) == count > MaxSteps

StepsOver(count) == count >= MaxSteps

\* The step limit and the loop detector: the run is charged for what they refuse.
Verdict(c, count, looping) ==
  LET checked == PythonSdk \/ c.tool # "nameless"
      over == checked /\ StepsOver(count)
  IN CASE checked /\ looping /\ boundary.loopAction = "block" -> Refuse(c)
       [] ~(checked /\ looping /\ boundary.loopAction = "block") /\ over /\ boundary.stepAction = "block" ->
            Refuse(c)
       [] OTHER -> Passed(Tell(IF over THEN Tell(Note(c, "escalated"), "escalated") ELSE c, "allowed"))

\* The step is written back; Python wrote what it had read, whatever happened between.
\* Of the run's iterations some may have left the detector's window.
Count(u) ==
  /\ MayStep(u)
  /\ use[u].at = "counting"
  /\ LET owner == use[u].owner
         saw == use[u].saw
         c == [use[u] EXCEPT !.saw = 0]
         raced == owner # "none" /\ agent[owner] # [open |-> TRUE, steps |-> saw]
     IN /\ agent' = IF owner = "none" \/ ~agent[owner].open THEN agent
                    ELSE [agent EXCEPT ![owner].steps = saw + 1]
        /\ \E looping \in {FALSE, owner # "none" /\ saw + 1 > MaxIterations} :
             use' = [use EXCEPT ![u] = Verdict(IF raced THEN Note(c, "raced") ELSE c, saw, looping)]
  /\ turn' = "none"
  /\ UNCHANGED <<boundary, taint, chain, credit>>

\* The runtime has no tool of the announced name, or gives up on it.
ToolMissing(u) ==
  /\ LangChain /\ turn = "none"
  /\ use[u].at = "announced"
  /\ use' = [use EXCEPT ![u] = Move(@, "missing")]
  /\ UNCHANGED <<boundary, taint, langVars>>

\* The result of a tool, or its failure, is recorded, never judged.
ToolEnds(u) ==
  /\ LangChain /\ turn = "none"
  /\ use[u].at = "running" /\ use[u].route # "model"
  /\ use' = [use EXCEPT ![u] = Move(Tell(@, @.told), "returned")]
  /\ UNCHANGED <<boundary, taint, langVars>>

\* A retriever is only watched.
RetrieverStarts(u) ==
  /\ LangChain /\ turn = "none"
  /\ use[u].at = "idle"
  /\ \E c \in Chains : chain[c] = "open"
  /\ use' = [use EXCEPT ![u] = [@ EXCEPT !.at = "running", !.route = "retriever"]]
  /\ UNCHANGED <<boundary, taint, langVars>>

---------------------------------------------------------------------------
(* Model calls *)

ModelStarts(u) ==
  /\ LangChain /\ turn = "none"
  /\ use[u].at = "idle"
  /\ \E c \in Chains : chain[c] = "open"
  /\ use' = [use EXCEPT ![u] = [@ EXCEPT !.at = "judging", !.route = "model"]]
  /\ UNCHANGED <<boundary, taint, langVars>>

\* A callback cannot replace the request, so a redaction becomes a refusal.
RefuseRedaction(c) == Refuse([c EXCEPT !.args = "redacted"])

\* The pipeline answers; a pipeline that throws anything but its own refusal is
\* swallowed, and the call goes on with nothing kept to record it by.
ModelJudged(u) ==
  /\ LangChain /\ turn = "none"
  /\ use[u].at = "judging"
  /\ LET c == [use[u] EXCEPT !.rulings = 1] IN
     \E d \in {Move(c, "running"), Refuse(c), RefuseRedaction(c), Note(Move(c, "running"), "untracked")} :
       use' = [use EXCEPT ![u] = d]
  /\ UNCHANGED <<boundary, taint, langVars>>

\* A clean answer may be sampled away; an error never is.
ModelEnds(u) ==
  /\ LangChain /\ turn = "none"
  /\ use[u].at = "running" /\ use[u].route = "model"
  /\ LET c == use[u] IN
     \E d \in {Move(c, "returned")} \cup
              (IF Noted(c, "untracked") THEN {Move(c, "failed")}
               ELSE {Move(Tell(c, "allowed"), "returned"), Move(Tell(c, "failed"), "failed")}) :
       use' = [use EXCEPT ![u] = d]
  /\ UNCHANGED <<boundary, taint, langVars>>

LangChainNext ==
  \/ \E c \in Chains : ChainStarts(c) \/ ChainEnds(c)
  \/ \E u \in Uses :
       \/ Announce(u) \/ Grant(u) \/ ToolStarts(u) \/ Spend(u)
       \/ InputUnwritten(u) \/ GateTool(u) \/ Count(u)
       \/ ToolMissing(u) \/ ToolEnds(u) \/ RetrieverStarts(u)
       \/ ModelStarts(u) \/ ModelJudged(u) \/ ModelEnds(u)
=============================================================================
