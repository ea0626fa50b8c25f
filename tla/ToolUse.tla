------------------------------ MODULE ToolUse ------------------------------
(***************************************************************************)
(* A tool call as every boundary of the SDK sees it: somebody asks for a   *)
(* tool, a gate rules on it, the tool runs, its result goes back, and an   *)
(* event tells what happened.  The modules that extend this one give the   *)
(* boundaries: MCP clients, LangChain callback handlers, governed tools.   *)
(***************************************************************************)
EXTENDS Naturals, Sequences, FiniteSets

CONSTANTS
  Uses,         \* the tool calls of a behaviour
  Tools,        \* the tools by name
  Denied,       \* those the tool policy refuses by name
  Destructive,  \* those sessionTaint.destructiveTools names
  MaxSteps      \* agentPolicy.maxSteps

ASSUME ToolAssumption ==
  /\ Denied \subseteq Tools /\ Destructive \subseteq Tools
  /\ "none" \notin Tools /\ "nameless" \notin Tools
  /\ MaxSteps \in Nat /\ IsFiniteSet(Uses) /\ "none" \notin Uses

VARIABLES
  boundary,   \* which boundary is at work, and how it is configured
  taint,      \* the session has shown an injection or leaked a canary
  use         \* what has become of each tool call

PythonSdk == boundary.sdk = "python"

\* events are the audit events of the call, told what the last of them says.
\* "under", "owner" and "lender" are the run a call belongs to, the one it is charged to
\* and the one whose credit it is spending.
NoUse == [at |-> "idle", tool |-> "none", route |-> "none", under |-> "none", owner |-> "none",
          lender |-> "none", rulings |-> 0, args |-> "raw", result |-> "none", told |-> "none", events |-> 0,
          saw |-> 0, marks |-> {}]

Note(c, mark) == [c EXCEPT !.marks = @ \cup {mark}]
Noted(c, mark) == mark \in c.marks
Move(c, place) == [c EXCEPT !.at = place]
Tell(c, what) == [c EXCEPT !.told = what, !.events = @ + 1]

\* A refused call ends there, with an event that says so.
Refuse(c) == Move(Tell(c, "blocked"), "refused")

\* What a scan of a request may make of the session.
MarkTainted == {taint, taint \/ boundary.taintMode # "off"}

\* Under its flag mode the taint latch refuses what could do damage, under its
\* block mode everything: evaluateToolTaintGate.
TaintRefuses(t, hinted) ==
  /\ taint
  /\ \/ boundary.taintMode = "block"
     \/ boundary.taintMode = "flag" /\ t \in Destructive \cup hinted
=============================================================================
