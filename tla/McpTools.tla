------------------------------ MODULE McpTools ------------------------------
(***************************************************************************)
(* A governed MCP client, TypeScript (integrations/mcp.ts) and Python      *)
(* (integrations/mcp.py).  Discovery hashes every tool descriptor, pins    *)
(* the first one seen and caches a verdict; the gate of a later call       *)
(* consults the verdict, since the descriptor is not on the wire then.     *)
(***************************************************************************)
EXTENDS ToolUse, SequencesExt

CONSTANTS
  MaxPinned,    \* MAX_PINNED_TOOLS: what a pin store holds before it is full
  MaxListed     \* the longest listing of a server

VARIABLES
  pinning,   \* [mode, strict, pins]: the operator's setting
  store,     \* the client's pin store
  hinted,    \* the tools that some listing declared destructive
  listing,   \* the mode a tools/list under way will be judged by, or "none"
  seen       \* history: the descriptor a tool was first and last listed with

mcpVars == <<pinning, store, hinted, listing, seen>>

Descriptors == {"h1", "h2", "unhashable"}
NoVerdict == [status |-> "none", enforcement |-> "none"]
EmptyStore == [tofu |-> [t \in Tools |-> "none"], verdict |-> [t \in Tools |-> NoVerdict], full |-> FALSE]

\* "frame" is a tools/call request built by hand, "task" the experimental task API,
\* "early" the task API through a handle taken before the client was governed.
Routes == {"callTool", "frame", "task", "early"}

Mcp == boundary.kind = "mcp"

McpInit ==
  /\ pinning \in [mode : IF Mcp THEN boundary.modes ELSE {"off"}, strict : BOOLEAN, pins : {[t \in Tools |-> p] : p \in {"none", "h1"}}]
  /\ store = EmptyStore
  /\ hinted = {}
  /\ listing = "none"
  /\ seen = [t \in Tools |-> [first |-> "none", last |-> "none"]]

---------------------------------------------------------------------------
(* Discovery *)

\* The operator configures the SDK anew while the client is in use.
Reconfigured ==
  /\ Mcp
  /\ \E mode \in boundary.modes : pinning' = [pinning EXCEPT !.mode = mode]
  /\ UNCHANGED <<boundary, taint, use, store, hinted, listing, seen>>

\* The configuration is read before the request is awaited.
ListTools ==
  /\ Mcp
  /\ listing = "none"
  /\ listing' = pinning.mode
  /\ UNCHANGED <<boundary, taint, use, pinning, store, hinted, seen>>

\* evaluateToolPin.  "enforced" is a flag or a block, whichever the mode asks for.
Evaluate(pin, observed) ==
  CASE observed = "unhashable" \/ (pin # "none" /\ pin # observed) ->
         [status |-> "mismatch", enforcement |-> "enforced"]
    [] observed # "unhashable" /\ pin = observed -> [status |-> "ok", enforcement |-> "none"]
    [] OTHER -> [status |-> "unpinned", enforcement |-> IF pinning.strict THEN "enforced" ELSE "none"]

Full(table, nothing) == Cardinality({t \in Tools : table[t] # nothing}) >= MaxPinned

\* First sightings are pinned and never pinned again; a full store refuses.
RecordTofuPin(s, t, observed) ==
  CASE s.tofu[t] # "none" -> s
    [] s.tofu[t] = "none" /\ Full(s.tofu, "none") -> [s EXCEPT !.full = TRUE]
    [] OTHER -> [s EXCEPT !.tofu[t] = observed]

SetVerdict(s, t, verdict) ==
  IF s.verdict[t] = NoVerdict /\ Full(s.verdict, NoVerdict) THEN [s EXCEPT !.full = TRUE]
  ELSE [s EXCEPT !.verdict[t] = verdict]

\* One descriptor of a listing meets the configured pin, or the first sighting.
Pin(s, entry) ==
  LET t == entry.tool
      tofu == IF pinning.strict THEN "none" ELSE s.tofu[t]
      pin == IF pinning.pins[t] # "none" THEN pinning.pins[t] ELSE tofu
      sighted == ~pinning.strict /\ pin = "none" /\ entry.descriptor # "unhashable"
  IN SetVerdict(IF sighted THEN RecordTofuPin(s, t, entry.descriptor) ELSE s,
                t, Evaluate(pin, entry.descriptor))

Sight(history, entry) ==
  [history EXCEPT ![entry.tool] =
     [first |-> IF @.first = "none" /\ entry.descriptor # "unhashable" THEN entry.descriptor ELSE @.first,
      last |-> entry.descriptor]]

Listings == UNION {[1..n -> [tool : Tools, descriptor : Descriptors]] : n \in 0..MaxListed}

\* The tools of a listing whose annotations say that they destroy.
DeclaredDestructive(entries) == SUBSET (boundary.hints \cap {entries[i].tool : i \in DOMAIN entries})

\* The reply is judged and recorded.  With pinning off it pins nothing; a hint that
\* a tool is destructive is kept for good.
ListingArrives ==
  /\ Mcp
  /\ listing # "none"
  /\ \E entries \in Listings : \E destructive \in DeclaredDestructive(entries) :
       /\ hinted' = hinted \cup destructive
       /\ store' = IF listing = "off" THEN store ELSE FoldLeft(Pin, store, entries)
       /\ seen' = IF listing = "off" THEN seen ELSE FoldLeft(Sight, seen, entries)
  /\ listing' = "none"
  /\ UNCHANGED <<boundary, taint, use, pinning>>

---------------------------------------------------------------------------
(* The gate of a call *)

\* Variant: a tool without a verdict is unverified, never refused.
PinRefusesListed(t) == pinning.mode = "block" /\ store.verdict[t].enforcement = "enforced"

\* An unlisted tool passes as unverified, unless the mode is strict or the store
\* was too full to hold its verdict; a violation is enforced by the current mode.
PinRefuses(t) ==
  /\ pinning.mode = "block"
  /\ IF store.verdict[t] = NoVerdict THEN pinning.strict \/ store.full
     ELSE store.verdict[t].enforcement = "enforced"

\* A Python wrapper does not reach a task API that was read before it, nor one of
\* a class it cannot build anew; TypeScript repairs either, or refuses to govern.
Behind(route) ==
  /\ PythonSdk /\ ~boundary.patched
  /\ route = "early" \/ (route = "task" /\ ~boundary.rebuilds)

\* Variant: a flag of the module instead of the call's own context.
InFlightAnywhere(u) == \E v \in Uses : use[v].at \in {"calling", "sent"}

\* The gate is running the call it approved, in this call's own context.
InFlight(u) == use[u].at = "calling"

\* applyPreCallPolicy and its verdict carried out.  A layer that fails open loses
\* even the taint gate; a pipeline that throws while failing closed records nothing.
Judged(c) ==
  LET proceed == Move(c, "calling")
      lost == IF boundary.failClosed THEN {Refuse(c), Move(Note(c, "silent"), "refused")}
              ELSE {Note(proceed, "unjudged")}
  IN lost \cup
     IF TaintRefuses(c.tool, hinted) THEN {Refuse(c)}
     ELSE {proceed, [proceed EXCEPT !.args = "redacted"], Refuse(c)}

\* runGovernedCallTool up to its first await: enforcement integrity, descriptor
\* pin, tool policy; then the pre-call policy, if any part of it is configured,
\* at which the Python twin does not wait.
GateCall(c, degraded) ==
  LET d == [c EXCEPT !.rulings = @ + 1]
      refused == degraded \/ PinRefuses(c.tool) \/ c.tool \in Denied
  IN CASE refused -> {Refuse(d)}
       [] ~refused /\ boundary.armed -> IF PythonSdk THEN Judged(d) ELSE {Move(d, "judging")}
       [] OTHER -> {Move(d, "calling")}

CallTool(u) ==
  /\ Mcp
  /\ use[u].at = "idle"
  /\ \E t \in Tools, route \in Routes, degraded \in BOOLEAN :
       LET c == [use[u] EXCEPT !.tool = t, !.route = route] IN
       \E d \in CASE Behind(route) -> {Move(Note(c, "behind"), "sent")}
                  [] ~Behind(route) /\ route # "callTool" /\ InFlight(u) -> {Move(c, "sent")}
                  [] OTHER -> GateCall(c, degraded) :
         use' = [use EXCEPT ![u] = d]
  /\ taint' \in IF PythonSdk /\ boundary.armed THEN MarkTainted ELSE {taint}
  /\ UNCHANGED <<boundary, mcpVars>>

\* What the pipeline finds in the arguments may taint the session for later calls.
PipelineAnswers(u) ==
  /\ Mcp
  /\ use[u].at = "judging"
  /\ \E d \in Judged(use[u]) : use' = [use EXCEPT ![u] = d]
  /\ taint' \in MarkTainted
  /\ UNCHANGED <<boundary, mcpVars>>

\* Under a patch callTool issues its request through the patched request method.
Sends(u) ==
  /\ Mcp
  /\ use[u].at = "calling"
  /\ \E d \in IF boundary.patched /\ use[u].route = "callTool" /\ ~InFlight(u)
                THEN GateCall(use[u], FALSE) ELSE {Move([use[u] EXCEPT !.route = "none"], "sent")} :
       use' = [use EXCEPT ![u] = d]
  /\ UNCHANGED <<boundary, taint, mcpVars>>

---------------------------------------------------------------------------
(* The reply *)

\* What the gate made of the request, as the event will tell it.
RequestVerdict(c) ==
  CASE Noted(c, "unjudged") -> "not_evaluated"
    [] ~Noted(c, "unjudged") /\ c.args = "redacted" -> "redacted"
    [] OTHER -> "allowed"

Withhold(c) == Move([c EXCEPT !.result = "withheld"], "withheld")
Deliver(c, result, told) == Move(Tell([c EXCEPT !.result = result], told), "returned")

\* Variant: a result is on its way to the caller before it was scanned.
ScanLate(c) == {Deliver(c, "raw", RequestVerdict(c)), Tell(Deliver(c, "raw", RequestVerdict(c)), "blocked")}

\* The scan withholds, sanitizes or passes.  A rule may ask to sanitize text in which
\* the sanitizer finds no span; a sanitizer that fails open leaves the result as it is,
\* which TypeScript records as redacted all the same.
Scanned(c) ==
  IF ~boundary.scans THEN {Deliver(c, "raw", RequestVerdict(c))} ELSE
  {Tell(Withhold(c), "blocked"), Deliver(c, "sanitized", "redacted"),
   Note(Deliver(c, "raw", "redacted"), "spanless"), Deliver(c, "raw", RequestVerdict(c))} \cup
  IF boundary.failClosed THEN {Note(Withhold(c), "silent")}
  ELSE {Note(Deliver(c, "raw", IF PythonSdk THEN RequestVerdict(c) ELSE "redacted"), "unsanitized")}

\* The Python twin samples the calls in which nothing happened.
Emitted(c) ==
  {c} \cup IF PythonSdk /\ c.told = "allowed" THEN {[c EXCEPT !.events = 0, !.told = "none"]} ELSE {}

Replies(u) ==
  /\ Mcp
  /\ use[u].at = "sent"
  /\ \E d \in IF Noted(use[u], "behind") THEN {Move([use[u] EXCEPT !.result = "raw"], "returned")}
              ELSE Scanned(use[u]) :
       \E e \in Emitted(d) : use' = [use EXCEPT ![u] = e]
  /\ UNCHANGED <<boundary, taint, mcpVars>>

ServerFails(u) ==
  /\ Mcp
  /\ use[u].at = "sent"
  /\ use' = [use EXCEPT ![u] =
       IF Noted(@, "behind") THEN Move(@, "failed") ELSE Move(Tell(@, RequestVerdict(@)), "failed")]
  /\ UNCHANGED <<boundary, taint, mcpVars>>

McpNext ==
  \/ Reconfigured \/ ListTools \/ ListingArrives
  \/ \E u \in Uses :
       CallTool(u) \/ PipelineAnswers(u) \/ Sends(u) \/ Replies(u) \/ ServerFails(u)
=============================================================================
