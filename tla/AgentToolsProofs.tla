-------------------------- MODULE AgentToolsProofs --------------------------
(***************************************************************************)
(* What holds of every tool call at every boundary, for every set of calls *)
(* and tools, every policy and every configuration: what ran was ruled on, *)
(* the record says what became of it, and a denied tool stays dark.        *)
(***************************************************************************)
EXTENDS AgentTools, SequenceTheorems, FiniteSetTheorems, TLAPS

----------------------------------------------------------------------------
(* Calls as records.                                                       *)

Named == Tools \cup {"none", "nameless"}

Places == {"idle", "granting", "gating", "counting", "announced", "spending", "guarded", "judging", "calling",
           "running", "sent", "refused", "returned", "withheld", "failed", "missing"}
Ways == Routes \cup {"none", "action", "start", "retriever", "model", "function", "callback"}
Owners == Chains \cup {"none"}
Results == {"none", "raw", "redacted", "sanitized", "withheld"}
Tellings == {"none", "blocked", "allowed", "redacted", "not_evaluated", "escalated", "failed", "observed"}
Marks == {"behind", "silent", "unjudged", "spanless", "unsanitized", "announced", "spent", "raced", "escalated",
          "not_evaluated", "untracked", "flagged", "lost", "held", "observed", "overstep", "charged", "gate", "absent",
          "swallowed"}
UseRecords ==
  [at : Places, tool : Named, route : Ways, under : Owners, owner : Owners, lender : Owners,
   rulings : Nat, args : {"raw", "redacted"}, result : Results, told : Tellings, events : Nat,
   saw : Nat, marks : SUBSET Marks]

\* The fields in groups: what was asked for, what it was ruled, what was told of it.
SameAsk(d, c) ==
  d.tool = c.tool /\ d.route = c.route /\ d.under = c.under /\ d.owner = c.owner /\ d.lender = c.lender
SameRuling(d, c) == d.rulings = c.rulings /\ d.args = c.args
SameTold(d, c) == d.told = c.told /\ d.events = c.events
SameRest(d, c) == d.result = c.result /\ d.saw = c.saw

\* A call that moved on.
LEMMA MoveFields ==
  ASSUME NEW c \in UseRecords, NEW place \in Places
  PROVE  /\ Move(c, place) \in UseRecords /\ Move(c, place).at = place
         /\ SameAsk(Move(c, place), c) /\ SameRuling(Move(c, place), c) /\ SameTold(Move(c, place), c)
         /\ SameRest(Move(c, place), c) /\ Move(c, place).marks = c.marks
BY DEF Move, UseRecords, SameAsk, SameRuling, SameTold, SameRest

\* A call with a mark.
LEMMA NoteFields ==
  ASSUME NEW c \in UseRecords, NEW mark \in Marks
  PROVE  /\ Note(c, mark) \in UseRecords /\ Note(c, mark).at = c.at
         /\ SameAsk(Note(c, mark), c) /\ SameRuling(Note(c, mark), c) /\ SameTold(Note(c, mark), c)
         /\ SameRest(Note(c, mark), c) /\ Note(c, mark).marks = c.marks \cup {mark}
BY DEF Note, UseRecords, SameAsk, SameRuling, SameTold, SameRest

\* A call with one more event.
LEMMA TellFields ==
  ASSUME NEW c \in UseRecords, NEW what \in Tellings
  PROVE  /\ Tell(c, what) \in UseRecords /\ Tell(c, what).at = c.at
         /\ SameAsk(Tell(c, what), c) /\ SameRuling(Tell(c, what), c) /\ SameRest(Tell(c, what), c)
         /\ Tell(c, what).told = what /\ Tell(c, what).events = c.events + 1
         /\ Tell(c, what).marks = c.marks
<1>1. PICK d : d = [c EXCEPT !.told = what]
  OBVIOUS
<1>2. /\ d \in UseRecords /\ d.at = c.at /\ SameAsk(d, c) /\ SameRuling(d, c) /\ SameRest(d, c)
      /\ d.told = what /\ d.events = c.events /\ d.marks = c.marks
  BY <1>1 DEF UseRecords, SameAsk, SameRuling, SameRest
<1>3. Tell(c, what) = [d EXCEPT !.events = c.events + 1]
  BY <1>1 DEF Tell, UseRecords
<1>4. QED
  BY <1>2, <1>3 DEF UseRecords, SameAsk, SameRuling, SameRest

\* A call that was refused, on the record.
LEMMA RefuseFields ==
  ASSUME NEW c \in UseRecords
  PROVE  /\ Refuse(c) \in UseRecords /\ Refuse(c).at = "refused"
         /\ SameAsk(Refuse(c), c) /\ SameRuling(Refuse(c), c) /\ SameRest(Refuse(c), c)
         /\ Refuse(c).told = "blocked" /\ Refuse(c).events = c.events + 1 /\ Refuse(c).marks = c.marks
<1>1. PICK d : d = Tell(c, "blocked")
  OBVIOUS
<1>2. /\ d \in UseRecords /\ SameAsk(d, c) /\ SameRuling(d, c) /\ SameRest(d, c)
      /\ d.told = "blocked" /\ d.events = c.events + 1 /\ d.marks = c.marks
  BY <1>1, TellFields DEF Tellings
<1>3. Refuse(c) = Move(d, "refused")
  BY <1>1 DEF Refuse
<1>4. QED
  BY <1>2, <1>3, MoveFields DEF Places, SameAsk, SameRuling, SameTold, SameRest

\* A call ruled on once more.
Ruled(c) == [c EXCEPT !.rulings = @ + 1]
\* A call that was ruled on once more.
LEMMA RuledFields ==
  ASSUME NEW c \in UseRecords
  PROVE  /\ Ruled(c) \in UseRecords /\ Ruled(c).at = c.at /\ Ruled(c).rulings = c.rulings + 1
         /\ Ruled(c).args = c.args
         /\ SameAsk(Ruled(c), c) /\ SameTold(Ruled(c), c) /\ SameRest(Ruled(c), c) /\ Ruled(c).marks = c.marks
BY DEF Ruled, UseRecords, SameAsk, SameTold, SameRest

\* A call whose arguments were redacted.
Cleaned(c) == [c EXCEPT !.args = "redacted"]
\* A call whose arguments were redacted.
LEMMA CleanedFields ==
  ASSUME NEW c \in UseRecords
  PROVE  /\ Cleaned(c) \in UseRecords /\ Cleaned(c).at = c.at /\ Cleaned(c).rulings = c.rulings
         /\ Cleaned(c).args = "redacted"
         /\ SameAsk(Cleaned(c), c) /\ SameTold(Cleaned(c), c) /\ SameRest(Cleaned(c), c)
         /\ Cleaned(c).marks = c.marks
<1>1. Cleaned(c) \in UseRecords
  BY DEF Cleaned, UseRecords
<1>2. QED
  BY <1>1 DEF Cleaned, UseRecords, SameAsk, SameTold, SameRest

\* A call with a result.
Given(c, result) == [c EXCEPT !.result = result]
\* A call that was given a result.
LEMMA GivenFields ==
  ASSUME NEW c \in UseRecords, NEW result \in Results
  PROVE  /\ Given(c, result) \in UseRecords /\ Given(c, result).at = c.at /\ Given(c, result).result = result
         /\ Given(c, result).saw = c.saw
         /\ SameAsk(Given(c, result), c) /\ SameRuling(Given(c, result), c) /\ SameTold(Given(c, result), c)
         /\ Given(c, result).marks = c.marks
BY DEF Given, UseRecords, SameAsk, SameRuling, SameTold

\* A call that asks for a tool on some way.
Asked(c, t, route) == [c EXCEPT !.tool = t, !.route = route]
\* A call of a tool, by a route.
LEMMA AskFields ==
  ASSUME NEW c \in UseRecords, NEW t \in Named, NEW route \in Ways
  PROVE  LET d == Asked(c, t, route) IN
         /\ d \in UseRecords /\ d.at = c.at /\ d.tool = t /\ d.route = route
         /\ d.under = c.under /\ d.owner = c.owner /\ d.lender = c.lender
         /\ SameRuling(d, c) /\ SameTold(d, c) /\ SameRest(d, c) /\ d.marks = c.marks
<1>1. PICK b : b = [c EXCEPT !.tool = t]
  OBVIOUS
<1>2. /\ b \in UseRecords /\ b.at = c.at /\ b.tool = t
      /\ b.under = c.under /\ b.owner = c.owner /\ b.lender = c.lender
      /\ SameRuling(b, c) /\ SameTold(b, c) /\ SameRest(b, c) /\ b.marks = c.marks
  BY <1>1 DEF UseRecords, SameRuling, SameTold, SameRest
<1>3. Asked(c, t, route) = [b EXCEPT !.route = route]
  BY <1>1 DEF UseRecords, Asked
<1>4. QED
  BY <1>2, <1>3 DEF UseRecords, SameRuling, SameTold, SameRest

\* A call nobody has made.
LEMMA NoUseFields ==
  /\ NoUse \in UseRecords /\ NoUse.at = "idle" /\ NoUse.tool = "none" /\ NoUse.route = "none"
  /\ NoUse.under = "none" /\ NoUse.owner = "none" /\ NoUse.lender = "none"
  /\ NoUse.rulings = 0 /\ NoUse.args = "raw" /\ NoUse.result = "none" /\ NoUse.told = "none"
  /\ NoUse.events = 0 /\ NoUse.saw = 0 /\ NoUse.marks = {}
<1>1. NoUse \in UseRecords
  BY DEF NoUse, UseRecords, Named, Places, Ways, Owners, Results, Tellings
<1>2. QED
  BY <1>1 DEF NoUse

\* One call of all changed.
LEMMA OneChanged ==
  ASSUME use \in [Uses -> UseRecords], NEW u \in Uses, NEW d \in UseRecords, use' = [use EXCEPT ![u] = d]
  PROVE  /\ use' \in [Uses -> UseRecords] /\ use'[u] = d
         /\ \A v \in Uses : v # u => use'[v] = use[v]
OBVIOUS

----------------------------------------------------------------------------
(* Calls through an MCP client.                                            *)

\* Nothing has been told of the call, nor has it a result.
Untold(c) == c.result = "none" /\ c.told = "none" /\ c.events = 0

\* The gate let it pass.
Approved(c) == c.rulings = 1 /\ ~Noted(c, "behind") /\ c.tool \notin Denied

\* What the record says of a call that is over.
McpTold(c) ==
  /\ c.events = IF Noted(c, "silent") \/ Noted(c, "behind") \/ c.told = "none" THEN 0 ELSE 1
  /\ c.told = "none" => PythonSdk \/ Noted(c, "silent")
  /\ c.at \in {"refused", "withheld"} => c.told = "blocked" \/ Noted(c, "silent")
  /\ c.told = "blocked" => c.result \in {"none", "withheld"}
  /\ c.told = "redacted" =>
       \/ c.args = "redacted" \/ c.result = "sanitized"
       \/ Noted(c, "spanless") \/ (Noted(c, "unsanitized") /\ ~PythonSdk)

McpUse(c) ==
  /\ c \in UseRecords
  /\ c.at \in {"idle", "judging", "calling", "sent", "refused", "returned", "withheld", "failed"}
  /\ c.at = "idle" => c = NoUse
  /\ c.at \in {"judging", "calling", "sent"} => Untold(c) /\ c.marks \subseteq {"behind", "unjudged"}
  /\ c.at \in {"judging", "calling"} => Approved(c)
  /\ Noted(c, "behind") => PythonSdk /\ c.rulings = 0 /\ c.at \notin {"refused", "withheld"}
  /\ Ran(c) => Approved(c) \/ Noted(c, "behind")
  /\ Settled(c) => McpTold(c)

\* A refusal by the gate ends the call, and says so.
LEMMA RefusedByMcp ==
  ASSUME NEW c \in UseRecords, Untold(c), c.marks \subseteq {"behind", "unjudged"}, ~Noted(c, "behind")
  PROVE  McpUse(Refuse(c))
<1>1. PICK d : d = Refuse(c)
  OBVIOUS
<1>2. /\ d \in UseRecords /\ d.at = "refused" /\ d.result = "none" /\ d.told = "blocked" /\ d.events = 1
      /\ d.marks \subseteq {"unjudged"}
  BY <1>1, RefuseFields DEF Untold, SameRest, Noted
<1>3. McpUse(d)
  BY <1>2 DEF McpUse, McpTold, Ran, Noted
<1>4. QED
  BY <1>1, <1>3

\* What the pipeline makes of a call that the gate approved.
LEMMA JudgedFits ==
  ASSUME NEW c \in UseRecords, Untold(c), Approved(c), c.marks \subseteq {"behind", "unjudged"}, NEW d \in Judged(c)
  PROVE  McpUse(d)
<1>1. PICK p : p = Move(c, "calling")
  OBVIOUS
<1>2. /\ p \in UseRecords /\ p.at = "calling" /\ Untold(p) /\ Approved(p) /\ p.marks = c.marks
  BY <1>1, MoveFields DEF Untold, Approved, Noted, Places, SameAsk, SameRuling, SameTold, SameRest
<1>3. McpUse(p)
  BY <1>2 DEF McpUse, Ran, Settled, Approved, Noted
<1>4. CASE d = Refuse(c)
  BY <1>4, RefusedByMcp DEF Approved
<1>5. CASE d = Move(Note(c, "silent"), "refused")
  <2>1. PICK n : n = Note(c, "silent")
    OBVIOUS
  <2>2. /\ n \in UseRecords /\ Untold(n) /\ Approved(n) /\ n.marks = c.marks \cup {"silent"}
    BY <2>1, NoteFields DEF Untold, Approved, Noted, Marks, SameAsk, SameRuling, SameTold, SameRest
  <2>3. /\ d \in UseRecords /\ d.at = "refused" /\ Untold(d) /\ Approved(d) /\ d.marks = c.marks \cup {"silent"}
    BY <1>5, <2>1, <2>2, MoveFields DEF Untold, Approved, Noted, Places, SameAsk, SameRuling, SameTold, SameRest
  <2>4. QED
    BY <2>3 DEF McpUse, McpTold, Ran, Untold, Approved, Noted
<1>6. CASE d = Note(p, "unjudged")
  <2>1. /\ d \in UseRecords /\ d.at = "calling" /\ Untold(d) /\ Approved(d) /\ d.marks = c.marks \cup {"unjudged"}
    BY <1>2, <1>6, NoteFields DEF Untold, Approved, Noted, Marks, SameAsk, SameRuling, SameTold, SameRest
  <2>2. QED
    BY <2>1 DEF McpUse, Ran, Settled, Approved, Noted
<1>7. CASE d = Cleaned(p)
  <2>1. /\ d \in UseRecords /\ d.at = "calling" /\ Untold(d) /\ Approved(d) /\ d.marks = c.marks
    BY <1>2, <1>7, CleanedFields DEF Untold, Approved, Noted, SameAsk, SameTold, SameRest
  <2>2. QED
    BY <2>1 DEF McpUse, Ran, Settled, Approved, Noted
<1>8. QED
  BY <1>1, <1>3, <1>4, <1>5, <1>6, <1>7 DEF Judged, Cleaned

\* What the gate makes of a call: refused, or on its way with one ruling.
LEMMA GateCallFits ==
  ASSUME NEW c \in UseRecords, Untold(c), c.rulings = 0, c.marks = {}, NEW degraded \in BOOLEAN,
         NEW d \in GateCall(c, degraded)
  PROVE  McpUse(d)
<1>1. PICK r : r = Ruled(c)
  OBVIOUS
<1>2. /\ r \in UseRecords /\ r.rulings = 1 /\ r.tool = c.tool /\ Untold(r) /\ r.marks = {}
  BY <1>1, RuledFields DEF Untold, SameAsk, SameTold, SameRest
<1>3. CASE d = Refuse(r)
  BY <1>2, <1>3, RefusedByMcp DEF Noted
<1>4. CASE r.tool \notin Denied /\ d \in Judged(r)
  BY <1>2, <1>4, JudgedFits DEF Approved, Noted
<1>5. CASE r.tool \notin Denied /\ \E place \in {"judging", "calling"} : d = Move(r, place)
  <2>1. PICK place \in {"judging", "calling"} : d = Move(r, place)
    BY <1>5
  <2>2. d \in UseRecords /\ d.at = place /\ Untold(d) /\ Approved(d) /\ d.marks = {}
    BY <1>2, <1>5, <2>1, MoveFields DEF Untold, Approved, Noted, Places, SameAsk, SameRuling, SameTold, SameRest
  <2>3. QED
    BY <2>2 DEF McpUse, Ran, Settled, Approved, Noted
<1>6. QED
  BY <1>1, <1>2, <1>3, <1>4, <1>5 DEF GateCall, Ruled

\* What the event will tell of the request.
LEMMA VerdictTold ==
  ASSUME NEW c \in UseRecords
  PROVE  /\ RequestVerdict(c) \in {"not_evaluated", "redacted", "allowed"}
         /\ RequestVerdict(c) = "redacted" => c.args = "redacted"
BY DEF RequestVerdict

\* A call on its way back.
OnTheWay(c) == c \in UseRecords /\ Untold(c) /\ Approved(c) /\ c.marks \subseteq {"unjudged"}

\* A result that was delivered, with its one event.
LEMMA DeliverFields ==
  ASSUME NEW c, OnTheWay(c), NEW result \in Results, NEW told \in Tellings
  PROVE  LET d == Deliver(c, result, told) IN
         /\ d \in UseRecords /\ d.at = "returned" /\ d.result = result /\ d.told = told /\ d.events = 1
         /\ Approved(d) /\ d.args = c.args /\ d.marks = c.marks
<1>1. PICK g : g = Given(c, result)
  OBVIOUS
<1>2. /\ g \in UseRecords /\ g.result = result /\ g.events = 0 /\ SameRuling(g, c) /\ g.tool = c.tool
      /\ g.marks = c.marks
  BY <1>1, GivenFields DEF OnTheWay, Untold, SameAsk, SameTold
<1>3. PICK t : t = Tell(g, told)
  OBVIOUS
<1>4. /\ t \in UseRecords /\ t.result = result /\ t.told = told /\ t.events = 1 /\ SameRuling(t, c)
      /\ t.tool = c.tool /\ t.marks = c.marks
  BY <1>2, <1>3, TellFields DEF SameAsk, SameRuling, SameRest
<1>5. Deliver(c, result, told) = Move(t, "returned")
  BY <1>1, <1>3 DEF Deliver, Given
<1>6. QED
  BY <1>4, <1>5, MoveFields DEF Places, OnTheWay, Approved, Noted, SameAsk, SameRuling, SameTold, SameRest

\* A result that was withheld.
LEMMA WithholdFields ==
  ASSUME NEW c, OnTheWay(c)
  PROVE  LET d == Withhold(c) IN
         /\ d \in UseRecords /\ d.at = "withheld" /\ d.result = "withheld" /\ d.told = "none" /\ d.events = 0
         /\ Approved(d) /\ d.marks = c.marks
<1>1. PICK g : g = Given(c, "withheld")
  OBVIOUS
<1>2. /\ g \in UseRecords /\ g.result = "withheld" /\ SameTold(g, c) /\ SameRuling(g, c) /\ g.tool = c.tool
      /\ g.marks = c.marks
  BY <1>1, GivenFields DEF OnTheWay, Results, SameAsk
<1>3. Withhold(c) = Move(g, "withheld")
  BY <1>1 DEF Withhold, Given
<1>4. QED
  BY <1>2, <1>3, MoveFields DEF Places, OnTheWay, Untold, Approved, Noted, SameAsk, SameRuling, SameTold, SameRest

\* What the scan of a result leaves.
LEMMA ScannedFits ==
  ASSUME NEW c, OnTheWay(c), NEW d \in Scanned(c)
  PROVE  McpUse(d) /\ d.at \in {"returned", "withheld"} /\ ~Noted(d, "behind")
<1> DEFINE says == RequestVerdict(c)
<1>1. /\ c \in UseRecords /\ says \in Tellings /\ says \in {"not_evaluated", "redacted", "allowed"}
      /\ says = "redacted" => c.args = "redacted"
  BY VerdictTold DEF OnTheWay, Tellings
<1>2. "raw" \in Results /\ "sanitized" \in Results /\ "redacted" \in Tellings
  BY DEF Results, Tellings
<1>3. CASE d = Deliver(c, "raw", says)
  <2>1. /\ d \in UseRecords /\ d.at = "returned" /\ d.result = "raw" /\ d.told = says /\ d.events = 1
        /\ Approved(d) /\ d.args = c.args /\ d.marks \subseteq {"unjudged"}
    BY <1>1, <1>2, <1>3, DeliverFields DEF OnTheWay
  <2>2. QED
    BY <1>1, <2>1 DEF McpUse, McpTold, Ran, Approved, Noted
<1>4. CASE d = Deliver(c, "sanitized", "redacted")
  <2>1. /\ d \in UseRecords /\ d.at = "returned" /\ d.result = "sanitized" /\ d.told = "redacted" /\ d.events = 1
        /\ Approved(d) /\ d.marks \subseteq {"unjudged"}
    BY <1>2, <1>4, DeliverFields DEF OnTheWay
  <2>2. QED
    BY <2>1 DEF McpUse, McpTold, Ran, Approved, Noted
<1>5. CASE d = Tell(Withhold(c), "blocked")
  <2>1. PICK w : w = Withhold(c)
    OBVIOUS
  <2>2. /\ w \in UseRecords /\ w.at = "withheld" /\ w.result = "withheld" /\ w.events = 0
        /\ Approved(w) /\ w.marks \subseteq {"unjudged"}
    BY <2>1, WithholdFields DEF OnTheWay
  <2>3. /\ d \in UseRecords /\ d.at = "withheld" /\ d.result = "withheld" /\ d.told = "blocked" /\ d.events = 1
        /\ Approved(d) /\ d.marks \subseteq {"unjudged"}
    BY <1>5, <2>1, <2>2, TellFields DEF Tellings, Approved, Noted, SameAsk, SameRuling, SameRest
  <2>4. QED
    BY <2>3 DEF McpUse, McpTold, Ran, Approved, Noted
<1>6. CASE d = Note(Withhold(c), "silent")
  <2>1. PICK w : w = Withhold(c)
    OBVIOUS
  <2>2. /\ w \in UseRecords /\ w.at = "withheld" /\ w.result = "withheld" /\ w.told = "none" /\ w.events = 0
        /\ Approved(w) /\ w.marks \subseteq {"unjudged"}
    BY <2>1, WithholdFields DEF OnTheWay
  <2>3. /\ d \in UseRecords /\ d.at = "withheld" /\ d.result = "withheld" /\ d.told = "none" /\ d.events = 0
        /\ Approved(d) /\ d.marks \subseteq {"unjudged", "silent"} /\ "silent" \in d.marks
    BY <1>6, <2>1, <2>2, NoteFields DEF Marks, Approved, Noted, SameAsk, SameRuling, SameTold, SameRest
  <2>4. QED
    BY <2>3 DEF McpUse, McpTold, Ran, Approved, Noted
<1>7. CASE \E mark \in {"spanless", "unsanitized"}, told \in {says, "redacted"} :
             /\ d = Note(Deliver(c, "raw", told), mark)
             /\ mark = "unsanitized" => told = IF PythonSdk THEN says ELSE "redacted"
  <2>1. PICK mark \in {"spanless", "unsanitized"}, told \in {says, "redacted"} :
             /\ d = Note(Deliver(c, "raw", told), mark)
             /\ mark = "unsanitized" => told = IF PythonSdk THEN says ELSE "redacted"
    BY <1>7
  <2>2. PICK w : w = Deliver(c, "raw", told)
    OBVIOUS
  <2>3. /\ w \in UseRecords /\ w.at = "returned" /\ w.result = "raw" /\ w.told = told /\ w.events = 1
        /\ Approved(w) /\ w.args = c.args /\ w.marks \subseteq {"unjudged"}
    BY <1>1, <1>2, <2>2, DeliverFields DEF OnTheWay
  <2>4. /\ d \in UseRecords /\ d.at = "returned" /\ d.result = "raw" /\ d.told = told /\ d.events = 1
        /\ Approved(d) /\ d.args = c.args /\ d.marks \subseteq {"unjudged", mark} /\ mark \in d.marks
    BY <2>1, <2>2, <2>3, NoteFields DEF Marks, Approved, Noted, SameAsk, SameRuling, SameTold, SameRest
  <2>5. QED
    BY <1>1, <2>1, <2>4 DEF McpUse, McpTold, Ran, Approved, Noted
<1>8. QED
  BY <1>3, <1>4, <1>5, <1>6, <1>7 DEF Scanned

\* An event that Python samples away.
LEMMA EmittedFits ==
  ASSUME NEW d, McpUse(d), d.at \in {"returned", "withheld"}, ~Noted(d, "behind"), NEW e \in Emitted(d)
  PROVE  McpUse(e)
<1>1. CASE e = d
  BY <1>1
<1>2. CASE PythonSdk /\ d.told = "allowed" /\ e = [d EXCEPT !.events = 0, !.told = "none"]
  <2>1. PICK b : b = [d EXCEPT !.events = 0]
    OBVIOUS
  <2>2. /\ b \in UseRecords /\ b.at = d.at /\ b.tool = d.tool /\ b.rulings = d.rulings /\ b.result = d.result
        /\ b.events = 0 /\ b.marks = d.marks
    BY <2>1 DEF McpUse, UseRecords
  <2>3. e = [b EXCEPT !.told = "none"]
    BY <1>2, <2>1 DEF McpUse, UseRecords
  <2>4. /\ e \in UseRecords /\ e.at = d.at /\ e.tool = d.tool /\ e.rulings = d.rulings /\ e.result = d.result
        /\ e.told = "none" /\ e.events = 0 /\ e.marks = d.marks
    BY <2>2, <2>3 DEF UseRecords, Tellings
  <2>5. Approved(e) /\ e.at \in {"returned", "withheld"}
    BY <2>4 DEF McpUse, Ran, Approved, Noted
  <2>6. e.at = "withheld" => Noted(e, "silent")
    BY <1>2, <2>4 DEF McpUse, McpTold, Settled, Noted
  <2>7. QED
    BY <1>2, <2>4, <2>5, <2>6 DEF McpUse, McpTold, Ran, Approved, Noted
<1>3. QED
  BY <1>1, <1>2 DEF Emitted

McpInv == \A u \in Uses : McpUse(use[u])

\* One call that fits in the place of another.
LEMMA McpOneChanged ==
  ASSUME use \in [Uses -> UseRecords], McpInv, boundary' = boundary,
         NEW u \in Uses, NEW d, McpUse(d), use' = [use EXCEPT ![u] = d]
  PROVE  use' \in [Uses -> UseRecords] /\ McpInv'
<1>1. /\ use' \in [Uses -> UseRecords] /\ use'[u] = d
      /\ \A v \in Uses : v # u => use'[v] = use[v]
  BY OneChanged DEF McpUse
<1>2. \A v \in Uses : McpUse(use'[v])
  BY <1>1 DEF McpInv
<1>3. McpInv'
  BY <1>2 DEF McpInv, McpUse, McpTold, Approved, Untold, PythonSdk, Settled, Ran, Noted
<1>4. QED
  BY <1>1, <1>3

\* A client calls: behind the wrapper, nested in a call, or through the gate.
LEMMA CallToolKeeps ==
  ASSUME use \in [Uses -> UseRecords], McpInv, NEW u \in Uses, CallTool(u)
  PROVE  use' \in [Uses -> UseRecords] /\ McpInv'
<1>1. use[u] \in UseRecords /\ use[u] = NoUse
  BY DEF CallTool, McpInv, McpUse
<1>2. PICK t \in Tools, route \in Routes, degraded \in BOOLEAN :
        LET c == [use[u] EXCEPT !.tool = t, !.route = route] IN
        \E d \in CASE Behind(route) -> {Move(Note(c, "behind"), "sent")}
                   [] ~Behind(route) /\ route # "callTool" /\ InFlight(u) -> {Move(c, "sent")}
                   [] OTHER -> GateCall(c, degraded) :
          use' = [use EXCEPT ![u] = d]
  BY DEF CallTool
<1>3. PICK c : c = Asked(use[u], t, route)
  OBVIOUS
<1>4. /\ c \in UseRecords /\ c.rulings = 0 /\ Untold(c) /\ c.marks = {}
  <2>1. t \in Named /\ route \in Ways
    BY DEF Named, Ways
  <2>2. /\ c \in UseRecords /\ SameRuling(c, use[u]) /\ SameTold(c, use[u]) /\ SameRest(c, use[u])
        /\ c.marks = use[u].marks
    BY <1>1, <1>3, <2>1, AskFields
  <2>3. QED
    BY <1>1, <2>2, NoUseFields DEF Untold, SameRuling, SameTold, SameRest
<1>5. ~InFlight(u)
  BY <1>1, NoUseFields DEF InFlight
<1>6. PICK d \in IF Behind(route) THEN {Move(Note(c, "behind"), "sent")} ELSE GateCall(c, degraded) :
        use' = [use EXCEPT ![u] = d]
  BY <1>2, <1>3, <1>5 DEF Asked
<1>7. McpUse(d)
  <2>1. CASE ~Behind(route)
    BY <1>4, <1>6, <2>1, GateCallFits
  <2>2. CASE Behind(route)
    <3>1. PICK n : n = Note(c, "behind")
      OBVIOUS
    <3>2. n \in UseRecords /\ n.rulings = 0 /\ Untold(n) /\ n.marks = {"behind"}
      BY <1>4, <3>1, NoteFields DEF Marks, Untold, SameRuling, SameTold, SameRest
    <3>3. d = Move(n, "sent")
      BY <1>6, <2>2, <3>1
    <3>4. d \in UseRecords /\ d.at = "sent" /\ d.rulings = 0 /\ Untold(d) /\ d.marks = {"behind"}
      BY <3>2, <3>3, MoveFields DEF Places, Untold, SameRuling, SameTold, SameRest
    <3>5. PythonSdk
      BY <2>2 DEF Behind
    <3>6. QED
      BY <3>4, <3>5 DEF McpUse, Ran, Settled, Noted
  <2>3. QED
    BY <2>1, <2>2
<1>8. QED
  BY <1>6, <1>7, McpOneChanged DEF CallTool

\* The pipeline answers a TypeScript gate.
LEMMA PipelineAnswersKeeps ==
  ASSUME use \in [Uses -> UseRecords], McpInv, NEW u \in Uses, PipelineAnswers(u)
  PROVE  use' \in [Uses -> UseRecords] /\ McpInv'
<1>1. PICK d \in Judged(use[u]) : use' = [use EXCEPT ![u] = d]
  BY DEF PipelineAnswers
<1>2. McpUse(use[u]) /\ use[u].at = "judging"
  BY DEF McpInv, PipelineAnswers
<1>3. McpUse(d)
  BY <1>1, <1>2, JudgedFits DEF McpUse
<1>4. QED
  BY <1>1, <1>3, McpOneChanged DEF PipelineAnswers

\* The call goes out, past the patched frame as the case may be.
LEMMA SendsKeeps ==
  ASSUME use \in [Uses -> UseRecords], McpInv, NEW u \in Uses, Sends(u)
  PROVE  use' \in [Uses -> UseRecords] /\ McpInv'
<1>1. McpUse(use[u]) /\ use[u].at = "calling" /\ InFlight(u)
  BY DEF McpInv, Sends, InFlight
<1>2. PICK b : b = [use[u] EXCEPT !.route = "none"]
  OBVIOUS
<1>3. PICK d : d = Move(b, "sent")
  OBVIOUS
<1>4. use' = [use EXCEPT ![u] = d]
  BY <1>1, <1>2, <1>3 DEF Sends
<1>5. /\ b \in UseRecords /\ b.tool = use[u].tool /\ SameRuling(b, use[u]) /\ SameTold(b, use[u]) /\ SameRest(b, use[u])
      /\ b.marks = use[u].marks
  BY <1>1, <1>2 DEF McpUse, UseRecords, Ways, SameRuling, SameTold, SameRest
<1>6. /\ d \in UseRecords /\ d.at = "sent" /\ d.tool = use[u].tool /\ SameRuling(d, use[u]) /\ SameTold(d, use[u])
      /\ d.result = use[u].result /\ d.marks = use[u].marks
  BY <1>3, <1>5, MoveFields DEF Places, SameAsk, SameRuling, SameTold, SameRest
<1>7. McpUse(d)
  BY <1>1, <1>6 DEF McpUse, Ran, Settled, Approved, Untold, Noted, SameRuling, SameTold
<1>8. QED
  BY <1>4, <1>7, McpOneChanged DEF Sends

\* A call that went past the gate comes back without a word.
LEMMA BehindFits ==
  ASSUME NEW c, McpUse(c), c.at = "sent", Noted(c, "behind"), NEW d \in UseRecords, d.at \in {"returned", "failed"},
         d.rulings = c.rulings, SameTold(d, c), d.marks = c.marks
  PROVE  McpUse(d)
<1>1. d.rulings = 0 /\ d.told = "none" /\ d.events = 0 /\ Noted(d, "behind") /\ d.marks \subseteq {"behind", "unjudged"} /\ PythonSdk
  BY DEF McpUse, Untold, Noted, SameTold
<1>2. QED
  BY <1>1 DEF McpUse, McpTold, Ran, Noted

\* The server replies, and the reply is scanned and recorded.
LEMMA RepliesKeeps ==
  ASSUME use \in [Uses -> UseRecords], McpInv, NEW u \in Uses, Replies(u)
  PROVE  use' \in [Uses -> UseRecords] /\ McpInv'
<1>1. McpUse(use[u]) /\ use[u].at = "sent"
  BY DEF McpInv, Replies
<1>2. PICK d \in IF Noted(use[u], "behind") THEN {Move([use[u] EXCEPT !.result = "raw"], "returned")}
                 ELSE Scanned(use[u]) :
        \E e \in Emitted(d) : use' = [use EXCEPT ![u] = e]
  BY DEF Replies
<1>3. PICK e \in Emitted(d) : use' = [use EXCEPT ![u] = e]
  BY <1>2
<1>4. CASE Noted(use[u], "behind")
  <2>1. PICK g : g = Given(use[u], "raw")
    OBVIOUS
  <2>2. /\ g \in UseRecords /\ g.rulings = use[u].rulings /\ SameTold(g, use[u]) /\ g.marks = use[u].marks
    BY <1>1, <2>1, GivenFields DEF McpUse, Results, SameRuling
  <2>3. d = Move(g, "returned")
    BY <1>2, <1>4, <2>1 DEF Given
  <2>4. /\ d \in UseRecords /\ d.at = "returned" /\ d.rulings = use[u].rulings /\ SameTold(d, use[u])
        /\ d.marks = use[u].marks
    BY <2>2, <2>3, MoveFields DEF Places, SameRuling, SameTold
  <2>5. McpUse(d)
    BY <1>1, <1>4, <2>4, BehindFits
  <2>6. e = d
    BY <1>1, <1>3, <2>4 DEF Emitted, McpUse, Untold, SameTold
  <2>7. QED
    BY <1>3, <2>5, <2>6, McpOneChanged DEF Replies
<1>5. CASE ~Noted(use[u], "behind")
  <2>1. OnTheWay(use[u])
    BY <1>1, <1>5 DEF OnTheWay, McpUse, Ran, Noted
  <2>2. McpUse(d) /\ d.at \in {"returned", "withheld"} /\ ~Noted(d, "behind")
    BY <1>2, <1>5, <2>1, ScannedFits
  <2>3. McpUse(e)
    BY <1>3, <2>2, EmittedFits
  <2>4. QED
    BY <1>3, <2>3, McpOneChanged DEF Replies
<1>6. QED
  BY <1>4, <1>5

\* The server fails, which is recorded as the request was judged.
LEMMA ServerFailsKeeps ==
  ASSUME use \in [Uses -> UseRecords], McpInv, NEW u \in Uses, ServerFails(u)
  PROVE  use' \in [Uses -> UseRecords] /\ McpInv'
<1>1. McpUse(use[u]) /\ use[u].at = "sent"
  BY DEF McpInv, ServerFails
<1>2. PICK d : d = IF Noted(use[u], "behind") THEN Move(use[u], "failed")
                   ELSE Move(Tell(use[u], RequestVerdict(use[u])), "failed")
  OBVIOUS
<1>3. use' = [use EXCEPT ![u] = d]
  BY <1>2 DEF ServerFails
<1>4. CASE Noted(use[u], "behind")
  <2>1. /\ d \in UseRecords /\ d.at = "failed" /\ d.rulings = use[u].rulings /\ SameTold(d, use[u])
        /\ d.marks = use[u].marks
    BY <1>1, <1>2, <1>4, MoveFields DEF McpUse, Places, SameRuling, SameTold
  <2>2. McpUse(d)
    BY <1>1, <1>4, <2>1, BehindFits
  <2>3. QED
    BY <1>3, <2>2, McpOneChanged DEF ServerFails
<1>5. CASE ~Noted(use[u], "behind")
  <2>1. PICK says : says = RequestVerdict(use[u])
    OBVIOUS
  <2>2. /\ use[u] \in UseRecords /\ says \in {"not_evaluated", "redacted", "allowed"}
        /\ says = "redacted" => use[u].args = "redacted"
    BY <1>1, <2>1, VerdictTold DEF McpUse
  <2>3. OnTheWay(use[u])
    BY <1>1, <1>5 DEF OnTheWay, McpUse, Ran, Noted
  <2>4. PICK t : t = Tell(use[u], says)
    OBVIOUS
  <2>5. /\ t \in UseRecords /\ SameRuling(t, use[u]) /\ t.tool = use[u].tool /\ t.told = says /\ t.events = 1
        /\ t.result = "none" /\ t.marks = use[u].marks
    BY <2>2, <2>3, <2>4, TellFields DEF Tellings, OnTheWay, Untold, SameAsk, SameRest
  <2>6. d = Move(t, "failed")
    BY <1>2, <1>5, <2>1, <2>4
  <2>7. /\ d \in UseRecords /\ d.at = "failed" /\ SameRuling(d, use[u]) /\ d.tool = use[u].tool /\ d.told = says
        /\ d.events = 1 /\ d.result = "none" /\ d.marks = use[u].marks
    BY <2>5, <2>6, MoveFields DEF Places, SameAsk, SameRuling, SameTold, SameRest
  <2>8. McpUse(d)
    BY <2>2, <2>3, <2>7 DEF McpUse, McpTold, Ran, OnTheWay, Approved, Noted, SameRuling
  <2>9. QED
    BY <1>3, <2>8, McpOneChanged DEF ServerFails
<1>6. QED
  BY <1>4, <1>5

\* Calls that stand still under the same boundary stay as they are.
LEMMA McpStill ==
  ASSUME McpInv, use' = use, boundary' = boundary
  PROVE  McpInv'
BY DEF McpInv, McpUse, McpTold, Approved, Untold, PythonSdk, Settled, Ran, Noted

\* A step of an MCP client.
LEMMA McpStep ==
  ASSUME use \in [Uses -> UseRecords], McpInv, McpNext
  PROVE  use' \in [Uses -> UseRecords] /\ McpInv'
<1>1. CASE Reconfigured \/ ListTools \/ ListingArrives
  <2>1. use' = use /\ boundary' = boundary
    BY <1>1 DEF Reconfigured, ListTools, ListingArrives
  <2>2. QED
    BY <2>1, McpStill
<1>2. CASE \E u \in Uses : CallTool(u) \/ PipelineAnswers(u) \/ Sends(u) \/ Replies(u) \/ ServerFails(u)
  BY <1>2, CallToolKeeps, PipelineAnswersKeeps, SendsKeeps, RepliesKeeps, ServerFailsKeeps
<1>3. QED
  BY <1>1, <1>2 DEF McpNext

----------------------------------------------------------------------------
(* Calls behind the gate of a governed tool.                               *)

\* A call the gate has not spoken about.
Unspoken(c) == c.told = "none" /\ c.events = 0 /\ c.args = "raw"

\* What the gate has said of a call, by its place.
GateShape(c) ==
  /\ c.at \in {"judging", "running", "refused", "returned", "failed"}
  /\ c.at = "judging" => Unspoken(c)
  /\ c.at # "judging" => c.events = 1
  /\ c.at = "refused" <=> c.told = "blocked"
  /\ c.args = "redacted" <=> c.told = "redacted"
  /\ c.at # "refused" => c.tool \notin Denied

\* The call is the same but for what the gate notes, rules and tells.
SameCall(d, c) == d.tool = c.tool /\ d.route = c.route /\ d.saw = c.saw
MoreMarks(d, c) == c.marks \subseteq d.marks /\ d.marks \subseteq c.marks \cup {"flagged", "lost", "spanless"}

\* The answers of the gate, and of the pipeline behind it.
GateAnswer(d, c) ==
  /\ d \in UseRecords /\ SameCall(d, c) /\ MoreMarks(d, c)
  /\ d.at \in {"judging", "running", "refused"} /\ GateShape(d)

\* A refusal is an answer of the gate.
LEMMA RefuseAnswers ==
  ASSUME NEW b \in UseRecords, NEW c \in UseRecords, SameCall(c, b), MoreMarks(c, b), Unspoken(c)
  PROVE  GateAnswer(Refuse(c), b) /\ Refuse(c).rulings = c.rulings
<1>1. PICK d : d = Refuse(c)
  OBVIOUS
<1>2. /\ d \in UseRecords /\ d.at = "refused" /\ d.tool = c.tool /\ d.route = c.route /\ d.saw = c.saw
      /\ d.args = "raw" /\ d.told = "blocked" /\ d.events = 1 /\ d.marks = c.marks /\ d.rulings = c.rulings
  BY <1>1, RefuseFields DEF Unspoken, SameAsk, SameRuling, SameRest
<1>3. GateAnswer(d, b)
  BY <1>2 DEF GateAnswer, GateShape, SameCall, MoreMarks
<1>4. QED
  BY <1>1, <1>2, <1>3

\* So is a call that runs, told as its arguments say.
LEMMA RunsAnswers ==
  ASSUME NEW b \in UseRecords, NEW c \in UseRecords, SameCall(c, b), MoreMarks(c, b), c.tool \notin Denied,
         c.told = "none", c.events = 0, NEW told \in {"allowed", "redacted"}, c.args = "redacted" <=> told = "redacted"
  PROVE  GateAnswer(Runs(c, told), b) /\ Runs(c, told).rulings = c.rulings
<1>1. PICK t : t = Tell(c, told)
  OBVIOUS
<1>2. /\ t \in UseRecords /\ t.tool = c.tool /\ t.route = c.route /\ t.saw = c.saw
      /\ t.args = c.args /\ t.told = told /\ t.events = 1 /\ t.marks = c.marks /\ t.rulings = c.rulings
  BY <1>1, TellFields DEF Tellings, SameAsk, SameRuling, SameRest
<1>3. PICK d : d = Runs(c, told)
  OBVIOUS
<1>4. d = Move(t, "running")
  BY <1>1, <1>3 DEF Runs
<1>5. /\ d \in UseRecords /\ d.at = "running" /\ d.tool = c.tool /\ d.route = c.route /\ d.saw = c.saw
      /\ d.args = c.args /\ d.told = told /\ d.events = 1 /\ d.marks = c.marks /\ d.rulings = c.rulings
  BY <1>2, <1>4, MoveFields DEF Places, SameAsk, SameRuling, SameTold, SameRest
<1>6. GateAnswer(d, b)
  BY <1>5 DEF GateAnswer, GateShape, SameCall, MoreMarks
<1>7. QED
  BY <1>3, <1>5, <1>6

\* And so is a call handed on to the pipeline, or run where there is none.
LEMMA OnwardAnswers ==
  ASSUME NEW b \in UseRecords, NEW c \in UseRecords, SameCall(c, b), MoreMarks(c, b), c.tool \notin Denied, Unspoken(c)
  PROVE  GateAnswer(Onward(c), b) /\ Onward(c).rulings = c.rulings
<1>1. CASE boundary.armed
  <2>1. PICK d : d = Onward(c)
    OBVIOUS
  <2>2. d = Move(c, "judging")
    BY <1>1, <2>1 DEF Onward
  <2>3. /\ d \in UseRecords /\ d.at = "judging" /\ d.tool = c.tool /\ d.route = c.route /\ d.saw = c.saw
        /\ Unspoken(d) /\ d.marks = c.marks /\ d.rulings = c.rulings
    BY <2>2, MoveFields DEF Places, Unspoken, SameAsk, SameRuling, SameTold, SameRest
  <2>4. GateAnswer(d, b)
    BY <2>3 DEF GateAnswer, GateShape, SameCall, MoreMarks, Unspoken
  <2>5. QED
    BY <2>1, <2>3, <2>4
<1>2. CASE ~boundary.armed
  <2>1. Onward(c) = Runs(c, "allowed")
    BY <1>2 DEF Onward
  <2>2. QED
    BY <2>1, RunsAnswers DEF Unspoken
<1>3. QED
  BY <1>1, <1>2

\* What the gate decides of a call that reaches it.
LEMMA GateDecides ==
  ASSUME NEW c \in UseRecords, Unspoken(c), NEW d \in GateVerdicts(c)
  PROVE  GateAnswer(d, c) /\ d.rulings = c.rulings + 1
<1>1. PICK r : r = Ruled(c)
  OBVIOUS
<1>2. /\ r \in UseRecords /\ r.rulings = c.rulings + 1 /\ Unspoken(r) /\ SameCall(r, c) /\ MoreMarks(r, c)
      /\ r.tool = c.tool /\ r.marks = c.marks
  BY <1>1, RuledFields DEF Unspoken, SameCall, MoreMarks, SameAsk, SameTold, SameRest
<1>3. CASE d = Refuse(r)
  BY <1>2, <1>3, RefuseAnswers
<1>4. CASE c.tool \notin Denied /\ d = Onward(r)
  BY <1>2, <1>4, OnwardAnswers
<1>5. CASE c.tool \notin Denied /\ \E mark \in {"flagged", "lost"} : d = Onward(Note(r, mark))
  <2>1. PICK mark \in {"flagged", "lost"} : d = Onward(Note(r, mark))
    BY <1>5
  <2>2. PICK n : n = Note(r, mark)
    OBVIOUS
  <2>3. n \in UseRecords /\ n.rulings = c.rulings + 1 /\ Unspoken(n) /\ SameCall(n, c) /\ MoreMarks(n, c) /\ n.tool = c.tool
    BY <1>2, <2>2, NoteFields DEF Marks, Unspoken, SameCall, MoreMarks, SameAsk, SameRuling, SameTold, SameRest
  <2>4. QED
    BY <1>5, <2>1, <2>2, <2>3, OnwardAnswers
<1>6. QED
  BY <1>1, <1>3, <1>4, <1>5 DEF GateVerdicts, TaintLayer, Ruled

\* What the pipeline behind the gate decides.
LEMMA PipelineDecides ==
  ASSUME NEW c \in UseRecords, c.at = "judging", GateShape(c), NEW d \in PipelineVerdicts(c)
  PROVE  GateAnswer(d, c) /\ d.rulings = c.rulings /\ d.at \in {"running", "refused"}
<1>1. Unspoken(c) /\ c.tool \notin Denied /\ SameCall(c, c) /\ MoreMarks(c, c)
  BY DEF GateShape, SameCall, MoreMarks
<1>2. CASE d = Refuse(c)
  BY <1>1, <1>2, RefuseAnswers, RefuseFields
<1>3. CASE d = Runs(c, "allowed")
  <2>1. d.at = "running"
    BY <1>3, MoveFields, TellFields DEF Runs, Places, Tellings
  <2>2. QED
    BY <1>1, <1>3, <2>1, RunsAnswers DEF Unspoken
<1>4. CASE d = Runs(Cleaned(c), "redacted")
  <2>1. PICK r : r = Cleaned(c)
    OBVIOUS
  <2>2. /\ r \in UseRecords /\ r.args = "redacted" /\ r.told = "none" /\ r.events = 0 /\ r.rulings = c.rulings
        /\ SameCall(r, c) /\ MoreMarks(r, c) /\ r.tool \notin Denied
    BY <1>1, <2>1, CleanedFields DEF Unspoken, SameCall, MoreMarks, SameAsk, SameTold, SameRest
  <2>3. d = Runs(r, "redacted")
    BY <1>4, <2>1
  <2>4. d.at = "running"
    BY <2>2, <2>3, MoveFields, TellFields DEF Runs, Places, Tellings
  <2>5. QED
    BY <2>2, <2>3, <2>4, RunsAnswers
<1>5. CASE d = Refuse(Note(c, "spanless"))
  <2>1. PICK n : n = Note(c, "spanless")
    OBVIOUS
  <2>2. n \in UseRecords /\ n.rulings = c.rulings /\ Unspoken(n) /\ SameCall(n, c) /\ MoreMarks(n, c)
    BY <1>1, <2>1, NoteFields DEF Marks, Unspoken, SameCall, MoreMarks, SameAsk, SameRuling, SameTold, SameRest
  <2>3. d = Refuse(n)
    BY <1>5, <2>1
  <2>4. QED
    BY <2>2, <2>3, RefuseAnswers, RefuseFields
<1>6. QED
  BY <1>2, <1>3, <1>4, <1>5 DEF PipelineVerdicts, Cleaned

\* The tool's end.
LEMMA EndFields ==
  ASSUME NEW c \in UseRecords, NEW end \in {"returned", "failed"}
  PROVE  LET d == Move(Given(c, "raw"), end) IN
         /\ d \in UseRecords /\ d.at = end /\ SameCall(d, c) /\ SameRuling(d, c) /\ SameTold(d, c) /\ d.marks = c.marks
<1>1. PICK g : g = Given(c, "raw")
  OBVIOUS
<1>2. g \in UseRecords /\ SameCall(g, c) /\ SameRuling(g, c) /\ SameTold(g, c) /\ g.marks = c.marks
  BY <1>1, GivenFields DEF Results, SameCall, SameAsk
<1>3. PICK d : d = Move(g, end)
  OBVIOUS
<1>4. d \in UseRecords /\ d.at = end /\ SameCall(d, c) /\ SameRuling(d, c) /\ SameTold(d, c) /\ d.marks = c.marks
  BY <1>2, <1>3, MoveFields DEF Places, SameCall, SameAsk, SameRuling, SameTold, SameRest
<1>5. QED
  BY <1>1, <1>3, <1>4

----------------------------------------------------------------------------
(* Calls of the OpenAI Agents framework.                                   *)

\* The gate that governed a tool went away with its handle.
DetachedGate(t) == \E a \in Agents : gates[a].handle = "detached" /\ t \in gates[a].attached

\* A refusal that its guardrail could not record, or a call as its gate left it.
GateOrSilent(c) == IF Noted(c, "silent") THEN c.at = "refused" /\ Unspoken(c) ELSE GateShape(c)

\* A guardrail lets a denied tool pass only if it failed itself, or is not there.
Slipped(c) == c.rulings = 0 \/ Noted(c, "lost")

FunctionCall(c) ==
  /\ c.route = "function" /\ c.tool \in Tools
  /\ c.at \in {"guarded", "judging", "running", "refused", "returned", "failed"}
  /\ Noted(c, "held") /\ c.rulings = 0 => DetachedGate(c.tool)
  /\ c.at = "guarded" => Unspoken(c) /\ ~Noted(c, "silent")
  /\ Noted(c, "unjudged") => Noted(c, "observed")
  /\ c.at = "judging" => c.tool \in wrapped
  /\ c.at = "refused" => c.tool \in registry
  /\ c.at # "guarded" /\ c.tool \in wrapped => c.rulings > 0 /\ GateOrSilent(c)
  /\ c.at # "refused" /\ (c.at = "guarded" \/ c.tool \notin wrapped) /\ c.tool \in Denied => Slipped(c)
  /\ Noted(c, "observed") =>
       /\ c.at \in {"refused", "returned", "failed"}
       /\ c.at = "refused" => ~Noted(c, "unjudged")
       /\ c.at # "refused" /\ c.tool \in Denied => Noted(c, "unjudged") \/ c.tool \in registry

ModelCall(c) ==
  /\ c.route = "model" /\ c.tool = "none"
  /\ c.at \in {"judging", "running", "refused", "returned", "failed"}
  /\ Ran(c) => c.rulings > 0
  /\ ~Noted(c, "observed")

AgentUse(c) ==
  /\ c \in UseRecords
  /\ c.at = "idle" => c = NoUse
  /\ c.at # "idle" => FunctionCall(c) \/ ModelCall(c)
  /\ Noted(c, "charged") => Noted(c, "observed")

\* The gates that are attached, and the names they speak for.
GatesFit ==
  /\ wrapped \subseteq Tools /\ wrapped \subseteq registry
  /\ guards \in [Tools -> Agents \cup {"none"}]
  /\ gates \in [Agents -> [handle : {"none", "held", "detached"}, attached : SUBSET Tools]]
  /\ \A t \in Tools : guards[t] # "none" => t \in registry
  /\ \A a \in Agents : gates[a].handle = "held" =>
       \A t \in Reached(a) : guards[t] # "none" \/ DetachedGate(t)

\* The calls that an agent span counted within its budget.
Charges(r) == {u \in Uses : Noted(use[u], "charged") /\ use[u].saw = r /\ ~Noted(use[u], "overstep")}

TraceFits ==
  /\ trace \in [spans : Nat, depth : Nat, root : Nat, nested : SUBSET Nat, open : BOOLEAN, steps : Nat]
  /\ trace.depth > 0 => trace.root \in 1..trace.spans
  /\ trace.open => trace.depth > 0
  /\ trace.nested \subseteq 1..trace.spans
  /\ \A u \in Uses : Noted(use[u], "charged") => use[u].saw <= trace.spans
  /\ \A r \in 1..trace.spans \ trace.nested : Cardinality(Charges(r)) <= MaxSteps
  /\ trace.open /\ trace.root \notin trace.nested => Cardinality(Charges(trace.root)) <= trace.steps

AgentsInv ==
  /\ use \in [Uses -> UseRecords]
  /\ \A u \in Uses : AgentUse(use[u])
  /\ GatesFit /\ TraceFits

\* The charges are finite and countable.
LEMMA ChargesFinite == \A r : IsFiniteSet(Charges(r)) /\ Cardinality(Charges(r)) \in Nat
<1>1. IsFiniteSet(Uses)
  BY ToolAssumption
<1>2. \A r : Charges(r) \subseteq Uses
  BY DEF Charges
<1>3. QED
  BY <1>1, <1>2, FS_Subset, FS_CardinalityType

\* A call that is not charged takes another's place, under the same gates and spans.
LEMMA AgentOneChanged ==
  ASSUME AgentsInv, UNCHANGED <<boundary, gateVars, guards, gates, trace>>,
         NEW u \in Uses, NEW d, AgentUse(d), use' = [use EXCEPT ![u] = d],
         ~Noted(use[u], "charged"), ~Noted(d, "charged")
  PROVE  AgentsInv'
<1>1. /\ use' \in [Uses -> UseRecords] /\ use'[u] = d
      /\ \A v \in Uses : v # u => use'[v] = use[v]
  BY OneChanged DEF AgentUse, AgentsInv
<1>2. (\A v \in Uses : AgentUse(use[v]))'
  <2>1. \A v \in Uses : AgentUse(use'[v])
    BY <1>1 DEF AgentsInv
  <2>2. QED
    BY <2>1 DEF AgentUse, FunctionCall, ModelCall, GateOrSilent, GateShape, Unspoken, Slipped, DetachedGate,
                gateVars, Ran, Noted
<1>3. GatesFit'
  BY DEF AgentsInv, GatesFit, DetachedGate, Reached, gateVars
<1>4. TraceFits'
  <2>1. \A r : Charges(r)' = Charges(r)
    BY <1>1 DEF Charges, Noted
  <2>2. \A v \in Uses : Noted(use'[v], "charged") => use'[v].saw <= trace.spans
    BY <1>1 DEF AgentsInv, TraceFits
  <2>3. QED
    BY <2>1, <2>2 DEF AgentsInv, TraceFits, Noted
<1>5. QED
  BY <1>1, <1>2, <1>3, <1>4 DEF AgentsInv

\* What the guardrail makes of a call.
LEMMA AgentCallsToolKeeps ==
  ASSUME AgentsInv, NEW u \in Uses, AgentCallsTool(u)
  PROVE  AgentsInv'
<1>1. use[u] \in UseRecords /\ use[u] = NoUse
  BY DEF AgentCallsTool, AgentsInv, AgentUse
<1>2. PICK t \in Tools :
        LET c == [use[u] EXCEPT !.tool = t, !.route = "function"] IN
        \E d \in GuardVerdicts(IF HeldGate(t) THEN Note(c, "held") ELSE c) : use' = [use EXCEPT ![u] = d]
  BY DEF AgentCallsTool
<1>3. PICK c : c = Asked(use[u], t, "function")
  OBVIOUS
<1>4. /\ c \in UseRecords /\ c.tool = t /\ c.route = "function" /\ c.rulings = 0 /\ Unspoken(c) /\ c.marks = {}
  <2>1. t \in Named /\ "function" \in Ways
    BY DEF Named, Ways
  <2>2. /\ c \in UseRecords /\ c.tool = t /\ c.route = "function" /\ SameRuling(c, use[u]) /\ SameTold(c, use[u])
        /\ c.marks = use[u].marks
    BY <1>1, <1>3, <2>1, AskFields
  <2>3. QED
    BY <1>1, <2>2, NoUseFields DEF Unspoken, SameRuling, SameTold
<1>5. PICK h : h = IF HeldGate(t) THEN Note(c, "held") ELSE c
  OBVIOUS
<1>6. /\ h \in UseRecords /\ h.tool = t /\ h.route = "function" /\ h.rulings = 0 /\ Unspoken(h)
      /\ h.marks \subseteq {"held"} /\ (Noted(h, "held") => HeldGate(t))
  BY <1>4, <1>5, NoteFields DEF Marks, Unspoken, Noted, SameAsk, SameRuling, SameTold
<1>7. PICK d \in GuardVerdicts(h) : use' = [use EXCEPT ![u] = d]
  BY <1>2, <1>3, <1>5 DEF Asked
<1>8. AgentUse(d) /\ ~Noted(d, "charged")
  <2>1. CASE guards[t] = "none"
    <3>1. d = Move(h, "guarded")
      BY <1>6, <1>7, <2>1 DEF GuardVerdicts
    <3>2. /\ d \in UseRecords /\ d.at = "guarded" /\ d.tool = t /\ d.route = "function" /\ d.rulings = 0 /\ Unspoken(d)
          /\ d.marks = h.marks
      BY <1>6, <3>1, MoveFields DEF Places, Unspoken, SameAsk, SameRuling, SameTold
    <3>3. HeldGate(t) => DetachedGate(t)
      BY <2>1 DEF HeldGate, AgentsInv, GatesFit
    <3>4. FunctionCall(d)
      BY <1>6, <3>2, <3>3 DEF FunctionCall, Slipped, Noted
    <3>5. QED
      BY <1>6, <3>2, <3>4 DEF AgentUse, Noted
  <2>2. CASE guards[t] # "none"
    <3>1. PICK r : r = Ruled(h)
      OBVIOUS
    <3>2. /\ r \in UseRecords /\ r.tool = t /\ r.route = "function" /\ r.rulings = 1 /\ Unspoken(r) /\ r.marks = h.marks
      BY <1>6, <3>1, RuledFields DEF Unspoken, SameAsk, SameTold
    <3>3. t \in registry
      BY <2>2 DEF AgentsInv, GatesFit
    <3>4. CASE t \in Denied /\ d = Refuse(r)
      <4>1. /\ d \in UseRecords /\ d.at = "refused" /\ d.tool = t /\ d.route = "function" /\ d.rulings = 1
            /\ d.args = "raw" /\ d.told = "blocked" /\ d.events = 1 /\ d.marks = h.marks
        BY <3>2, <3>4, RefuseFields DEF Unspoken, SameAsk, SameRuling
      <4>2. FunctionCall(d)
        BY <1>6, <3>3, <4>1 DEF FunctionCall, GateOrSilent, GateShape, Noted
      <4>3. QED
        BY <1>6, <4>1, <4>2 DEF AgentUse, Noted
    <3>5. CASE t \notin Denied /\ d = Move(r, "guarded")
      <4>1. /\ d \in UseRecords /\ d.at = "guarded" /\ d.tool = t /\ d.route = "function" /\ d.rulings = 1
            /\ Unspoken(d) /\ d.marks = h.marks
        BY <3>2, <3>5, MoveFields DEF Places, Unspoken, SameAsk, SameRuling, SameTold
      <4>2. FunctionCall(d)
        BY <1>6, <3>5, <4>1 DEF FunctionCall, Noted
      <4>3. QED
        BY <1>6, <4>1, <4>2 DEF AgentUse, Noted
    <3>6. CASE \E mark \in {"silent", "lost"} :
                 d = Move(Note(r, mark), IF mark = "silent" THEN "refused" ELSE "guarded")
      <4>1. PICK mark \in {"silent", "lost"} :
                 d = Move(Note(r, mark), IF mark = "silent" THEN "refused" ELSE "guarded")
        BY <3>6
      <4>2. PICK n : n = Note(r, mark)
        OBVIOUS
      <4>3. /\ n \in UseRecords /\ n.tool = t /\ n.route = "function" /\ n.rulings = 1 /\ Unspoken(n)
            /\ n.marks = h.marks \cup {mark}
        BY <3>2, <4>2, NoteFields DEF Marks, Unspoken, SameAsk, SameRuling, SameTold
      <4>4. PICK place \in {"refused", "guarded"} : place = IF mark = "silent" THEN "refused" ELSE "guarded"
        OBVIOUS
      <4>5. d = Move(n, place)
        BY <4>1, <4>2, <4>4
      <4>6. /\ d \in UseRecords /\ d.at = place /\ d.tool = t /\ d.route = "function" /\ d.rulings = 1
            /\ Unspoken(d) /\ d.marks = h.marks \cup {mark}
        BY <4>3, <4>5, MoveFields DEF Places, Unspoken, SameAsk, SameRuling, SameTold
      <4>7. FunctionCall(d)
        BY <1>6, <3>3, <4>4, <4>6 DEF FunctionCall, GateOrSilent, Slipped, Noted
      <4>8. QED
        BY <1>6, <4>4, <4>6, <4>7 DEF AgentUse, Noted
    <3>7. QED
      BY <1>6, <1>7, <2>2, <3>1, <3>4, <3>5, <3>6 DEF GuardVerdicts, Ruled
  <2>3. QED
    BY <2>1, <2>2
<1>9. ~Noted(use[u], "charged")
  BY <1>1, NoUseFields DEF Noted
<1>10. QED
  BY <1>7, <1>8, <1>9, AgentOneChanged DEF AgentCallsTool, agentsVars

\* A call that its gate answered, with at least one ruling.
LEMMA AnsweredFits ==
  ASSUME AgentsInv, NEW c, AgentUse(c), FunctionCall(c), c.tool \in wrapped, ~Noted(c, "observed"), ~Noted(c, "silent"),
         NEW d, GateAnswer(d, c), d.rulings > 0
  PROVE  AgentUse(d) /\ ~Noted(d, "charged")
<1>1. /\ d \in UseRecords /\ d.at \in {"judging", "running", "refused"} /\ d.tool = c.tool /\ d.route = "function"
      /\ GateShape(d) /\ ~Noted(d, "observed") /\ ~Noted(d, "silent") /\ ~Noted(d, "charged") /\ ~Noted(d, "unjudged")
  BY DEF GateAnswer, SameCall, MoreMarks, AgentUse, FunctionCall, Noted
<1>2. d.tool \in Tools /\ d.tool \in registry
  BY <1>1 DEF AgentsInv, GatesFit
<1>3. FunctionCall(d)
  BY <1>1, <1>2 DEF FunctionCall, GateOrSilent
<1>4. QED
  BY <1>1, <1>3 DEF AgentUse

\* A call past its guardrail meets the gate, if its tool has one.
LEMMA AgentInvokesToolKeeps ==
  ASSUME AgentsInv, NEW u \in Uses, AgentInvokesTool(u)
  PROVE  AgentsInv'
<1>1. AgentUse(use[u]) /\ use[u].at = "guarded" /\ use[u] \in UseRecords
  BY DEF AgentInvokesTool, AgentsInv, AgentUse
<1>2. FunctionCall(use[u]) /\ ~Noted(use[u], "observed") /\ ~Noted(use[u], "silent") /\ ~Noted(use[u], "charged")
      /\ Unspoken(use[u])
  BY <1>1 DEF AgentUse, FunctionCall, ModelCall
<1>3. PICK d \in IF use[u].tool \in wrapped THEN GateVerdicts(use[u]) ELSE {Move(use[u], "running")} :
        use' = [use EXCEPT ![u] = d]
  BY DEF AgentInvokesTool
<1>4. AgentUse(d) /\ ~Noted(d, "charged")
  <2>1. CASE use[u].tool \in wrapped
    <3>1. GateAnswer(d, use[u]) /\ d.rulings = use[u].rulings + 1
      BY <1>1, <1>2, <1>3, <2>1, GateDecides
    <3>2. d.rulings > 0
      BY <1>1, <3>1 DEF UseRecords
    <3>3. QED
      BY <1>1, <1>2, <2>1, <3>1, <3>2, AnsweredFits
  <2>2. CASE use[u].tool \notin wrapped
    <3>1. d = Move(use[u], "running")
      BY <1>3, <2>2
    <3>2. /\ d \in UseRecords /\ d.at = "running" /\ d.tool = use[u].tool /\ d.route = use[u].route
          /\ d.rulings = use[u].rulings /\ d.marks = use[u].marks
      BY <1>1, <3>1, MoveFields DEF Places, SameAsk, SameRuling
    <3>3. FunctionCall(d)
      BY <1>1, <1>2, <2>2, <3>2 DEF FunctionCall, Slipped, Noted
    <3>4. QED
      BY <1>1, <1>2, <3>2, <3>3 DEF AgentUse, Noted
  <2>3. QED
    BY <2>1, <2>2
<1>5. QED
  BY <1>2, <1>3, <1>4, AgentOneChanged DEF AgentInvokesTool, agentsVars

\* The pipeline behind a gate answers.
LEMMA AgentGateAnswersKeeps ==
  ASSUME AgentsInv, UNCHANGED agentsVars, NEW u \in Uses, GateAnswers(u)
  PROVE  AgentsInv'
<1>1. AgentUse(use[u]) /\ use[u].at = "judging" /\ use[u].route # "model" /\ use[u] \in UseRecords
  BY DEF GateAnswers, AgentsInv, AgentUse
<1>2. /\ FunctionCall(use[u]) /\ ~Noted(use[u], "observed") /\ ~Noted(use[u], "silent") /\ ~Noted(use[u], "charged")
      /\ use[u].tool \in wrapped /\ use[u].rulings > 0 /\ GateShape(use[u])
  BY <1>1 DEF AgentUse, FunctionCall, ModelCall, GateOrSilent
<1>3. PICK d \in PipelineVerdicts(use[u]) : use' = [use EXCEPT ![u] = d]
  BY DEF GateAnswers
<1>4. GateAnswer(d, use[u]) /\ d.rulings = use[u].rulings
  BY <1>1, <1>2, <1>3, PipelineDecides
<1>5. AgentUse(d) /\ ~Noted(d, "charged")
  BY <1>1, <1>2, <1>4, AnsweredFits
<1>6. QED
  BY <1>2, <1>3, <1>5, AgentOneChanged DEF GateAnswers, agentsVars, gateVars

\* A tool of an agent ends.
LEMMA AgentToolEndsKeeps ==
  ASSUME AgentsInv, UNCHANGED agentsVars, NEW u \in Uses, GovernedToolEnds(u)
  PROVE  AgentsInv'
<1>1. AgentUse(use[u]) /\ use[u].at = "running" /\ use[u].route # "model" /\ use[u] \in UseRecords
  BY DEF GovernedToolEnds, AgentsInv, AgentUse
<1>2. FunctionCall(use[u]) /\ ~Noted(use[u], "observed") /\ ~Noted(use[u], "charged")
  BY <1>1 DEF AgentUse, FunctionCall, ModelCall
<1>3. PICK end \in {"returned", "failed"} : use' = [use EXCEPT ![u] = Move([use[u] EXCEPT !.result = "raw"], end)]
  BY DEF GovernedToolEnds
<1>4. PICK d : d = Move(Given(use[u], "raw"), end)
  OBVIOUS
<1>5. /\ d \in UseRecords /\ d.at = end /\ SameCall(d, use[u]) /\ SameRuling(d, use[u]) /\ SameTold(d, use[u])
      /\ d.marks = use[u].marks
  BY <1>1, <1>4, EndFields
<1>6. FunctionCall(d)
  BY <1>1, <1>2, <1>5 DEF FunctionCall, GateOrSilent, GateShape, Unspoken, Slipped, Noted, SameCall, SameRuling, SameTold
<1>7. AgentUse(d) /\ ~Noted(d, "charged")
  BY <1>2, <1>5, <1>6 DEF AgentUse, Noted
<1>8. use' = [use EXCEPT ![u] = d]
  BY <1>3, <1>4 DEF Given
<1>9. QED
  BY <1>2, <1>7, <1>8, AgentOneChanged DEF GovernedToolEnds, agentsVars, gateVars

\* A governed model is ruled on, and watched by the trace processor.
LEMMA AgentCallsModelKeeps ==
  ASSUME AgentsInv, NEW u \in Uses, AgentCallsModel(u)
  PROVE  AgentsInv'
<1>1. use[u] \in UseRecords /\ use[u] = NoUse
  BY DEF AgentCallsModel, AgentsInv, AgentUse
<1>2. PICK d : d = [use[u] EXCEPT !.at = "judging", !.route = "model"]
  OBVIOUS
<1>3. PICK b : b = Move(use[u], "judging")
  OBVIOUS
<1>4. b \in UseRecords /\ b.at = "judging" /\ b.tool = "none" /\ b.marks = {}
  BY <1>1, <1>3, MoveFields, NoUseFields DEF Places, SameAsk
<1>5. d = [b EXCEPT !.route = "model"]
  BY <1>1, <1>2, <1>3 DEF Move, UseRecords
<1>6. d \in UseRecords /\ d.at = "judging" /\ d.tool = "none" /\ d.route = "model" /\ d.marks = {}
  BY <1>4, <1>5 DEF UseRecords, Ways
<1>7. AgentUse(d) /\ ~Noted(d, "charged")
  BY <1>6 DEF AgentUse, ModelCall, Ran, Noted
<1>8. ~Noted(use[u], "charged")
  BY <1>1, NoUseFields DEF Noted
<1>9. use' = [use EXCEPT ![u] = d]
  BY <1>2 DEF AgentCallsModel
<1>10. QED
  BY <1>7, <1>8, <1>9, AgentOneChanged DEF AgentCallsModel, agentsVars

\* A model call that was ruled on fits wherever it goes.
LEMMA ModelFits ==
  ASSUME NEW d \in UseRecords, d.route = "model", d.tool = "none", d.rulings > 0, ~Noted(d, "observed"),
         ~Noted(d, "charged"), d.at \in {"running", "refused", "returned", "failed"}
  PROVE  AgentUse(d)
BY DEF AgentUse, ModelCall

\* The request of a governed model is judged.
LEMMA ModelRequestJudgedKeeps ==
  ASSUME AgentsInv, NEW u \in Uses, ModelRequestJudged(u)
  PROVE  AgentsInv'
<1>1. AgentUse(use[u]) /\ use[u].at = "judging" /\ use[u].route = "model" /\ use[u] \in UseRecords
  BY DEF ModelRequestJudged, AgentsInv, AgentUse
<1>2. use[u].tool = "none" /\ ~Noted(use[u], "observed") /\ ~Noted(use[u], "charged")
  BY <1>1 DEF AgentUse, FunctionCall, ModelCall
<1>3. PICK d \in RequestVerdicts(use[u]) : use' = [use EXCEPT ![u] = d]
  BY DEF ModelRequestJudged
<1>4. PICK r : r = Ruled(use[u])
  OBVIOUS
<1>5. r \in UseRecords /\ r.tool = "none" /\ r.route = "model" /\ r.rulings > 0 /\ r.marks = use[u].marks
  <2>1. /\ r \in UseRecords /\ r.tool = use[u].tool /\ r.route = use[u].route /\ r.rulings = use[u].rulings + 1
        /\ r.marks = use[u].marks
    BY <1>1, <1>4, RuledFields DEF SameAsk
  <2>2. QED
    BY <1>1, <1>2, <2>1 DEF UseRecords
<1>6. /\ d \in UseRecords /\ d.tool = "none" /\ d.route = "model" /\ d.rulings > 0
      /\ d.marks \subseteq use[u].marks \cup {"spanless"} /\ d.at \in {"running", "refused"}
  <2>1. CASE d = Refuse(r)
    BY <1>5, <2>1, RefuseFields DEF SameAsk, SameRuling
  <2>2. CASE d = Move(r, "running")
    BY <1>5, <2>2, MoveFields DEF Places, SameAsk, SameRuling
  <2>3. CASE d = Move(Cleaned(r), "running")
    <3>1. PICK c : c = Cleaned(r)
      OBVIOUS
    <3>2. c \in UseRecords /\ c.tool = "none" /\ c.route = "model" /\ c.rulings > 0 /\ c.marks = use[u].marks
      BY <1>5, <3>1, CleanedFields DEF SameAsk
    <3>3. QED
      BY <2>3, <3>1, <3>2, MoveFields DEF Places, SameAsk, SameRuling
  <2>4. CASE d = Refuse(Note(r, "spanless"))
    <3>1. PICK n : n = Note(r, "spanless")
      OBVIOUS
    <3>2. n \in UseRecords /\ n.tool = "none" /\ n.route = "model" /\ n.rulings > 0 /\ n.marks = use[u].marks \cup {"spanless"}
      BY <1>5, <3>1, NoteFields DEF Marks, SameAsk, SameRuling
    <3>3. QED
      BY <2>4, <3>1, <3>2, RefuseFields DEF SameAsk, SameRuling
  <2>5. QED
    BY <1>3, <1>4, <2>1, <2>2, <2>3, <2>4 DEF RequestVerdicts, Ruled, Cleaned
<1>7. AgentUse(d) /\ ~Noted(d, "charged")
  BY <1>2, <1>6, ModelFits DEF Noted
<1>8. QED
  BY <1>2, <1>3, <1>7, AgentOneChanged DEF ModelRequestJudged, agentsVars, gateVars

\* The span of a model ends, and its copy is stored.
LEMMA ModelSpanEndsKeeps ==
  ASSUME AgentsInv, NEW u \in Uses, ModelSpanEnds(u)
  PROVE  AgentsInv'
<1>1. AgentUse(use[u]) /\ use[u].at = "running" /\ use[u].route = "model" /\ use[u] \in UseRecords
  BY DEF ModelSpanEnds, AgentsInv, AgentUse
<1>2. use[u].tool = "none" /\ use[u].rulings > 0 /\ ~Noted(use[u], "observed") /\ ~Noted(use[u], "charged")
  BY <1>1 DEF AgentUse, FunctionCall, ModelCall, Ran
<1>3. PICK end \in {"returned", "failed"}, stored \in {"raw", "redacted"} :
        use' = [use EXCEPT ![u] = Move(Tell([use[u] EXCEPT !.result = stored], "observed"), end)]
  BY DEF ModelSpanEnds
<1>4. PICK g : g = Given(use[u], stored)
  OBVIOUS
<1>5. PICK t : t = Tell(g, "observed")
  OBVIOUS
<1>6. PICK d : d = Move(t, end)
  OBVIOUS
<1>7. g \in UseRecords /\ g.tool = "none" /\ g.route = "model" /\ g.rulings > 0 /\ g.marks = use[u].marks
  BY <1>1, <1>2, <1>4, GivenFields DEF Results, SameAsk, SameRuling
<1>8. t \in UseRecords /\ t.tool = "none" /\ t.route = "model" /\ t.rulings > 0 /\ t.marks = use[u].marks
  BY <1>5, <1>7, TellFields DEF Tellings, SameAsk, SameRuling
<1>9. /\ d \in UseRecords /\ d.at = end /\ d.tool = "none" /\ d.route = "model" /\ d.rulings > 0 /\ d.marks = use[u].marks
  BY <1>6, <1>8, MoveFields DEF Places, SameAsk, SameRuling
<1>10. AgentUse(d) /\ ~Noted(d, "charged")
  BY <1>2, <1>9, ModelFits DEF Noted
<1>11. use' = [use EXCEPT ![u] = d]
  BY <1>3, <1>4, <1>5, <1>6 DEF Given
<1>12. QED
  BY <1>2, <1>10, <1>11, AgentOneChanged DEF ModelSpanEnds, agentsVars

\* The processor's note of a call: charged to the span that is open, within its budget
\* or beyond it.
LEMMA ObservedFields ==
  ASSUME NEW c \in UseRecords, trace.root \in Nat
  PROVE  LET d == Observed(c) IN
         /\ d \in UseRecords /\ d.at = c.at /\ SameAsk(d, c) /\ SameRuling(d, c) /\ SameTold(d, c)
         /\ d.saw = trace.root /\ c.marks \subseteq d.marks /\ d.marks \subseteq c.marks \cup {"unjudged", "overstep", "charged", "observed"}
         /\ Noted(d, "observed")
         /\ Noted(d, "unjudged") <=> Noted(c, "unjudged") \/ (c.tool \in Denied /\ c.tool \notin registry)
         /\ Noted(d, "charged") <=> Noted(c, "charged") \/ trace.open
         /\ Noted(d, "overstep") <=> Noted(c, "overstep") \/ trace.steps >= MaxSteps
<1>1. PICK noted : noted = (IF c.tool \in Denied /\ c.tool \notin registry THEN {"unjudged"} ELSE {})
                             \cup (IF trace.steps >= MaxSteps THEN {"overstep"} ELSE {})
                             \cup (IF trace.open THEN {"charged"} ELSE {}) \cup {"observed"}
  OBVIOUS
<1>2. /\ noted \subseteq {"unjudged", "overstep", "charged", "observed"} /\ "observed" \in noted
      /\ "unjudged" \in noted <=> c.tool \in Denied /\ c.tool \notin registry
      /\ "charged" \in noted <=> trace.open
      /\ "overstep" \in noted <=> trace.steps >= MaxSteps
  BY <1>1
<1>3. PICK b : b = [c EXCEPT !.marks = @ \cup noted]
  OBVIOUS
<1>4. /\ b \in UseRecords /\ b.at = c.at /\ SameAsk(b, c) /\ SameRuling(b, c) /\ SameTold(b, c)
      /\ b.marks = c.marks \cup noted
  BY <1>2, <1>3 DEF UseRecords, Marks, SameAsk, SameRuling, SameTold
<1>5. PICK d : d = Observed(c)
  OBVIOUS
<1>6. d = [b EXCEPT !.saw = trace.root]
  BY <1>1, <1>3, <1>5 DEF Observed, UseRecords
<1>7. /\ d \in UseRecords /\ d.at = c.at /\ SameAsk(d, c) /\ SameRuling(d, c) /\ SameTold(d, c)
      /\ d.saw = trace.root /\ d.marks = c.marks \cup noted
  BY <1>4, <1>6 DEF UseRecords, SameAsk, SameRuling, SameTold
<1>8. QED
  BY <1>2, <1>5, <1>7 DEF Noted

\* The span of a tool call ends, and is charged to the agent span at work.
LEMMA SpanEndsKeeps ==
  ASSUME AgentsInv, NEW u \in Uses, SpanEnds(u)
  PROVE  AgentsInv'
<1>1. /\ AgentUse(use[u]) /\ use[u] \in UseRecords /\ use[u].at \in {"refused", "returned", "failed"}
      /\ use[u].route = "function" /\ ~Noted(use[u], "observed") /\ ~Noted(use[u], "charged")
  BY DEF SpanEnds, AgentsInv, AgentUse
<1>2. FunctionCall(use[u])
  BY <1>1 DEF AgentUse, ModelCall
<1>3. PICK d : d = Observed(use[u])
  OBVIOUS
<1>4. use' = [use EXCEPT ![u] = d]
  BY <1>3 DEF SpanEnds
<1>5. /\ trace.root \in Nat /\ trace.steps \in Nat /\ trace.spans \in Nat /\ trace.open \in BOOLEAN
      /\ MaxSteps \in Nat
  BY ToolAssumption DEF AgentsInv, TraceFits
<1>6. /\ d \in UseRecords /\ d.at = use[u].at /\ SameAsk(d, use[u]) /\ SameRuling(d, use[u]) /\ SameTold(d, use[u])
      /\ d.saw = trace.root /\ use[u].marks \subseteq d.marks
      /\ d.marks \subseteq use[u].marks \cup {"unjudged", "overstep", "charged", "observed"}
      /\ Noted(d, "observed")
      /\ Noted(d, "unjudged") <=> Noted(use[u], "unjudged") \/ (use[u].tool \in Denied /\ use[u].tool \notin registry)
      /\ Noted(d, "charged") <=> Noted(use[u], "charged") \/ trace.open
      /\ Noted(d, "overstep") <=> Noted(use[u], "overstep") \/ trace.steps >= MaxSteps
  BY <1>1, <1>3, <1>5, ObservedFields
<1>7. d.at = "refused" => ~Noted(d, "unjudged")
  BY <1>1, <1>2, <1>6 DEF FunctionCall, SameAsk
<1>8. FunctionCall(d)
  BY <1>1, <1>2, <1>6, <1>7
  DEF FunctionCall, GateOrSilent, GateShape, Unspoken, Slipped, Noted, SameAsk, SameRuling, SameTold
<1>9. AgentUse(d)
  BY <1>1, <1>6, <1>8 DEF AgentUse
<1>10. /\ use' \in [Uses -> UseRecords] /\ use'[u] = d
       /\ \A v \in Uses : v # u => use'[v] = use[v]
  BY <1>4, <1>6, OneChanged DEF AgentsInv
<1>11. (\A v \in Uses : AgentUse(use[v]))'
  <2>1. \A v \in Uses : AgentUse(use'[v])
    BY <1>9, <1>10 DEF AgentsInv
  <2>2. QED
    BY <2>1 DEF AgentUse, FunctionCall, ModelCall, GateOrSilent, GateShape, Unspoken, Slipped, DetachedGate,
                SpanEnds, gateVars, Ran, Noted
<1>12. GatesFit'
  BY DEF AgentsInv, GatesFit, DetachedGate, Reached, SpanEnds, gateVars
<1>13. TraceFits'
  <2> DEFINE counted == trace.open /\ trace.steps < MaxSteps /\ ~Noted(use[u], "overstep")
  <2>1. PICK root : root = trace.root
    OBVIOUS
  <2>2. \A r : u \notin Charges(r)
    BY <1>1 DEF Charges
  <2>3. \A r : Charges(r)' = IF counted /\ r = root THEN Charges(r) \cup {u} ELSE Charges(r)
    BY <1>1, <1>5, <1>6, <1>10, <2>1, <2>2 DEF Charges, Noted
  <2>4. \A r : IsFiniteSet(Charges(r)) /\ Cardinality(Charges(r)) \in Nat
    BY ChargesFinite
  <2>5. \A r : Cardinality(Charges(r)') =
                 IF counted /\ r = root THEN Cardinality(Charges(r)) + 1 ELSE Cardinality(Charges(r))
    BY <2>2, <2>3, <2>4, FS_AddElement
  <2>6. /\ trace' \in [spans : Nat, depth : Nat, root : Nat, nested : SUBSET Nat, open : BOOLEAN, steps : Nat]
        /\ trace'.spans = trace.spans /\ trace'.depth = trace.depth /\ trace'.root = trace.root
        /\ trace'.nested = trace.nested /\ trace'.open = trace.open
        /\ trace'.steps = IF trace.open THEN trace.steps + 1 ELSE trace.steps
    BY DEF SpanEnds, AgentsInv, TraceFits
  <2>7. trace.open => trace.root \in 1..trace.spans
    BY DEF AgentsInv, TraceFits
  <2>8. \A v \in Uses : Noted(use'[v], "charged") => use'[v].saw <= trace.spans
    BY <1>1, <1>5, <1>6, <1>10, <2>7 DEF AgentsInv, TraceFits
  <2>9. \A r \in 1..trace.spans \ trace.nested : Cardinality(Charges(r)') <= MaxSteps
    <3>1. SUFFICES ASSUME NEW r \in 1..trace.spans \ trace.nested
                   PROVE  Cardinality(Charges(r)') <= MaxSteps
      OBVIOUS
    <3>2. Cardinality(Charges(r)) <= MaxSteps /\ Cardinality(Charges(r)) \in Nat
      BY <2>4 DEF AgentsInv, TraceFits
    <3>3. trace.open /\ r = root => Cardinality(Charges(r)) <= trace.steps
      BY <2>1 DEF AgentsInv, TraceFits
    <3>4. QED
      BY <1>5, <2>5, <3>2, <3>3
  <2>10. trace.open /\ root \notin trace.nested => Cardinality(Charges(root)') <= trace.steps + 1
    <3>1. trace.open /\ root \notin trace.nested => Cardinality(Charges(root)) <= trace.steps
      BY <2>1 DEF AgentsInv, TraceFits
    <3>2. Cardinality(Charges(root)) \in Nat
      BY <2>4
    <3>3. QED
      BY <1>5, <2>5, <3>1, <3>2
  <2>11. /\ trace'.depth > 0 => trace'.root \in 1..trace'.spans
         /\ trace'.open => trace'.depth > 0
         /\ trace'.nested \subseteq 1..trace'.spans
    BY <2>6 DEF AgentsInv, TraceFits
  <2>12. QED
    BY <2>1, <2>6, <2>8, <2>9, <2>10, <2>11 DEF TraceFits, Noted
<1>14. QED
  BY <1>10, <1>11, <1>12, <1>13 DEF AgentsInv

\* Gates come and go while calls are under way.
LEMMA AttachToolGateKeeps ==
  ASSUME AgentsInv, boundary \in Boundaries, Agentic, NEW a \in Agents, AttachToolGate(a)
  PROVE  AgentsInv'
<1>1. registry' = registry \cup Ungated(a) /\ wrapped' = wrapped /\ use' = use /\ trace' = trace /\ boundary' = boundary
  BY DEF AttachToolGate
<1>2. Reached(a) \subseteq Tools /\ Ungated(a) \subseteq Tools
  BY BoundaryAssumption DEF Agentic, Reached, Ungated
<1>3. GatesFit' /\ \A t : DetachedGate(t) => DetachedGate(t)'
  <2>1. CASE Reached(a) \cap boundary.unguardable # {}
    <3>1. UNCHANGED <<guards, gates>>
      BY <2>1 DEF AttachToolGate
    <3>2. QED
      BY <1>1, <3>1 DEF AgentsInv, GatesFit, DetachedGate, Reached
  <2>2. CASE Reached(a) \cap boundary.unguardable = {}
    <3>1. /\ guards' = [t \in Tools |-> IF t \in Ungated(a) THEN a ELSE guards[t]]
          /\ gates' = [gates EXCEPT ![a] = [handle |-> "held", attached |-> Ungated(a)]]
      BY <2>2 DEF AttachToolGate
    <3>2. PICK mine \in SUBSET Tools : mine = Ungated(a)
      BY <1>2
    <3>3. a # "none" /\ gates[a].handle = "none"
      BY DEF Agents, AttachToolGate
    <3>4. /\ guards' \in [Tools -> Agents \cup {"none"}]
          /\ \A t \in Tools : guards'[t] # "none" <=> guards[t] # "none" \/ t \in mine
      BY <3>1, <3>2, <3>3 DEF AgentsInv, GatesFit
    <3>5. /\ gates' \in [Agents -> [handle : {"none", "held", "detached"}, attached : SUBSET Tools]]
          /\ gates'[a].handle = "held"
          /\ \A b \in Agents : b # a => gates'[b] = gates[b]
      BY <3>1, <3>2 DEF AgentsInv, GatesFit
    <3>6. \A t : DetachedGate(t) => DetachedGate(t)'
      BY <3>3, <3>5 DEF DetachedGate
    <3>7. \A t \in Reached(a) : guards'[t] # "none"
      <4>1. SUFFICES ASSUME NEW t \in Reached(a) PROVE guards'[t] # "none"
        OBVIOUS
      <4>2. t \in Tools /\ (guards[t] = "none" => t \in mine)
        BY <1>2, <2>2, <3>2 DEF Ungated
      <4>3. QED
        BY <3>4, <4>2
    <3>8. \A b \in Agents : gates'[b].handle = "held" =>
            \A t \in Reached(b) : guards'[t] # "none" \/ DetachedGate(t)'
      <4>1. SUFFICES ASSUME NEW b \in Agents, gates'[b].handle = "held", NEW t \in Reached(b)
                     PROVE  guards'[t] # "none" \/ DetachedGate(t)'
        OBVIOUS
      <4>2. CASE b = a
        BY <3>7, <4>1, <4>2
      <4>3. CASE b # a
        <5>1. guards[t] # "none" \/ DetachedGate(t)
          BY <3>5, <4>1, <4>3 DEF AgentsInv, GatesFit
        <5>2. t \in Tools
          BY <4>1, BoundaryAssumption DEF Agentic, Reached
        <5>3. QED
          BY <3>4, <3>6, <5>1, <5>2
      <4>4. QED
        BY <4>2, <4>3
    <3>9. \A b : Reached(b)' = Reached(b)
      BY <1>1 DEF Reached
    <3>10. /\ wrapped' \subseteq Tools /\ wrapped' \subseteq registry'
          /\ \A t \in Tools : guards'[t] # "none" => t \in registry'
      BY <1>1, <3>2, <3>4 DEF AgentsInv, GatesFit
    <3>11. GatesFit'
      BY <3>4, <3>5, <3>8, <3>9, <3>10 DEF GatesFit
    <3>12. QED
      BY <3>6, <3>11
  <2>3. QED
    BY <2>1, <2>2
<1>4. registry \subseteq registry'
  BY <1>1
<1>5. (\A u \in Uses : AgentUse(use[u]))'
  <2>1. \A u \in Uses : AgentUse(use[u])
    BY DEF AgentsInv
  <2>2. QED
    BY <1>1, <1>3, <1>4, <2>1
    DEF AgentUse, FunctionCall, ModelCall, GateOrSilent, GateShape, Unspoken, Slipped, Ran, Noted
<1>6. TraceFits' /\ use' \in [Uses -> UseRecords]
  BY <1>1 DEF AgentsInv, TraceFits, Charges, Noted
<1>7. QED
  BY <1>3, <1>5, <1>6 DEF AgentsInv

\* A handle is detached: the calls it held are excused by it.
LEMMA DetachKeeps ==
  ASSUME AgentsInv, boundary \in Boundaries, Agentic, NEW a \in Agents, Detach(a)
  PROVE  AgentsInv'
<1>1. registry' = registry /\ wrapped' = wrapped /\ use' = use /\ trace' = trace /\ boundary' = boundary
  BY DEF Detach, gateVars
<1>2. PICK mine \in SUBSET Tools : mine = gates[a].attached
  BY DEF AgentsInv, GatesFit
<1>3. /\ guards' \in [Tools -> Agents \cup {"none"}]
      /\ \A t \in Tools : guards'[t] # "none" <=> guards[t] # "none" /\ t \notin mine
  BY <1>2 DEF AgentsInv, GatesFit, Detach
<1>4. /\ gates' \in [Agents -> [handle : {"none", "held", "detached"}, attached : SUBSET Tools]]
      /\ gates'[a].handle = "detached" /\ gates'[a].attached = mine
      /\ \A b \in Agents : b # a => gates'[b] = gates[b]
  BY <1>2 DEF AgentsInv, GatesFit, Detach
<1>5. \A t : DetachedGate(t) => DetachedGate(t)'
  BY <1>2, <1>4 DEF DetachedGate, Detach
<1>6. \A t \in mine : DetachedGate(t)'
  BY <1>4 DEF DetachedGate
<1>7. \A b \in Agents : gates'[b].handle = "held" => \A t \in Reached(b) : guards'[t] # "none" \/ DetachedGate(t)'
  <2>1. SUFFICES ASSUME NEW b \in Agents, gates'[b].handle = "held", NEW t \in Reached(b)
                 PROVE  guards'[t] # "none" \/ DetachedGate(t)'
    OBVIOUS
  <2>2. b # a /\ gates[b].handle = "held"
    BY <1>4, <2>1
  <2>3. guards[t] # "none" \/ DetachedGate(t)
    BY <2>1, <2>2 DEF AgentsInv, GatesFit
  <2>4. t \in Tools
    BY <2>1, BoundaryAssumption DEF Agentic, Reached
  <2>5. QED
    BY <1>3, <1>5, <1>6, <2>3, <2>4
<1>8. \A b : Reached(b)' = Reached(b)
  BY <1>1 DEF Reached
<1>9. /\ wrapped' \subseteq Tools /\ wrapped' \subseteq registry'
      /\ \A t \in Tools : guards'[t] # "none" => t \in registry'
  BY <1>1, <1>3 DEF AgentsInv, GatesFit
<1>10. GatesFit'
  BY <1>3, <1>4, <1>7, <1>8, <1>9 DEF GatesFit
<1>11. (\A u \in Uses : AgentUse(use[u]))'
  <2>1. \A u \in Uses : AgentUse(use[u])
    BY DEF AgentsInv
  <2>2. QED
    BY <1>1, <1>5, <2>1
    DEF AgentUse, FunctionCall, ModelCall, GateOrSilent, GateShape, Unspoken, Slipped, Ran, Noted
<1>12. TraceFits' /\ use' \in [Uses -> UseRecords]
  BY <1>1 DEF AgentsInv, TraceFits, Charges, Noted
<1>13. QED
  BY <1>10, <1>11, <1>12 DEF AgentsInv

\* What does not touch a call, a gate or a name.
LEMMA AgentsStill ==
  ASSUME AgentsInv, UNCHANGED <<boundary, use, gateVars, guards, gates>>, TraceFits'
  PROVE  AgentsInv'
<1>1. GatesFit'
  BY DEF AgentsInv, GatesFit, DetachedGate, Reached, gateVars
<1>2. (\A u \in Uses : AgentUse(use[u]))'
  <2>1. \A u \in Uses : AgentUse(use[u])
    BY DEF AgentsInv
  <2>2. QED
    BY <2>1 DEF AgentUse, FunctionCall, ModelCall, GateOrSilent, GateShape, Unspoken, Slipped, DetachedGate,
                gateVars, Ran, Noted
<1>3. QED
  BY <1>1, <1>2 DEF AgentsInv

\* A span that starts has no charges yet, or is nested in one whose state it replaced.
LEMMA AgentSpanStartsKeeps ==
  ASSUME AgentsInv, AgentSpanStarts
  PROVE  AgentsInv'
<1>1. /\ trace.spans \in Nat /\ trace.depth \in Nat /\ trace.root \in Nat /\ trace.nested \subseteq 1..trace.spans
      /\ MaxSteps \in Nat
  BY ToolAssumption DEF AgentsInv, TraceFits
<1>2. PICK root : root = IF trace.depth = 0 THEN trace.spans + 1 ELSE trace.root
  OBVIOUS
<1>3. PICK nested : nested = IF trace.depth = 0 THEN trace.nested ELSE trace.nested \cup {trace.root}
  OBVIOUS
<1>4. trace' = [spans |-> trace.spans + 1, depth |-> trace.depth + 1, root |-> root, nested |-> nested,
                open |-> TRUE, steps |-> 0]
  BY <1>2, <1>3 DEF AgentSpanStarts
<1>5. trace.depth > 0 => trace.root \in 1..trace.spans
  BY DEF AgentsInv, TraceFits
<1>6. root \in 1..(trace.spans + 1) /\ nested \subseteq 1..trace.spans /\ nested \subseteq 1..(trace.spans + 1)
  BY <1>1, <1>2, <1>3, <1>5
<1>7. \A r : Charges(r)' = Charges(r)
  BY DEF AgentSpanStarts, Charges, Noted
<1>8. Cardinality(Charges(trace.spans + 1)) = 0
  <2>1. Charges(trace.spans + 1) = {}
    BY <1>1 DEF AgentsInv, TraceFits, Charges
  <2>2. QED
    BY <2>1, FS_EmptySet
<1>9. \A r \in 1..(trace.spans + 1) \ nested : Cardinality(Charges(r)') <= MaxSteps
  <2>1. SUFFICES ASSUME NEW r \in 1..(trace.spans + 1) \ nested PROVE Cardinality(Charges(r)) <= MaxSteps
    BY <1>7
  <2>2. CASE r = trace.spans + 1
    BY <1>1, <1>8, <2>2
  <2>3. CASE r \in 1..trace.spans \ trace.nested
    BY <2>3 DEF AgentsInv, TraceFits
  <2>4. QED
    BY <1>1, <1>3, <2>2, <2>3
<1>10. root \notin nested => Cardinality(Charges(root)') <= 0
  <2>1. root \notin nested => root = trace.spans + 1
    BY <1>1, <1>2, <1>3
  <2>2. QED
    BY <1>7, <1>8, <2>1
<1>11. /\ trace'.spans = trace.spans + 1 /\ trace'.depth = trace.depth + 1 /\ trace'.root = root
       /\ trace'.nested = nested /\ trace'.open = TRUE /\ trace'.steps = 0
       /\ trace' \in [spans : Nat, depth : Nat, root : Nat, nested : SUBSET Nat, open : BOOLEAN, steps : Nat]
  <2>1. trace.spans + 1 \in Nat /\ trace.depth + 1 \in Nat /\ root \in Nat /\ nested \in SUBSET Nat
    BY <1>1, <1>6
  <2>2. QED
    BY <1>4, <2>1
<1>12. \A u \in Uses : Noted(use'[u], "charged") => use'[u].saw <= trace.spans + 1
  <2>1. SUFFICES ASSUME NEW u \in Uses, Noted(use[u], "charged") PROVE use[u].saw <= trace.spans + 1
    BY DEF AgentSpanStarts
  <2>2. use[u].saw <= trace.spans /\ use[u].saw \in Nat
    BY <2>1 DEF AgentsInv, TraceFits, UseRecords
  <2>3. QED
    BY <1>1, <2>2
<1>13. TraceFits'
  BY <1>1, <1>6, <1>9, <1>10, <1>11, <1>12 DEF TraceFits, Noted
<1>14. QED
  BY <1>13, AgentsStill DEF AgentSpanStarts

\* The charges of an agent span stay when it ends.
LEMMA AgentSpanEndsKeeps ==
  ASSUME AgentsInv, AgentSpanEnds
  PROVE  AgentsInv'
<1>1. trace \in [spans : Nat, depth : Nat, root : Nat, nested : SUBSET Nat, open : BOOLEAN, steps : Nat]
  BY DEF AgentsInv, TraceFits
<1>2. PICK b : b = [trace EXCEPT !.depth = @ - 1]
  OBVIOUS
<1>3. /\ b \in [spans : Nat, depth : Nat, root : Nat, nested : SUBSET Nat, open : BOOLEAN, steps : Nat]
      /\ b.depth <= trace.depth /\ b.spans = trace.spans /\ b.root = trace.root /\ b.nested = trace.nested
  BY <1>1, <1>2 DEF AgentSpanEnds
<1>4. trace' = [b EXCEPT !.open = FALSE, !.steps = 0]
  BY <1>1, <1>2 DEF AgentSpanEnds
<1>5. /\ trace' \in [spans : Nat, depth : Nat, root : Nat, nested : SUBSET Nat, open : BOOLEAN, steps : Nat]
      /\ trace'.depth = b.depth /\ trace'.spans = trace.spans /\ trace'.root = trace.root
      /\ trace'.nested = trace.nested /\ trace'.open = FALSE
  BY <1>3, <1>4
<1>6. \A r : Charges(r)' = Charges(r)
  BY DEF AgentSpanEnds, Charges, Noted
<1>7. trace'.depth > 0 => trace.depth > 0
  BY <1>1, <1>3, <1>5
<1>8. TraceFits'
  BY <1>5, <1>6, <1>7 DEF AgentsInv, TraceFits, AgentSpanEnds, Noted
<1>9. QED
  BY <1>8, AgentsStill DEF AgentSpanEnds

\* A step of the agents framework.
LEMMA AgentsStep ==
  ASSUME AgentsInv, boundary \in Boundaries, Agentic, AgentsNext
  PROVE  AgentsInv'
BY AttachToolGateKeeps, DetachKeeps, AgentSpanStartsKeeps, AgentSpanEndsKeeps, AgentCallsToolKeeps,
   AgentInvokesToolKeeps, SpanEndsKeeps, AgentCallsModelKeeps, ModelRequestJudgedKeeps, ModelSpanEndsKeeps
DEF AgentsNext

----------------------------------------------------------------------------
(* Calls of a runner.                                                      *)

Entries == {"on", "off", "abort"} \X (Listeners \cup {"none"})
RunRecords ==
  [at : {"idle", "governing", "allowed", "rejected", "running", "over", "failed"}, pending : Seq(Entries),
   outcome : BOOLEAN, aborted : BOOLEAN, delivered : BOOLEAN, reached : BOOLEAN, abandoned : BOOLEAN,
   error : BOOLEAN, refusals : Nat, starts : Nat, finished : Nat, events : Nat]

\* What a run owes its caller and the record, by its place.
RunShape(r) ==
  /\ r \in RunRecords
  /\ r.at \in {"idle", "governing"} => ~r.outcome /\ ~r.error /\ r.refusals = 0
  /\ r.at = "allowed" => r.outcome /\ ~r.error
  /\ r.at \in {"rejected", "failed"} => IF r.outcome THEN r.error ELSE r.refusals = 1 /\ ~r.error
  /\ r.at \in {"running", "over"} => r.outcome
  /\ r.reached <=> r.at \in {"running", "over"}
  /\ r.reached => ~r.abandoned
  /\ r.abandoned => r.aborted
  /\ r.delivered <=> r.at = "failed"
  /\ r.starts = IF r.outcome /\ ToolRun THEN 1 ELSE 0
  /\ r.finished <= 1
  /\ r.finished = 0 => r.events = 0
  /\ r.finished = 1 =>
       /\ r.at \in {"failed", "over"}
       /\ r.events = (IF r.outcome THEN 1 ELSE 0) \/ (r.outcome /\ ~ToolRun /\ ~r.error)

\* A listener waits in the queue once; when a failure was delivered it has been told.
Ons(pending, l) == {i \in DOMAIN pending : pending[i] = <<"on", l>>}
ListenerShape(place, ons, x) ==
  /\ x \in [on : {"none", "queued", "live", "owed", "off"}, told : Nat]
  /\ place \in {"idle", "governing", "allowed", "rejected"} =>
       /\ x.told = 0
       /\ (x.on = "none" /\ ons = {}) \/ (x.on = "queued" /\ Cardinality(ons) = 1)
  /\ place = "failed" => x.on # "live" /\ x.told = IF x.on \in {"none", "owed"} THEN 0 ELSE 1
  /\ place = "running" => x.on # "owed" /\ x.told = 0
  /\ place = "over" => x.on # "owed" /\ x.told <= 1

RunnerUse(c) ==
  /\ c \in UseRecords
  /\ c.at = "idle" => c = NoUse
  /\ c.at # "idle" =>
       /\ c.route = "callback" /\ c.tool \in boundary.offers /\ ~Noted(c, "silent")
       /\ c.at \in {"judging", "running", "refused", "returned", "failed"}
       /\ IF c.tool \in wrapped THEN c.rulings = 1 /\ GateShape(c)
          ELSE c.tool \in boundary.uncallable /\ c.events = 0 /\ c.at \in {"running", "returned", "failed"}
  /\ Noted(c, "gate") => Noted(c, "observed")
  /\ Noted(c, "observed") =>
       c.at \in {"refused", "returned", "failed"} /\ (Noted(c, "gate") <=> c.tool \in wrapped)

\* Tools are called while the run is on, and all of them are observed when it ended well.
RunCalls ==
  /\ run.outcome /\ ToolRun => wrapped = Gated
  /\ \A u \in Uses : use[u].at # "idle" => ToolRun /\ run.at \in {"running", "over"}
  /\ run.at = "over" /\ ~run.error => \A u \in Uses : use[u].at = "idle" \/ Noted(use[u], "observed")

ListensFit ==
  /\ listens \in [Listeners -> [on : {"none", "queued", "live", "owed", "off"}, told : Nat]]
  /\ \A l \in Listeners : ListenerShape(run.at, Ons(run.pending, l), listens[l])

RunnerInv ==
  /\ use \in [Uses -> UseRecords]
  /\ \A u \in Uses : RunnerUse(use[u])
  /\ RunShape(run) /\ RunCalls /\ ListensFit

\* An entry more in the queue.
LEMMA QueuedOns ==
  ASSUME NEW pending \in Seq(Entries), NEW kind \in {"on", "off", "abort"}, NEW m \in Listeners \cup {"none"}
  PROVE  /\ Append(pending, <<kind, m>>) \in Seq(Entries)
         /\ \A l \in Listeners : Ons(Append(pending, <<kind, m>>), l) =
                     IF kind = "on" /\ l = m THEN Ons(pending, l) \cup {Len(pending) + 1} ELSE Ons(pending, l)
<1>1. PICK entry \in Entries : entry = <<kind, m>>
  BY DEF Entries
<1>2. PICK longer : longer = Append(pending, entry)
  OBVIOUS
<1>3. /\ longer \in Seq(Entries) /\ Len(pending) \in Nat
      /\ DOMAIN pending = 1..Len(pending) /\ DOMAIN longer = 1..(Len(pending) + 1)
      /\ \A i \in 1..Len(pending) : longer[i] = pending[i]
      /\ longer[Len(pending) + 1] = entry
  BY <1>1, <1>2
<1>4. \A l : entry = <<"on", l>> <=> kind = "on" /\ l = m
  BY <1>1
<1>5. \A l \in Listeners : Ons(longer, l) = IF kind = "on" /\ l = m THEN Ons(pending, l) \cup {Len(pending) + 1} ELSE Ons(pending, l)
  <2>1. SUFFICES ASSUME NEW l \in Listeners
                 PROVE  Ons(longer, l) = IF kind = "on" /\ l = m THEN Ons(pending, l) \cup {Len(pending) + 1} ELSE Ons(pending, l)
    OBVIOUS
  <2>2. PICK mine : mine = <<"on", l>>
    OBVIOUS
  <2>3. /\ Ons(longer, l) = {i \in 1..(Len(pending) + 1) : longer[i] = mine}
        /\ Ons(pending, l) = {i \in 1..Len(pending) : pending[i] = mine}
    BY <1>3, <2>2 DEF Ons
  <2>4. entry = mine <=> kind = "on" /\ l = m
    BY <1>4, <2>2
  <2>5. QED
    BY <1>3, <2>3, <2>4
<1>6. QED
  BY <1>1, <1>2, <1>3, <1>5

\* The run moves while the calls stand still.
LEMMA RunMoves ==
  ASSUME RunnerInv, UNCHANGED <<boundary, use, wrapped>>, RunShape(run'), RunCalls', ListensFit'
  PROVE  RunnerInv'
<1>1. (\A u \in Uses : RunnerUse(use[u]))'
  <2>1. \A u \in Uses : RunnerUse(use[u])
    BY DEF RunnerInv
  <2>2. QED
    BY <2>1 DEF RunnerUse, GateShape, Unspoken, Noted
<1>2. RunShape(run)'
  BY DEF RunShape, ToolRun
<1>3. QED
  BY <1>1, <1>2 DEF RunnerInv

\* A run at another place, with the same queue.
LEMMA CallerRunsKeeps ==
  ASSUME RunnerInv, CallerRuns
  PROVE  RunnerInv'
<1>1. run \in RunRecords /\ run.at = "idle" /\ ~run.outcome /\ ~run.reached
  BY DEF CallerRuns, RunnerInv, RunShape
<1>2. PICK r : r = [run EXCEPT !.at = "governing"]
  OBVIOUS
<1>3. run' = r
  BY <1>2 DEF CallerRuns
<1>4. /\ r \in RunRecords /\ r.at = "governing" /\ r.pending = run.pending /\ r.outcome = run.outcome
      /\ r.aborted = run.aborted /\ r.delivered = run.delivered /\ r.reached = run.reached
      /\ r.abandoned = run.abandoned /\ r.error = run.error /\ r.refusals = run.refusals /\ r.starts = run.starts
      /\ r.finished = run.finished /\ r.events = run.events
  BY <1>1, <1>2 DEF RunRecords
<1>5. RunShape(r)
  BY <1>1, <1>4 DEF RunnerInv, RunShape
<1>6. RunCalls'
  BY <1>1, <1>3, <1>4 DEF RunnerInv, RunCalls, CallerRuns, gateVars, Gated, ToolRun, Noted
<1>7. ListensFit'
  BY <1>1, <1>3, <1>4 DEF RunnerInv, ListensFit, ListenerShape, CallerRuns
<1>8. QED
  BY <1>3, <1>5, <1>6, <1>7, RunMoves DEF CallerRuns, gateVars

\* The same run with another queue.
SameRun(d, r) ==
  /\ d.at = r.at /\ d.outcome = r.outcome /\ d.delivered = r.delivered /\ d.reached = r.reached
  /\ d.error = r.error /\ d.refusals = r.refusals /\ d.starts = r.starts
  /\ d.finished = r.finished /\ d.events = r.events

\* A run with an entry more in its queue.
LEMMA QueueFields ==
  ASSUME run \in RunRecords, NEW kind \in {"on", "off", "abort"}, NEW m \in Listeners \cup {"none"}
  PROVE  LET d == Queue(<<kind, m>>) IN
         /\ d \in RunRecords /\ SameRun(d, run) /\ d.aborted = run.aborted /\ d.abandoned = run.abandoned
         /\ \A l \in Listeners : Ons(d.pending, l) =
                     IF kind = "on" /\ l = m THEN Ons(run.pending, l) \cup {Len(run.pending) + 1} ELSE Ons(run.pending, l)
<1>1. PICK longer : longer = Append(run.pending, <<kind, m>>)
  OBVIOUS
<1>2. run.pending \in Seq(Entries)
  BY DEF RunRecords
<1>3. /\ longer \in Seq(Entries)
      /\ \A l \in Listeners : Ons(longer, l) =
                  IF kind = "on" /\ l = m THEN Ons(run.pending, l) \cup {Len(run.pending) + 1} ELSE Ons(run.pending, l)
  <2>1. PICK pending \in Seq(Entries) : pending = run.pending
    BY <1>2
  <2>2. /\ Append(pending, <<kind, m>>) \in Seq(Entries)
        /\ \A l \in Listeners : Ons(Append(pending, <<kind, m>>), l) =
                    IF kind = "on" /\ l = m THEN Ons(pending, l) \cup {Len(pending) + 1} ELSE Ons(pending, l)
    BY QueuedOns
  <2>3. QED
    BY <1>1, <2>1, <2>2
<1>4. PICK d : d = Queue(<<kind, m>>)
  OBVIOUS
<1>5. d = [run EXCEPT !.pending = longer]
  BY <1>1, <1>4 DEF Queue
<1>6. d \in RunRecords /\ SameRun(d, run) /\ d.aborted = run.aborted /\ d.abandoned = run.abandoned /\ d.pending = longer
  BY <1>3, <1>5 DEF RunRecords, SameRun
<1>7. QED
  BY <1>3, <1>4, <1>6

\* A run that differs in its queue and in what its caller wants keeps its shape.
LEMMA SameRunShape ==
  ASSUME RunShape(run), NEW d \in RunRecords, SameRun(d, run), d.reached => ~d.abandoned, d.abandoned => d.aborted
  PROVE  RunShape(d)
BY DEF RunShape, SameRun

\* A listener is added at the end of the queue, once.
LEMMA CallerListensKeeps ==
  ASSUME RunnerInv, NEW l \in Listeners, CallerListens(l)
  PROVE  RunnerInv'
<1>1. run \in RunRecords /\ RunShape(run) /\ run.at # "idle" /\ listens[l].on = "none"
  BY DEF CallerListens, RunnerInv, RunShape
<1>2. PICK place \in {"live", "owed", "queued"} : place = IF Live THEN "live" ELSE IF run.delivered THEN "owed" ELSE "queued"
  OBVIOUS
<1>3. /\ listens' = [listens EXCEPT ![l].on = place]
      /\ run' = IF place = "queued" THEN Queue(<<"on", l>>) ELSE run
  BY <1>2 DEF CallerListens
<1>4. /\ run' \in RunRecords /\ SameRun(run', run) /\ run'.aborted = run.aborted /\ run'.abandoned = run.abandoned
      /\ \A m \in Listeners : Ons(run'.pending, m) =
                  IF place = "queued" /\ m = l THEN Ons(run.pending, m) \cup {Len(run.pending) + 1} ELSE Ons(run.pending, m)
  BY <1>1, <1>3, QueueFields DEF SameRun
<1>5. RunShape(run')
  BY <1>1, <1>4, SameRunShape DEF RunShape, SameRun
<1>6. /\ listens' \in [Listeners -> [on : {"none", "queued", "live", "owed", "off"}, told : Nat]]
      /\ listens'[l].on = place /\ listens'[l].told = listens[l].told
      /\ \A m \in Listeners : m # l => listens'[m] = listens[m]
  BY <1>2, <1>3 DEF RunnerInv, ListensFit
<1>7. ListenerShape(run.at, Ons(run'.pending, l), listens'[l])
  <2>1. ListenerShape(run.at, Ons(run.pending, l), listens[l])
    BY DEF RunnerInv, ListensFit
  <2>2. place = "queued" => Cardinality(Ons(run'.pending, l)) = 1 \/ Ons(run.pending, l) # {}
    <3>1. SUFFICES ASSUME place = "queued", Ons(run.pending, l) = {}
                   PROVE  Cardinality(Ons(run'.pending, l)) = 1
      OBVIOUS
    <3>2. Ons(run'.pending, l) = {Len(run.pending) + 1}
      BY <1>4, <3>1
    <3>3. QED
      BY <3>2, FS_Singleton
  <2>3. place = "live" <=> run.at \in {"running", "over"}
    BY <1>2 DEF Live
  <2>4. place = "owed" <=> run.at = "failed"
    BY <1>1, <1>2 DEF Live, RunShape
  <2>5. listens'[l] \in [on : {"none", "queued", "live", "owed", "off"}, told : Nat]
    BY <1>6
  <2>6. QED
    BY <1>1, <1>2, <1>6, <2>1, <2>2, <2>3, <2>4, <2>5 DEF ListenerShape, RunRecords
<1>8. \A m \in Listeners : ListenerShape(run'.at, Ons(run'.pending, m), listens'[m])
  <2>1. SUFFICES ASSUME NEW m \in Listeners, m # l
                 PROVE  ListenerShape(run.at, Ons(run.pending, m), listens[m])
    BY <1>4, <1>6, <1>7 DEF SameRun
  <2>2. QED
    BY DEF RunnerInv, ListensFit
<1>9. ListensFit'
  BY <1>6, <1>8 DEF ListensFit, ListenerShape
<1>10. RunCalls'
  BY <1>4 DEF RunnerInv, RunCalls, CallerListens, SameRun, gateVars, Gated, ToolRun, Noted
<1>11. QED
  BY <1>5, <1>9, <1>10, RunMoves DEF CallerListens, gateVars

\* What became of the listeners where only one of them, or the queue, changed.
LEMMA CallerUnlistensKeeps ==
  ASSUME RunnerInv, NEW l \in Listeners, CallerUnlistens(l)
  PROVE  RunnerInv'
<1>1. run \in RunRecords /\ RunShape(run) /\ listens[l].on \in {"queued", "live"}
  BY DEF CallerUnlistens, RunnerInv, RunShape
<1>2. CASE Live
  <2>1. listens' = [listens EXCEPT ![l].on = "off"] /\ run' = run
    BY <1>2 DEF CallerUnlistens
  <2>2. /\ listens' \in [Listeners -> [on : {"none", "queued", "live", "owed", "off"}, told : Nat]]
        /\ listens'[l].on = "off" /\ listens'[l].told = listens[l].told
        /\ \A m \in Listeners : m # l => listens'[m] = listens[m]
    BY <2>1 DEF RunnerInv, ListensFit
  <2>3. \A m \in Listeners : ListenerShape(run.at, Ons(run.pending, m), listens[m])
    BY DEF RunnerInv, ListensFit
  <2>4. ListenerShape(run.at, Ons(run.pending, l), listens'[l])
    BY <1>2, <2>2, <2>3 DEF ListenerShape, Live
  <2>5. \A m \in Listeners : ListenerShape(run.at, Ons(run.pending, m), listens'[m])
    BY <2>2, <2>3, <2>4
  <2>6. ListensFit'
    BY <2>1, <2>2, <2>5 DEF ListensFit, ListenerShape
  <2>7. RunCalls'
    BY <2>1 DEF RunnerInv, RunCalls, CallerUnlistens, gateVars, Gated, ToolRun, Noted
  <2>8. QED
    BY <1>1, <2>1, <2>6, <2>7, RunMoves DEF CallerUnlistens, gateVars
<1>3. CASE ~Live
  <2>1. run' = Queue(<<"off", l>>) /\ listens' = listens
    BY <1>3 DEF CallerUnlistens
  <2>2. /\ run' \in RunRecords /\ SameRun(run', run) /\ run'.aborted = run.aborted /\ run'.abandoned = run.abandoned
        /\ \A m \in Listeners : Ons(run'.pending, m) = Ons(run.pending, m)
    <3>1. PICK kind \in {"on", "off", "abort"} : kind = "off"
      OBVIOUS
    <3>2. /\ run' \in RunRecords /\ SameRun(run', run) /\ run'.aborted = run.aborted /\ run'.abandoned = run.abandoned
          /\ \A m \in Listeners : Ons(run'.pending, m) =
               IF kind = "on" /\ m = l THEN Ons(run.pending, m) \cup {Len(run.pending) + 1} ELSE Ons(run.pending, m)
      BY <1>1, <2>1, <3>1, QueueFields
    <3>3. QED
      BY <3>1, <3>2
  <2>3. RunShape(run')
    BY <1>1, <2>2, SameRunShape DEF RunShape, SameRun
  <2>4. ListensFit'
    BY <2>1, <2>2 DEF RunnerInv, ListensFit, ListenerShape, SameRun
  <2>5. RunCalls'
    BY <2>2 DEF RunnerInv, RunCalls, CallerUnlistens, SameRun, gateVars, Gated, ToolRun, Noted
  <2>6. QED
    BY <2>3, <2>4, <2>5, RunMoves DEF CallerUnlistens, gateVars
<1>4. QED
  BY <1>2, <1>3

\* The caller gives up, at once or through the queue.
LEMMA CallerAbortsKeeps ==
  ASSUME RunnerInv, CallerAborts
  PROVE  RunnerInv'
<1>1. run \in RunRecords /\ RunShape(run)
  BY DEF RunnerInv, RunShape
<1>2. PICK b : b = IF Live THEN run ELSE Queue(<<"abort", "none">>)
  OBVIOUS
<1>3. /\ b \in RunRecords /\ SameRun(b, run)
      /\ \A l \in Listeners : Ons(b.pending, l) = Ons(run.pending, l)
  <2>1. PICK kind \in {"on", "off", "abort"} : kind = "abort"
    OBVIOUS
  <2>2. PICK m \in Listeners \cup {"none"} : m = "none"
    OBVIOUS
  <2>3. PICK q : q = Queue(<<kind, m>>)
    OBVIOUS
  <2>4. /\ q \in RunRecords /\ SameRun(q, run)
        /\ \A l \in Listeners : Ons(q.pending, l) =
             IF kind = "on" /\ l = m THEN Ons(run.pending, l) \cup {Len(run.pending) + 1} ELSE Ons(run.pending, l)
    BY <1>1, <2>3, QueueFields
  <2>5. b = IF Live THEN run ELSE q
    BY <1>2, <2>1, <2>2, <2>3
  <2>6. QED
    BY <1>1, <2>1, <2>4, <2>5 DEF SameRun
<1>4. \E gone \in BOOLEAN :
        (run.at \in {"governing", "allowed"}) = gone /\ (gone => run.at \in {"governing", "allowed"})
  <2>1. CASE run.at \in {"governing", "allowed"}
    BY <2>1, Zenon
  <2>2. CASE ~(run.at \in {"governing", "allowed"})
    <3>1. (run.at \in {"governing", "allowed"}) = FALSE
      BY <2>2, SMT
    <3>2. FALSE \in BOOLEAN
      BY Zenon
    <3>3. QED
      BY <3>1, <3>2, Zenon
  <2>3. QED
    BY <2>1, <2>2
<1>5. PICK gone \in BOOLEAN :
        (run.at \in {"governing", "allowed"}) = gone /\ (gone => run.at \in {"governing", "allowed"})
  BY <1>4
<1>14. PICK c : c = [b EXCEPT !.aborted = TRUE]
  OBVIOUS
<1>6. c \in RunRecords /\ SameRun(c, run) /\ c.aborted = TRUE /\ c.pending = b.pending
  BY <1>3, <1>14 DEF RunRecords, SameRun
<1>7. run' = [c EXCEPT !.abandoned = gone]
  <2>1. run' = [b EXCEPT !.aborted = TRUE, !.abandoned = run.at \in {"governing", "allowed"}]
    BY <1>2 DEF CallerAborts
  <2>2. run' = [b EXCEPT !.aborted = TRUE, !.abandoned = gone]
    BY <1>5, <2>1, Zenon
  <2>3. QED
    BY <1>3, <1>14, <2>2 DEF RunRecords
<1>8. run' \in RunRecords /\ SameRun(run', run) /\ run'.aborted = TRUE /\ run'.pending = b.pending /\ run'.abandoned = gone
  BY <1>6, <1>7 DEF RunRecords, SameRun
<1>9. run'.reached => ~run'.abandoned
  BY <1>1, <1>5, <1>8 DEF RunShape, SameRun
<1>10. RunShape(run')
  BY <1>1, <1>8, <1>9, SameRunShape
<1>11. ListensFit'
  BY <1>3, <1>8 DEF RunnerInv, ListensFit, ListenerShape, SameRun, CallerAborts
<1>12. RunCalls'
  BY <1>8 DEF RunnerInv, RunCalls, CallerAborts, SameRun, gateVars, Gated, ToolRun, Noted
<1>13. QED
  BY <1>10, <1>11, <1>12, RunMoves DEF CallerAborts, gateVars

\* Governance lets the call pass, with its tools behind the gate, or refuses it.
LEMMA GovernanceAnswersKeeps ==
  ASSUME RunnerInv, GovernanceAnswers
  PROVE  RunnerInv'
<1>1. /\ run \in RunRecords /\ RunShape(run) /\ run.at = "governing" /\ ~run.outcome /\ ~run.error /\ ~run.reached
      /\ run.refusals = 0 /\ ~run.delivered /\ run.starts = 0 /\ run.finished = 0 /\ run.events = 0
  BY DEF GovernanceAnswers, RunnerInv, RunShape, RunRecords
<1>2. \A u \in Uses : use[u] = NoUse
  BY <1>1 DEF RunnerInv, RunCalls, RunnerUse
<1>3. use' = use /\ boundary' = boundary /\ listens' = listens
  BY DEF GovernanceAnswers
<1>4. (\A u \in Uses : RunnerUse(use[u]))'
  <2>1. \A u \in Uses : use'[u] = NoUse
    BY <1>2, <1>3
  <2>2. QED
    BY <2>1, NoUseFields DEF RunnerUse, Noted
<1>5. RunShape(run') /\ run'.at \in {"rejected", "allowed"} /\ run'.pending = run.pending
      /\ (run'.outcome /\ ToolRun => wrapped' = Gated)
  <2>1. CASE run' = [run EXCEPT !.at = "rejected", !.refusals = 1]
    <3>1. PICK b : b = [run EXCEPT !.at = "rejected"]
      OBVIOUS
    <3>2. /\ b \in RunRecords /\ b.at = "rejected" /\ b.pending = run.pending /\ b.outcome = run.outcome
          /\ b.aborted = run.aborted /\ b.delivered = run.delivered /\ b.reached = run.reached
          /\ b.abandoned = run.abandoned /\ b.error = run.error /\ b.starts = run.starts
          /\ b.finished = run.finished /\ b.events = run.events
      BY <1>1, <3>1 DEF RunRecords
    <3>3. run' = [b EXCEPT !.refusals = 1]
      BY <1>1, <2>1, <3>1 DEF RunRecords
    <3>4. /\ run' \in RunRecords /\ run'.at = "rejected" /\ run'.pending = run.pending /\ run'.outcome = run.outcome
          /\ run'.aborted = run.aborted /\ run'.delivered = run.delivered /\ run'.reached = run.reached
          /\ run'.abandoned = run.abandoned /\ run'.error = run.error /\ run'.refusals = 1 /\ run'.starts = run.starts
          /\ run'.finished = run.finished /\ run'.events = run.events
      BY <3>2, <3>3 DEF RunRecords
    <3>5. QED
      BY <1>1, <3>4 DEF RunShape
  <2>2. CASE /\ run' = [run EXCEPT !.at = "allowed", !.outcome = TRUE, !.starts = IF ToolRun THEN 1 ELSE 0]
             /\ wrapped' = IF ToolRun THEN Gated ELSE {}
    <3>1. PICK starts \in {0, 1} : starts = IF ToolRun THEN 1 ELSE 0
      OBVIOUS
    <3>2. PICK b : b = [run EXCEPT !.at = "allowed"]
      OBVIOUS
    <3>3. /\ b \in RunRecords /\ b.at = "allowed" /\ b.pending = run.pending
          /\ b.aborted = run.aborted /\ b.delivered = run.delivered /\ b.reached = run.reached
          /\ b.abandoned = run.abandoned /\ b.error = run.error /\ b.starts = run.starts
          /\ b.finished = run.finished /\ b.events = run.events
      BY <1>1, <3>2 DEF RunRecords
    <3>4. PICK c : c = [b EXCEPT !.outcome = TRUE]
      OBVIOUS
    <3>5. /\ c \in RunRecords /\ c.at = "allowed" /\ c.pending = run.pending /\ c.outcome = TRUE
          /\ c.aborted = run.aborted /\ c.delivered = run.delivered /\ c.reached = run.reached
          /\ c.abandoned = run.abandoned /\ c.error = run.error
          /\ c.finished = run.finished /\ c.events = run.events
      BY <3>3, <3>4 DEF RunRecords
    <3>6. run' = [c EXCEPT !.starts = starts]
      BY <1>1, <2>2, <3>1, <3>2, <3>4 DEF RunRecords
    <3>7. /\ run' \in RunRecords /\ run'.at = "allowed" /\ run'.pending = run.pending /\ run'.outcome = TRUE
          /\ run'.aborted = run.aborted /\ run'.delivered = run.delivered /\ run'.reached = run.reached
          /\ run'.abandoned = run.abandoned /\ run'.error = run.error /\ run'.starts = starts
          /\ run'.finished = run.finished /\ run'.events = run.events
      BY <3>5, <3>6 DEF RunRecords
    <3>8. QED
      BY <1>1, <2>2, <3>1, <3>7 DEF RunShape
  <2>3. QED
    BY <2>1, <2>2 DEF GovernanceAnswers
<1>6. RunCalls'
  BY <1>2, <1>3, <1>5, NoUseFields DEF RunCalls, Gated, ToolRun
<1>7. ListensFit'
  BY <1>1, <1>3, <1>5 DEF RunnerInv, ListensFit, ListenerShape
<1>8. RunShape(run)'
  BY <1>3, <1>5 DEF RunShape, ToolRun
<1>9. QED
  BY <1>3, <1>4, <1>6, <1>7, <1>8 DEF RunnerInv

\* What the stand-in was told happens to the runner: nobody is owed a failure.
LEMMA ReplayedFields ==
  ASSUME listens \in [Listeners -> [on : {"none", "queued", "live", "owed", "off"}, told : Nat]]
  PROVE  /\ Replayed \in [Listeners -> [on : {"none", "queued", "live", "owed", "off"}, told : Nat]]
         /\ \A l \in Listeners : /\ Replayed[l].told = listens[l].told
                                 /\ Replayed[l].on = "owed" => listens[l].on = "owed"
<1>1. \A l \in Listeners : \E on \in {"live", "off"} : Replayed[l] \in {listens[l], [listens[l] EXCEPT !.on = on]}
  <2>1. SUFFICES ASSUME NEW l \in Listeners
                 PROVE  \E on \in {"live", "off"} : Replayed[l] \in {listens[l], [listens[l] EXCEPT !.on = on]}
    OBVIOUS
  <2>2. PICK about : about = {i \in DOMAIN run.pending : run.pending[i] \in {<<"on", l>>, <<"off", l>>}}
    OBVIOUS
  <2>3. PICK last : last = CHOOSE i \in about : \A j \in about : j <= i
    OBVIOUS
  <2>4. PICK on \in {"live", "off"} : on = IF run.pending[last] = <<"on", l>> THEN "live" ELSE "off"
    OBVIOUS
  <2>5. Replayed[l] = IF about = {} THEN listens[l] ELSE [listens[l] EXCEPT !.on = on]
    BY <2>2, <2>3, <2>4 DEF Replayed
  <2>6. QED
    BY <2>5
<1>2. \A l \in Listeners :
        /\ Replayed[l] \in [on : {"none", "queued", "live", "owed", "off"}, told : Nat]
        /\ Replayed[l].told = listens[l].told
        /\ Replayed[l].on = "owed" => listens[l].on = "owed"
  <2>1. SUFFICES ASSUME NEW l \in Listeners
                 PROVE  /\ Replayed[l] \in [on : {"none", "queued", "live", "owed", "off"}, told : Nat]
                        /\ Replayed[l].told = listens[l].told
                        /\ Replayed[l].on = "owed" => listens[l].on = "owed"
    OBVIOUS
  <2>2. PICK x \in [on : {"none", "queued", "live", "owed", "off"}, told : Nat] : x = listens[l]
    OBVIOUS
  <2>3. PICK on \in {"live", "off"} : Replayed[l] \in {x, [x EXCEPT !.on = on]}
    BY <1>1, <2>2
  <2>4. QED
    BY <2>2, <2>3
<1>3. Replayed = [l \in Listeners |-> Replayed[l]]
  BY Zenon DEF Replayed
<1>4. QED
  BY <1>2, <1>3

\* The runner takes the queue over, or cannot be built.
LEMMA RunnerStartsKeeps ==
  ASSUME RunnerInv, RunnerStarts
  PROVE  RunnerInv'
<1>1. /\ run \in RunRecords /\ RunShape(run) /\ run.at = "allowed" /\ run.outcome /\ ~run.error /\ ~run.reached
      /\ ~run.delivered /\ run.finished = 0 /\ run.events = 0
  BY DEF RunnerStarts, RunnerInv, RunShape, RunRecords
<1>2. CASE run' = [run EXCEPT !.at = "rejected", !.error = TRUE] /\ listens' = listens
  <2>1. PICK b : b = [run EXCEPT !.at = "rejected"]
    OBVIOUS
  <2>2. /\ b \in RunRecords /\ b.at = "rejected" /\ b.pending = run.pending /\ b.outcome = run.outcome
        /\ b.aborted = run.aborted /\ b.delivered = run.delivered /\ b.reached = run.reached
        /\ b.abandoned = run.abandoned /\ b.refusals = run.refusals /\ b.starts = run.starts
        /\ b.finished = run.finished /\ b.events = run.events
    BY <1>1, <2>1 DEF RunRecords
  <2>3. run' = [b EXCEPT !.error = TRUE]
    BY <1>1, <1>2, <2>1 DEF RunRecords
  <2>4. /\ run' \in RunRecords /\ run'.at = "rejected" /\ run'.pending = run.pending /\ run'.outcome = run.outcome
        /\ run'.aborted = run.aborted /\ run'.delivered = run.delivered /\ run'.reached = run.reached
        /\ run'.abandoned = run.abandoned /\ run'.error = TRUE /\ run'.starts = run.starts
        /\ run'.finished = run.finished /\ run'.events = run.events
    BY <2>2, <2>3 DEF RunRecords
  <2>5. RunShape(run')
    BY <1>1, <2>4 DEF RunShape
  <2>6. RunCalls'
    BY <1>1, <2>4 DEF RunnerInv, RunCalls, RunnerStarts, gateVars, Gated, ToolRun, Noted
  <2>7. ListensFit'
    BY <1>1, <1>2, <2>4 DEF RunnerInv, ListensFit, ListenerShape
  <2>8. QED
    BY <2>5, <2>6, <2>7, RunMoves DEF RunnerStarts, gateVars
<1>3. CASE /\ ~run.aborted
           /\ run' = [run EXCEPT !.at = "running", !.reached = TRUE, !.pending = <<>>]
           /\ listens' = Replayed
  <2>1. PICK b : b = [run EXCEPT !.at = "running"]
    OBVIOUS
  <2>2. /\ b \in RunRecords /\ b.at = "running" /\ b.outcome = run.outcome
        /\ b.aborted = run.aborted /\ b.delivered = run.delivered
        /\ b.abandoned = run.abandoned /\ b.error = run.error /\ b.refusals = run.refusals /\ b.starts = run.starts
        /\ b.finished = run.finished /\ b.events = run.events
    BY <1>1, <2>1 DEF RunRecords
  <2>3. PICK c : c = [b EXCEPT !.reached = TRUE]
    OBVIOUS
  <2>4. /\ c \in RunRecords /\ c.at = "running" /\ c.outcome = run.outcome /\ c.reached = TRUE
        /\ c.aborted = run.aborted /\ c.delivered = run.delivered
        /\ c.abandoned = run.abandoned /\ c.error = run.error /\ c.refusals = run.refusals /\ c.starts = run.starts
        /\ c.finished = run.finished /\ c.events = run.events
    BY <2>2, <2>3 DEF RunRecords
  <2>11. PICK empty \in Seq(Entries) : empty = <<>>
    BY EmptySeq
  <2>5. run' = [c EXCEPT !.pending = empty]
    BY <1>1, <1>3, <2>1, <2>3, <2>11 DEF RunRecords
  <2>6. /\ run' \in RunRecords /\ run'.at = "running" /\ run'.outcome = run.outcome /\ run'.reached = TRUE
        /\ run'.aborted = run.aborted /\ run'.delivered = run.delivered
        /\ run'.abandoned = run.abandoned /\ run'.error = run.error /\ run'.refusals = run.refusals
        /\ run'.starts = run.starts /\ run'.finished = run.finished /\ run'.events = run.events
    BY <2>4, <2>5 DEF RunRecords
  <2>7. RunShape(run')
    BY <1>1, <1>3, <2>6 DEF RunShape
  <2>8. RunCalls'
    BY <1>1, <2>6 DEF RunnerInv, RunCalls, RunnerStarts, gateVars, Gated, ToolRun, Noted
  <2>9. ListensFit'
    <3>1. listens \in [Listeners -> [on : {"none", "queued", "live", "owed", "off"}, told : Nat]]
      BY DEF RunnerInv, ListensFit
    <3>2. \A l \in Listeners : listens[l].told = 0 /\ listens[l].on # "owed"
      BY <1>1 DEF RunnerInv, ListensFit, ListenerShape
    <3>3. /\ listens' \in [Listeners -> [on : {"none", "queued", "live", "owed", "off"}, told : Nat]]
          /\ \A l \in Listeners : listens'[l].told = 0 /\ listens'[l].on # "owed"
      BY <1>3, <3>1, <3>2, ReplayedFields
    <3>4. QED
      BY <2>6, <3>3 DEF ListensFit, ListenerShape
  <2>10. QED
    BY <2>7, <2>8, <2>9, RunMoves DEF RunnerStarts, gateVars
<1>4. QED
  BY <1>2, <1>3 DEF RunnerStarts

\* Each listener in the queue is told, once.
LEMMA DeliverFailureKeeps ==
  ASSUME RunnerInv, DeliverFailure
  PROVE  RunnerInv'
<1>1. /\ run \in RunRecords /\ RunShape(run) /\ run.at = "rejected" /\ ~run.reached
      /\ run.finished = 0 /\ run.events = 0
  BY DEF DeliverFailure, RunnerInv, RunShape, RunRecords
<1>2. PICK b : b = [run EXCEPT !.at = "failed"]
  OBVIOUS
<1>3. /\ b \in RunRecords /\ b.at = "failed" /\ b.outcome = run.outcome
      /\ b.aborted = run.aborted /\ b.reached = run.reached
      /\ b.abandoned = run.abandoned /\ b.error = run.error /\ b.refusals = run.refusals /\ b.starts = run.starts
      /\ b.finished = run.finished /\ b.events = run.events
  BY <1>1, <1>2 DEF RunRecords
<1>4. PICK c : c = [b EXCEPT !.delivered = TRUE]
  OBVIOUS
<1>5. /\ c \in RunRecords /\ c.at = "failed" /\ c.outcome = run.outcome /\ c.delivered = TRUE
      /\ c.aborted = run.aborted /\ c.reached = run.reached
      /\ c.abandoned = run.abandoned /\ c.error = run.error /\ c.refusals = run.refusals /\ c.starts = run.starts
      /\ c.finished = run.finished /\ c.events = run.events
  BY <1>3, <1>4 DEF RunRecords
<1>14. PICK empty \in Seq(Entries) : empty = <<>>
  BY EmptySeq
<1>6. run' = [c EXCEPT !.pending = empty]
  BY <1>1, <1>2, <1>4, <1>14 DEF DeliverFailure, RunRecords
<1>7. /\ run' \in RunRecords /\ run'.at = "failed" /\ run'.outcome = run.outcome /\ run'.delivered = TRUE
      /\ run'.aborted = run.aborted /\ run'.reached = run.reached
      /\ run'.abandoned = run.abandoned /\ run'.error = run.error /\ run'.refusals = run.refusals
      /\ run'.starts = run.starts /\ run'.finished = run.finished /\ run'.events = run.events
  BY <1>5, <1>6 DEF RunRecords
<1>8. RunShape(run')
  BY <1>1, <1>7 DEF RunShape
<1>9. RunCalls'
  BY <1>1, <1>7 DEF RunnerInv, RunCalls, DeliverFailure, gateVars, Gated, ToolRun, Noted
<1>10. \A l \in Listeners :
         /\ listens'[l] = [listens[l] EXCEPT !.told = @ + Cardinality(Ons(run.pending, l))]
         /\ listens[l] \in [on : {"none", "queued", "live", "owed", "off"}, told : Nat]
         /\ listens[l].told = 0
         /\ (listens[l].on = "none" /\ Ons(run.pending, l) = {}) \/ (listens[l].on = "queued" /\ Cardinality(Ons(run.pending, l)) = 1)
  BY <1>1 DEF DeliverFailure, RunnerInv, ListensFit, ListenerShape, Ons
<1>11. \A l \in Listeners :
         /\ listens'[l] \in [on : {"none", "queued", "live", "owed", "off"}, told : Nat]
         /\ listens'[l].on # "live" /\ listens'[l].told = IF listens'[l].on \in {"none", "owed"} THEN 0 ELSE 1
  <2>1. SUFFICES ASSUME NEW l \in Listeners
                 PROVE  /\ listens'[l] \in [on : {"none", "queued", "live", "owed", "off"}, told : Nat]
                        /\ listens'[l].on # "live" /\ listens'[l].told = IF listens'[l].on \in {"none", "owed"} THEN 0 ELSE 1
    OBVIOUS
  <2>2. PICK x \in [on : {"none", "queued", "live", "owed", "off"}, told : Nat] : x = listens[l]
    BY <1>10
  <2>3. PICK n : n = Cardinality(Ons(run.pending, l))
    OBVIOUS
  <2>6. (x.on = "none" /\ n = 0) \/ (x.on = "queued" /\ n = 1)
    <3>1. (x.on = "none" /\ Ons(run.pending, l) = {}) \/ (x.on = "queued" /\ n = 1)
      BY <1>10, <2>2, <2>3
    <3>2. QED
      BY <2>3, <3>1, FS_EmptySet
  <2>4. listens'[l] = [x EXCEPT !.told = n]
    <3>1. listens'[l] = [x EXCEPT !.told = x.told + n] /\ x.told = 0
      BY <1>10, <2>2, <2>3
    <3>2. x.told + n = n
      BY <2>6, <3>1
    <3>3. QED
      BY <3>1, <3>2
  <2>5. QED
    BY <2>4, <2>6
<1>12. ListensFit'
  <2>1. listens' = [l \in Listeners |-> listens'[l]]
    BY Zenon DEF DeliverFailure
  <2>2. QED
    BY <1>7, <1>11, <2>1 DEF ListensFit, ListenerShape
<1>13. QED
  BY <1>8, <1>9, <1>12, RunMoves DEF DeliverFailure, gateVars

\* A listener that came after the failure is told in its turn.
LEMMA LateListenerToldKeeps ==
  ASSUME RunnerInv, NEW l \in Listeners, LateListenerTold(l)
  PROVE  RunnerInv'
<1>1. /\ listens \in [Listeners -> [on : {"none", "queued", "live", "owed", "off"}, told : Nat]]
      /\ \A m \in Listeners : ListenerShape(run.at, Ons(run.pending, m), listens[m])
      /\ run.at \in {"idle", "governing", "allowed", "rejected", "running", "over", "failed"}
  BY DEF RunnerInv, ListensFit, RunShape, RunRecords
<1>2. run.at = "failed" /\ listens[l].told = 0
  BY <1>1 DEF LateListenerTold, ListenerShape
<1>3. /\ listens' \in [Listeners -> [on : {"none", "queued", "live", "owed", "off"}, told : Nat]]
      /\ listens'[l].on = "off" /\ listens'[l].told = 1
      /\ \A m \in Listeners : m # l => listens'[m] = listens[m]
  BY <1>1, <1>2 DEF LateListenerTold
<1>4. \A m \in Listeners : ListenerShape(run.at, Ons(run.pending, m), listens'[m])
  BY <1>1, <1>2, <1>3 DEF ListenerShape
<1>5. ListensFit'
  BY <1>3, <1>4 DEF LateListenerTold, ListensFit, ListenerShape
<1>6. RunCalls' /\ RunShape(run')
  BY DEF RunnerInv, RunCalls, LateListenerTold, gateVars, Gated, ToolRun, Noted
<1>7. QED
  BY <1>5, <1>6, RunMoves DEF LateListenerTold, gateVars

\* A run that ends tells its listeners at most once.
LEMMA RunIsOverKeeps ==
  ASSUME RunnerInv, RunIsOver
  PROVE  RunnerInv'
<1>1. run \in RunRecords /\ RunShape(run) /\ run.at = "running" /\ run.finished = 0 /\ run.events = 0
  BY DEF RunIsOver, RunnerInv, RunShape, RunRecords
<1>2. PICK error \in BOOLEAN :
        RunEnds(error) /\ (~error => \A u \in Uses : use[u].at = "idle" \/ Noted(use[u], "observed"))
  BY DEF RunIsOver
<1>3. PICK b : b = [run EXCEPT !.at = "over"]
  OBVIOUS
<1>4. /\ b \in RunRecords /\ b.at = "over" /\ b.outcome = run.outcome /\ b.delivered = run.delivered
      /\ b.aborted = run.aborted /\ b.reached = run.reached
      /\ b.abandoned = run.abandoned /\ b.refusals = run.refusals /\ b.starts = run.starts
      /\ b.finished = run.finished /\ b.events = run.events
  BY <1>1, <1>3 DEF RunRecords
<1>5. run' = [b EXCEPT !.error = error]
  BY <1>1, <1>2, <1>3 DEF RunEnds, RunRecords
<1>6. /\ run' \in RunRecords /\ run'.at = "over" /\ run'.outcome = run.outcome /\ run'.delivered = run.delivered
      /\ run'.aborted = run.aborted /\ run'.reached = run.reached
      /\ run'.abandoned = run.abandoned /\ run'.refusals = run.refusals /\ run'.starts = run.starts
      /\ run'.finished = run.finished /\ run'.events = run.events /\ run'.error = error
  BY <1>4, <1>5 DEF RunRecords
<1>7. RunShape(run')
  BY <1>1, <1>6 DEF RunShape
<1>8. RunCalls'
  BY <1>1, <1>2, <1>6 DEF RunnerInv, RunCalls, RunIsOver, gateVars, Gated, ToolRun, Noted
<1>9. \A l \in Listeners :
        /\ listens'[l] = [listens[l] EXCEPT !.told = @ + IF error /\ listens[l].on = "live" THEN 1 ELSE 0]
        /\ listens[l] \in [on : {"none", "queued", "live", "owed", "off"}, told : Nat]
        /\ listens[l].told = 0 /\ listens[l].on # "owed"
  BY <1>1, <1>2 DEF RunEnds, RunnerInv, ListensFit, ListenerShape
<1>10. \A l \in Listeners :
         /\ listens'[l] \in [on : {"none", "queued", "live", "owed", "off"}, told : Nat]
         /\ listens'[l].told <= 1 /\ listens'[l].on # "owed"
  <2>1. SUFFICES ASSUME NEW l \in Listeners
                 PROVE  /\ listens'[l] \in [on : {"none", "queued", "live", "owed", "off"}, told : Nat]
                        /\ listens'[l].told <= 1 /\ listens'[l].on # "owed"
    OBVIOUS
  <2>2. PICK x \in [on : {"none", "queued", "live", "owed", "off"}, told : Nat] : x = listens[l]
    BY <1>9
  <2>3. PICK n \in {0, 1} : n = IF error /\ x.on = "live" THEN 1 ELSE 0
    OBVIOUS
  <2>4. listens'[l] = [x EXCEPT !.told = n]
    <3>1. listens'[l] = [x EXCEPT !.told = x.told + n] /\ x.told = 0
      BY <1>9, <2>2, <2>3
    <3>2. x.told + n = n
      BY <3>1
    <3>3. QED
      BY <3>1, <3>2
  <2>5. QED
    BY <1>9, <2>2, <2>3, <2>4
<1>11. ListensFit'
  <2>1. listens' = [l \in Listeners |-> listens'[l]]
    BY <1>2, Zenon DEF RunEnds
  <2>2. QED
    BY <1>6, <1>10, <2>1 DEF ListensFit, ListenerShape
<1>12. QED
  BY <1>7, <1>8, <1>11, RunMoves DEF RunIsOver, gateVars

\* A refused turn ends the run.
LEMMA ModelTurnKeeps ==
  ASSUME RunnerInv, ModelTurn
  PROVE  RunnerInv'
<1>1. run \in RunRecords /\ RunShape(run) /\ run.at = "running" /\ run.finished = 0 /\ run.events = 0
  BY DEF ModelTurn, RunnerInv, RunShape, RunRecords
<1>2. CASE UNCHANGED runnerVars
  <2>1. RunCalls' /\ RunShape(run')
    BY <1>2 DEF RunnerInv, RunCalls, ModelTurn, runnerVars, gateVars, Gated, ToolRun, Noted
  <2>2. ListensFit'
    BY <1>2 DEF RunnerInv, ListensFit, ListenerShape, runnerVars
  <2>3. QED
    BY <2>1, <2>2, RunMoves DEF ModelTurn, gateVars
<1>3. CASE run' = [run EXCEPT !.at = "over", !.error = TRUE, !.refusals = 1] /\ listens' = listens
  <2>1. PICK b : b = [run EXCEPT !.at = "over"]
    OBVIOUS
  <2>2. /\ b \in RunRecords /\ b.at = "over" /\ b.pending = run.pending /\ b.outcome = run.outcome
        /\ b.delivered = run.delivered /\ b.aborted = run.aborted /\ b.reached = run.reached
        /\ b.abandoned = run.abandoned /\ b.starts = run.starts
        /\ b.finished = run.finished /\ b.events = run.events
    BY <1>1, <2>1 DEF RunRecords
  <2>3. PICK c : c = [b EXCEPT !.error = TRUE]
    OBVIOUS
  <2>4. /\ c \in RunRecords /\ c.at = "over" /\ c.pending = run.pending /\ c.outcome = run.outcome
        /\ c.delivered = run.delivered /\ c.aborted = run.aborted /\ c.reached = run.reached
        /\ c.abandoned = run.abandoned /\ c.starts = run.starts /\ c.error = TRUE
        /\ c.finished = run.finished /\ c.events = run.events
    BY <2>2, <2>3 DEF RunRecords
  <2>5. run' = [c EXCEPT !.refusals = 1]
    BY <1>1, <1>3, <2>1, <2>3 DEF RunRecords
  <2>6. /\ run' \in RunRecords /\ run'.at = "over" /\ run'.pending = run.pending /\ run'.outcome = run.outcome
        /\ run'.delivered = run.delivered /\ run'.aborted = run.aborted /\ run'.reached = run.reached
        /\ run'.abandoned = run.abandoned /\ run'.starts = run.starts /\ run'.error = TRUE
        /\ run'.finished = run.finished /\ run'.events = run.events
    BY <2>4, <2>5 DEF RunRecords
  <2>7. RunShape(run')
    BY <1>1, <2>6 DEF RunShape
  <2>8. RunCalls'
    BY <1>1, <2>6 DEF RunnerInv, RunCalls, ModelTurn, gateVars, Gated, ToolRun, Noted
  <2>9. ListensFit'
    BY <1>1, <1>3, <2>6 DEF RunnerInv, ListensFit, ListenerShape
  <2>10. QED
    BY <2>7, <2>8, <2>9, RunMoves DEF ModelTurn, gateVars
<1>4. QED
  BY <1>2, <1>3 DEF ModelTurn

\* The same run but for its finish.
SameButFinish(d, r) ==
  /\ d.at = r.at /\ d.pending = r.pending /\ d.outcome = r.outcome /\ d.aborted = r.aborted
  /\ d.delivered = r.delivered /\ d.reached = r.reached /\ d.abandoned = r.abandoned
  /\ d.error = r.error /\ d.refusals = r.refusals /\ d.starts = r.starts

\* The finish is told once, unless a stream that went well was sampled away.
LEMMA FinishKeeps ==
  ASSUME RunnerInv, Finish
  PROVE  RunnerInv'
<1>1. run \in RunRecords /\ RunShape(run) /\ run.finished = 0 /\ run.events = 0 /\ run.at \in {"failed", "over"}
  BY DEF Finish, Awaited, RunnerInv, RunShape, RunRecords
<1>2. PICK sampled :
        /\ sampled => ~ToolRun /\ ~run.error
        /\ run' = [run EXCEPT !.finished = 1, !.events = @ + IF run.outcome /\ ~sampled THEN 1 ELSE 0]
  BY DEF Finish
<1>3. PICK more \in {0, 1} : more = IF run.outcome /\ ~sampled THEN 1 ELSE 0
  OBVIOUS
<1>4. PICK b : b = [run EXCEPT !.finished = 1]
  OBVIOUS
<1>5. /\ b \in RunRecords /\ SameButFinish(b, run) /\ b.finished = 1
  BY <1>1, <1>4 DEF RunRecords, SameButFinish
<1>6. run' = [b EXCEPT !.events = more]
  BY <1>1, <1>2, <1>3, <1>4 DEF RunRecords
<1>7. run' \in RunRecords /\ SameButFinish(run', run) /\ run'.finished = 1 /\ run'.events = more
  BY <1>5, <1>6 DEF RunRecords, SameButFinish
<1>8. RunShape(run')
  BY <1>1, <1>2, <1>3, <1>7 DEF RunShape, SameButFinish
<1>9. RunCalls'
  BY <1>7 DEF RunnerInv, RunCalls, Finish, SameButFinish, gateVars, Gated, ToolRun, Noted
<1>10. ListensFit'
  BY <1>7 DEF RunnerInv, ListensFit, ListenerShape, Finish, SameButFinish
<1>11. QED
  BY <1>8, <1>9, <1>10, RunMoves DEF Finish, gateVars

\* One call takes a step while the run stands still.
LEMMA RunnerOneChanged ==
  ASSUME RunnerInv, UNCHANGED <<boundary, wrapped, run, listens>>, ToolRun, run.at \in {"running", "over"},
         NEW u \in Uses, NEW d, RunnerUse(d), d.at # "idle",
         run.at = "over" /\ ~run.error => Noted(d, "observed"), use' = [use EXCEPT ![u] = d]
  PROVE  RunnerInv'
<1>1. d \in UseRecords
  BY DEF RunnerUse
<1>2. /\ use' \in [Uses -> UseRecords] /\ use'[u] = d
      /\ \A v \in Uses : v # u => use'[v] = use[v]
  BY <1>1, OneChanged DEF RunnerInv
<1>3. (\A v \in Uses : RunnerUse(use[v]))'
  <2>1. \A v \in Uses : RunnerUse(use'[v])
    BY <1>2 DEF RunnerInv
  <2>2. QED
    BY <2>1 DEF RunnerUse, GateShape, Unspoken, Noted
<1>4. RunCalls'
  <2>1. RunCalls
    BY DEF RunnerInv
  <2>2. QED
    BY <1>2, <2>1 DEF RunCalls, Gated, ToolRun
<1>5. RunShape(run)' /\ ListensFit'
  BY DEF RunnerInv, RunShape, ToolRun, ListensFit, ListenerShape
<1>6. QED
  BY <1>2, <1>3, <1>4, <1>5 DEF RunnerInv

\* The runner calls a tool behind its gate, or one that could not have any.
LEMMA RunnerCallsToolKeeps ==
  ASSUME RunnerInv, boundary \in Boundaries, NEW u \in Uses, RunnerCallsTool(u)
  PROVE  RunnerInv'
<1>1. use[u] = NoUse /\ run.at = "running" /\ ToolRun /\ RunShape(run)
  BY DEF RunnerCallsTool, RunnerInv, RunnerUse
<1>2. wrapped = Gated /\ boundary.offers \subseteq Tools
  BY <1>1, BoundaryAssumption DEF RunnerInv, RunCalls, RunShape, RunnerCallsTool, Deferred
<1>3. PICK t \in boundary.offers :
        \E d \in IF t \in wrapped THEN GateVerdicts(Asked(use[u], t, "callback"))
                 ELSE {Move(Asked(use[u], t, "callback"), "running")} : use' = [use EXCEPT ![u] = d]
  BY DEF RunnerCallsTool, Asked
<1>4. PICK c : c = Asked(NoUse, t, "callback")
  OBVIOUS
<1>5. /\ c \in UseRecords /\ c.tool = t /\ c.route = "callback" /\ Unspoken(c) /\ c.rulings = 0 /\ c.marks = {}
  BY <1>2, <1>3, <1>4, AskFields, NoUseFields DEF Named, Ways, Unspoken, SameRuling, SameTold
<1>6. PICK d : /\ d \in IF t \in wrapped THEN GateVerdicts(c) ELSE {Move(c, "running")}
               /\ use' = [use EXCEPT ![u] = d]
  BY <1>1, <1>3, <1>4
<1>7. RunnerUse(d) /\ d.at # "idle"
  <2>1. CASE t \in wrapped
    <3>1. GateAnswer(d, c) /\ d.rulings = 1
      BY <1>5, <1>6, <2>1, GateDecides
    <3>2. QED
      BY <1>3, <1>5, <2>1, <3>1 DEF RunnerUse, GateAnswer, SameCall, MoreMarks, Noted
  <2>2. CASE t \notin wrapped
    <3>1. d \in UseRecords /\ d.at = "running" /\ d.tool = t /\ d.route = "callback" /\ d.events = 0 /\ d.marks = {}
      BY <1>5, <1>6, <2>2, MoveFields DEF Places, Unspoken, SameAsk, SameTold
    <3>2. t \in boundary.uncallable
      BY <1>2, <1>3, <2>2 DEF Gated
    <3>3. QED
      BY <1>3, <2>2, <3>1, <3>2 DEF RunnerUse, Noted
  <2>3. QED
    BY <2>1, <2>2
<1>8. QED
  BY <1>1, <1>6, <1>7, RunnerOneChanged DEF RunnerCallsTool, gateVars, runnerVars

\* What was observed of a tool points to its gate, if it has one.
LEMMA RunnerObservesKeeps ==
  ASSUME RunnerInv, NEW u \in Uses, RunnerObserves(u)
  PROVE  RunnerInv'
<1>1. /\ RunnerUse(use[u]) /\ use[u] \in UseRecords /\ use[u].at \in {"refused", "returned", "failed"}
      /\ ~Noted(use[u], "observed") /\ use' = [use EXCEPT ![u] = Noticed(use[u])]
  BY DEF RunnerObserves, RunnerInv, RunnerUse
<1>2. ToolRun /\ run.at \in {"running", "over"}
  BY <1>1 DEF RunnerInv, RunCalls
<1>3. PICK n : n = Note(use[u], "observed")
  OBVIOUS
<1>4. /\ n \in UseRecords /\ n.at = use[u].at /\ SameAsk(n, use[u]) /\ SameRuling(n, use[u]) /\ SameTold(n, use[u])
      /\ n.marks = use[u].marks \cup {"observed"}
  BY <1>1, <1>3, NoteFields DEF Marks
<1>5. PICK mark \in {"gate", "absent"} : mark = IF use[u].tool \in wrapped THEN "gate" ELSE "absent"
  OBVIOUS
<1>6. PICK d : d = Note(n, mark)
  OBVIOUS
<1>7. /\ d \in UseRecords /\ d.at = use[u].at /\ SameAsk(d, use[u]) /\ SameRuling(d, use[u]) /\ SameTold(d, use[u])
      /\ d.marks = use[u].marks \cup {"observed", mark}
  BY <1>4, <1>6, NoteFields DEF Marks, SameAsk, SameRuling, SameTold
<1>8. d = Noticed(use[u])
  BY <1>3, <1>5, <1>6 DEF Noticed
<1>9. RunnerUse(d)
  <2>1. use[u].tool \in wrapped => GateShape(d)
    BY <1>1, <1>7 DEF RunnerUse, GateShape, Unspoken, SameAsk, SameRuling, SameTold
  <2>2. QED
    BY <1>1, <1>5, <1>7, <2>1 DEF RunnerUse, SameAsk, SameRuling, SameTold, Noted
<1>10. Noted(d, "observed") /\ d.at # "idle"
  BY <1>1, <1>7 DEF Noted
<1>11. QED
  BY <1>1, <1>2, <1>8, <1>9, <1>10, RunnerOneChanged DEF RunnerObserves, gateVars, runnerVars

\* The pipeline behind a gate answers.
LEMMA RunnerGateAnswersKeeps ==
  ASSUME RunnerInv, UNCHANGED runnerVars, NEW u \in Uses, GateAnswers(u)
  PROVE  RunnerInv'
<1>1. RunnerUse(use[u]) /\ use[u].at = "judging" /\ use[u] \in UseRecords
  BY DEF GateAnswers, RunnerInv, RunnerUse
<1>2. use[u].tool \in wrapped /\ use[u].rulings = 1 /\ GateShape(use[u]) /\ ~Noted(use[u], "observed")
  BY <1>1 DEF RunnerUse
<1>3. PICK d \in PipelineVerdicts(use[u]) : use' = [use EXCEPT ![u] = d]
  BY DEF GateAnswers
<1>4. GateAnswer(d, use[u]) /\ d.rulings = use[u].rulings
  BY <1>1, <1>2, <1>3, PipelineDecides
<1>5. RunnerUse(d) /\ d.at # "idle"
  BY <1>1, <1>2, <1>4 DEF RunnerUse, GateAnswer, SameCall, MoreMarks, Noted
<1>6. ToolRun /\ run.at \in {"running", "over"} /\ (run.at = "over" => run.error)
  BY <1>1, <1>2 DEF RunnerInv, RunCalls
<1>7. QED
  BY <1>3, <1>5, <1>6, RunnerOneChanged DEF GateAnswers, gateVars, runnerVars

\* A tool of a runner ends.
LEMMA RunnerToolEndsKeeps ==
  ASSUME RunnerInv, UNCHANGED runnerVars, NEW u \in Uses, GovernedToolEnds(u)
  PROVE  RunnerInv'
<1>1. RunnerUse(use[u]) /\ use[u].at = "running" /\ use[u] \in UseRecords /\ ~Noted(use[u], "observed")
  BY DEF GovernedToolEnds, RunnerInv, RunnerUse
<1>2. PICK end \in {"returned", "failed"} : use' = [use EXCEPT ![u] = Move([use[u] EXCEPT !.result = "raw"], end)]
  BY DEF GovernedToolEnds
<1>3. PICK d : d = Move(Given(use[u], "raw"), end)
  OBVIOUS
<1>4. /\ d \in UseRecords /\ d.at = end /\ SameCall(d, use[u]) /\ SameRuling(d, use[u]) /\ SameTold(d, use[u])
      /\ d.marks = use[u].marks
  BY <1>1, <1>3, EndFields
<1>5. RunnerUse(d) /\ d.at # "idle"
  <2>1. use[u].tool \in wrapped => GateShape(d)
    BY <1>1, <1>4 DEF RunnerUse, GateShape, Unspoken, SameCall, SameRuling, SameTold
  <2>2. QED
    BY <1>1, <1>4, <2>1 DEF RunnerUse, Noted, SameCall, SameRuling, SameTold
<1>6. ToolRun /\ run.at \in {"running", "over"} /\ (run.at = "over" => run.error)
  BY <1>1 DEF RunnerInv, RunCalls
<1>7. use' = [use EXCEPT ![u] = d]
  BY <1>2, <1>3 DEF Given
<1>8. QED
  BY <1>5, <1>6, <1>7, RunnerOneChanged DEF GovernedToolEnds, gateVars, runnerVars

\* A step of a deferred run.
LEMMA RunnerStep ==
  ASSUME RunnerInv, boundary \in Boundaries, DeferredNext
  PROVE  RunnerInv'
BY CallerRunsKeeps, CallerAbortsKeeps, GovernanceAnswersKeeps, RunnerStartsKeeps, DeliverFailureKeeps, RunIsOverKeeps,
   ModelTurnKeeps, FinishKeeps, CallerListensKeeps, CallerUnlistensKeeps, LateListenerToldKeeps,
   RunnerCallsToolKeeps, RunnerObservesKeeps
DEF DeferredNext

----------------------------------------------------------------------------
(* Calls under a LangChain callback handler.                               *)

\* An announced call whose start found no credit and met the gate again.
Second(c) == Noted(c, "announced") /\ c.route = "start" /\ c.at # "spending" /\ ~Noted(c, "spent")

\* The gates that the callbacks of a call have come to.
Gates(c) == (IF Noted(c, "announced") /\ c.route = "start" THEN 1 ELSE 0)
              + (IF c.at \in {"granting", "gating", "spending"} \/ Noted(c, "spent") THEN 0 ELSE 1)

\* A tool call, ruled on at every gate it came to unless an input could not be written.
ToolCall(c) ==
  /\ c.route \in {"action", "start"} /\ c.tool \in Tools \cup {"nameless"} /\ c.under \in Chains
  /\ c.at \in {"granting", "gating", "counting", "announced", "spending", "running", "refused", "returned", "missing"}
  /\ c.at = "granting" => c.route = "action" /\ c.owner = "none"
  /\ c.route = "action" => Noted(c, "announced") /\ ~Noted(c, "spent") /\ c.at \notin {"spending", "running", "returned"}
  /\ c.at \in {"announced", "missing"} => c.route = "action"
  /\ Noted(c, "spent") => c.at \in {"running", "returned"}
  /\ c.at = "spending" => c.lender \in Chains /\ c.saw > 0
  /\ c.rulings <= Gates(c) /\ (~Noted(c, "swallowed") => c.rulings = Gates(c))
  /\ Noted(c, "swallowed") => Noted(c, "announced") \/ c.at \in {"running", "returned"}
  /\ c.events + (IF c.at = "counting" THEN 1 ELSE 0) >= c.rulings + (IF c.at = "returned" THEN 1 ELSE 0)
  /\ c.at = "refused" => c.told = "blocked"
  /\ c.rulings > 0 /\ c.at # "refused" => c.tool \notin Denied

\* A retriever is only watched.
Retrieval(c) ==
  /\ c.route = "retriever" /\ c.at \in {"running", "returned"} /\ c.tool = "none" /\ c.owner = "none"
  /\ c.rulings = 0 /\ c.marks = {}

\* A model call, its verdict and its one event.
ModelRun(c) ==
  /\ c.route = "model" /\ c.tool = "none" /\ c.owner = "none" /\ c.marks \subseteq {"untracked"}
  /\ c.at \in {"judging", "running", "refused", "returned", "failed"}
  /\ c.at \in {"judging", "running"} => Unspoken(c)
  /\ c.at # "judging" => c.rulings = 1
  /\ c.at = "refused" => c.events = 1 /\ c.told = "blocked"
  /\ c.args = "redacted" => c.at = "refused"
  /\ c.at = "failed" => c.events = 1 \/ Noted(c, "untracked")

LangUse(c) ==
  /\ c \in UseRecords
  /\ c.at = "idle" => c = NoUse
  /\ c.at # "idle" => ToolCall(c) \/ Retrieval(c) \/ ModelRun(c)

\* The credits that were granted, those that were spent, and those a run still owes.
Grants(c) == Noted(c, "announced") /\ c.at # "granting"
Owed(c, k) == Grants(c) /\ ~Noted(c, "spent") /\ c.under = k
GrantedCalls == {u \in Uses : Grants(use[u])}
SpentCalls == {u \in Uses : Noted(use[u], "spent")}
Owings(k) == {u \in Uses : Owed(use[u], k)}

\* A call that was never announced ran on the credit of another one.
Stole(c) == Ran(c) /\ c.rulings = 0 /\ Noted(c, "spent") /\ ~Noted(c, "swallowed")
Thief == \E u \in Uses : Stole(use[u])

\* No more credits are about or spent than were granted ...
CreditsFit == Cardinality(SpentCalls) + credit["root"] + credit["node"] + credit["other"] <= Cardinality(GrantedCalls)

\* ... and unless one was stolen, an open run has those of the calls announced on it.
OwingsFit ==
  /\ \A k \in Chains : chain[k] # "closed" => credit[k] = Cardinality(Owings(k))
  /\ \A u \in Uses : use[u].at = "spending" /\ Noted(use[u], "announced") => use[u].lender = use[u].under

Excused(c) == Thief \/ chain[c.under] = "closed"

\* The calls charged to a run that the limit let pass.
Counts(c, k) == c.owner = k /\ c.tool # "nameless" /\ (c.at \in {"announced", "gating", "spending"} \/ Ran(c))
Charged(k) == {u \in Uses : Counts(use[u], k)}

StepsFit ==
  \A k \in Chains :
    /\ Cardinality(Charged(k)) <= MaxSteps
    /\ agent[k].open => Cardinality(Charged(k)) <= agent[k].steps

\* A TypeScript callback has the thread to itself, and what it read still stands.
Midway(c) == c.at \in {"granting", "gating", "spending", "counting"}
TurnFits ==
  PythonSdk \/ \A u \in Uses :
    /\ Midway(use[u]) => turn = u
    /\ use[u].at = "granting" => use[u].saw = credit[use[u].under]
    /\ use[u].at = "spending" => use[u].saw = credit[use[u].lender]
    /\ use[u].at = "counting" /\ use[u].owner # "none" => agent[use[u].owner] = [open |-> TRUE, steps |-> use[u].saw]

RunsFit ==
  /\ chain \in [Chains -> {"unborn", "open", "closed"}]
  /\ agent \in [Chains -> [open : BOOLEAN, steps : Nat]]
  /\ credit \in [Chains -> Nat]
  /\ \A k \in Chains : agent[k].open => chain[k] # "unborn"
  /\ \A u \in Uses : use[u].owner # "none" => chain[use[u].owner] # "unborn"

LangInv ==
  /\ use \in [Uses -> UseRecords]
  /\ \A u \in Uses : LangUse(use[u])
  /\ RunsFit /\ TurnFits
  /\ ~Raced => CreditsFit
  /\ ~Raced /\ ~Thief => OwingsFit
  /\ ~Raced => \A u \in Uses : Second(use[u]) => Excused(use[u])
  /\ ~Raced /\ boundary.stepAction = "block" => StepsFit

\* Sets of calls are finite, and a part of one is no larger.
LEMMA CallsCounted ==
  /\ \A S : S \subseteq Uses => IsFiniteSet(S) /\ Cardinality(S) \in Nat
  /\ \A S, T : S \subseteq T /\ T \subseteq Uses => Cardinality(S) <= Cardinality(T)
<1>1. IsFiniteSet(Uses)
  BY ToolAssumption
<1>2. QED
  BY <1>1, FS_Subset, FS_CardinalityType

\* The credit a call finds: its own run's if that has one, else that of the run above.
LEMMA CreditFound ==
  ASSUME NEW c \in Chains, credit \in [Chains -> Nat]
  PROVE  /\ CreditAbove(c) \in Chains \cup {"none"}
         /\ CreditAbove(c) # "none" => credit[CreditAbove(c)] > 0
         /\ CreditAbove(c) # c => credit[c] = 0
<1>1. PICK path : path = Path(c)
  OBVIOUS
<1>2. PICK hits : hits = {i \in DOMAIN path : credit[path[i]] > 0}
  OBVIOUS
<1>3. CreditAbove(c) = IF hits = {} THEN "none" ELSE path[CHOOSE i \in hits : \A j \in hits : i <= j]
  BY <1>1, <1>2 DEF CreditAbove, FirstOn
<1>4. path = <<c>> \/ \E p \in Chains : path = <<c, p>>
  BY <1>1 DEF Path, Parent, Chains
<1>5. DOMAIN path \in {1..1, 1..2} /\ path[1] = c /\ \A i \in DOMAIN path : path[i] \in Chains
  BY <1>4
<1>6. hits \subseteq {1, 2} /\ (credit[c] > 0 => 1 \in hits) /\ credit[c] \in Nat
  BY <1>2, <1>5
<1>7. ASSUME hits # {}
      PROVE  \E i \in hits : /\ (CHOOSE h \in hits : \A j \in hits : h <= j) = i
                             /\ 1 \in hits => i = 1
  <2>1. \E i \in hits : \A j \in hits : i <= j
    <3>1. CASE 1 \in hits
      BY <1>6, <3>1
    <3>2. CASE 1 \notin hits
      <4>1. hits = {2}
        BY <1>6, <1>7, <3>2
      <4>2. QED
        BY <4>1
    <3>3. QED
      BY <3>1, <3>2
  <2>2. PICK i : i = CHOOSE h \in hits : \A j \in hits : h <= j
    OBVIOUS
  <2>3. i \in hits /\ \A j \in hits : i <= j
    BY <2>1, <2>2
  <2>4. i \in hits /\ (1 \in hits => i = 1)
    BY <1>6, <2>3
  <2>5. QED
    BY <2>2, <2>4, Zenon
<1>8. QED
  BY <1>2, <1>3, <1>5, <1>6, <1>7 DEF Chains

\* Only an open run knows of the run above it.
LEMMA CreditOnPath ==
  ASSUME NEW c \in Chains
  PROVE  CreditAbove(c) \in {c, "none"} \/ chain[c] = "open"
<1>1. PICK path : path = Path(c)
  OBVIOUS
<1>2. SUFFICES ASSUME chain[c] # "open"
               PROVE  CreditAbove(c) \in {c, "none"}
  OBVIOUS
<1>3. path = <<c>>
  BY <1>1, <1>2 DEF Path
<1>4. PICK hits : hits = {i \in DOMAIN path : credit[path[i]] > 0}
  OBVIOUS
<1>5. CreditAbove(c) = IF hits = {} THEN "none" ELSE path[CHOOSE i \in hits : \A j \in hits : i <= j]
  BY <1>1, <1>4 DEF CreditAbove, FirstOn
<1>6. hits = {} \/ hits = {1}
  BY <1>3, <1>4
<1>7. hits = {1} => (CHOOSE i \in hits : \A j \in hits : i <= j) = 1
  OBVIOUS
<1>8. QED
  BY <1>3, <1>5, <1>6, <1>7

\* A step of one call that leaves the accounts as they are.
Quiet(d, c) ==
  /\ Noted(c, "raced") => Noted(d, "raced")
  /\ Grants(d) <=> Grants(c)
  /\ Noted(d, "spent") <=> Noted(c, "spent")
  /\ \A k \in Chains : Owed(d, k) <=> Owed(c, k)
  /\ Stole(c) => Stole(d)

\* A call that changes nothing an account is made of leaves the accounts as they are.
LEMMA AccountsKept ==
  ASSUME LangInv, UNCHANGED <<boundary, chain, credit>>, RunsFit', TurnFits',
         ~Raced' /\ boundary.stepAction = "block" => StepsFit',
         NEW u \in Uses, NEW d, LangUse(d), use' = [use EXCEPT ![u] = d], Quiet(d, use[u]),
         ~Raced /\ ~Thief /\ d.at = "spending" /\ Noted(d, "announced") => d.lender = d.under,
         ~Raced /\ Second(d) => Excused(d)
  PROVE  LangInv'
<1>1. d \in UseRecords
  BY DEF LangUse
<1>2. /\ use' \in [Uses -> UseRecords] /\ use'[u] = d
      /\ \A v \in Uses : v # u => use'[v] = use[v]
  BY <1>1, OneChanged DEF LangInv
<1>3. (\A v \in Uses : LangUse(use[v]))'
  <2>1. \A v \in Uses : LangUse(use'[v])
    BY <1>2 DEF LangInv
  <2>2. QED
    BY <2>1 DEF LangUse, ToolCall, Gates, Retrieval, ModelRun, Unspoken, Noted
<1>5. \A v \in Uses : /\ Noted(use[v], "raced") => Noted(use'[v], "raced")
                      /\ Grants(use'[v]) <=> Grants(use[v])
                      /\ Noted(use'[v], "spent") <=> Noted(use[v], "spent")
                      /\ \A k \in Chains : Owed(use'[v], k) <=> Owed(use[v], k)
                      /\ Stole(use[v]) => Stole(use'[v])
  BY <1>2 DEF Quiet
<1>6. Raced => Raced'
  BY <1>5 DEF Raced, PythonSdk, Noted
<1>7. Thief => Thief'
  BY <1>5 DEF Thief, Stole, Ran, Noted
<1>8. CreditsFit => CreditsFit'
  <2>1. GrantedCalls' = GrantedCalls /\ SpentCalls' = SpentCalls
    BY <1>5 DEF GrantedCalls, SpentCalls, Grants, Noted
  <2>2. QED
    BY <2>1 DEF CreditsFit
<1>9. ~Raced /\ ~Thief /\ OwingsFit => OwingsFit'
  <2>1. \A k \in Chains : Owings(k)' = Owings(k)
    BY <1>5 DEF Owings, Owed, Grants, Noted
  <2>2. SUFFICES ASSUME ~Raced, ~Thief, OwingsFit
                 PROVE  OwingsFit'
    OBVIOUS
  <2>3. \A v \in Uses : use'[v].at = "spending" /\ Noted(use'[v], "announced") => use'[v].lender = use'[v].under
    BY <1>2, <2>2 DEF OwingsFit
  <2>4. \A k \in Chains : chain'[k] # "closed" => credit'[k] = Cardinality(Owings(k)')
    BY <2>1, <2>2 DEF OwingsFit
  <2>5. QED
    BY <2>3, <2>4 DEF OwingsFit, Noted
<1>10. ~Raced => (\A v \in Uses : Second(use[v]) => Excused(use[v]))'
  <2>1. SUFFICES ASSUME ~Raced, NEW v \in Uses, Second(use'[v])
                 PROVE  Thief' \/ chain'[use'[v].under] = "closed"
    BY DEF Second, Excused, Noted
  <2>2. Thief \/ chain[use'[v].under] = "closed"
    BY <1>2, <2>1 DEF LangInv, Excused
  <2>3. QED
    BY <1>7, <2>2
<1>12. QED
  BY <1>2, <1>3, <1>6, <1>7, <1>8, <1>9, <1>10 DEF LangInv

\* Such a call keeps the invariant if its own part of it holds.
LEMMA QuietKeeps ==
  ASSUME LangInv, UNCHANGED <<boundary, chain, agent, credit>>, TurnFits',
         NEW u \in Uses, NEW d, LangUse(d), use' = [use EXCEPT ![u] = d], Quiet(d, use[u]),
         \A k \in Chains : Counts(d, k) => Counts(use[u], k),
         d.owner # "none" => chain[d.owner] # "unborn",
         ~Raced /\ ~Thief /\ d.at = "spending" /\ Noted(d, "announced") => d.lender = d.under,
         ~Raced /\ Second(d) => Excused(d)
  PROVE  LangInv'
<1>1. d \in UseRecords
  BY DEF LangUse
<1>2. /\ use' \in [Uses -> UseRecords] /\ use'[u] = d
      /\ \A v \in Uses : v # u => use'[v] = use[v]
  BY <1>1, OneChanged DEF LangInv
<1>3. RunsFit'
  BY <1>2 DEF LangInv, RunsFit
<1>4. StepsFit => StepsFit'
  <2>1. \A k \in Chains : Charged(k)' \subseteq Charged(k) /\ Charged(k) \subseteq Uses
    BY <1>2 DEF Charged, Counts, Ran
  <2>2. \A k \in Chains : Cardinality(Charged(k)') <= Cardinality(Charged(k))
    BY <2>1, CallsCounted
  <2>3. \A k \in Chains : Cardinality(Charged(k)) \in Nat /\ Cardinality(Charged(k)') \in Nat
    <3>1. \A k \in Chains : Charged(k)' \subseteq Uses
      BY <2>1
    <3>2. QED
      BY <2>1, <3>1, CallsCounted
  <2>4. QED
    BY <2>2, <2>3, ToolAssumption DEF StepsFit, LangInv, RunsFit
<1>5. Raced => Raced'
  BY <1>2 DEF Quiet, Raced, PythonSdk, Noted
<1>6. QED
  BY <1>3, <1>4, <1>5, AccountsKept DEF LangInv

\* The call whose turn it is takes its step.
LEMMA TurnKept ==
  ASSUME LangInv, UNCHANGED boundary, NEW u \in Uses, NEW d \in UseRecords, use' = [use EXCEPT ![u] = d],
         turn \in {"none", u},
         ~PythonSdk => /\ Midway(d) => turn' = u
                       /\ d.at = "granting" => d.saw = credit'[d.under]
                       /\ d.at = "spending" => d.saw = credit'[d.lender]
                       /\ d.at = "counting" /\ d.owner # "none" => agent'[d.owner] = [open |-> TRUE, steps |-> d.saw]
  PROVE  TurnFits'
<1>1. SUFFICES ASSUME ~PythonSdk, NEW v \in Uses
               PROVE  /\ Midway(use'[v]) => turn' = v
                      /\ use'[v].at = "granting" => use'[v].saw = credit'[use'[v].under]
                      /\ use'[v].at = "spending" => use'[v].saw = credit'[use'[v].lender]
                      /\ use'[v].at = "counting" /\ use'[v].owner # "none" =>
                           agent'[use'[v].owner] = [open |-> TRUE, steps |-> use'[v].saw]
  BY DEF TurnFits, PythonSdk, Midway
<1>2. use'[u] = d /\ (v # u => use'[v] = use[v])
  BY DEF LangInv
<1>3. v # u => ~Midway(use[v])
  <2>1. Midway(use[v]) => turn = v
    BY <1>1 DEF LangInv, TurnFits
  <2>2. QED
    BY <2>1, ToolAssumption
<1>4. CASE v = u
  BY <1>1, <1>2, <1>4
<1>5. CASE v # u
  BY <1>2, <1>3, <1>5 DEF Midway
<1>6. QED
  BY <1>4, <1>5


\* The agent action reads the credit.
LEMMA AnnounceKeeps ==
  ASSUME LangInv, NEW u \in Uses, Announce(u)
  PROVE  LangInv'
<1>1. use[u] = NoUse /\ turn \in {"none", u} /\ credit \in [Chains -> Nat]
  BY DEF Announce, MayStep, LangInv, LangUse, RunsFit
<1>2. PICK c \in Chains, t \in Tools \cup {"nameless"} :
        use' = [use EXCEPT ![u] = [@ EXCEPT !.at = "granting", !.tool = t, !.route = "action",
                                            !.under = c, !.saw = credit[c],
                                            !.marks = {"announced"}]]
  BY DEF Announce
<1>3. PICK n \in Nat : n = credit[c]
  BY <1>1
<1>4. PICK d : d = [NoUse EXCEPT !.at = "granting", !.tool = t, !.route = "action",
                                 !.under = c, !.saw = n, !.marks = {"announced"}]
  OBVIOUS
<1>5. d = [at |-> "granting", tool |-> t, route |-> "action", under |-> c, owner |-> "none",
           lender |-> "none", rulings |-> 0, args |-> "raw", result |-> "none", told |-> "none", events |-> 0,
           saw |-> n, marks |-> {"announced"}]
  BY <1>4 DEF NoUse
<1>6. d \in UseRecords
  BY <1>5 DEF UseRecords, Places, Named, Ways, Owners, Results, Tellings, Marks
<1>7. LangUse(d)
  BY <1>5, <1>6 DEF LangUse, ToolCall, Gates, Noted
<1>8. Quiet(d, use[u]) /\ ~Second(d)
  BY <1>1, <1>5, NoUseFields DEF Quiet, Grants, Owed, Stole, Ran, Noted, Second
<1>9. use' = [use EXCEPT ![u] = d]
  BY <1>1, <1>2, <1>3, <1>4
<1>10. TurnFits'
  BY <1>1, <1>3, <1>5, <1>6, <1>9, TurnKept DEF Announce, Taken, PythonSdk
<1>11. QED
  BY <1>5, <1>7, <1>8, <1>9, <1>10, QuietKeeps DEF Announce, Counts, Chains

\* A call that starts, and one that has found a credit.
Started(c, t, k) == [c EXCEPT !.tool = t, !.under = k, !.route = "start"]
Borrows(c, k, n) == [c EXCEPT !.at = "spending", !.lender = k, !.saw = n]

\* A call whose tool started.
LEMMA StartedFields ==
  ASSUME NEW c \in UseRecords, NEW t \in Named, NEW k \in Chains
  PROVE  LET d == Started(c, t, k) IN
         /\ d \in UseRecords /\ d.at = c.at /\ d.tool = t /\ d.under = k /\ d.route = "start"
         /\ d.owner = c.owner /\ d.lender = c.lender /\ d.marks = c.marks
         /\ SameRuling(d, c) /\ SameTold(d, c) /\ SameRest(d, c)
<1>1. PICK a : a = [c EXCEPT !.tool = t]
  OBVIOUS
<1>2. /\ a \in UseRecords /\ a.at = c.at /\ a.tool = t
      /\ a.owner = c.owner /\ a.lender = c.lender /\ a.marks = c.marks
      /\ SameRuling(a, c) /\ SameTold(a, c) /\ SameRest(a, c)
  BY <1>1 DEF UseRecords, SameRuling, SameTold, SameRest
<1>3. PICK b : b = [a EXCEPT !.under = k]
  OBVIOUS
<1>4. /\ b \in UseRecords /\ b.at = c.at /\ b.tool = t /\ b.under = k
      /\ b.owner = c.owner /\ b.lender = c.lender /\ b.marks = c.marks
      /\ SameRuling(b, c) /\ SameTold(b, c) /\ SameRest(b, c)
  BY <1>2, <1>3 DEF UseRecords, Owners, SameRuling, SameTold, SameRest
<1>5. PICK route \in Ways : route = "start"
  BY DEF Ways
<1>6. Started(c, t, k) = [b EXCEPT !.route = route]
  BY <1>1, <1>3, <1>5 DEF UseRecords, Started
<1>7. QED
  BY <1>4, <1>5, <1>6 DEF UseRecords, SameRuling, SameTold, SameRest

\* A call that is spending a credit.
LEMMA BorrowsFields ==
  ASSUME NEW c \in UseRecords, NEW k \in Chains, NEW n \in Nat
  PROVE  LET d == Borrows(c, k, n) IN
         /\ d \in UseRecords /\ d.at = "spending" /\ d.lender = k /\ d.saw = n
         /\ d.tool = c.tool /\ d.route = c.route /\ d.under = c.under /\ d.owner = c.owner
         /\ d.marks = c.marks /\ d.result = c.result
         /\ SameRuling(d, c) /\ SameTold(d, c)
<1>1. PICK a : a = Move(c, "spending")
  OBVIOUS
<1>2. /\ a \in UseRecords /\ a.at = "spending" /\ SameAsk(a, c) /\ SameRuling(a, c) /\ SameTold(a, c)
      /\ SameRest(a, c) /\ a.marks = c.marks
  BY <1>1, MoveFields DEF Places
<1>3. PICK b : b = [a EXCEPT !.lender = k]
  OBVIOUS
<1>4. /\ b \in UseRecords /\ b.at = "spending" /\ b.lender = k
      /\ b.tool = c.tool /\ b.route = c.route /\ b.under = c.under /\ b.owner = c.owner
      /\ SameRuling(b, c) /\ SameTold(b, c) /\ SameRest(b, c) /\ b.marks = c.marks
  BY <1>2, <1>3 DEF UseRecords, Owners, SameAsk, SameRuling, SameTold, SameRest
<1>5. Borrows(c, k, n) = [b EXCEPT !.saw = n]
  BY <1>1, <1>3 DEF UseRecords, Borrows, Move
<1>6. QED
  BY <1>4, <1>5 DEF UseRecords, SameRuling, SameTold, SameRest

\* An announced call that finds no credit of its own on an open run was robbed.
LEMMA RobbedStarts ==
  ASSUME LangInv, NEW u \in Uses, use[u].at = "announced", CreditAbove(use[u].under) # use[u].under, ~Raced
  PROVE  Thief \/ chain[use[u].under] = "closed"
<1>1. SUFFICES ASSUME ~Thief, chain[use[u].under] # "closed"
               PROVE  FALSE
  OBVIOUS
<1>2. ToolCall(use[u])
  BY DEF LangInv, LangUse, Retrieval, ModelRun
<1>3. PICK k \in Chains : k = use[u].under
  BY <1>2 DEF ToolCall
<1>4. credit[k] = 0
  BY <1>3, CreditFound DEF LangInv, RunsFit
<1>5. credit[k] = Cardinality(Owings(k))
  BY <1>1, <1>3 DEF LangInv, OwingsFit
<1>6. u \in Owings(k)
  BY <1>2, <1>3 DEF ToolCall, Owings, Owed, Grants
<1>7. IsFiniteSet(Owings(k)) /\ Owings(k) # {}
  BY <1>6, CallsCounted DEF Owings
<1>8. QED
  BY <1>4, <1>5, <1>7, FS_EmptySet

\* A call that starts on its run's credit, or on that of the run above it only where
\* the run has none.
LEMMA ToolStartsKeeps ==
  ASSUME LangInv, NEW u \in Uses, ToolStarts(u)
  PROVE  LangInv'
<1>1. /\ LangUse(use[u]) /\ use[u] \in UseRecords /\ use[u].at \in {"idle", "announced"}
      /\ turn \in {"none", u} /\ credit \in [Chains -> Nat]
  BY DEF ToolStarts, MayStep, LangInv, LangUse, RunsFit
<1>2. PICK c \in Chains, t \in Tools \cup {"nameless"} :
        /\ use[u].at = "announced" => c = use[u].under /\ t = use[u].tool
        /\ use' = [use EXCEPT ![u] = IF CreditAbove(c) = "none" THEN Move(Started(use[u], t, c), "gating")
                                     ELSE Borrows(Started(use[u], t, c), CreditAbove(c), credit[CreditAbove(c)])]
  BY <1>1 DEF ToolStarts, Started, Borrows
<1>3. PICK k : k = CreditAbove(c)
  OBVIOUS
<1>4. k \in Chains \cup {"none"} /\ (k # "none" => credit[k] > 0) /\ (k # c => credit[c] = 0)
  BY <1>1, <1>3, CreditFound
<1>5. PICK b : b = Started(use[u], t, c)
  OBVIOUS
<1>6. /\ b \in UseRecords /\ b.at = use[u].at /\ b.tool = t /\ b.under = c /\ b.route = "start"
      /\ b.owner = use[u].owner /\ b.marks = use[u].marks
      /\ b.rulings = use[u].rulings /\ b.events = use[u].events /\ b.args = use[u].args
  BY <1>1, <1>5, StartedFields DEF Named, SameRuling, SameTold
<1>7. PICK d : d = IF k = "none" THEN Move(b, "gating") ELSE Borrows(b, k, credit[k])
  OBVIOUS
<1>8. /\ d \in UseRecords /\ d.tool = t /\ d.under = c /\ d.route = "start"
      /\ d.owner = use[u].owner /\ d.marks = use[u].marks
      /\ d.rulings = use[u].rulings /\ d.events = use[u].events
      /\ IF k = "none" THEN d.at = "gating"
         ELSE d.at = "spending" /\ d.lender = k /\ d.saw = credit[k] /\ d.saw > 0
  <2>1. CASE k = "none"
    BY <1>6, <1>7, <2>1, MoveFields DEF Places, SameAsk, SameRuling, SameTold
  <2>2. CASE k # "none"
    <3>1. PICK n \in Nat : n = credit[k]
      BY <1>1, <1>4, <2>2
    <3>2. d = Borrows(b, k, n)
      BY <1>7, <2>2, <3>1
    <3>3. QED
      BY <1>4, <1>6, <2>2, <3>1, <3>2, BorrowsFields DEF SameRuling, SameTold
  <2>3. QED
    BY <2>1, <2>2
<1>9. use' = [use EXCEPT ![u] = d]
  BY <1>2, <1>3, <1>5, <1>7
<1>10. use[u].at = "announced" => ToolCall(use[u]) /\ Noted(use[u], "announced") /\ ~Noted(use[u], "spent")
  BY <1>1 DEF LangUse, ToolCall, Retrieval, ModelRun
<1>11. use[u].at = "idle" => use[u] = NoUse
  BY <1>1 DEF LangUse
<1>12. LangUse(d)
  <2>1. CASE use[u].at = "announced"
    <3>1. t = use[u].tool
      BY <1>2, <2>1
    <3>2. QED
      BY <1>4, <1>8, <1>10, <2>1, <3>1 DEF LangUse, ToolCall, Gates, Noted
  <2>2. CASE use[u].at = "idle"
    <3>1. d.marks = {} /\ d.rulings = 0 /\ d.events = 0 /\ d.at \in {"gating", "spending"}
      BY <1>8, <1>11, <2>2, NoUseFields
    <3>2. Gates(d) = 0 /\ ~Noted(d, "announced") /\ ~Noted(d, "spent") /\ ~Noted(d, "swallowed")
      BY <3>1 DEF Gates, Noted
    <3>3. ToolCall(d)
      BY <1>4, <1>8, <3>1, <3>2 DEF ToolCall
    <3>4. QED
      BY <1>8, <3>1, <3>3 DEF LangUse
  <2>3. QED
    BY <1>1, <2>1, <2>2
<1>13. Quiet(d, use[u])
  <2>1. CASE use[u].at = "announced"
    BY <1>2, <1>8, <1>10, <2>1 DEF Quiet, Grants, Owed, Stole, Ran, Noted, ToolCall
  <2>2. CASE use[u].at = "idle"
    BY <1>8, <1>11, <2>2, NoUseFields DEF Quiet, Grants, Owed, Stole, Ran, Noted, Chains
  <2>3. QED
    BY <1>1, <2>1, <2>2
<1>14. ~Raced /\ Noted(d, "announced") => k = c \/ Thief \/ chain[c] = "closed"
  <2>1. SUFFICES ASSUME ~Raced, Noted(d, "announced"), k # c
                 PROVE  Thief \/ chain[c] = "closed"
    OBVIOUS
  <2>2. use[u].at = "announced"
    BY <1>1, <1>8, <1>11, <2>1, NoUseFields DEF Noted
  <2>3. QED
    BY <1>2, <1>3, <2>1, <2>2, RobbedStarts
<1>15. k = "none" \/ k = c \/ chain[c] = "open"
  BY <1>3, CreditOnPath
<1>16. TurnFits'
  BY <1>1, <1>8, <1>9, TurnKept DEF ToolStarts, Taken, PythonSdk
<1>17. d.owner # "none" => chain[d.owner] # "unborn"
  BY <1>8 DEF LangInv, RunsFit
<1>18. ~Raced /\ ~Thief /\ d.at = "spending" /\ Noted(d, "announced") => d.lender = d.under
  BY <1>8, <1>14, <1>15
<1>19. ~Raced /\ Second(d) => Excused(d)
  BY <1>2, <1>4, <1>8, <1>14 DEF Second, Excused, Chains
<1>21. \A k1 \in Chains : Counts(d, k1) => Counts(use[u], k1)
  BY <1>1, <1>2, <1>8, <1>11, NoUseFields DEF Counts, Chains, Ran
<1>20. QED
  BY <1>9, <1>12, <1>13, <1>21, <1>16, <1>17, <1>18, <1>19, QuietKeeps DEF ToolStarts

\* Calls that are only watched or judged, and ends of tool calls.
LEMMA PlainStep ==
  ASSUME LangInv, UNCHANGED <<boundary, chain, agent, credit, turn>>, turn = "none",
         NEW u \in Uses, NEW d, LangUse(d), use' = [use EXCEPT ![u] = d],
         d.at \in {"running", "judging", "refused", "returned", "failed", "missing"},
         \/ use[u] = NoUse /\ d.marks = {} /\ d.owner = "none"
         \/ /\ use[u].marks \subseteq d.marks /\ d.marks \subseteq use[u].marks \cup {"untracked"}
            /\ use[u].at \notin {"idle", "granting"} /\ d.owner = use[u].owner
            /\ Ran(d) => Ran(use[u]) \/ d.owner = "none"
            /\ Ran(use[u]) => Ran(d)
            /\ d.rulings = use[u].rulings \/ (d.owner = "none" /\ d.route = "model")
            /\ d.tool = use[u].tool /\ d.under = use[u].under
            /\ Second(d) => Second(use[u])
  PROVE  LangInv'
<1>1. d \in UseRecords /\ use[u] \in UseRecords /\ LangUse(use[u])
  BY DEF LangUse, LangInv
<1>2. d.route = "model" => d.marks \subseteq {"untracked"}
  BY DEF LangUse, ToolCall, Retrieval, ModelRun
<1>3. Quiet(d, use[u]) /\ (Second(d) => Second(use[u]) /\ d.under = use[u].under)
  <2>1. CASE use[u] = NoUse /\ d.marks = {} /\ d.owner = "none"
    BY <2>1, NoUseFields DEF Quiet, Grants, Owed, Stole, Ran, Noted, Second, Chains
  <2>2. CASE /\ use[u].marks \subseteq d.marks /\ d.marks \subseteq use[u].marks \cup {"untracked"}
             /\ use[u].at \notin {"idle", "granting"} /\ d.owner = use[u].owner
             /\ Ran(d) => Ran(use[u]) \/ d.owner = "none"
             /\ Ran(use[u]) => Ran(d)
             /\ d.rulings = use[u].rulings \/ (d.owner = "none" /\ d.route = "model")
             /\ d.tool = use[u].tool /\ d.under = use[u].under
             /\ Second(d) => Second(use[u])
    <3>1. /\ Noted(use[u], "raced") => Noted(d, "raced")
          /\ Noted(d, "announced") <=> Noted(use[u], "announced")
          /\ Noted(d, "spent") <=> Noted(use[u], "spent")
      BY <2>2 DEF Noted
    <3>2. Stole(use[u]) => Stole(d)
      BY <1>2, <2>2, <3>1 DEF Stole, Noted
    <3>3. QED
      BY <2>2, <3>1, <3>2 DEF Quiet, Grants, Owed
  <2>3. QED
    BY <2>1, <2>2
<1>4. TurnFits'
  BY <1>1, TurnKept DEF Midway
<1>5. d.owner # "none" => chain[d.owner] # "unborn"
  BY DEF LangInv, RunsFit
<1>6. ~Raced /\ Second(d) => Excused(d)
  BY <1>3 DEF LangInv, Excused
<1>8. \A k \in Chains : Counts(d, k) => Counts(use[u], k)
  BY NoUseFields DEF Counts, Chains
<1>7. QED
  BY <1>3, <1>4, <1>5, <1>6, <1>8, QuietKeeps

\* An announced tool is not there.
LEMMA ToolMissingKeeps ==
  ASSUME LangInv, NEW u \in Uses, ToolMissing(u)
  PROVE  LangInv'
<1>1. LangUse(use[u]) /\ use[u] \in UseRecords /\ use[u].at = "announced"
  BY DEF ToolMissing, LangInv, LangUse
<1>2. ToolCall(use[u])
  BY <1>1 DEF LangUse, ToolCall, Retrieval, ModelRun
<1>3. PICK d : d = Move(use[u], "missing")
  OBVIOUS
<1>4. /\ d \in UseRecords /\ d.at = "missing" /\ SameAsk(d, use[u]) /\ SameRuling(d, use[u]) /\ SameTold(d, use[u])
      /\ d.marks = use[u].marks
  BY <1>1, <1>3, MoveFields DEF Places
<1>5. LangUse(d)
  BY <1>1, <1>2, <1>4 DEF LangUse, ToolCall, Gates, SameAsk, SameRuling, SameTold, Noted
<1>6. ~Second(d) /\ ~Ran(d) /\ ~Ran(use[u])
  BY <1>1, <1>2, <1>4 DEF ToolCall, Second, SameAsk, Ran
<1>7. QED
  BY <1>1, <1>3, <1>4, <1>5, <1>6, PlainStep DEF ToolMissing, langVars, SameAsk, SameRuling

\* A tool ends, and its result is recorded.
LEMMA ToolEndsKeeps ==
  ASSUME LangInv, NEW u \in Uses, ToolEnds(u)
  PROVE  LangInv'
<1>1. LangUse(use[u]) /\ use[u] \in UseRecords /\ use[u].at = "running" /\ use[u].route # "model"
  BY DEF ToolEnds, LangInv, LangUse
<1>2. PICK told \in Tellings : told = use[u].told
  BY <1>1 DEF UseRecords
<1>3. PICK t : t = Tell(use[u], told)
  OBVIOUS
<1>4. /\ t \in UseRecords /\ SameAsk(t, use[u]) /\ SameRuling(t, use[u]) /\ t.events = use[u].events + 1
      /\ t.marks = use[u].marks
  BY <1>1, <1>3, TellFields
<1>5. PICK d : d = Move(t, "returned")
  OBVIOUS
<1>6. /\ d \in UseRecords /\ d.at = "returned" /\ SameAsk(d, use[u]) /\ SameRuling(d, use[u])
      /\ d.events = use[u].events + 1 /\ d.marks = use[u].marks
  BY <1>4, <1>5, MoveFields DEF Places, SameAsk, SameRuling, SameTold
<1>7. LangUse(d)
  <2>1. ToolCall(use[u]) => ToolCall(d)
    BY <1>1, <1>6 DEF UseRecords, ToolCall, Gates, SameAsk, SameRuling, Noted
  <2>2. Retrieval(use[u]) => Retrieval(d)
    BY <1>1, <1>6 DEF Retrieval, SameAsk, SameRuling
  <2>3. QED
    BY <1>1, <1>6, <2>1, <2>2 DEF LangUse, ModelRun
<1>8. Ran(d) /\ Ran(use[u]) /\ (Second(d) => Second(use[u]))
  BY <1>1, <1>6 DEF Ran, Second, SameAsk, Noted
<1>9. use' = [use EXCEPT ![u] = d]
  BY <1>2, <1>3, <1>5 DEF ToolEnds
<1>10. QED
  BY <1>1, <1>6, <1>7, <1>8, <1>9, PlainStep DEF ToolEnds, langVars, SameAsk, SameRuling

\* A retriever starts, which nobody rules on.
LEMMA RetrieverStartsKeeps ==
  ASSUME LangInv, NEW u \in Uses, RetrieverStarts(u)
  PROVE  LangInv'
<1>1. use[u] = NoUse
  BY DEF RetrieverStarts, LangInv, LangUse
<1>2. PICK d : d = [NoUse EXCEPT !.at = "running", !.route = "retriever"]
  OBVIOUS
<1>3. d = [at |-> "running", tool |-> "none", route |-> "retriever", under |-> "none", owner |-> "none",
           lender |-> "none", rulings |-> 0, args |-> "raw", result |-> "none", told |-> "none", events |-> 0,
           saw |-> 0, marks |-> {}]
  BY <1>2 DEF NoUse
<1>4. d \in UseRecords
  BY <1>3 DEF UseRecords, Places, Named, Ways, Owners, Results, Tellings
<1>5. LangUse(d)
  BY <1>3, <1>4 DEF LangUse, Retrieval
<1>6. use' = [use EXCEPT ![u] = d]
  BY <1>1, <1>2 DEF RetrieverStarts
<1>7. QED
  BY <1>1, <1>3, <1>5, <1>6, PlainStep DEF RetrieverStarts, langVars

\* A model call starts.
LEMMA ModelStartsKeeps ==
  ASSUME LangInv, NEW u \in Uses, ModelStarts(u)
  PROVE  LangInv'
<1>1. use[u] = NoUse
  BY DEF ModelStarts, LangInv, LangUse
<1>2. PICK d : d = [NoUse EXCEPT !.at = "judging", !.route = "model"]
  OBVIOUS
<1>3. d = [at |-> "judging", tool |-> "none", route |-> "model", under |-> "none", owner |-> "none",
           lender |-> "none", rulings |-> 0, args |-> "raw", result |-> "none", told |-> "none", events |-> 0,
           saw |-> 0, marks |-> {}]
  BY <1>2 DEF NoUse
<1>4. d \in UseRecords
  BY <1>3 DEF UseRecords, Places, Named, Ways, Owners, Results, Tellings
<1>5. LangUse(d)
  BY <1>3, <1>4 DEF LangUse, ModelRun, Unspoken
<1>6. use' = [use EXCEPT ![u] = d]
  BY <1>1, <1>2 DEF ModelStarts
<1>7. QED
  BY <1>1, <1>3, <1>5, <1>6, PlainStep DEF ModelStarts, langVars

\* A model call on its way, with its one ruling.
LEMMA ModelJudgedKeeps ==
  ASSUME LangInv, NEW u \in Uses, ModelJudged(u)
  PROVE  LangInv'
<1>1. LangUse(use[u]) /\ use[u] \in UseRecords /\ use[u].at = "judging"
  BY DEF ModelJudged, LangInv, LangUse
<1>2. ModelRun(use[u])
  BY <1>1 DEF LangUse, ToolCall, Retrieval
<1>3. PICK c : c = [use[u] EXCEPT !.rulings = 1]
  OBVIOUS
<1>4. /\ c \in UseRecords /\ SameAsk(c, use[u]) /\ c.rulings = 1 /\ Unspoken(c) /\ c.marks = use[u].marks
  BY <1>1, <1>2, <1>3 DEF UseRecords, SameAsk, ModelRun, Unspoken
<1>5. PICK d \in {Move(c, "running"), Refuse(c), RefuseRedaction(c), Note(Move(c, "running"), "untracked")} :
        use' = [use EXCEPT ![u] = d]
  BY <1>3 DEF ModelJudged
<1>6. PICK m : m = Move(c, "running")
  OBVIOUS
<1>7. /\ m \in UseRecords /\ m.at = "running" /\ SameAsk(m, use[u]) /\ m.rulings = 1 /\ Unspoken(m)
      /\ m.marks = use[u].marks
  BY <1>4, <1>6, MoveFields DEF Places, SameAsk, SameRuling, SameTold, Unspoken
<1>8. /\ d \in UseRecords /\ d.at \in {"running", "refused"} /\ SameAsk(d, use[u]) /\ d.rulings = 1
      /\ d.at = "running" => Unspoken(d)
      /\ d.at = "refused" => d.told = "blocked" /\ d.events = 1
      /\ use[u].marks \subseteq d.marks /\ d.marks \subseteq use[u].marks \cup {"untracked"}
  <2>1. CASE d = m
    BY <1>7, <2>1
  <2>2. CASE d = Refuse(c)
    BY <1>4, <2>2, RefuseFields DEF SameAsk, SameRuling, Unspoken
  <2>3. CASE d = RefuseRedaction(c)
    <3>1. PICK r : r = Cleaned(c)
      OBVIOUS
    <3>2. r \in UseRecords /\ SameAsk(r, use[u]) /\ r.rulings = 1 /\ r.events = 0 /\ r.marks = use[u].marks
      BY <1>4, <3>1, CleanedFields DEF SameAsk, SameTold, Unspoken
    <3>3. d = Refuse(r)
      BY <2>3, <3>1 DEF RefuseRedaction, Cleaned
    <3>4. QED
      BY <3>2, <3>3, RefuseFields DEF SameAsk, SameRuling
  <2>4. CASE d = Note(m, "untracked")
    BY <1>7, <2>4, NoteFields DEF Marks, SameAsk, SameRuling, SameTold, Unspoken
  <2>5. QED
    BY <1>5, <1>6, <2>1, <2>2, <2>3, <2>4
<1>9. LangUse(d)
  <2>1. d.args = "redacted" => d.at = "refused"
    BY <1>8 DEF Unspoken
  <2>2. ModelRun(d)
    BY <1>2, <1>8, <2>1 DEF ModelRun, SameAsk
  <2>3. QED
    BY <1>8, <2>2 DEF LangUse
<1>10. d.route = "model" /\ d.owner = "none" /\ ~Second(d) /\ ~Ran(use[u]) /\ use[u].owner = "none"
  BY <1>1, <1>2, <1>8 DEF ModelRun, SameAsk, Second, Ran
<1>11. QED
  BY <1>1, <1>5, <1>8, <1>9, <1>10, PlainStep DEF ModelJudged, langVars, SameAsk

\* A model call ends.
LEMMA ModelEndsKeeps ==
  ASSUME LangInv, NEW u \in Uses, ModelEnds(u)
  PROVE  LangInv'
<1>1. LangUse(use[u]) /\ use[u] \in UseRecords /\ use[u].at = "running" /\ use[u].route = "model"
  BY DEF ModelEnds, LangInv, LangUse
<1>2. ModelRun(use[u])
  BY <1>1 DEF LangUse, ToolCall, Retrieval
<1>3. PICK end \in {"returned", "failed"}, told \in {"allowed", "failed"} :
        \/ use' = [use EXCEPT ![u] = Move(use[u], end)] /\ (end = "failed" => Noted(use[u], "untracked"))
        \/ use' = [use EXCEPT ![u] = Move(Tell(use[u], told), end)]
  BY DEF ModelEnds
<1>4. PICK c : /\ use' = [use EXCEPT ![u] = Move(c, end)]
               /\ \/ c = use[u] /\ (end = "failed" => Noted(use[u], "untracked"))
                  \/ c = Tell(use[u], told)
  BY <1>3
<1>5. /\ c \in UseRecords /\ SameAsk(c, use[u]) /\ SameRuling(c, use[u]) /\ c.marks = use[u].marks
      /\ c.events = 1 \/ (c = use[u] /\ (end = "failed" => Noted(use[u], "untracked")))
  BY <1>1, <1>2, <1>4, TellFields DEF Tellings, ModelRun, Unspoken, SameAsk, SameRuling
<1>6. PICK d : d = Move(c, end)
  OBVIOUS
<1>7. /\ d \in UseRecords /\ d.at = end /\ SameAsk(d, use[u]) /\ SameRuling(d, use[u]) /\ d.marks = use[u].marks
      /\ d.events = c.events
  BY <1>5, <1>6, MoveFields DEF Places, SameAsk, SameRuling, SameTold
<1>8. LangUse(d)
  BY <1>1, <1>2, <1>4, <1>5, <1>7 DEF LangUse, ModelRun, Unspoken, SameAsk, SameRuling, Noted
<1>9. ~Second(d) /\ Ran(d) /\ Ran(use[u])
  BY <1>1, <1>7 DEF SameAsk, Second, Ran
<1>10. QED
  BY <1>1, <1>4, <1>6, <1>7, <1>8, <1>9, PlainStep DEF ModelEnds, langVars, SameAsk, SameRuling

\* The agent run a call is charged to is an open one.
LEMMA OwnerIsOpen ==
  ASSUME RunsFit, NEW u \in Uses, use[u].under \in Chains
  PROVE  Owner(u) # "none" => Owner(u) \in Chains /\ agent[Owner(u)].open
<1> DEFINE Open == {k \in Chains : agent[k].open}
<1>1. \A c \in Chains : AgentAbove(c) # "none" => AgentAbove(c) \in Open
  <2>1. SUFFICES ASSUME NEW c \in Chains, AgentAbove(c) # "none"
                 PROVE  AgentAbove(c) \in Open
    OBVIOUS
  <2>2. PICK path : path = Path(c)
    OBVIOUS
  <2>3. PICK hits : hits = {i \in DOMAIN path : agent[path[i]].open}
    OBVIOUS
  <2>4. AgentAbove(c) = IF hits = {} THEN "none" ELSE path[CHOOSE i \in hits : \A j \in hits : i <= j]
    BY <2>2, <2>3 DEF AgentAbove, FirstOn
  <2>5. path = <<c>> \/ \E p \in Chains : path = <<c, p>>
    BY <2>2 DEF Path, Parent, Chains
  <2>6. DOMAIN path \in {1..1, 1..2} /\ \A i \in DOMAIN path : path[i] \in Chains
    BY <2>5
  <2>7. hits \subseteq {1, 2} /\ hits # {}
    BY <2>1, <2>3, <2>4, <2>6
  <2>8. \E i \in hits : \A j \in hits : i <= j
    <3>1. CASE 1 \in hits
      BY <2>7, <3>1
    <3>2. CASE 1 \notin hits
      <4>1. hits = {2}
        BY <2>7, <3>2
      <4>2. QED
        BY <4>1
    <3>3. QED
      BY <3>1, <3>2
  <2>9. (CHOOSE i \in hits : \A j \in hits : i <= j) \in hits
    BY <2>8
  <2>10. QED
    BY <2>3, <2>4, <2>6, <2>7, <2>9
<1>2. \A k \in Chains \cup {"none"} :
        LET near == IF k = "none" THEN "none"
                    ELSE IF PythonSdk THEN AgentAbove(k) ELSE IF agent[k].open THEN k ELSE "none"
        IN near # "none" => near \in Open
  BY <1>1
<1>3. Open # {} => (CHOOSE k \in Open : TRUE) \in Open
  OBVIOUS
<1>4. Cardinality(Open) = 1 => Open # {}
  BY FS_EmptySet
<1>5. \A c \in Chains : Parent[c] \in Chains \cup {"none"}
  BY DEF Parent, Chains
<1>6. Owner(u) # "none" => Owner(u) \in Open
  BY <1>2, <1>3, <1>4, <1>5 DEF Owner
<1>7. QED
  BY <1>6

\* The gate rules on a call, and a run's step count is read.
LEMMA GateToolKeeps ==
  ASSUME LangInv, NEW u \in Uses, GateTool(u)
  PROVE  LangInv'
<1>1. /\ LangUse(use[u]) /\ use[u] \in UseRecords /\ use[u].at = "gating" /\ turn \in {"none", u} /\ RunsFit
  BY DEF GateTool, MayStep, LangInv, LangUse
<1>2. ToolCall(use[u])
  BY <1>1 DEF LangUse, ToolCall, Retrieval, ModelRun
<1>3. PICK owner \in Chains \cup {"none"} :
        owner = Owner(u) /\ (owner # "none" => agent[owner].open /\ chain[owner] # "unborn")
  BY <1>1, <1>2, OwnerIsOpen DEF ToolCall, RunsFit
<1>4. PICK r : r = Ruled(use[u])
  OBVIOUS
<1>5. PICK c : c = [r EXCEPT !.owner = owner]
  OBVIOUS
<1>6. /\ c \in UseRecords /\ c.rulings = use[u].rulings + 1 /\ c.owner = owner /\ c.tool = use[u].tool
      /\ c.route = use[u].route /\ c.under = use[u].under /\ SameTold(c, use[u]) /\ c.marks = use[u].marks
  <2>1. /\ r \in UseRecords /\ r.rulings = use[u].rulings + 1 /\ SameAsk(r, use[u]) /\ SameTold(r, use[u])
        /\ r.marks = use[u].marks
    BY <1>1, <1>4, RuledFields
  <2>2. QED
    BY <1>5, <2>1 DEF UseRecords, Owners, SameAsk, SameTold
<1>7. c = [use[u] EXCEPT !.rulings = @ + 1, !.owner = owner]
  BY <1>1, <1>4, <1>5 DEF Ruled, UseRecords
<1>8. PICK saw \in Nat : saw = IF owner = "none" THEN 0 ELSE agent[owner].steps
  <2>1. owner # "none" => agent[owner] \in [open : BOOLEAN, steps : Nat]
    BY <1>1, <1>3 DEF RunsFit
  <2>2. owner # "none" => agent[owner].steps \in Nat
    BY <2>1
  <2>3. QED
    BY <2>2
<1>9. PICK n : n = IF PythonSdk /\ c.tool = "nameless" THEN Tell(Note(c, "not_evaluated"), "not_evaluated") ELSE c
  OBVIOUS
<1>10. /\ n \in UseRecords /\ SameAsk(n, c) /\ SameRuling(n, c) /\ n.events >= c.events
       /\ c.marks \subseteq n.marks /\ n.marks \subseteq c.marks \cup {"not_evaluated"}
  <2>1. PICK b : b = Note(c, "not_evaluated")
    OBVIOUS
  <2>2. /\ b \in UseRecords /\ SameAsk(b, c) /\ SameRuling(b, c) /\ SameTold(b, c) /\ b.marks = c.marks \cup {"not_evaluated"}
    BY <1>6, <2>1, NoteFields DEF Marks
  <2>3. PICK t : t = Tell(b, "not_evaluated")
    OBVIOUS
  <2>4. /\ t \in UseRecords /\ SameAsk(t, c) /\ SameRuling(t, c) /\ t.events = c.events + 1
        /\ t.marks = c.marks \cup {"not_evaluated"}
    BY <2>2, <2>3, TellFields DEF Tellings, SameAsk, SameRuling, SameTold
  <2>5. c.events \in Nat
    BY <1>6 DEF UseRecords
  <2>6. n = t \/ n = c
    BY <1>9, <2>1, <2>3
  <2>7. QED
    BY <1>6, <2>4, <2>5, <2>6 DEF SameAsk, SameRuling
<1>11. PICK d : d = IF c.tool \in Denied THEN Refuse(c) ELSE [n EXCEPT !.at = "counting", !.saw = saw]
  OBVIOUS
<1>12. use' = [use EXCEPT ![u] = d]
  BY <1>3, <1>7, <1>8, <1>9, <1>11 DEF GateTool
<1>13. /\ d \in UseRecords /\ d.tool = use[u].tool /\ d.route = use[u].route /\ d.under = use[u].under
       /\ d.owner = owner /\ d.rulings = use[u].rulings + 1
       /\ use[u].marks \subseteq d.marks /\ d.marks \subseteq use[u].marks \cup {"not_evaluated"}
       /\ \/ /\ d.tool \in Denied /\ d.at = "refused" /\ d.told = "blocked" /\ d.events = use[u].events + 1
          \/ /\ d.tool \notin Denied /\ d.at = "counting" /\ d.saw = saw /\ d.events >= use[u].events
  <2>1. CASE c.tool \in Denied
    BY <1>6, <1>11, <2>1, RefuseFields DEF SameAsk, SameRuling, SameTold
  <2>2. CASE c.tool \notin Denied
    <3>1. PICK m : m = Move(n, "counting")
      OBVIOUS
    <3>2. /\ m \in UseRecords /\ m.at = "counting" /\ SameAsk(m, c) /\ SameRuling(m, c) /\ m.events = n.events
          /\ m.marks = n.marks
      BY <1>10, <3>1, MoveFields DEF Places, SameAsk, SameRuling, SameTold
    <3>3. d = [m EXCEPT !.saw = saw]
      BY <1>10, <1>11, <2>2, <3>1 DEF Move, UseRecords
    <3>4. /\ d \in UseRecords /\ d.at = "counting" /\ SameAsk(d, c) /\ SameRuling(d, c) /\ d.events = n.events
          /\ d.marks = n.marks /\ d.saw = saw
      BY <3>2, <3>3 DEF UseRecords, SameAsk, SameRuling
    <3>5. QED
      BY <1>6, <1>10, <2>2, <3>4 DEF SameAsk, SameRuling, SameTold
  <2>3. QED
    BY <2>1, <2>2
<1>14. use[u].events \in Nat /\ d.events \in Nat
  BY <1>1, <1>13 DEF UseRecords
<1>15. LangUse(d)
  <2>1. /\ \A mark \in {"announced", "spent", "swallowed"} : Noted(d, mark) <=> Noted(use[u], mark)
        /\ use[u].rulings \in Nat
    BY <1>1, <1>13 DEF Noted, UseRecords
  <2>2. ~Noted(use[u], "spent") /\ ~(d.at \in {"granting", "gating", "spending"})
    BY <1>1, <1>2, <1>13 DEF ToolCall
  <2>3. Gates(d) = Gates(use[u]) + 1 /\ Gates(use[u]) \in Nat
    BY <1>1, <1>13, <2>1, <2>2 DEF Gates
  <2>4. d.rulings <= Gates(d) /\ (~Noted(d, "swallowed") => d.rulings = Gates(d))
    BY <1>2, <1>13, <2>1, <2>3 DEF ToolCall
  <2>5. ToolCall(d)
    BY <1>1, <1>2, <1>13, <1>14, <2>1, <2>2, <2>4 DEF ToolCall
  <2>6. QED
    BY <1>13, <2>5 DEF LangUse
<1>16. Quiet(d, use[u]) /\ ~Ran(d) /\ d.at \in {"refused", "counting"}
  BY <1>1, <1>13 DEF Quiet, Grants, Owed, Stole, Ran, Noted
<1>17. Second(d) => Second(use[u])
  BY <1>1, <1>13 DEF Second, Noted
<1>18. TurnFits'
  <2>1. ~PythonSdk => turn = u
    BY <1>1 DEF LangInv, TurnFits, Midway
  <2>2. ~PythonSdk /\ owner # "none" => agent[owner] = [open |-> TRUE, steps |-> agent[owner].steps]
    BY <1>1, <1>3 DEF RunsFit
  <2>3. d.at = "counting" => turn' = turn
    BY <1>13 DEF GateTool
  <2>4. ~PythonSdk /\ d.at = "counting" /\ d.owner # "none" => agent'[d.owner] = [open |-> TRUE, steps |-> d.saw]
    BY <1>8, <1>13, <2>2 DEF GateTool
  <2>5. ~PythonSdk /\ Midway(d) => turn' = u
    BY <1>16, <2>1, <2>3 DEF Midway
  <2>6. d \in UseRecords /\ d.at \notin {"granting", "spending"}
    BY <1>13, <1>16
  <2>7. turn \in {"none", u} /\ boundary' = boundary
    BY DEF GateTool, MayStep
  <2>8. QED
    BY <1>12, <2>4, <2>5, <2>6, <2>7, TurnKept
<1>19. \A k \in Chains : Counts(d, k) => Counts(use[u], k)
  BY <1>16 DEF Counts
<1>20. ~Raced /\ Second(d) => Excused(d)
  BY <1>13, <1>17 DEF LangInv, Excused
<1>21. QED
  BY <1>3, <1>12, <1>13, <1>15, <1>16, <1>18, <1>19, <1>20, QuietKeeps DEF GateTool

\* The callback ends before the gate, its exception swallowed.
LEMMA InputUnwrittenKeeps ==
  ASSUME LangInv, NEW u \in Uses, InputUnwritten(u)
  PROVE  LangInv'
<1>1. /\ LangUse(use[u]) /\ use[u] \in UseRecords /\ use[u].at = "gating" /\ turn \in {"none", u}
      /\ turn' = "none" /\ UNCHANGED <<boundary, chain, agent, credit>>
  BY DEF InputUnwritten, MayStep, LangInv, LangUse
<1>2. ToolCall(use[u])
  BY <1>1 DEF LangUse, ToolCall, Retrieval, ModelRun
<1>3. PICK n : n = Note(use[u], "swallowed")
  OBVIOUS
<1>4. /\ n \in UseRecords /\ SameAsk(n, use[u]) /\ SameRuling(n, use[u]) /\ SameTold(n, use[u])
      /\ n.marks = use[u].marks \cup {"swallowed"}
  BY <1>1, <1>3, NoteFields DEF Marks
<1>5. PICK place \in Places : place = IF n.route = "action" THEN "announced" ELSE "running"
  BY DEF Places
<1>6. PICK d : d = Move(n, place)
  OBVIOUS
<1>7. /\ d \in UseRecords /\ d.at = (IF use[u].route = "action" THEN "announced" ELSE "running")
      /\ SameAsk(d, use[u]) /\ SameRuling(d, use[u]) /\ SameTold(d, use[u])
      /\ d.marks = use[u].marks \cup {"swallowed"}
  BY <1>4, <1>5, <1>6, MoveFields DEF SameAsk, SameRuling, SameTold
<1>8. use' = [use EXCEPT ![u] = d]
  BY <1>3, <1>5, <1>6 DEF InputUnwritten, Passed
<1>9. use[u].events \in Nat /\ use[u].rulings \in Nat
  BY <1>1 DEF UseRecords
<1>10. LangUse(d)
  BY <1>1, <1>2, <1>7, <1>9 DEF LangUse, ToolCall, Gates, SameAsk, SameRuling, SameTold, Noted
<1>11. Quiet(d, use[u])
  BY <1>1, <1>7 DEF Quiet, Grants, Owed, Stole, Ran, SameAsk, Noted
<1>12. \A k \in Chains : Counts(d, k) => Counts(use[u], k)
  BY <1>1, <1>7 DEF Counts, SameAsk
<1>13. ~Raced /\ Second(d) => Excused(d)
  <2>1. Second(d) => Second(use[u])
    BY <1>1, <1>7 DEF Second, SameAsk, Noted
  <2>2. QED
    BY <1>7, <2>1 DEF LangInv, Excused, SameAsk
<1>14. TurnFits'
  BY <1>1, <1>7, <1>8, TurnKept DEF Midway
<1>15. d.owner # "none" => chain[d.owner] # "unborn"
  BY <1>7 DEF LangInv, RunsFit, SameAsk
<1>16. d.at # "spending"
  BY <1>7
<1>17. QED
  BY <1>1, <1>8, <1>10, <1>11, <1>12, <1>13, <1>14, <1>15, <1>16, QuietKeeps

\* A call the limit and the detector let pass, or refused.
Limited(d, c, count) ==
  /\ d \in UseRecords /\ SameAsk(d, c) /\ SameRuling(d, c)
  /\ c.marks \subseteq d.marks /\ d.marks \subseteq c.marks \cup {"escalated"}
  /\ d.events >= c.events + 1
  /\ \/ d.at = "refused" /\ d.told = "blocked"
     \/ /\ d.at = IF c.route = "action" THEN "announced" ELSE "running"
        /\ c.tool # "nameless" /\ boundary.stepAction = "block" => ~StepsOver(count)

\* What the limits make of a counted call.
LEMMA VerdictFits ==
  ASSUME NEW c \in UseRecords, NEW count, NEW looping
  PROVE  Limited(Verdict(c, count, looping), c, count)
<1>1. PICK over : /\ over => StepsOver(count)
                  /\ c.tool # "nameless" /\ StepsOver(count) => over
                  /\ Verdict(c, count, looping) \in
                       (IF over /\ boundary.stepAction = "block" THEN {Refuse(c)}
                        ELSE {Refuse(c), Passed(Tell(IF over THEN Tell(Note(c, "escalated"), "escalated") ELSE c, "allowed"))})
  <2>1. CASE (PythonSdk \/ c.tool # "nameless") /\ StepsOver(count)
    BY <2>1 DEF Verdict
  <2>2. CASE ~((PythonSdk \/ c.tool # "nameless") /\ StepsOver(count))
    BY <2>2 DEF Verdict
  <2>3. QED
    BY <2>1, <2>2
<1>2. c.events \in Nat
  BY DEF UseRecords
<1>3. CASE Verdict(c, count, looping) = Refuse(c)
  BY <1>2, <1>3, RefuseFields DEF Limited, SameAsk, SameRuling
<1>4. CASE ~(over /\ boundary.stepAction = "block")
           /\ Verdict(c, count, looping) = Passed(Tell(IF over THEN Tell(Note(c, "escalated"), "escalated") ELSE c, "allowed"))
  <2>1. PICK b : b = Note(c, "escalated")
    OBVIOUS
  <2>2. b \in UseRecords /\ SameAsk(b, c) /\ SameRuling(b, c) /\ SameTold(b, c) /\ b.marks = c.marks \cup {"escalated"}
    BY <2>1, NoteFields DEF Marks
  <2>3. PICK t : t = Tell(b, "escalated")
    OBVIOUS
  <2>4. t \in UseRecords /\ SameAsk(t, c) /\ SameRuling(t, c) /\ t.events = c.events + 1 /\ t.marks = c.marks \cup {"escalated"}
    BY <2>2, <2>3, TellFields DEF Tellings, SameAsk, SameRuling, SameTold
  <2>5. PICK e : e = IF over THEN t ELSE c
    OBVIOUS
  <2>6. /\ e \in UseRecords /\ SameAsk(e, c) /\ SameRuling(e, c) /\ e.events >= c.events /\ e.events \in Nat
        /\ c.marks \subseteq e.marks /\ e.marks \subseteq c.marks \cup {"escalated"}
    BY <1>2, <2>4, <2>5 DEF SameAsk, SameRuling
  <2>7. PICK a : a = Tell(e, "allowed")
    OBVIOUS
  <2>8. a \in UseRecords /\ SameAsk(a, c) /\ SameRuling(a, c) /\ a.events = e.events + 1 /\ a.marks = e.marks
    BY <2>6, <2>7, TellFields DEF Tellings, SameAsk, SameRuling
  <2>9. PICK place \in Places : place = IF c.route = "action" THEN "announced" ELSE "running"
    BY DEF Places
  <2>10. PICK d : d = Move(a, place)
    OBVIOUS
  <2>11. d \in UseRecords /\ d.at = place /\ SameAsk(d, c) /\ SameRuling(d, c) /\ d.events = e.events + 1 /\ d.marks = e.marks
    BY <2>8, <2>10, MoveFields DEF SameAsk, SameRuling, SameTold
  <2>12. Verdict(c, count, looping) = d
    BY <1>4, <2>1, <2>3, <2>5, <2>7, <2>8, <2>9, <2>10 DEF Passed, SameAsk
  <2>13. Limited(d, c, count)
    BY <1>1, <1>2, <1>4, <2>6, <2>9, <2>11 DEF Limited
  <2>14. QED
    BY <2>12, <2>13
<1>5. QED
  BY <1>1, <1>3, <1>4

\* A run is charged before its call passes: the limit holds.
LEMMA CountKeeps ==
  ASSUME LangInv, NEW u \in Uses, Count(u)
  PROVE  LangInv'
<1>1. /\ LangUse(use[u]) /\ use[u] \in UseRecords /\ use[u].at = "counting" /\ turn \in {"none", u} /\ RunsFit
  BY DEF Count, MayStep, LangInv, LangUse
<1>2. ToolCall(use[u])
  BY <1>1 DEF LangUse, ToolCall, Retrieval, ModelRun
<1>3. PICK owner \in Chains \cup {"none"}, saw \in Nat : owner = use[u].owner /\ saw = use[u].saw
  BY <1>1 DEF UseRecords, Owners
<1>4. PICK c : c = [use[u] EXCEPT !.saw = 0]
  OBVIOUS
<1>5. /\ c \in UseRecords /\ SameAsk(c, use[u]) /\ SameRuling(c, use[u]) /\ SameTold(c, use[u])
      /\ c.marks = use[u].marks
  BY <1>1, <1>4 DEF UseRecords, SameAsk, SameRuling, SameTold
<1>6. PICK r : r = IF owner # "none" /\ agent[owner] # [open |-> TRUE, steps |-> saw] THEN Note(c, "raced") ELSE c
  OBVIOUS
<1>7. /\ r \in UseRecords /\ SameAsk(r, use[u]) /\ SameRuling(r, use[u]) /\ SameTold(r, use[u])
      /\ use[u].marks \subseteq r.marks /\ r.marks \subseteq use[u].marks \cup {"raced"}
      /\ ~Noted(r, "raced") /\ owner # "none" => agent[owner] = [open |-> TRUE, steps |-> saw]
  <2>1. PICK n : n = Note(c, "raced")
    OBVIOUS
  <2>2. /\ n \in UseRecords /\ SameAsk(n, c) /\ SameRuling(n, c) /\ SameTold(n, c) /\ n.marks = c.marks \cup {"raced"}
    BY <1>5, <2>1, NoteFields DEF Marks
  <2>3. CASE owner # "none" /\ agent[owner] # [open |-> TRUE, steps |-> saw]
    <3>1. r = n
      BY <1>6, <2>1, <2>3
    <3>2. QED
      BY <1>5, <2>2, <3>1 DEF SameAsk, SameRuling, SameTold, Noted
  <2>4. CASE ~(owner # "none" /\ agent[owner] # [open |-> TRUE, steps |-> saw])
    <3>1. r = c
      BY <1>6, <2>4
    <3>2. QED
      BY <1>5, <2>4, <3>1
  <2>5. QED
    BY <2>3, <2>4
<1>8. PICK looping : use' = [use EXCEPT ![u] = Verdict(r, saw, looping)]
  BY <1>3, <1>4, <1>6 DEF Count
<1>9. PICK d : d = Verdict(r, saw, looping)
  OBVIOUS
<1>10. Limited(d, r, saw)
  BY <1>7, <1>9, VerdictFits
<1>11. /\ d \in UseRecords /\ SameAsk(d, use[u]) /\ SameRuling(d, use[u])
       /\ use[u].marks \subseteq d.marks /\ r.marks \subseteq d.marks
       /\ d.marks \subseteq use[u].marks \cup {"raced", "escalated"}
       /\ d.events >= use[u].events + 1 /\ d.events \in Nat /\ use[u].events \in Nat
       /\ \/ d.at = "refused" /\ d.told = "blocked"
          \/ /\ d.at = IF use[u].route = "action" THEN "announced" ELSE "running"
             /\ use[u].tool # "nameless" /\ boundary.stepAction = "block" => ~StepsOver(saw)
  BY <1>1, <1>7, <1>10 DEF Limited, SameAsk, SameRuling, SameTold, UseRecords
<1>12. use' = [use EXCEPT ![u] = d]
  BY <1>8, <1>9
<1>13. LangUse(d)
  <2>1. \A mark \in {"announced", "spent", "swallowed"} : Noted(d, mark) <=> Noted(use[u], mark)
    BY <1>11 DEF Noted
  <2>2. ~Noted(use[u], "spent") /\ d.at \in {"refused", "announced", "running"} /\ use[u].at = "counting"
    BY <1>1, <1>2, <1>11 DEF ToolCall
  <2>3. Gates(d) = Gates(use[u])
    BY <1>11, <2>1, <2>2 DEF Gates, SameAsk
  <2>4. d.rulings <= Gates(d) /\ (~Noted(d, "swallowed") => d.rulings = Gates(d))
    BY <1>2, <1>11, <2>1, <2>3 DEF ToolCall, SameRuling
  <2>5. d.events >= d.rulings /\ d.events \in Nat /\ d.rulings \in Nat
    BY <1>1, <1>2, <1>11 DEF ToolCall, SameRuling, UseRecords
  <2>6. ToolCall(d)
    BY <1>2, <1>11, <2>1, <2>2, <2>4, <2>5 DEF ToolCall, SameAsk, SameRuling
  <2>7. QED
    BY <1>11, <2>2, <2>6 DEF LangUse
<1>14. Quiet(d, use[u]) /\ (Second(d) => Second(use[u]) /\ d.under = use[u].under)
  BY <1>1, <1>11 DEF Quiet, Grants, Owed, Stole, Ran, Second, SameAsk, Noted
<1>15. agent' = IF owner = "none" \/ ~agent[owner].open THEN agent ELSE [agent EXCEPT ![owner].steps = saw + 1]
  BY <1>3 DEF Count
<1>16. /\ agent' \in [Chains -> [open : BOOLEAN, steps : Nat]]
       /\ \A k \in Chains : agent'[k].open <=> agent[k].open
       /\ \A k \in Chains : k # owner => agent'[k] = agent[k]
       /\ owner # "none" /\ agent[owner].open => agent'[owner].steps = saw + 1
  BY <1>1, <1>3, <1>15 DEF RunsFit
<1>17. /\ use' \in [Uses -> UseRecords] /\ use'[u] = d
       /\ \A v \in Uses : v # u => use'[v] = use[v]
  BY <1>11, <1>12, OneChanged DEF LangInv
<1>18. RunsFit'
  BY <1>1, <1>11, <1>16, <1>17 DEF RunsFit, Count, SameAsk
<1>19. TurnFits'
  BY <1>1, <1>11, <1>12, TurnKept DEF Midway, Count
<1>20. ~Raced' /\ boundary.stepAction = "block" => StepsFit'
  <2>1. SUFFICES ASSUME ~Raced', boundary.stepAction = "block"
                 PROVE  StepsFit'
    OBVIOUS
  <2>2. ~Raced
    BY <1>11, <1>17, <2>1 DEF Raced, PythonSdk, Noted, Count
  <2>3. StepsFit
    BY <2>1, <2>2 DEF LangInv
  <2>4. owner # "none" => agent[owner] = [open |-> TRUE, steps |-> saw]
    <3>1. CASE PythonSdk
      <4>1. ~Noted(d, "raced")
        BY <1>17, <2>1, <3>1 DEF Raced, PythonSdk, Noted, Count
      <4>2. QED
        BY <1>7, <1>11, <4>1 DEF Noted
    <3>2. CASE ~PythonSdk
      BY <1>1, <1>3, <3>2 DEF LangInv, TurnFits
    <3>3. QED
      BY <3>1, <3>2
  <2>5. SUFFICES ASSUME NEW k \in Chains
                 PROVE  /\ Cardinality(Charged(k)') <= MaxSteps
                        /\ agent'[k].open => Cardinality(Charged(k)') <= agent'[k].steps
    BY DEF StepsFit
  <2>6. /\ Charged(k) \subseteq Uses /\ IsFiniteSet(Charged(k)) /\ Cardinality(Charged(k)) \in Nat
        /\ Cardinality(Charged(k)) <= MaxSteps /\ MaxSteps \in Nat
        /\ agent[k].open => Cardinality(Charged(k)) <= agent[k].steps
    BY <2>3, CallsCounted, ToolAssumption DEF StepsFit, Charged
  <2>7. u \notin Charged(k)
    BY <1>1 DEF Charged, Counts, Ran
  <2>8. Charged(k)' = IF Counts(d, k) THEN Charged(k) \cup {u} ELSE Charged(k)
    <3>1. \A v \in Uses : Counts(use'[v], k) <=> IF v = u THEN Counts(d, k) ELSE Counts(use[v], k)
      BY <1>17
    <3>2. Charged(k)' = {v \in Uses : Counts(use'[v], k)}
      BY DEF Charged, Counts, Ran
    <3>3. QED
      BY <2>7, <3>1, <3>2 DEF Charged
  <2>9. CASE k # owner
    <3>1. ~Counts(d, k)
      BY <1>3, <1>11, <2>9 DEF Counts, SameAsk
    <3>2. QED
      BY <1>16, <2>6, <2>8, <2>9, <3>1
  <2>10. CASE k = owner
    <3>1. agent[k].open /\ agent[k].steps = saw /\ agent'[k].steps = saw + 1
      <4>1. owner # "none"
        BY <2>10 DEF Chains
      <4>2. agent[owner].open /\ agent[owner].steps = saw
        BY <2>4, <4>1
      <4>3. QED
        BY <1>16, <2>10, <4>1, <4>2
    <3>2. CASE Counts(d, k)
      <4>1. ~StepsOver(saw)
        BY <1>11, <2>1, <3>2 DEF Counts, Ran, SameAsk
      <4>2. Cardinality(Charged(k)') = Cardinality(Charged(k)) + 1
        BY <2>6, <2>7, <2>8, <3>2, FS_AddElement
      <4>3. QED
        BY <1>3, <2>6, <3>1, <4>1, <4>2 DEF StepsOver
    <3>3. CASE ~Counts(d, k)
      BY <1>3, <2>6, <2>8, <3>1, <3>3
    <3>4. QED
      BY <3>2, <3>3
  <2>11. QED
    BY <2>9, <2>10
<1>21. ~Raced /\ Second(d) => Excused(d)
  BY <1>14 DEF LangInv, Excused
<1>22. d.at # "spending"
  BY <1>11
<1>23. QED
  BY <1>12, <1>13, <1>14, <1>18, <1>19, <1>20, <1>21, <1>22, AccountsKept DEF Count

\* A credit that changed since it was read is noted.
LEMMA LostFields ==
  ASSUME NEW c \in UseRecords, NEW k
  PROVE  LET d == Lost(c, k) IN
         /\ d \in UseRecords /\ d.at = c.at /\ SameAsk(d, c) /\ SameRuling(d, c) /\ SameTold(d, c) /\ SameRest(d, c)
         /\ c.marks \subseteq d.marks /\ d.marks \subseteq c.marks \cup {"raced"}
         /\ ~Noted(d, "raced") => credit[k] = c.saw
<1>1. PICK n : n = Note(c, "raced")
  OBVIOUS
<1>2. /\ n \in UseRecords /\ n.at = c.at /\ SameAsk(n, c) /\ SameRuling(n, c) /\ SameTold(n, c) /\ SameRest(n, c)
      /\ n.marks = c.marks \cup {"raced"}
  BY <1>1, NoteFields DEF Marks
<1>3. Lost(c, k) = IF credit[k] # c.saw THEN n ELSE c
  BY <1>1 DEF Lost
<1>4. CASE credit[k] # c.saw
  BY <1>2, <1>3, <1>4 DEF Noted
<1>5. CASE credit[k] = c.saw
  BY <1>3, <1>5 DEF SameAsk, SameRuling, SameTold, SameRest
<1>6. QED
  BY <1>4, <1>5

\* A credit is granted before the gate rules.
LEMMA GrantKeeps ==
  ASSUME LangInv, NEW u \in Uses, Grant(u)
  PROVE  LangInv'
<1>1. /\ LangUse(use[u]) /\ use[u] \in UseRecords /\ use[u].at = "granting" /\ turn \in {"none", u} /\ RunsFit
      /\ turn' = turn /\ UNCHANGED <<boundary, chain, agent>>
  BY DEF Grant, MayStep, LangInv, LangUse
<1>2. ToolCall(use[u])
  BY <1>1 DEF LangUse, ToolCall, Retrieval, ModelRun
<1>3. PICK k \in Chains, saw \in Nat : k = use[u].under /\ saw = use[u].saw
  BY <1>1, <1>2 DEF UseRecords, ToolCall
<1>4. PICK b : b = Lost(use[u], k)
  OBVIOUS
<1>5. /\ b \in UseRecords /\ SameAsk(b, use[u]) /\ SameRuling(b, use[u]) /\ SameTold(b, use[u])
      /\ use[u].marks \subseteq b.marks /\ b.marks \subseteq use[u].marks \cup {"raced"}
      /\ ~Noted(b, "raced") => credit[k] = saw
  BY <1>1, <1>3, <1>4, LostFields
<1>6. PICK m : m = Move(b, "gating")
  OBVIOUS
<1>7. /\ m \in UseRecords /\ m.at = "gating" /\ SameAsk(m, use[u]) /\ SameRuling(m, use[u]) /\ SameTold(m, use[u])
      /\ m.marks = b.marks
  BY <1>5, <1>6, MoveFields DEF Places, SameAsk, SameRuling, SameTold
<1>8. PICK d : d = [m EXCEPT !.saw = 0]
  OBVIOUS
<1>9. /\ d \in UseRecords /\ d.at = "gating" /\ SameAsk(d, use[u]) /\ SameRuling(d, use[u]) /\ SameTold(d, use[u])
      /\ d.marks = b.marks
  BY <1>7, <1>8 DEF UseRecords, SameAsk, SameRuling, SameTold
<1>10. d = [Lost(use[u], use[u].under) EXCEPT !.at = "gating", !.saw = 0]
  BY <1>3, <1>4, <1>5, <1>6, <1>8 DEF Move, UseRecords
<1>11. use' = [use EXCEPT ![u] = d]
  BY <1>10 DEF Grant
<1>12. /\ use' \in [Uses -> UseRecords] /\ use'[u] = d
       /\ \A v \in Uses : v # u => use'[v] = use[v]
  BY <1>9, <1>11, OneChanged DEF LangInv
<1>13. credit' = [credit EXCEPT ![k] = saw + 1]
  BY <1>3 DEF Grant
<1>14. LangUse(d)
  <2>1. Noted(d, "announced") /\ ~Noted(d, "spent") /\ use[u].route = "action" /\ d.route = "action"
    BY <1>1, <1>2, <1>5, <1>9 DEF ToolCall, SameAsk, Noted
  <2>2. d.rulings = 0 /\ d.events = use[u].events /\ use[u].events >= 0
    BY <1>1, <1>2, <1>9, <2>1 DEF ToolCall, Gates, SameRuling, SameTold, UseRecords
  <2>3. d.tool \in Tools \cup {"nameless"} /\ d.under \in Chains /\ d.events \in Nat /\ d.at = "gating" /\ d \in UseRecords
    BY <1>2, <1>9 DEF ToolCall, SameAsk, UseRecords
  <2>4. ToolCall(d)
    BY <2>1, <2>2, <2>3 DEF ToolCall, Gates
  <2>5. QED
    BY <2>3, <2>4 DEF LangUse
<1>15. (\A v \in Uses : LangUse(use[v]))'
  <2>1. \A v \in Uses : LangUse(use'[v])
    BY <1>12, <1>14 DEF LangInv
  <2>2. QED
    BY <2>1 DEF LangUse, ToolCall, Gates, Retrieval, ModelRun, Unspoken, Noted
<1>16. RunsFit'
  BY <1>1, <1>9, <1>12, <1>13 DEF RunsFit, SameAsk
<1>17. TurnFits'
  <2>1. ~PythonSdk => turn = u
    BY <1>1 DEF LangInv, TurnFits, Midway
  <2>2. QED
    BY <1>1, <1>9, <1>11, <2>1, TurnKept
<1>18. /\ Noted(use[u], "announced") /\ Noted(d, "announced") /\ ~Noted(use[u], "spent") /\ ~Noted(d, "spent")
       /\ ~Grants(use[u]) /\ Grants(d) /\ use[u].route = "action" /\ d.route = "action" /\ d.under = k
       /\ ~Ran(use[u]) /\ ~Ran(d)
  BY <1>1, <1>2, <1>3, <1>5, <1>9 DEF ToolCall, Grants, SameAsk, Ran, Noted
<1>19. ~Raced' => ~Raced /\ credit[k] = saw
  <2>1. SUFFICES ASSUME ~Raced'
                 PROVE  ~Raced /\ credit[k] = saw
    OBVIOUS
  <2>2. ~Raced
    BY <1>1, <1>5, <1>9, <1>12, <2>1 DEF Raced, PythonSdk, Noted
  <2>3. CASE PythonSdk
    BY <1>1, <1>5, <1>9, <1>12, <2>1, <2>3 DEF Raced, PythonSdk, Noted
  <2>4. CASE ~PythonSdk
    BY <1>1, <1>3, <2>2, <2>4 DEF LangInv, TurnFits
  <2>5. QED
    BY <2>2, <2>3, <2>4
<1>20. Thief => Thief'
  BY <1>12, <1>18 DEF Thief, Stole, Ran, Noted
<1>21. ~Raced' => CreditsFit'
  <2>1. SUFFICES ASSUME ~Raced'
                 PROVE  CreditsFit'
    OBVIOUS
  <2>2. SpentCalls' = SpentCalls
    BY <1>12, <1>18 DEF SpentCalls, Noted
  <2>3. GrantedCalls' = GrantedCalls \cup {u} /\ u \notin GrantedCalls
    <3>1. \A v \in Uses : Grants(use'[v]) <=> v = u \/ Grants(use[v])
      BY <1>12, <1>18
    <3>2. GrantedCalls' = {v \in Uses : Grants(use'[v])}
      BY DEF GrantedCalls, Grants, Noted
    <3>3. QED
      BY <1>18, <3>1, <3>2 DEF GrantedCalls
  <2>4. /\ IsFiniteSet(GrantedCalls) /\ Cardinality(GrantedCalls) \in Nat /\ Cardinality(SpentCalls) \in Nat
    BY CallsCounted DEF GrantedCalls, SpentCalls
  <2>5. Cardinality(GrantedCalls') = Cardinality(GrantedCalls) + 1
    BY <2>3, <2>4, FS_AddElement
  <2>6. credit'["root"] + credit'["node"] + credit'["other"] = credit["root"] + credit["node"] + credit["other"] + 1
    BY <1>1, <1>13, <1>19, <2>1 DEF RunsFit, Chains
  <2>7. \A l \in Chains : credit[l] \in Nat /\ credit'[l] \in Nat
    BY <1>1, <1>16 DEF RunsFit
  <2>8. CreditsFit
    BY <1>19, <2>1 DEF LangInv
  <2>9. QED
    BY <2>2, <2>4, <2>5, <2>6, <2>7, <2>8 DEF CreditsFit, Chains
<1>22. ~Raced' /\ ~Thief' => OwingsFit'
  <2>1. SUFFICES ASSUME ~Raced', ~Thief'
                 PROVE  OwingsFit'
    OBVIOUS
  <2>2. OwingsFit
    BY <1>19, <1>20, <2>1 DEF LangInv
  <2>3. \A v \in Uses : use'[v].at = "spending" /\ Noted(use'[v], "announced") => use'[v].lender = use'[v].under
    BY <1>9, <1>12, <2>2 DEF OwingsFit
  <2>4. \A l \in Chains : Owings(l)' = IF l = k THEN Owings(l) \cup {u} ELSE Owings(l)
    <3>1. \A l \in Chains : \A v \in Uses : Owed(use'[v], l) <=> (v = u /\ l = k) \/ Owed(use[v], l)
      BY <1>12, <1>18 DEF Owed
    <3>2. \A l \in Chains : Owings(l)' = {v \in Uses : Owed(use'[v], l)}
      BY DEF Owings, Owed, Grants, Noted
    <3>3. QED
      BY <3>1, <3>2 DEF Owings
  <2>5. u \notin Owings(k) /\ IsFiniteSet(Owings(k)) /\ Cardinality(Owings(k)) \in Nat
    BY <1>18, CallsCounted DEF Owings, Owed
  <2>6. Cardinality(Owings(k) \cup {u}) = Cardinality(Owings(k)) + 1
    BY <2>5, FS_AddElement
  <2>7. \A l \in Chains : chain'[l] # "closed" => credit'[l] = Cardinality(Owings(l)')
    <3>1. SUFFICES ASSUME NEW l \in Chains, chain[l] # "closed"
                   PROVE  credit'[l] = Cardinality(Owings(l)')
      BY <1>1
    <3>2. credit[l] = Cardinality(Owings(l))
      BY <2>2, <3>1 DEF OwingsFit
    <3>3. CASE l = k
      BY <1>1, <1>13, <1>19, <2>1, <2>4, <2>6, <3>2, <3>3 DEF RunsFit
    <3>4. CASE l # k
      BY <1>1, <1>13, <2>4, <3>2, <3>4 DEF RunsFit
    <3>5. QED
      BY <3>3, <3>4
  <2>8. QED
    BY <2>3, <2>7 DEF OwingsFit, Noted
<1>23. ~Raced' => (\A v \in Uses : Second(use[v]) => Excused(use[v]))'
  <2>1. SUFFICES ASSUME ~Raced', NEW v \in Uses, Second(use'[v])
                 PROVE  Thief' \/ chain'[use'[v].under] = "closed"
    BY DEF Second, Excused, Noted
  <2>2. v # u
    BY <1>12, <1>18, <2>1 DEF Second
  <2>3. Thief \/ chain[use'[v].under] = "closed"
    BY <1>12, <1>19, <2>1, <2>2 DEF LangInv, Excused
  <2>4. QED
    BY <1>1, <1>20, <2>3
<1>24. StepsFit => StepsFit'
  <2>1. \A l \in Chains : Charged(l)' = Charged(l)
    <3>1. use[u].owner = "none" /\ d.owner = "none"
      BY <1>1, <1>2, <1>9 DEF ToolCall, SameAsk
    <3>2. \A l \in Chains : \A v \in Uses : Counts(use'[v], l) <=> Counts(use[v], l)
      BY <1>12, <3>1 DEF Counts, Chains
    <3>3. \A l \in Chains : Charged(l)' = {v \in Uses : Counts(use'[v], l)}
      BY DEF Charged, Counts, Ran
    <3>4. QED
      BY <3>2, <3>3 DEF Charged
  <2>2. QED
    BY <1>1, <2>1 DEF StepsFit
<1>25. QED
  BY <1>1, <1>12, <1>15, <1>16, <1>17, <1>19, <1>21, <1>22, <1>23, <1>24 DEF LangInv

\* A credit is spent by the call it was granted to, or by one that stole it.
LEMMA SpendKeeps ==
  ASSUME LangInv, NEW u \in Uses, Spend(u)
  PROVE  LangInv'
<1>1. /\ LangUse(use[u]) /\ use[u] \in UseRecords /\ use[u].at = "spending" /\ turn \in {"none", u} /\ RunsFit
      /\ turn' = "none" /\ UNCHANGED <<boundary, chain, agent>>
  BY DEF Spend, MayStep, LangInv, LangUse
<1>2. ToolCall(use[u])
  BY <1>1 DEF LangUse, ToolCall, Retrieval, ModelRun
<1>3. PICK k \in Chains, saw \in Nat : k = use[u].lender /\ saw = use[u].saw /\ saw > 0
  BY <1>1, <1>2 DEF UseRecords, ToolCall
<1>4. PICK b : b = Lost(use[u], k)
  OBVIOUS
<1>5. /\ b \in UseRecords /\ SameAsk(b, use[u]) /\ SameRuling(b, use[u]) /\ SameTold(b, use[u])
      /\ use[u].marks \subseteq b.marks /\ b.marks \subseteq use[u].marks \cup {"raced"}
      /\ ~Noted(b, "raced") => credit[k] = saw
  BY <1>1, <1>3, <1>4, LostFields
<1>6. PICK a : a = [b EXCEPT !.lender = "none", !.saw = 0]
  OBVIOUS
<1>7. /\ a \in UseRecords /\ a.tool = use[u].tool /\ a.route = use[u].route /\ a.under = use[u].under
      /\ a.owner = use[u].owner /\ SameRuling(a, use[u]) /\ SameTold(a, use[u]) /\ a.marks = b.marks
  <2>1. PICK e : e = [b EXCEPT !.lender = "none"]
    OBVIOUS
  <2>2. /\ e \in UseRecords /\ e.tool = use[u].tool /\ e.route = use[u].route /\ e.under = use[u].under
        /\ e.owner = use[u].owner /\ SameRuling(e, use[u]) /\ SameTold(e, use[u]) /\ e.marks = b.marks
    BY <1>5, <2>1 DEF UseRecords, Owners, SameAsk, SameRuling, SameTold
  <2>3. a = [e EXCEPT !.saw = 0]
    BY <1>5, <1>6, <2>1 DEF UseRecords
  <2>4. QED
    BY <2>2, <2>3 DEF UseRecords, SameRuling, SameTold
<1>8. PICK n : n = Note(a, "spent")
  OBVIOUS
<1>9. /\ n \in UseRecords /\ SameAsk(n, a) /\ SameRuling(n, a) /\ SameTold(n, a) /\ n.marks = b.marks \cup {"spent"}
  BY <1>7, <1>8, NoteFields DEF Marks
<1>10. PICK d : d = Move(n, "running")
  OBVIOUS
<1>11. /\ d \in UseRecords /\ d.at = "running" /\ d.tool = use[u].tool /\ d.route = use[u].route
       /\ d.under = use[u].under /\ d.owner = use[u].owner /\ SameRuling(d, use[u]) /\ SameTold(d, use[u])
       /\ d.marks = b.marks \cup {"spent"}
  BY <1>7, <1>9, <1>10, MoveFields DEF Places, SameAsk, SameRuling, SameTold
<1>12. d = Move(Note([Lost(use[u], use[u].lender) EXCEPT !.lender = "none", !.saw = 0], "spent"), "running")
  BY <1>3, <1>4, <1>6, <1>8, <1>10
<1>13. use' = [use EXCEPT ![u] = d]
  BY <1>12 DEF Spend
<1>14. /\ use' \in [Uses -> UseRecords] /\ use'[u] = d
       /\ \A v \in Uses : v # u => use'[v] = use[v]
  BY <1>11, <1>13, OneChanged DEF LangInv
<1>15. credit' = [credit EXCEPT ![k] = saw - 1] /\ saw - 1 \in Nat
  BY <1>3 DEF Spend, SpendCredit
<1>16. /\ ~Noted(use[u], "spent") /\ Noted(d, "spent") /\ use[u].route = "start" /\ d.route = "start"
       /\ Noted(d, "announced") <=> Noted(use[u], "announced")
       /\ Ran(d) /\ ~Ran(use[u])
  BY <1>1, <1>2, <1>5, <1>11 DEF ToolCall, Ran, Noted
<1>17. d.rulings = use[u].rulings /\ d.events = use[u].events /\ use[u].events \in Nat
       /\ Gates(use[u]) = (IF Noted(use[u], "announced") THEN 1 ELSE 0) /\ Gates(d) = Gates(use[u])
       /\ (Noted(d, "swallowed") <=> Noted(use[u], "swallowed"))
  BY <1>1, <1>2, <1>5, <1>11, <1>16 DEF ToolCall, Gates, Noted, SameRuling, SameTold, UseRecords
<1>18. LangUse(d)
  <2>1. d.tool \in Tools \cup {"nameless"} /\ d.under \in Chains
    BY <1>2, <1>11 DEF ToolCall
  <2>2. /\ d.events >= d.rulings /\ d.events \in Nat /\ d.rulings \in Nat
        /\ d.rulings > 0 => d.tool \notin Denied
    <3>1. use[u].rulings \in Nat
      BY <1>1 DEF UseRecords
    <3>2. QED
      BY <1>1, <1>2, <1>11, <1>17, <3>1 DEF ToolCall
  <2>3. d.rulings <= Gates(d) /\ (~Noted(d, "swallowed") => d.rulings = Gates(d))
    BY <1>2, <1>17 DEF ToolCall
  <2>4. ToolCall(d)
    BY <1>11, <1>16, <1>17, <2>1, <2>2, <2>3 DEF ToolCall
  <2>5. QED
    BY <1>11, <2>4 DEF LangUse
<1>19. (\A v \in Uses : LangUse(use[v]))'
  <2>1. \A v \in Uses : LangUse(use'[v])
    BY <1>14, <1>18 DEF LangInv
  <2>2. QED
    BY <2>1 DEF LangUse, ToolCall, Gates, Retrieval, ModelRun, Unspoken, Noted
<1>20. RunsFit'
  BY <1>1, <1>11, <1>14, <1>15 DEF RunsFit
<1>21. TurnFits'
  BY <1>1, <1>11, <1>13, TurnKept DEF Midway
<1>22. ~Raced' => ~Raced /\ credit[k] = saw
  <2>1. SUFFICES ASSUME ~Raced'
                 PROVE  ~Raced /\ credit[k] = saw
    OBVIOUS
  <2>2. ~Raced
    BY <1>1, <1>5, <1>11, <1>14, <2>1 DEF Raced, PythonSdk, Noted
  <2>3. CASE PythonSdk
    BY <1>1, <1>5, <1>11, <1>14, <2>1, <2>2, <2>3 DEF Raced, PythonSdk, Noted
  <2>4. CASE ~PythonSdk
    BY <1>1, <1>3, <2>2, <2>4 DEF LangInv, TurnFits
  <2>5. QED
    BY <2>2, <2>3, <2>4
<1>23. Thief => Thief'
  BY <1>14, <1>16 DEF Thief, Stole, Ran, Noted
<1>24. ~Raced' => CreditsFit'
  <2>1. SUFFICES ASSUME ~Raced'
                 PROVE  CreditsFit'
    OBVIOUS
  <2>2. GrantedCalls' = GrantedCalls
    <3>1. \A v \in Uses : Grants(use'[v]) <=> Grants(use[v])
      BY <1>1, <1>11, <1>14, <1>16 DEF Grants
    <3>2. GrantedCalls' = {v \in Uses : Grants(use'[v])}
      BY DEF GrantedCalls, Grants, Noted
    <3>3. QED
      BY <3>1, <3>2 DEF GrantedCalls
  <2>3. SpentCalls' = SpentCalls \cup {u} /\ u \notin SpentCalls
    <3>1. \A v \in Uses : Noted(use'[v], "spent") <=> v = u \/ Noted(use[v], "spent")
      BY <1>14, <1>16
    <3>2. SpentCalls' = {v \in Uses : Noted(use'[v], "spent")}
      BY DEF SpentCalls, Noted
    <3>3. QED
      BY <1>16, <3>1, <3>2 DEF SpentCalls
  <2>4. /\ IsFiniteSet(SpentCalls) /\ Cardinality(GrantedCalls) \in Nat /\ Cardinality(SpentCalls) \in Nat
    BY CallsCounted DEF GrantedCalls, SpentCalls
  <2>5. Cardinality(SpentCalls') = Cardinality(SpentCalls) + 1
    BY <2>3, <2>4, FS_AddElement
  <2>6. credit'["root"] + credit'["node"] + credit'["other"] + 1 = credit["root"] + credit["node"] + credit["other"]
    BY <1>1, <1>15, <1>22, <2>1 DEF RunsFit, Chains
  <2>7. \A l \in Chains : credit[l] \in Nat /\ credit'[l] \in Nat
    BY <1>1, <1>20 DEF RunsFit
  <2>8. CreditsFit
    BY <1>22, <2>1 DEF LangInv
  <2>9. QED
    BY <2>2, <2>4, <2>5, <2>6, <2>7, <2>8 DEF CreditsFit, Chains
<1>25. ~Raced' /\ ~Thief' => OwingsFit'
  <2>1. SUFFICES ASSUME ~Raced', ~Thief'
                 PROVE  OwingsFit'
    OBVIOUS
  <2>2. OwingsFit
    BY <1>22, <1>23, <2>1 DEF LangInv
  <2>3. Noted(use[u], "announced")
    <3>1. ~Stole(d)
      BY <1>14, <2>1 DEF Thief, Stole, Ran, Noted
    <3>2. ~Noted(use[u], "announced") => d.rulings = 0 /\ ~Noted(d, "swallowed")
      BY <1>1, <1>2, <1>11, <1>17 DEF ToolCall, UseRecords
    <3>3. QED
      BY <1>16, <3>1, <3>2 DEF Stole
  <2>4. use[u].under = k
    BY <1>1, <1>3, <2>2, <2>3 DEF OwingsFit
  <2>5. \A v \in Uses : use'[v].at = "spending" /\ Noted(use'[v], "announced") => use'[v].lender = use'[v].under
    BY <1>11, <1>14, <2>2 DEF OwingsFit
  <2>6. \A l \in Chains : Owings(l)' = IF l = k THEN Owings(l) \ {u} ELSE Owings(l)
    <3>1. \A l \in Chains : \A v \in Uses : Owed(use'[v], l) <=> v # u /\ Owed(use[v], l)
      BY <1>14, <1>16 DEF Owed
    <3>2. \A l \in Chains : Owings(l)' = {v \in Uses : Owed(use'[v], l)}
      BY DEF Owings, Owed, Grants, Noted
    <3>3. \A l \in Chains : l # k => ~Owed(use[u], l)
      BY <2>4 DEF Owed
    <3>4. QED
      BY <3>1, <3>2, <3>3 DEF Owings
  <2>7. u \in Owings(k) /\ IsFiniteSet(Owings(k)) /\ Cardinality(Owings(k)) \in Nat
    <3>1. u \in Owings(k)
      BY <1>1, <1>16, <2>3, <2>4 DEF Owings, Owed, Grants
    <3>2. QED
      BY <3>1, CallsCounted DEF Owings
  <2>8. Cardinality(Owings(k) \ {u}) = Cardinality(Owings(k)) - 1
    BY <2>7, FS_RemoveElement
  <2>9. \A l \in Chains : chain'[l] # "closed" => credit'[l] = Cardinality(Owings(l)')
    <3>1. SUFFICES ASSUME NEW l \in Chains, chain[l] # "closed"
                   PROVE  credit'[l] = Cardinality(Owings(l)')
      BY <1>1
    <3>2. credit[l] = Cardinality(Owings(l))
      BY <2>2, <3>1 DEF OwingsFit
    <3>3. CASE l = k
      BY <1>1, <1>15, <1>22, <2>1, <2>6, <2>8, <3>2, <3>3 DEF RunsFit
    <3>4. CASE l # k
      BY <1>1, <1>15, <2>6, <3>2, <3>4 DEF RunsFit
    <3>5. QED
      BY <3>3, <3>4
  <2>10. QED
    BY <2>5, <2>9 DEF OwingsFit, Noted
<1>26. ~Raced' => (\A v \in Uses : Second(use[v]) => Excused(use[v]))'
  <2>1. SUFFICES ASSUME ~Raced', NEW v \in Uses, Second(use'[v])
                 PROVE  Thief' \/ chain'[use'[v].under] = "closed"
    BY DEF Second, Excused, Noted
  <2>2. v # u
    BY <1>14, <1>16, <2>1 DEF Second
  <2>3. Thief \/ chain[use'[v].under] = "closed"
    BY <1>14, <1>22, <2>1, <2>2 DEF LangInv, Excused
  <2>4. QED
    BY <1>1, <1>23, <2>3
<1>27. StepsFit => StepsFit'
  <2>1. \A l \in Chains : Charged(l)' = Charged(l)
    BY <1>1, <1>11, <1>14, <1>16 DEF Charged, Counts, Ran
  <2>2. QED
    BY <1>1, <2>1 DEF StepsFit
<1>28. QED
  BY <1>1, <1>14, <1>19, <1>20, <1>21, <1>22, <1>24, <1>25, <1>26, <1>27 DEF LangInv

\* With the thread free no TypeScript callback is under way.
LEMMA TurnFree ==
  ASSUME LangInv, turn = "none", UNCHANGED <<boundary, use>>
  PROVE  TurnFits'
<1>1. ~PythonSdk => \A u \in Uses : ~Midway(use[u])
  <2>1. SUFFICES ASSUME ~PythonSdk, NEW u \in Uses
                 PROVE  ~Midway(use[u])
    OBVIOUS
  <2>2. Midway(use[u]) => turn = u
    BY <2>1 DEF LangInv, TurnFits
  <2>3. QED
    BY <2>2, ToolAssumption
<1>2. QED
  BY <1>1 DEF TurnFits, PythonSdk, Midway

\* A run that starts has been charged for nothing.
LEMMA ChainStartsKeeps ==
  ASSUME LangInv, NEW c \in Chains, ChainStarts(c)
  PROVE  LangInv'
<1>1. /\ RunsFit /\ chain[c] = "unborn" /\ turn = "none" /\ UNCHANGED <<boundary, use, credit>>
      /\ chain' = [chain EXCEPT ![c] = "open"]
  BY DEF ChainStarts, LangInv
<1>2. OpensAgent(c) \in BOOLEAN
  <2>1. (c \in boundary.named) \in BOOLEAN
    BY SMT
  <2>2. CASE PythonSdk
    BY <2>2, SMT DEF OpensAgent
  <2>3. CASE ~PythonSdk
    BY <2>1, <2>3 DEF OpensAgent
  <2>4. QED
    BY <2>2, <2>3
<1>3. PICK opens \in BOOLEAN : opens = OpensAgent(c)
  BY <1>2
<1>4. agent' = [agent EXCEPT ![c].open = opens]
  BY <1>3 DEF ChainStarts
<1>5. /\ agent' \in [Chains -> [open : BOOLEAN, steps : Nat]]
      /\ \A k \in Chains : k # c => agent'[k] = agent[k]
      /\ agent'[c].steps \in Nat
  BY <1>1, <1>4 DEF RunsFit
<1>6. /\ chain' \in [Chains -> {"unborn", "open", "closed"}] /\ chain'[c] = "open"
      /\ \A k \in Chains : k # c => chain'[k] = chain[k]
  BY <1>1 DEF RunsFit
<1>7. RunsFit'
  <2>1. \A u \in Uses : use[u].owner # "none" => use[u].owner \in Chains
    BY DEF LangInv, UseRecords, Owners
  <2>2. QED
    BY <1>1, <1>5, <1>6, <2>1 DEF RunsFit
<1>8. TurnFits'
  BY <1>1, TurnFree
<1>9. (\A u \in Uses : LangUse(use[u]))'
  <2>1. \A u \in Uses : LangUse(use[u])
    BY DEF LangInv
  <2>2. QED
    BY <1>1, <2>1 DEF LangUse, ToolCall, Gates, Retrieval, ModelRun, Unspoken, Noted
<1>10. (Raced' <=> Raced) /\ (Thief' <=> Thief)
  BY <1>1 DEF Raced, PythonSdk, Thief, Stole, Ran, Noted
<1>11. CreditsFit => CreditsFit'
  BY <1>1 DEF CreditsFit, SpentCalls, GrantedCalls, Grants, Noted
<1>12. OwingsFit => OwingsFit'
  <2>1. \A k \in Chains : Owings(k)' = Owings(k)
    BY <1>1 DEF Owings, Owed, Grants, Noted
  <2>2. QED
    BY <1>1, <1>6, <2>1 DEF OwingsFit, Noted
<1>13. (\A u \in Uses : Second(use[u]) => Excused(use[u])) => (\A u \in Uses : Second(use[u]) => Excused(use[u]))'
  <2>1. SUFFICES ASSUME \A u \in Uses : Second(use[u]) => Excused(use[u]), NEW u \in Uses, Second(use[u])
                 PROVE  Thief \/ chain'[use[u].under] = "closed"
    BY <1>1, <1>10 DEF Second, Excused, Noted
  <2>2. Thief \/ chain[use[u].under] = "closed"
    BY <2>1 DEF Excused
  <2>3. use[u].under \in Chains
    BY <2>1 DEF Second, LangInv, LangUse, ToolCall, Retrieval, ModelRun, NoUse
  <2>4. QED
    BY <1>1, <1>6, <2>2, <2>3
<1>14. StepsFit => StepsFit'
  <2>1. \A k \in Chains : Charged(k)' = Charged(k)
    BY <1>1 DEF Charged, Counts, Ran
  <2>2. Charged(c) = {}
    BY <1>1 DEF Charged, Counts, RunsFit, Chains
  <2>3. Cardinality(Charged(c)) = 0
    BY <2>2, FS_EmptySet
  <2>4. QED
    BY <1>5, <2>1, <2>3 DEF StepsFit
<1>15. QED
  BY <1>1, <1>7, <1>8, <1>9, <1>10, <1>11, <1>12, <1>13, <1>14 DEF LangInv

\* A run that ends takes its credits with it.
LEMMA ChainEndsKeeps ==
  ASSUME LangInv, NEW c \in Chains, ChainEnds(c)
  PROVE  LangInv'
<1>1. /\ RunsFit /\ chain[c] = "open" /\ turn = "none" /\ UNCHANGED <<boundary, use>>
      /\ chain' = [chain EXCEPT ![c] = "closed"] /\ credit' = [credit EXCEPT ![c] = 0]
      /\ agent' = [agent EXCEPT ![c] = NoAgent]
  BY DEF ChainEnds, LangInv
<1>2. /\ agent' \in [Chains -> [open : BOOLEAN, steps : Nat]] /\ ~agent'[c].open
      /\ \A k \in Chains : k # c => agent'[k] = agent[k]
  <2>1. NoAgent \in [open : BOOLEAN, steps : Nat] /\ ~NoAgent.open
    BY DEF NoAgent
  <2>2. QED
    BY <1>1, <2>1 DEF RunsFit
<1>3. /\ chain' \in [Chains -> {"unborn", "open", "closed"}] /\ chain'[c] = "closed"
      /\ \A k \in Chains : k # c => chain'[k] = chain[k]
  BY <1>1 DEF RunsFit
<1>4. /\ credit' \in [Chains -> Nat] /\ credit'[c] = 0
      /\ \A k \in Chains : k # c => credit'[k] = credit[k]
  BY <1>1 DEF RunsFit
<1>5. RunsFit'
  <2>1. \A u \in Uses : use[u].owner # "none" => use[u].owner \in Chains
    BY DEF LangInv, UseRecords, Owners
  <2>2. QED
    BY <1>1, <1>2, <1>3, <1>4, <2>1 DEF RunsFit
<1>6. TurnFits'
  BY <1>1, TurnFree
<1>7. (\A u \in Uses : LangUse(use[u]))'
  <2>1. \A u \in Uses : LangUse(use[u])
    BY DEF LangInv
  <2>2. QED
    BY <1>1, <2>1 DEF LangUse, ToolCall, Gates, Retrieval, ModelRun, Unspoken, Noted
<1>8. (Raced' <=> Raced) /\ (Thief' <=> Thief)
  BY <1>1 DEF Raced, PythonSdk, Thief, Stole, Ran, Noted
<1>9. CreditsFit => CreditsFit'
  <2>1. GrantedCalls' = GrantedCalls /\ SpentCalls' = SpentCalls
    BY <1>1 DEF SpentCalls, GrantedCalls, Grants, Noted
  <2>2. \A k \in Chains : credit[k] \in Nat /\ credit'[k] \in Nat /\ credit'[k] <= credit[k]
    BY <1>1, <1>4 DEF RunsFit
  <2>3. Cardinality(GrantedCalls) \in Nat /\ Cardinality(SpentCalls) \in Nat
    BY CallsCounted DEF GrantedCalls, SpentCalls
  <2>4. QED
    BY <2>1, <2>2, <2>3 DEF CreditsFit, Chains
<1>10. OwingsFit => OwingsFit'
  <2>1. \A k \in Chains : Owings(k)' = Owings(k)
    BY <1>1 DEF Owings, Owed, Grants, Noted
  <2>2. QED
    BY <1>1, <1>3, <1>4, <2>1 DEF OwingsFit, Noted
<1>11. (\A u \in Uses : Second(use[u]) => Excused(use[u])) => (\A u \in Uses : Second(use[u]) => Excused(use[u]))'
  <2>1. SUFFICES ASSUME \A u \in Uses : Second(use[u]) => Excused(use[u]), NEW u \in Uses, Second(use[u])
                 PROVE  Thief \/ chain'[use[u].under] = "closed"
    BY <1>1, <1>8 DEF Second, Excused, Noted
  <2>2. Thief \/ chain[use[u].under] = "closed"
    BY <2>1 DEF Excused
  <2>3. use[u].under \in Chains
    BY <2>1 DEF Second, LangInv, LangUse, ToolCall, Retrieval, ModelRun, NoUse
  <2>4. QED
    BY <1>1, <1>3, <2>2, <2>3
<1>12. StepsFit => StepsFit'
  <2>1. \A k \in Chains : Charged(k)' = Charged(k)
    BY <1>1 DEF Charged, Counts, Ran
  <2>2. QED
    BY <1>2, <2>1 DEF StepsFit
<1>13. QED
  BY <1>1, <1>5, <1>6, <1>7, <1>8, <1>9, <1>10, <1>11, <1>12 DEF LangInv

\* A step under a callback handler.
LEMMA LangStep ==
  ASSUME LangInv, LangChainNext
  PROVE  LangInv'
BY ChainStartsKeeps, ChainEndsKeeps, AnnounceKeeps, GrantKeeps, ToolStartsKeeps, SpendKeeps, GateToolKeeps, CountKeeps,
   InputUnwrittenKeeps, ToolMissingKeeps, ToolEndsKeeps, RetrieverStartsKeeps, ModelStartsKeeps, ModelJudgedKeeps,
   ModelEndsKeeps
DEF LangChainNext

\* A step that touches no call and no run.
LEMMA LangStill ==
  ASSUME LangInv, UNCHANGED <<boundary, use, langVars>>
  PROVE  LangInv'
<1>1. (\A u \in Uses : LangUse(use[u]))'
  BY DEF LangInv, LangUse, ToolCall, Gates, Retrieval, ModelRun, Unspoken, Noted
<1>2. RunsFit' /\ TurnFits'
  BY DEF LangInv, RunsFit, TurnFits, Midway, PythonSdk, langVars
<1>3. (Raced' <=> Raced) /\ (Thief' <=> Thief)
  BY DEF Raced, PythonSdk, Thief, Stole, Ran, Noted
<1>4. CreditsFit => CreditsFit'
  BY DEF CreditsFit, SpentCalls, GrantedCalls, Grants, Noted, langVars
<1>5. OwingsFit => OwingsFit'
  BY DEF OwingsFit, Owings, Owed, Grants, Noted, langVars
<1>6. (\A u \in Uses : Second(use[u]) => Excused(use[u])) => (\A u \in Uses : Second(use[u]) => Excused(use[u]))'
  BY DEF Second, Excused, Thief, Stole, Ran, Noted, langVars
<1>7. StepsFit => StepsFit'
  BY DEF StepsFit, Charged, Counts, Ran, langVars
<1>8. (~Raced => CreditsFit)' /\ (~Raced /\ ~Thief => OwingsFit)'
  BY <1>3, <1>4, <1>5 DEF LangInv
<1>9. (~Raced => \A u \in Uses : Second(use[u]) => Excused(use[u]))'
  BY <1>3, <1>6 DEF LangInv
<1>10. (~Raced /\ boundary.stepAction = "block" => StepsFit)'
  BY <1>3, <1>7 DEF LangInv
<1>11. (use \in [Uses -> UseRecords])'
  BY DEF LangInv
<1>12. QED
  BY <1>1, <1>2, <1>8, <1>9, <1>10, <1>11 DEF LangInv

\* A step that touches no call and no runner.
LEMMA RunnerStill ==
  ASSUME RunnerInv, UNCHANGED <<boundary, use, gateVars, runnerVars>>
  PROVE  RunnerInv'
<1>1. (\A u \in Uses : RunnerUse(use[u]))'
  <2>1. \A u \in Uses : RunnerUse(use[u])
    BY DEF RunnerInv
  <2>2. QED
    BY <2>1 DEF RunnerUse, GateShape, Unspoken, Noted, gateVars
<1>2. RunShape(run)'
  BY DEF RunnerInv, RunShape, ToolRun, RunRecords, runnerVars
<1>3. RunCalls'
  BY DEF RunnerInv, RunCalls, ToolRun, Gated, Noted, gateVars, runnerVars
<1>4. ListensFit'
  <2>1. run' = run /\ listens' = listens
    BY DEF runnerVars
  <2>2. \A l \in Listeners : Ons(run.pending, l)' = Ons(run.pending, l)
    BY <2>1 DEF Ons
  <2>3. QED
    BY <2>1, <2>2 DEF RunnerInv, ListensFit, ListenerShape
<1>5. QED
  BY <1>1, <1>2, <1>3, <1>4 DEF RunnerInv

----------------------------------------------------------------------------
(* Every boundary.                                                         *)

ToolsInv ==
  /\ boundary \in Boundaries
  /\ Mcp => use \in [Uses -> UseRecords] /\ McpInv
  /\ LangChain => LangInv
  /\ Agentic => AgentsInv
  /\ Deferred => RunnerInv

\* Nobody has called anything.
LEMMA NothingUsed ==
  ASSUME use = [u \in Uses |-> NoUse]
  PROVE  /\ use \in [Uses -> UseRecords]
         /\ \A u \in Uses : use[u] = NoUse
BY NoUseFields

\* Initially no agent has a gate attached by a handle, and no span is counted.
LEMMA AgentsStart ==
  ASSUME ToolsInit, Agentic
  PROVE  AgentsInv
<1>1. use \in [Uses -> UseRecords] /\ \A u \in Uses : use[u] = NoUse
  BY NothingUsed DEF ToolsInit
<1>2. \A u \in Uses : AgentUse(use[u])
  BY <1>1, NoUseFields DEF AgentUse, Noted
<1>3. GatesFit
  BY BoundaryAssumption DEF ToolsInit, GatesInit, AgentsInit, GatesFit, Agentic
<1>4. \A r : Charges(r) = {}
  BY <1>1, NoUseFields DEF Charges, Noted
<1>5. TraceFits
  BY <1>1, <1>4, NoUseFields, FS_EmptySet, ToolAssumption DEF ToolsInit, AgentsInit, TraceFits, Noted
<1>6. QED
  BY <1>1, <1>2, <1>3, <1>5 DEF AgentsInv

\* Initially nothing is queued and nobody listens.
LEMMA RunnerStart ==
  ASSUME ToolsInit, Deferred
  PROVE  RunnerInv
<1>1. use \in [Uses -> UseRecords] /\ \A u \in Uses : use[u] = NoUse
  BY NothingUsed DEF ToolsInit
<1>2. \A u \in Uses : RunnerUse(use[u])
  BY <1>1, NoUseFields DEF RunnerUse, Noted
<1>3. run \in RunRecords /\ run.pending = <<>>
  BY EmptySeq DEF ToolsInit, DeferredInit, RunRecords
<1>4. RunShape(run)
  BY <1>3 DEF ToolsInit, DeferredInit, RunShape
<1>5. RunCalls
  BY <1>1, NoUseFields DEF ToolsInit, DeferredInit, RunCalls
<1>6. ListensFit
  <2>1. \A l \in Listeners : Ons(run.pending, l) = {}
    BY <1>3 DEF Ons
  <2>2. QED
    BY <2>1 DEF ToolsInit, DeferredInit, ListensFit, ListenerShape
<1>7. QED
  BY <1>1, <1>2, <1>4, <1>5, <1>6 DEF RunnerInv

\* Initially no credit is granted and no step charged.
LEMMA LangStart ==
  ASSUME ToolsInit, LangChain
  PROVE  LangInv
<1>1. use \in [Uses -> UseRecords] /\ \A u \in Uses : use[u] = NoUse
  BY NothingUsed DEF ToolsInit
<1>2. \A u \in Uses : LangUse(use[u]) /\ ~Second(use[u]) /\ ~Grants(use[u]) /\ ~Midway(use[u])
  BY <1>1, NoUseFields DEF LangUse, Second, Grants, Midway, Noted
<1>3. RunsFit
  BY <1>1, NoUseFields DEF ToolsInit, LangChainInit, NoAgent, RunsFit
<1>4. TurnFits
  BY <1>1, NoUseFields DEF TurnFits, Midway
<1>5. GrantedCalls = {} /\ SpentCalls = {} /\ \A k : Owings(k) = {}
  BY <1>1, <1>2, NoUseFields DEF GrantedCalls, SpentCalls, Owings, Owed, Noted
<1>6. \A k \in Chains : Charged(k) = {}
  BY <1>1, NoUseFields DEF Charged, Counts, Chains
<1>7. CreditsFit
  BY <1>5, FS_EmptySet DEF ToolsInit, LangChainInit, CreditsFit, Chains
<1>8. OwingsFit
  BY <1>1, <1>5, NoUseFields, FS_EmptySet DEF ToolsInit, LangChainInit, OwingsFit
<1>9. StepsFit
  <2>1. \A k \in Chains : Cardinality(Charged(k)) = 0
    BY <1>6, FS_EmptySet
  <2>2. \A k \in Chains : agent[k].steps = 0
    BY DEF ToolsInit, LangChainInit, NoAgent
  <2>3. QED
    BY <2>1, <2>2, ToolAssumption DEF StepsFit
<1>10. QED
  BY <1>1, <1>2, <1>3, <1>4, <1>7, <1>8, <1>9 DEF LangInv

\* At every boundary nobody has called.
LEMMA ToolsStart == ToolsInit => ToolsInv
<1>1. SUFFICES ASSUME ToolsInit
               PROVE  ToolsInv
  OBVIOUS
<1>2. use \in [Uses -> UseRecords] /\ \A u \in Uses : use[u] = NoUse
  BY <1>1, NothingUsed DEF ToolsInit
<1>3. McpUse(NoUse)
  BY NoUseFields DEF McpUse, Noted, Ran, Settled
<1>4. McpInv
  BY <1>2, <1>3 DEF McpInv
<1>5. (LangChain => LangInv) /\ (Agentic => AgentsInv) /\ (Deferred => RunnerInv)
  BY <1>1, AgentsStart, RunnerStart, LangStart
<1>6. QED
  BY <1>1, <1>2, <1>4, <1>5 DEF ToolsInit, ToolsInv

\* A step is one of the boundary at work, which stays as it is.
LEMMA StepOfKind ==
  /\ McpNext => Mcp /\ boundary' = boundary
  /\ LangChainNext => LangChain /\ boundary' = boundary
  /\ AgentsNext => Agentic /\ boundary' = boundary
  /\ DeferredNext => Deferred /\ boundary' = boundary
  /\ \A u \in Uses : GateAnswers(u) \/ GovernedToolEnds(u) => Governed /\ boundary' = boundary
<1>1. McpNext => Mcp /\ boundary' = boundary
  BY DEF McpNext, Reconfigured, ListTools, ListingArrives, CallTool, PipelineAnswers, Sends, Replies, ServerFails
<1>2. LangChainNext => LangChain /\ boundary' = boundary
  BY DEF LangChainNext, ChainStarts, ChainEnds, Announce, Grant, ToolStarts, Spend, InputUnwritten, GateTool, Count,
         ToolMissing, ToolEnds, RetrieverStarts, ModelStarts, ModelJudged, ModelEnds, MayStep
<1>3. AgentsNext => Agentic /\ boundary' = boundary
  BY DEF AgentsNext, AttachToolGate, Detach, AgentSpanStarts, AgentSpanEnds, AgentCallsTool, AgentInvokesTool,
         SpanEnds, AgentCallsModel, ModelRequestJudged, ModelSpanEnds
<1>4. DeferredNext => Deferred /\ boundary' = boundary
  BY DEF DeferredNext, CallerRuns, CallerAborts, GovernanceAnswers, RunnerStarts, DeliverFailure, RunIsOver,
         ModelTurn, Finish, CallerListens, CallerUnlistens, LateListenerTold, RunnerCallsTool, RunnerObserves
<1>5. \A u \in Uses : GateAnswers(u) \/ GovernedToolEnds(u) => Governed /\ boundary' = boundary
  BY DEF GateAnswers, GovernedToolEnds
<1>6. QED
  BY <1>1, <1>2, <1>3, <1>4, <1>5

\* Nothing happens at any boundary.
LEMMA ToolsStutter ==
  ASSUME ToolsInv, UNCHANGED toolVars
  PROVE  ToolsInv'
<1>1. UNCHANGED <<boundary, use, langVars, gateVars, guards, gates, trace, runnerVars>>
  BY DEF toolVars, agentsVars
<1>2. Mcp => (use \in [Uses -> UseRecords] /\ McpInv)'
  BY <1>1, McpStill DEF ToolsInv
<1>3. Agentic => AgentsInv'
  <2>1. AgentsInv => TraceFits'
    BY <1>1 DEF AgentsInv, TraceFits, Charges, Noted
  <2>2. QED
    BY <1>1, <2>1, AgentsStill DEF ToolsInv
<1>4. (LangChain => LangInv') /\ (Deferred => RunnerInv')
  BY <1>1, LangStill, RunnerStill DEF ToolsInv
<1>5. QED
  BY <1>1, <1>2, <1>3, <1>4 DEF ToolsInv, Mcp, LangChain, Agentic, Deferred

\* Every step, of the boundary at work.
LEMMA ToolsStep ==
  ASSUME ToolsInv, [ToolsNext]_toolVars
  PROVE  ToolsInv'
<1>1. CASE McpNext
  <2>1. Mcp /\ boundary' = boundary
    BY <1>1, StepOfKind
  <2>2. (use \in [Uses -> UseRecords] /\ McpInv)'
    BY <1>1, <2>1, McpStep DEF ToolsInv
  <2>3. QED
    BY <2>1, <2>2 DEF ToolsInv, Mcp, LangChain, Agentic, Deferred
<1>2. CASE LangChainNext
  <2>1. LangChain /\ boundary' = boundary
    BY <1>2, StepOfKind
  <2>2. LangInv'
    BY <1>2, <2>1, LangStep DEF ToolsInv
  <2>3. QED
    BY <2>1, <2>2 DEF ToolsInv, Mcp, LangChain, Agentic, Deferred
<1>3. CASE AgentsNext
  <2>1. Agentic /\ boundary' = boundary
    BY <1>3, StepOfKind
  <2>2. AgentsInv'
    BY <1>3, <2>1, AgentsStep DEF ToolsInv
  <2>3. QED
    BY <2>1, <2>2 DEF ToolsInv, Mcp, LangChain, Agentic, Deferred
<1>4. CASE DeferredNext
  <2>1. Deferred /\ boundary' = boundary
    BY <1>4, StepOfKind
  <2>2. RunnerInv'
    BY <1>4, <2>1, RunnerStep DEF ToolsInv
  <2>3. QED
    BY <2>1, <2>2 DEF ToolsInv, Mcp, LangChain, Agentic, Deferred
<1>5. ASSUME NEW u \in Uses, GateAnswers(u) \/ GovernedToolEnds(u), UNCHANGED <<agentsVars, runnerVars>>
      PROVE  ToolsInv'
  <2>1. Governed /\ boundary' = boundary
    BY <1>5, StepOfKind
  <2>2. CASE Agentic
    <3>1. AgentsInv'
      BY <1>5, <2>2, AgentGateAnswersKeeps, AgentToolEndsKeeps DEF ToolsInv
    <3>2. QED
      BY <2>1, <2>2, <3>1 DEF ToolsInv, Mcp, LangChain, Agentic, Deferred
  <2>3. CASE Deferred
    <3>1. RunnerInv'
      BY <1>5, <2>3, RunnerGateAnswersKeeps, RunnerToolEndsKeeps DEF ToolsInv
    <3>2. QED
      BY <2>1, <2>3, <3>1 DEF ToolsInv, Mcp, LangChain, Agentic, Deferred
  <2>4. QED
    BY <2>1, <2>2, <2>3 DEF Governed, Agentic, Deferred
<1>6. CASE UNCHANGED toolVars
  BY <1>6, ToolsStutter
<1>7. QED
  BY <1>1, <1>2, <1>3, <1>4, <1>5, <1>6 DEF ToolsNext, AllSettled

\* The calls at every boundary stand as their invariant says.
THEOREM ToolsInvariant == ToolsSpec => []ToolsInv
BY ToolsStart, ToolsStep, PTL DEF ToolsSpec

----------------------------------------------------------------------------
(* What follows from it.                                                   *)

\* What the larger of two sets has alone is no less than what the smaller one has.
LEMMA LargerRest ==
  ASSUME NEW S, NEW T, IsFiniteSet(S), IsFiniteSet(T), Cardinality(S) <= Cardinality(T)
  PROVE  Cardinality(S \ T) <= Cardinality(T \ S)
<1>1. /\ Cardinality(S \ T) = Cardinality(S) - Cardinality(S \cap T)
      /\ Cardinality(T \ S) = Cardinality(T) - Cardinality(T \cap S)
  BY FS_Difference
<1>2. T \cap S = S \cap T
  OBVIOUS
<1>3. Cardinality(S) \in Nat /\ Cardinality(T) \in Nat /\ Cardinality(S \cap T) \in Nat
  BY FS_Subset, FS_CardinalityType
<1>4. \A s, t, common \in Nat : s <= t => s - common <= t - common
  OBVIOUS
<1>5. QED
  BY <1>1, <1>2, <1>3, <1>4

\* The unruled calls of a handler ran on credits of calls that have not spent theirs.
LEMMA LangRulings ==
  ASSUME LangInv
  PROVE  LangChainRulings
<1>1. SUFFICES ASSUME LangChain, ~Raced
               PROVE  LangChainRulings
  BY DEF LangChainRulings
<1> DEFINE ran == {u \in Uses : Ran(use[u])}
           unruled == {u \in ran : use[u].rulings = 0 /\ use[u].route # "retriever" /\ ~Noted(use[u], "swallowed")}
           announced == {u \in Uses : Noted(use[u], "announced")}
           creditors == {u \in Uses : Noted(use[u], "announced") /\ ~Noted(use[u], "spent")}
<1>2. unruled \subseteq SpentCalls \ announced
  <2>1. SUFFICES ASSUME NEW u \in Uses, Ran(use[u]), use[u].rulings = 0, use[u].route # "retriever",
                        ~Noted(use[u], "swallowed")
                 PROVE  Noted(use[u], "spent") /\ ~Noted(use[u], "announced")
    BY DEF SpentCalls
  <2>2. LangUse(use[u]) /\ use[u].at \notin {"idle", "judging", "granting", "gating", "spending"}
    BY <2>1 DEF LangInv, Ran
  <2>3. ToolCall(use[u])
    BY <2>1, <2>2 DEF LangUse, Retrieval, ModelRun
  <2>4. use[u].route # "action"
    BY <2>1, <2>3 DEF ToolCall, Ran
  <2>5. QED
    BY <2>1, <2>2, <2>3, <2>4 DEF ToolCall, Gates
<1>3. Cardinality(unruled) <= Cardinality(SpentCalls \ announced)
  <2>1. SpentCalls \ announced \subseteq Uses
    BY DEF SpentCalls
  <2>2. QED
    BY <1>2, <2>1, CallsCounted
<1>4. Cardinality(SpentCalls) <= Cardinality(announced)
  <2>1. GrantedCalls \subseteq announced /\ announced \subseteq Uses /\ SpentCalls \subseteq Uses
    BY DEF GrantedCalls, Grants, SpentCalls
  <2>2. Cardinality(SpentCalls) <= Cardinality(GrantedCalls)
    <3>1. Cardinality(SpentCalls) \in Nat /\ Cardinality(GrantedCalls) \in Nat
      BY <2>1, CallsCounted
    <3>2. credit["root"] \in Nat /\ credit["node"] \in Nat /\ credit["other"] \in Nat
      BY DEF LangInv, RunsFit, Chains
    <3>3. QED
      BY <1>1, <3>1, <3>2 DEF LangInv, CreditsFit
  <2>3. Cardinality(GrantedCalls) <= Cardinality(announced)
    BY <2>1, CallsCounted
  <2>4. /\ Cardinality(SpentCalls) \in Nat
        /\ Cardinality(GrantedCalls) \in Nat
        /\ Cardinality(announced) \in Nat
    BY <2>1, CallsCounted
  <2>5. QED
    BY <2>2, <2>3, <2>4
<1>5. Cardinality(SpentCalls \ announced) <= Cardinality(creditors)
  <2>1. IsFiniteSet(SpentCalls) /\ IsFiniteSet(announced)
    BY CallsCounted DEF SpentCalls
  <2>2. Cardinality(SpentCalls \ announced) <= Cardinality(announced \ SpentCalls)
    BY <1>4, <2>1, LargerRest
  <2>3. creditors = announced \ SpentCalls
    BY DEF SpentCalls
  <2>4. QED
    BY <2>2, <2>3
<1>6. Cardinality(unruled) <= Cardinality(creditors)
  <2>1. unruled \subseteq Uses /\ SpentCalls \ announced \subseteq Uses /\ creditors \subseteq Uses
    BY DEF SpentCalls
  <2>2. /\ Cardinality(unruled) \in Nat /\ Cardinality(SpentCalls \ announced) \in Nat
        /\ Cardinality(creditors) \in Nat
    BY <2>1, CallsCounted
  <2>3. QED
    BY <1>3, <1>5, <2>2
<1>7. ASSUME NEW u \in ran, use[u].rulings = 2
      PROVE  chain[use[u].under] = "closed" \/ \E v \in unruled : Noted(use[v], "spent")
  <2>1. Second(use[u])
    <3>1. LangUse(use[u]) /\ use[u].at \notin {"idle", "judging", "spending"}
      BY <1>7 DEF LangInv, Ran
    <3>2. ToolCall(use[u])
      BY <1>7, <3>1 DEF LangUse, Retrieval, ModelRun
    <3>3. QED
      BY <1>7, <3>1, <3>2 DEF ToolCall, Gates, Second
  <2>2. Excused(use[u])
    BY <1>1, <1>7, <2>1 DEF LangInv
  <2>3. QED
    <3>1. ASSUME NEW v \in Uses, Stole(use[v])
          PROVE  v \in unruled /\ Noted(use[v], "spent")
      <4>1. LangUse(use[v]) /\ use[v].at # "idle" /\ Noted(use[v], "spent")
        BY <3>1 DEF LangInv, Stole, Ran
      <4>2. use[v].route # "retriever"
        BY <4>1 DEF LangUse, ToolCall, Retrieval, ModelRun, Noted
      <4>3. QED
        BY <3>1, <4>2 DEF Stole
    <3>2. QED
      BY <2>2, <3>1 DEF Excused, Thief
<1>8. QED
  BY <1>6, <1>7 DEF LangChainRulings

\* The rulings, from the invariants of the four boundaries.
LEMMA RulingsFollow == ToolsInv => RulingsStand
<1> SUFFICES ASSUME ToolsInv
             PROVE  RulingsStand
  OBVIOUS
<1>1. McpRulings
  <2>1. SUFFICES ASSUME Mcp, NEW u \in Uses, Ran(use[u])
                 PROVE  (use[u].rulings = 1) # Noted(use[u], "behind")
    BY DEF McpRulings
  <2>2. McpUse(use[u])
    BY <2>1 DEF ToolsInv, McpInv
  <2>3. CASE "behind" \in use[u].marks
    BY <2>2, <2>3 DEF McpUse, Noted
  <2>4. CASE "behind" \notin use[u].marks
    <3>1. use[u].rulings = 1
      BY <2>1, <2>2, <2>4 DEF McpUse, Approved, Noted
    <3>2. QED
      BY <2>4, <3>1 DEF Noted
  <2>5. QED
    BY <2>3, <2>4
<1>2. LangChainRulings
  BY LangRulings DEF ToolsInv, LangChainRulings
<1>3. AgentsRulings
  <2>1. SUFFICES ASSUME Agentic, NEW u \in Uses, Ran(use[u])
                 PROVE  /\ use[u].tool \in wrapped \/ use[u].route = "model" => use[u].rulings > 0
                        /\ Noted(use[u], "held") /\ use[u].rulings = 0 => DetachedGate(use[u].tool)
    BY DEF AgentsRulings, DetachedGate
  <2>2. AgentUse(use[u]) /\ GatesFit
    BY <2>1 DEF ToolsInv, AgentsInv
  <2>3. CASE FunctionCall(use[u])
    BY <2>1, <2>3 DEF FunctionCall, Ran
  <2>4. CASE ModelCall(use[u])
    <3>1. use[u].rulings > 0
      BY <2>1, <2>4 DEF ModelCall
    <3>2. QED
      BY <2>2, <3>1 DEF AgentUse, UseRecords
  <2>5. QED
    BY <2>1, <2>2, <2>3, <2>4 DEF AgentUse, Ran
<1>4. RunnerRulings
  <2>1. SUFFICES ASSUME Deferred
                 PROVE  RunnerRulings
    BY DEF RunnerRulings
  <2>2. RunShape(run) /\ ListensFit /\ RunCalls /\ \A u \in Uses : RunnerUse(use[u])
    BY <2>1 DEF ToolsInv, RunnerInv
  <2>3. run.reached => run.outcome /\ ~run.abandoned
    BY <2>2 DEF RunShape
  <2>4. \A l \in Listeners : ListenerShape(run.at, Ons(run.pending, l), listens[l])
    BY <2>2 DEF ListensFit
  <2>5. run.at \in {"idle", "governing", "allowed", "rejected", "running", "over", "failed"}
    BY <2>2 DEF RunShape, RunRecords
  <2>6. \A l \in Listeners : listens[l].told <= 1
    BY <2>4, <2>5 DEF ListenerShape
  <2>7. run.delivered => \A l \in Listeners : listens[l].on \in {"none", "owed"} \/ listens[l].told = 1
    BY <2>2, <2>4 DEF ListenerShape, RunShape
  <2>8. \A u \in Uses : Ran(use[u]) => run.reached /\ (use[u].tool \in wrapped => use[u].rulings = 1)
    <3>1. SUFFICES ASSUME NEW u \in Uses, Ran(use[u])
                   PROVE  run.reached /\ (use[u].tool \in wrapped => use[u].rulings = 1)
      OBVIOUS
    <3>2. use[u].at # "idle"
      BY <3>1 DEF Ran
    <3>3. run.reached
      BY <2>2, <3>2 DEF RunCalls, RunShape
    <3>4. use[u].tool \in wrapped => use[u].rulings = 1
      BY <2>2, <3>2 DEF RunnerUse
    <3>5. QED
      BY <3>3, <3>4
  <2>9. QED
    BY <2>3, <2>6, <2>7, <2>8 DEF RunnerRulings
<1>5. QED
  BY <1>1, <1>2, <1>3, <1>4 DEF RulingsStand

\* Every call is ruled on once at every boundary, and each ruling reaches its caller: the
\* exceptions the property names are all there are.
THEOREM ToolRulings == ToolsSpec => []RulingsStand
BY ToolsInvariant, RulingsFollow, PTL

\* The record, from the same.
LEMMA RecordFollows == ToolsInv => ToolCallsOnRecord
<1> SUFFICES ASSUME ToolsInv
             PROVE  ToolCallsOnRecord
  OBVIOUS
<1>1. McpOnRecord
  <2>1. SUFFICES ASSUME Mcp, NEW u \in Uses, Settled(use[u])
                 PROVE  McpTold(use[u])
    BY DEF McpOnRecord, McpTold
  <2>2. McpUse(use[u])
    BY <2>1 DEF ToolsInv, McpInv
  <2>3. QED
    BY <2>1, <2>2 DEF McpUse
<1>2. LangChainOnRecord
  <2>1. LangChain => \A u \in Uses : LangUse(use[u])
    BY DEF ToolsInv, LangInv
  <2>2. SUFFICES ASSUME NEW c, LangUse(c), Settled(c)
                 PROVE  /\ c.route = "model" =>
                             /\ c.at = "refused" => c.events = 1 /\ c.told = "blocked"
                             /\ c.args = "redacted" => c.at = "refused"
                             /\ c.at = "failed" => c.events = 1 \/ Noted(c, "untracked")
                        /\ c.route \in {"action", "start"} =>
                             /\ c.events >= c.rulings + IF c.at = "returned" THEN 1 ELSE 0
                             /\ c.at = "refused" => c.told = "blocked"
    BY <2>1 DEF LangChainOnRecord
  <2>3. c \in UseRecords /\ c.at \notin {"idle", "counting"}
    BY <2>2 DEF LangUse, Settled
  <2>4. CASE ToolCall(c)
    BY <2>3, <2>4 DEF ToolCall, UseRecords
  <2>5. CASE Retrieval(c)
    BY <2>5 DEF Retrieval
  <2>6. CASE ModelRun(c)
    BY <2>6 DEF ModelRun
  <2>7. QED
    BY <2>2, <2>3, <2>4, <2>5, <2>6 DEF LangUse
<1>3. GateOnRecord
  <2>1. SUFFICES ASSUME Governed, NEW u \in Uses, Settled(use[u]), use[u].tool \in wrapped
                 PROVE  GateOrSilent(use[u])
    <3>1. \A c : Settled(c) /\ GateOrSilent(c) =>
            /\ Noted(c, "silent") \/ c.events = 1
            /\ c.at = "refused" /\ ~Noted(c, "silent") <=> c.told = "blocked"
            /\ c.args = "redacted" <=> c.told = "redacted"
      BY DEF Settled, GateOrSilent, GateShape, Unspoken
    <3>2. QED
      BY <2>1, <3>1 DEF GateOnRecord
  <2>2. CASE Agentic
    <3>1. AgentUse(use[u]) /\ wrapped \subseteq Tools
      BY <2>2 DEF ToolsInv, AgentsInv, GatesFit
    <3>2. use[u].tool # "none" /\ use[u].at \notin {"idle", "guarded"}
      BY <2>1, <3>1, ToolAssumption DEF Settled
    <3>3. QED
      BY <2>1, <3>1, <3>2 DEF AgentUse, FunctionCall, ModelCall
  <2>3. CASE Deferred
    <3>1. RunnerUse(use[u]) /\ use[u].at # "idle"
      BY <2>1, <2>3 DEF ToolsInv, RunnerInv, Settled
    <3>2. QED
      BY <2>1, <3>1 DEF RunnerUse, GateOrSilent
  <2>4. QED
    BY <2>1, <2>2, <2>3 DEF Governed, Agentic, Deferred
<1>4. AgentsOnRecord
  <2>1. SUFFICES ASSUME Agentic
                 PROVE  AgentsOnRecord
    BY DEF AgentsOnRecord
  <2>2. (\A u \in Uses : AgentUse(use[u])) /\ TraceFits
    BY <2>1 DEF ToolsInv, AgentsInv
  <2>3. \A u \in Uses : Noted(use[u], "observed") =>
          /\ use[u].at = "refused" => ~Noted(use[u], "unjudged")
          /\ use[u].at # "refused" /\ use[u].tool \in Denied =>
               Noted(use[u], "unjudged") \/ use[u].tool \in registry
    <3>1. SUFFICES ASSUME NEW u \in Uses, Noted(use[u], "observed")
                   PROVE  FunctionCall(use[u])
      BY DEF FunctionCall
    <3>2. use[u].at # "idle"
      BY <2>2, <3>1, NoUseFields DEF AgentUse, Noted
    <3>3. QED
      BY <2>2, <3>1, <3>2 DEF AgentUse, ModelCall
  <2>4. QED
    BY <2>1, <2>2, <2>3 DEF AgentsOnRecord, TraceFits, Charges
<1>5. RunnerOnRecord
  <2>1. SUFFICES ASSUME Deferred
                 PROVE  RunnerOnRecord
    BY DEF RunnerOnRecord
  <2>2. RunShape(run) /\ RunCalls /\ \A u \in Uses : RunnerUse(use[u])
    BY <2>1 DEF ToolsInv, RunnerInv
  <2>3. /\ run.finished <= 1
        /\ run.finished = 1 =>
             /\ ~run.outcome => run.events = 0 /\ run.refusals = 1
             /\ run.outcome => run.events = 1 \/ (~ToolRun /\ ~run.error)
             /\ ToolRun => run.events = run.starts
    BY <2>2 DEF RunShape
  <2>4. \A u \in Uses : Noted(use[u], "observed") => (Noted(use[u], "gate") <=> use[u].events = 1)
    <3>1. SUFFICES ASSUME NEW u \in Uses, Noted(use[u], "observed")
                   PROVE  Noted(use[u], "gate") <=> use[u].events = 1
      OBVIOUS
    <3>2. RunnerUse(use[u]) /\ use[u].at # "idle" /\ (Noted(use[u], "gate") <=> use[u].tool \in wrapped)
      BY <2>2, <3>1 DEF RunnerUse
    <3>3. use[u].at \in {"refused", "returned", "failed"}
      BY <3>1, <3>2 DEF RunnerUse
    <3>4. QED
      BY <3>2, <3>3 DEF RunnerUse, GateShape
  <2>5. run.finished = 1 /\ ~run.error => \A u \in Uses : Settled(use[u]) => Noted(use[u], "observed")
    <3>1. run.finished = 1 => run.at \in {"failed", "over"}
      BY <2>2 DEF RunShape
    <3>2. QED
      BY <2>2, <3>1 DEF RunCalls, Settled
  <2>6. QED
    BY <2>3, <2>4, <2>5 DEF RunnerOnRecord
<1>6. QED
  BY <1>1, <1>2, <1>3, <1>4, <1>5 DEF ToolCallsOnRecord

\* What the events say of a call is what became of it, at every boundary.
THEOREM ToolRecord == ToolsSpec => []ToolCallsOnRecord
BY ToolsInvariant, RecordFollows, PTL

\* So do the denied tools: the calls charged to a run are those its limit let pass.
LEMMA DarkFollows == ToolsInv => DeniedStaysDark
<1> SUFFICES ASSUME ToolsInv
             PROVE  DeniedStaysDark
  OBVIOUS
<1>1. ASSUME NEW u \in Uses, Ran(use[u]), use[u].tool \in Denied
      PROVE  \/ Noted(use[u], "behind")
             \/ use[u].rulings = 0 /\ (Noted(use[u], "spent") \/ Noted(use[u], "swallowed"))
             \/ Agentic /\ use[u].tool \notin wrapped /\ (use[u].rulings = 0 \/ Noted(use[u], "lost"))
             \/ Deferred /\ use[u].tool \in boundary.uncallable
  <2>1. use[u].at \notin {"idle", "refused", "guarded", "judging"} /\ use[u].tool # "none"
    BY <1>1, ToolAssumption DEF Ran
  <2>2. CASE Mcp
    BY <1>1, <2>2 DEF ToolsInv, McpInv, McpUse, Approved
  <2>3. CASE LangChain
    <3>1. LangUse(use[u]) /\ use[u] \in UseRecords
      BY <2>3 DEF ToolsInv, LangInv, LangUse
    <3>2. ToolCall(use[u])
      BY <2>1, <3>1 DEF LangUse, Retrieval, ModelRun
    <3>3. ~(use[u].rulings > 0)
      BY <1>1, <2>1, <3>2 DEF ToolCall
    <3>4. use[u].rulings = 0
      BY <3>1, <3>3 DEF UseRecords
    <3>5. Noted(use[u], "spent") \/ Noted(use[u], "swallowed")
      BY <1>1, <3>2, <3>4 DEF ToolCall, Gates, Ran, Noted
    <3>6. QED
      BY <3>4, <3>5
  <2>4. CASE Agentic
    <3>1. FunctionCall(use[u])
      BY <2>1, <2>4 DEF ToolsInv, AgentsInv, AgentUse, ModelCall
    <3>2. use[u].tool \notin wrapped
      BY <1>1, <2>1, <3>1 DEF FunctionCall, GateOrSilent, GateShape
    <3>3. QED
      BY <1>1, <2>1, <2>4, <3>1, <3>2 DEF FunctionCall, Slipped
  <2>5. CASE Deferred
    <3>1. RunnerUse(use[u])
      BY <2>5 DEF ToolsInv, RunnerInv
    <3>2. QED
      BY <1>1, <2>1, <2>5, <3>1 DEF RunnerUse, GateShape
  <2>6. QED
    BY <2>2, <2>3, <2>4, <2>5, BoundaryAssumption DEF ToolsInv, Mcp, LangChain, Agentic, Deferred
<1>2. BudgetKept
  <2>1. SUFFICES ASSUME LangChain, ~Raced, boundary.stepAction = "block", NEW k \in Chains
                 PROVE  Cardinality({u \in Uses : Ran(use[u]) /\ use[u].owner = k /\ use[u].tool # "nameless"}) <= MaxSteps
    BY DEF BudgetKept
  <2>2. Cardinality(Charged(k)) <= MaxSteps
    BY <2>1 DEF ToolsInv, LangInv, StepsFit
  <2> DEFINE charged == {u \in Uses : Ran(use[u]) /\ use[u].owner = k /\ use[u].tool # "nameless"}
  <2>3. charged \subseteq Charged(k) /\ Charged(k) \subseteq Uses /\ charged \subseteq Uses
    BY DEF Charged, Counts
  <2>4. Cardinality(charged) <= Cardinality(Charged(k))
    BY <2>3, CallsCounted
  <2>5. Cardinality(charged) \in Nat /\ Cardinality(Charged(k)) \in Nat
    BY <2>3, CallsCounted
  <2>6. QED
    BY <2>2, <2>4, <2>5, ToolAssumption
<1>3. QED
  BY <1>1, <1>2 DEF DeniedStaysDark

\* A denied tool runs at no boundary but in the ways the property names, and a budget that
\* blocks is kept.
THEOREM DeniedToolsDark == ToolsSpec => []DeniedStaysDark
BY ToolsInvariant, DarkFollows, PTL
=============================================================================
