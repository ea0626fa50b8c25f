--------------------------- MODULE DeferredRunner ---------------------------
(***************************************************************************)
(* The provider helpers that return their runner at once: .stream()        *)
(* (proxy/runner-wrapper.ts) and the tool runners (tool-runner-wrapper.ts, *)
(* runner-tool-gate.ts).  The caller gets a stand-in while governance      *)
(* decides; the provider's runner is built after, if at all.               *)
(***************************************************************************)
EXTENDS GovernedTools

CONSTANT Listeners    \* the error listeners of the caller

VARIABLES
  run,      \* the call: where it is, what was queued, what was told of it
  listens   \* how each listener stands: on nothing, the queue, the runner, or off

runnerVars == <<run, listens>>

\* boundary.helper is "stream", the OpenAI or the Anthropic tool runner, or a runner
\* that has neither done() nor a driver and can only be drained.
Deferred == boundary.kind = "runner"
ToolRun == boundary.helper \in {"openai", "anthropic"}

\* outcome: governance let the call pass.  aborted: the caller gave up.  reached: the
\* provider was called.  finished: how often finish() ran.
DeferredInit ==
  /\ run = [at |-> "idle", pending |-> <<>>, outcome |-> FALSE, aborted |-> FALSE, delivered |-> FALSE,
            reached |-> FALSE, abandoned |-> FALSE, error |-> FALSE, refusals |-> 0, starts |-> 0, finished |-> 0, events |-> 0]
  /\ listens = [l \in Listeners |-> [on |-> "none", told |-> 0]]

---------------------------------------------------------------------------
(* The caller and its stand-in *)

CallerRuns ==
  /\ Deferred
  /\ run.at = "idle"
  /\ run' = [run EXCEPT !.at = "governing"]
  /\ UNCHANGED <<boundary, taint, use, gateVars, listens>>

Live == run.at \in {"running", "over"}
Queue(entry) == [run EXCEPT !.pending = Append(@, entry)]

\* on("error", l): to the runner, to the queue, or, once the failure was delivered, to
\* a microtask of its own.
CallerListens(l) ==
  /\ Deferred
  /\ run.at # "idle" /\ listens[l].on = "none"
  /\ LET place == IF Live THEN "live" ELSE IF run.delivered THEN "owed" ELSE "queued" IN
       /\ listens' = [listens EXCEPT ![l].on = place]
       /\ run' = IF place = "queued" THEN Queue(<<"on", l>>) ELSE run
  /\ UNCHANGED <<boundary, taint, use, gateVars>>

CallerUnlistens(l) ==
  /\ Deferred
  /\ listens[l].on \in {"queued", "live"}
  /\ IF Live THEN listens' = [listens EXCEPT ![l].on = "off"] /\ UNCHANGED run
     ELSE run' = Queue(<<"off", l>>) /\ UNCHANGED listens
  /\ ~ \E i \in DOMAIN run.pending : run.pending[i] = <<"off", l>>
  /\ UNCHANGED <<boundary, taint, use, gateVars>>

\* abort(): noted, and passed on to the runner or queued for it.
CallerAborts ==
  /\ Deferred
  /\ run.at # "idle" /\ ~run.aborted
  /\ run' = [(IF Live THEN run ELSE Queue(<<"abort", "none">>))
               EXCEPT !.aborted = TRUE, !.abandoned = run.at \in {"governing", "allowed"}]
  /\ UNCHANGED <<boundary, taint, use, gateVars, listens>>

---------------------------------------------------------------------------
(* Governance answers, and the runner is built *)

\* The tools of the request that have a callback obsvr can wrap go behind the gate.
Gated == boundary.offers \ boundary.uncallable

\* governCall refuses, with an event, or lets the call pass; a tool run then gates
\* its tools and records its start.
GovernanceAnswers ==
  /\ Deferred
  /\ run.at = "governing"
  /\ \/ /\ run' = [run EXCEPT !.at = "rejected", !.refusals = 1]
        /\ UNCHANGED gateVars
     \/ /\ run' = [run EXCEPT !.at = "allowed", !.outcome = TRUE, !.starts = IF ToolRun THEN 1 ELSE 0]
        /\ wrapped' = IF ToolRun THEN Gated ELSE {}
        /\ registry' = registry \cup wrapped'
  /\ taint' \in MarkTainted
  /\ UNCHANGED <<boundary, use, listens>>

\* What the caller did to the stand-in happens to the runner, in the same order: the
\* last of it decides.
Replayed ==
  [l \in Listeners |->
     LET about == {i \in DOMAIN run.pending : run.pending[i] \in {<<"on", l>>, <<"off", l>>}}
         last == CHOOSE i \in about : \A j \in about : j <= i
     IN IF about = {} THEN listens[l]
        ELSE [listens[l] EXCEPT !.on = IF run.pending[last] = <<"on", l>> THEN "live" ELSE "off"]]

\* A caller that gave up meanwhile gets no runner; nor does one whose arguments the
\* provider's method refuses.
RunnerStarts ==
  /\ Deferred
  /\ run.at = "allowed"
  /\ \/ /\ run' = [run EXCEPT !.at = "rejected", !.error = TRUE]
        /\ UNCHANGED listens
     \/ /\ ~run.aborted
        /\ run' = [run EXCEPT !.at = "running", !.reached = TRUE, !.pending = <<>>]
        /\ listens' = Replayed
  /\ UNCHANGED <<boundary, taint, use, gateVars>>

\* The failure is handed to the listeners that wait in the queue, once each time they
\* were put there; an "off" among them is not looked at.
DeliverFailure ==
  /\ Deferred
  /\ run.at = "rejected"
  /\ listens' = [l \in Listeners |->
       [listens[l] EXCEPT !.told = @ + Cardinality({i \in DOMAIN run.pending : run.pending[i] = <<"on", l>>})]]
  /\ run' = [run EXCEPT !.at = "failed", !.delivered = TRUE, !.pending = <<>>]
  /\ UNCHANGED <<boundary, taint, use, gateVars>>

LateListenerTold(l) ==
  /\ Deferred
  /\ listens[l].on = "owed"
  /\ listens' = [listens EXCEPT ![l] = [on |-> "off", told |-> @.told + 1]]
  /\ UNCHANGED <<boundary, taint, use, gateVars, run>>

---------------------------------------------------------------------------
(* The run *)

\* The run of a stream or of a loop ends; its listeners hear of an error from the
\* runner itself.  A loop ends well only when every tool result went back to the model.
RunEnds(error) ==
  /\ run' = [run EXCEPT !.at = "over", !.error = error]
  /\ listens' = [l \in Listeners |->
       [listens[l] EXCEPT !.told = @ + IF error /\ listens[l].on = "live" THEN 1 ELSE 0]]

RunIsOver ==
  /\ Deferred
  /\ run.at = "running"
  /\ \/ RunEnds(TRUE)
     \/ ~run.aborted /\ (\A u \in Uses : use[u].at = "idle" \/ Noted(use[u], "observed")) /\ RunEnds(FALSE)
  /\ UNCHANGED <<boundary, taint, use, gateVars>>

\* A later turn of the loop goes through the governed client: it may taint the session,
\* and a refusal ends the run with an event of its own.
ModelTurn ==
  /\ Deferred
  /\ ToolRun /\ run.at = "running"
  /\ \/ UNCHANGED runnerVars
     \/ run' = [run EXCEPT !.at = "over", !.error = TRUE, !.refusals = 1] /\ UNCHANGED listens
  /\ taint' \in MarkTainted
  /\ UNCHANGED <<boundary, use, gateVars>>

\* A run that can only be drained is waited for by nobody.
Awaited == run.at = "failed" \/ (run.at = "over" /\ boundary.helper # "drained")

\* finish(): a refusal has its event; a stream that went well may be sampled away.
Finish ==
  /\ Deferred
  /\ Awaited /\ run.finished = 0
  /\ \E sampled \in {FALSE, ~ToolRun /\ ~run.error} :
       run' = [run EXCEPT !.finished = 1,
                          !.events = @ + IF run.outcome /\ ~sampled THEN 1 ELSE 0]
  /\ UNCHANGED <<boundary, taint, use, gateVars, listens>>

\* The runner dispatches a tool of the request: behind its gate, if it has one.
RunnerCallsTool(u) ==
  /\ Deferred
  /\ ToolRun /\ run.at = "running"
  /\ use[u].at = "idle"
  /\ \E t \in boundary.offers :
       LET c == [use[u] EXCEPT !.tool = t, !.route = "callback"] IN
       \E d \in IF t \in wrapped THEN GateVerdicts(c) ELSE {Move(c, "running")} :
         use' = [use EXCEPT ![u] = d]
  /\ UNCHANGED <<boundary, taint, gateVars, runnerVars>>

\* What the observer notes points to the gate that ruled, or says that nobody did.
Noticed(c) == Note(Note(c, "observed"), IF c.tool \in wrapped THEN "gate" ELSE "absent")

\* The result of a tool comes back in a message and is noted once, by its id.  Anthropic's
\* runner makes messages of
\* failures too, and its messages are also harvested when the run is over.
RunnerObserves(u) ==
  /\ Deferred
  /\ \/ run.at = "running" /\ use[u].at = "returned"
     \/ /\ boundary.helper = "anthropic" /\ use[u].at \in {"refused", "returned", "failed"}
        /\ run.at = "running" \/ (run.at = "over" /\ run.finished = 0)
  /\ ~Noted(use[u], "observed")
  /\ use' = [use EXCEPT ![u] = Noticed(@)]
  /\ UNCHANGED <<boundary, taint, gateVars, runnerVars>>

DeferredNext ==
  \/ CallerRuns \/ CallerAborts
  \/ GovernanceAnswers \/ RunnerStarts \/ DeliverFailure \/ RunIsOver \/ ModelTurn \/ Finish
  \/ \E l \in Listeners : CallerListens(l) \/ CallerUnlistens(l) \/ LateListenerTold(l)
  \/ \E u \in Uses : RunnerCallsTool(u) \/ RunnerObserves(u)
=============================================================================
