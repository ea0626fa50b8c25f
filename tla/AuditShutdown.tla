--------------------------- MODULE AuditShutdown ---------------------------
(***************************************************************************)
(* The end of a process that uses the sender: setupExitHandlers and the    *)
(* loop of flushQueue (sdk-typescript/src/proxy/sender/fire-and-forget.ts) *)
(* on top of AuditSender.                                                  *)
(*                                                                         *)
(* Node ends a process when its event loop has nothing left to wait for,   *)
(* after emitting beforeExit, and emits it again if a listener scheduled   *)
(* work.  An outstanding fetch and the 50 ms sleep of a flush hold the     *)
(* loop; the unref'd backoff timer does not.                               *)
(***************************************************************************)
EXTENDS AuditSender

VARIABLES
  process,           \* running, exited (the loop ran dry), or killed (process.exit)
  appBusy,           \* the application still holds the event loop
  flush,             \* the exit flush under way: none, beforeExit, ours or host
  exitFlushStarted   \* the handlers' guard

shutdown == <<process, appBusy, flush, exitFlushStarted>>
allVars == <<vars, shutdown>>

ExitInit ==
  /\ Init
  /\ process = "running"
  /\ appBusy = TRUE
  /\ flush = "none"
  /\ exitFlushStarted = FALSE

\* The application offers an event, or finishes.
AppEnqueues ==
  /\ appBusy
  /\ DropOnOverflow \/ Enqueue \/ EnqueueAfterGap
  /\ UNCHANGED shutdown

AppDone ==
  /\ appBusy
  /\ appBusy' = FALSE
  /\ UNCHANGED <<vars, process, flush, exitFlushStarted>>

SenderSteps ==
  /\ Settle \/ BackoffElapses
  /\ UNCHANGED shutdown

\* Variant: the guard is not released.
FinishGuarded(kind) ==
  /\ flush' = "none"
  /\ exitFlushStarted' = TRUE
  /\ process' = IF kind = "ours" THEN "killed" ELSE process

\* What a handler does when its flush settles.
Finish(kind) ==
  /\ flush' = "none"
  /\ exitFlushStarted' = (kind = "ours")
  /\ process' = IF kind = "ours" THEN "killed" ELSE process

\* A handler calls flushQueue, which returns at once on a drained sender.
StartFlush(kind) ==
  /\ FlushQueue
  /\ IF pendingQueue' = <<>> /\ phase' = "idle"
       THEN Finish(kind)
       ELSE /\ flush' = kind
            /\ exitFlushStarted' = TRUE
            /\ UNCHANGED process

\* The loop is empty: beforeExit flushes a queue that holds something, unless
\* a flush is running; when it schedules nothing the process is over.
LoopEmpty == ~appBusy /\ phase # "sending" /\ flush = "none"

\* Variant: an empty queue is flushed as well.
BeforeExitAlwaysFlushes ==
  /\ LoopEmpty
  /\ StartFlush("beforeExit")
  /\ UNCHANGED appBusy

BeforeExit ==
  /\ LoopEmpty
  /\ IF exitFlushStarted \/ pendingQueue = <<>>
       THEN /\ process' = "exited"
            /\ UNCHANGED <<vars, flush, exitFlushStarted>>
       ELSE StartFlush("beforeExit")
  /\ UNCHANGED appBusy

\* SIGTERM or SIGINT; the process is ours to end when no one else listens.
Signal ==
  /\ ~exitFlushStarted
  /\ \E kind \in {"ours", "host"} : StartFlush(kind)
  /\ UNCHANGED appBusy

\* flushQueue finds the sender drained when its sleep ends.
FlushDrains ==
  /\ flush # "none"
  /\ pendingQueue = <<>> /\ phase = "idle"
  /\ Finish(flush)
  /\ UNCHANGED <<vars, appBusy>>

\* flushQueue gives up after timeoutMs with events remaining.
FlushExpires ==
  /\ flush # "none"
  /\ pendingQueue # <<>> \/ phase # "idle"
  /\ Finish(flush)
  /\ UNCHANGED <<vars, appBusy>>

ExitNext ==
  /\ process = "running"
  /\ \/ AppEnqueues
     \/ AppDone
     \/ SenderSteps
     \/ BeforeExit
     \/ Signal
     \/ FlushDrains
     \/ FlushExpires

ExitSpec == ExitInit /\ [][ExitNext]_allVars

\* The loop's own steps are taken; the application and signals are free.
Running(action) == process = "running" /\ action
ExitFairness ==
  /\ WF_allVars(Running(Settle /\ UNCHANGED shutdown))
  /\ WF_allVars(Running(BackoffElapses /\ UNCHANGED shutdown))
  /\ WF_allVars(Running(BeforeExit))
  /\ WF_allVars(Running(FlushDrains \/ FlushExpires))

FairExitSpec == ExitSpec /\ ExitFairness

----------------------------------------------------------------------------
(* Properties.                                                             *)

\* A process that ends by itself has delivered, or given up on, everything it
\* signed: no expired flush, backoff or refused signal strands queued events.
NormalExitDrains == process = "exited" => Waiting = {}

\* Once the application is done the process ends, whatever ingest answers: the
\* flush, its guard and the retries together never keep it alive for ever.
ProcessEnds == ~appBusy ~> process # "running"

\* A normal exit leaves every overflow drop on the record.
ExitDeclaresGaps == process = "exited" => gapPendingCount = 0
=============================================================================
