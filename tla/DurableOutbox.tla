--------------------------- MODULE DurableOutbox ---------------------------
(***************************************************************************)
(* Durable delivery: the outbox of proxy/sender/durable-outbox.ts under    *)
(* the sender of proxy/sender/fire-and-forget.ts.  A signed event is       *)
(* written to pending/ before it is queued, delivered in a request of its  *)
(* own, removed when ingest answers for it, and moved to dead/ when it is  *)
(* given up.  The process may die between any two of these and replays     *)
(* pending/ when it starts again.                                          *)
(*                                                                         *)
(* Signing, sessions and counters are AuditSender's.  Here an event is the *)
(* number of its record; a gap marker is an event that replaces a lost one *)
(* and is not itself replaced.  maxBytes is a number of records: the ones  *)
(* in dead/ count, and nothing ever removes them.                          *)
(***************************************************************************)
EXTENDS Naturals, Sequences, FiniteSets

CONSTANTS
  MaxQueue,     \* MAX_QUEUE_SIZE
  MaxBytes,     \* records the outbox has room for
  SendRetries,  \* MAX_SEND_RETRIES
  MaxEvents,    \* bound on the events signed
  MaxRestarts   \* bound on the crashes

VARIABLES
  failureMode,   \* durableDelivery.failureMode
  produced,      \* events signed so far
  markers,       \* the gap markers among them
  written,       \* history: the events that were persisted
  pendingDir,    \* records in pending/
  deadDir,       \* records in dead/
  memory,        \* pendingQueue
  queuedIds,     \* queuedOutboxIds
  request,       \* the event of the outstanding request, or 0
  waiting,       \* the queue processor sleeps until a backoff ends
  tries,         \* retries of each event, in memory
  accepted,      \* events ingest recorded
  unread,        \* history: events refused in a response that could not be read
  gapUnwritten,  \* history: a gap marker could not be persisted
  restarts

disk == <<pendingDir, deadDir, written>>
outboxVars == <<failureMode, produced, markers, disk, memory, queuedIds, request, waiting,
                tries, accepted, unread, gapUnwritten, restarts>>

Events == 1..MaxEvents
InMemory(queue) == {queue[i] : i \in DOMAIN queue}
Idle == request = 0 /\ ~waiting

OutboxInit ==
  /\ failureMode \in {"error", "warn"}
  /\ produced = 0 /\ markers = {}
  /\ written = {} /\ pendingDir = {} /\ deadDir = {}
  /\ memory = <<>> /\ queuedIds = {} /\ request = 0 /\ waiting = FALSE
  /\ tries = [e \in Events |-> 0]
  /\ accepted = {} /\ unread = {}
  /\ gapUnwritten = FALSE
  /\ restarts = 0

----------------------------------------------------------------------------

\* The records of a set, oldest first.
Oldest(records) == CHOOSE e \in records : \A other \in records : e <= other
InOrder[records \in SUBSET Events] ==
  IF records = {} THEN <<>>
  ELSE <<Oldest(records)>> \o InOrder[records \ {Oldest(records)}]

\* refillDurableQueue: the persisted records that are not in memory, as many
\* as fit.
Refill(queue, pending, queued) ==
  LET missing == InOrder[pending \ queued]
      room == IF Len(queue) >= MaxQueue THEN 0 ELSE MaxQueue - Len(queue)
  IN  queue \o SubSeq(missing, 1, IF Len(missing) < room THEN Len(missing) ELSE room)

\* The processor goes on with a queue: it refills it, then sends its head, or
\* sleeps when a backoff is on, or ends on an empty queue.
Proceed(queue, pending, queued, backoff) ==
  LET full == Refill(queue, pending, queued)
      next == IF full = <<>> \/ backoff THEN 0 ELSE Head(full)
  IN  /\ queuedIds' = queued \cup (InMemory(full) \cap pending)
      /\ memory' = IF next = 0 THEN full ELSE Tail(full)
      /\ request' = next
      /\ waiting' = (backoff /\ full # <<>>)

\* processQueue when the sender is asked to: nothing if a processor runs.
Process(queue, queued) ==
  IF Idle
    THEN Proceed(queue, pendingDir', queued, FALSE)
    ELSE memory' = queue /\ queuedIds' = queued /\ UNCHANGED <<request, waiting>>

Room == Cardinality(pendingDir \cup deadDir) < MaxBytes

\* A full queue takes no event.
QueueOpen == Len(memory) < MaxQueue

\* enqueueAuditEvent and signAndEnqueue.  An event that cannot be persisted is
\* refused to the caller, or kept in memory only.
LogEvent ==
  /\ produced < MaxEvents
  /\ QueueOpen
  /\ Room \/ failureMode = "warn"
  /\ LET e == produced + 1
         saved == IF Room THEN {e} ELSE {}
     IN  /\ produced' = e
         /\ written' = written \cup saved
         /\ pendingDir' = pendingDir \cup saved
         /\ Process(Append(memory, e), queuedIds \cup saved)
  /\ UNCHANGED <<failureMode, markers, deadDir, tries, accepted, unread, gapUnwritten, restarts>>

\* flushQueue, without its wait; a running processor is left alone.
Flush ==
  /\ pendingDir' = pendingDir
  /\ Process(Refill(memory, pendingDir, queuedIds),
             queuedIds \cup (InMemory(Refill(memory, pendingDir, queuedIds)) \cap pendingDir))
  /\ UNCHANGED <<failureMode, produced, markers, deadDir, written, tries, accepted, unread,
                 gapUnwritten, restarts>>

\* Variant: the record goes when the request is made, not when it is answered.
AcknowledgeUnanswered ==
  /\ request # 0
  /\ pendingDir' = pendingDir \ {request}
  /\ Proceed(memory, pendingDir', queuedIds \ {request}, FALSE)
  /\ \E recorded \in {{}, {request}} : accepted' = accepted \cup recorded
  /\ UNCHANGED <<failureMode, produced, markers, deadDir, written, tries, unread, gapUnwritten,
                 restarts>>

\* An accepted request: the record is acknowledged.  The event was recorded, now
\* or by an earlier attempt, or it was refused in the body of the answer, and the
\* sender, which cannot read the body, takes it for recorded.
Acknowledge ==
  /\ request # 0
  /\ \/ accepted' = accepted \cup {request} /\ UNCHANGED unread
     \/ request \notin accepted /\ unread' = unread \cup {request} /\ UNCHANGED accepted
  /\ pendingDir' = pendingDir \ {request}
  /\ Proceed(memory, pendingDir', queuedIds \ {request}, FALSE)
  /\ UNCHANGED <<failureMode, produced, markers, deadDir, written, tries, gapUnwritten, restarts>>

\* The processor gave up the event of its request.  declareDeliveryGap signs a
\* marker for it, which is persisted and queued, or deferred to a refill.
GiveUp(afterDead) ==
  LET lostMarker == request \in markers
      marker == produced + 1
      buried == pendingDir \cap {request}
  IN  IF lostMarker
      THEN /\ pendingDir' = pendingDir \ buried
           /\ deadDir' = deadDir \cup buried
           /\ Proceed(memory, pendingDir', queuedIds \ {request}, FALSE)
           /\ UNCHANGED <<produced, markers, written, gapUnwritten>>
      ELSE IF Room \/ failureMode = "warn"
      THEN LET saved == IF Room THEN {marker} ELSE {}
               deferred == Room /\ Len(memory) >= MaxQueue
           IN  /\ produced < MaxEvents
               /\ produced' = marker
               /\ markers' = markers \cup {marker}
               /\ written' = written \cup saved
               /\ pendingDir' = (pendingDir \ buried) \cup saved
               /\ deadDir' = deadDir \cup buried
               /\ Proceed(IF deferred THEN memory ELSE Append(memory, marker), pendingDir',
                          (queuedIds \ {request}) \cup (IF deferred THEN {} ELSE saved), FALSE)
               /\ UNCHANGED gapUnwritten
      ELSE \* persistDurableEvent throws out of the processor.  A refused event
           \* is not dead-lettered any more, an exhausted one already was.
           /\ gapUnwritten' = TRUE
           /\ pendingDir' = IF afterDead THEN pendingDir \ buried ELSE pendingDir
           /\ deadDir' = IF afterDead THEN deadDir \cup buried ELSE deadDir
           /\ queuedIds' = IF afterDead THEN queuedIds \ {request} ELSE queuedIds
           /\ request' = 0
           /\ UNCHANGED <<produced, markers, written, memory, waiting>>

\* Refused by ingest, or permanently undeliverable.
Refuse ==
  /\ request # 0
  /\ GiveUp(FALSE)
  /\ UNCHANGED <<failureMode, tries, accepted, unread, restarts>>

\* No answer or a retryable one; ingest may have recorded the event.
\* requeueFront puts it back under a backoff, or gives it up.
Retry ==
  /\ request # 0
  /\ \E recorded \in {{}, {request}} : accepted' = accepted \cup recorded
  /\ IF tries[request] < SendRetries
       THEN /\ tries' = [tries EXCEPT ![request] = @ + 1]
            /\ Proceed(<<request>> \o memory, pendingDir, queuedIds, TRUE)
            /\ UNCHANGED <<produced, markers, disk, gapUnwritten>>
       ELSE GiveUp(TRUE) /\ UNCHANGED tries
  /\ UNCHANGED <<failureMode, unread, restarts>>

BackoffEnds ==
  /\ waiting
  /\ request' = Head(memory)
  /\ memory' = Tail(memory)
  /\ waiting' = FALSE
  /\ UNCHANGED <<failureMode, produced, markers, disk, queuedIds, tries, accepted,
                 unread, gapUnwritten, restarts>>

\* Variant: a new process does not look at what an earlier one left.
RestartWithoutReplay ==
  /\ restarts < MaxRestarts
  /\ restarts' = restarts + 1
  /\ tries' = [e \in Events |-> 0]
  /\ memory' = <<>> /\ queuedIds' = {} /\ request' = 0 /\ waiting' = FALSE
  /\ UNCHANGED <<failureMode, produced, markers, disk, accepted, unread, gapUnwritten>>

\* The process dies; configureDurableDelivery of the next one replays.
CrashAndReplay ==
  /\ restarts < MaxRestarts
  /\ restarts' = restarts + 1
  /\ tries' = [e \in Events |-> 0]
  /\ Proceed(<<>>, pendingDir, {}, FALSE)
  /\ UNCHANGED <<failureMode, produced, markers, disk, accepted, unread, gapUnwritten>>

Answer == Acknowledge \/ Refuse \/ Retry

OutboxNext == LogEvent \/ Flush \/ Answer \/ BackoffEnds \/ CrashAndReplay

\* A request is answered or times out, and a backoff ends.
OutboxFairness == WF_outboxVars(Answer) /\ WF_outboxVars(BackoffEnds)

----------------------------------------------------------------------------
(* Properties.                                                             *)

\* While a backoff is on, the queue holds what was put back; a forced or
\* memory-only marker may exceed the bound.
OutboxTypeOK ==
  /\ failureMode \in {"error", "warn"}
  /\ produced \in 0..MaxEvents
  /\ written \subseteq 1..produced /\ markers \subseteq 1..produced
  /\ pendingDir \cup deadDir \cup queuedIds \subseteq written
  /\ pendingDir \cap deadDir = {}
  /\ memory \in Seq(Events) /\ Len(memory) <= MaxQueue + 1
  /\ request \in 0..produced
  /\ waiting \in BOOLEAN /\ (waiting => memory # <<>> /\ request = 0)
  /\ tries \in [Events -> 0..SendRetries]
  /\ accepted \subseteq 1..produced /\ unread \subseteq 1..produced
  /\ gapUnwritten \in BOOLEAN
  /\ restarts \in 0..MaxRestarts

\* A persisted event is never lost, at whatever point the process dies: it is
\* still pending, kept in dead/, or recorded by ingest.  The one exception is an
\* event ingest refused in an accepted response the sender could not read: its
\* record is gone all the same.
PersistedKept == written \subseteq pendingDir \cup deadDir \cup accepted \cup unread

\* Every pending record is settled in the end, also across a restart, unless
\* the outbox was too full to take the marker for a loss.
PersistedSettles ==
  \A e \in Events : e \in pendingDir ~> (e \notin pendingDir \/ gapUnwritten)
=============================================================================
