---------------------------- MODULE PythonSender ----------------------------
(***************************************************************************)
(* The audit sender of the Python SDK (sdk-python/obsvr/sender.py): the    *)
(* protocol of AuditSender with threads instead of an event loop.  A call  *)
(* signs and enqueues under _sign_lock, a daemon worker delivers, and the  *)
(* shutdown flush runs inside a signal handler.                            *)
(*                                                                         *)
(* CPython runs the handler on the main thread between two bytecodes, and  *)
(* _sign_lock is reentrant: the handler's flush enters a signing that the  *)
(* same thread has begun.  Calls of other threads wait for the lock and no *)
(* handler interrupts them, so the caller below is the main thread; each   *)
(* of its actions ends where a handler would make a difference.            *)
(*                                                                         *)
(* In-memory delivery; the outbox is DurableOutbox's.  Backoff only delays *)
(* the worker, and fork() starts over with an empty sender: neither is a   *)
(* step here.                                                              *)
(***************************************************************************)
EXTENDS Naturals, Sequences, FiniteSets

CONSTANTS
  QueueMaxSize,          \* MAX_QUEUE_SIZE
  BatchSize,             \* SEND_BATCH_SIZE
  MaxSendRetries,        \* MAX_SEND_RETRIES
  MayDefyJson,           \* an event may hold a value json cannot serialize
  MaxCalls,              \* bound on the events of the application
  MaxFlushes,            \* bound on its calls of flush
  MaxSignals             \* bound on SIGTERM and SIGINT

ASSUME PythonSenderAssumption ==
  /\ QueueMaxSize \in Nat \ {0} /\ BatchSize \in Nat \ {0} /\ MaxSendRetries \in Nat
  /\ MayDefyJson \in BOOLEAN

VARIABLES
  events,          \* history: every event signed; an event is its position
  entered,         \* history: the events that were put in the queue
  ingested,        \* history: the events ingest recorded
  given_up,        \* history: the events counted in a dropped counter
  overflowed,      \* history: the calls that found the queue full
  calls, flushes, signals,
  head,            \* _sdk_session_id, _seq_no, _last_sig
  gap_pending,     \* _gap_pending
  queue,           \* _queue: events with their retries
  unfinished,      \* _queue.unfinished_tasks
  worker_pending, worker_front, batch, worker,
  caller,          \* where send_audit_async or flush is, and what it holds
  handler          \* the signal handler: none, waiting in flush, or hung

history == <<events, entered, ingested, given_up, overflowed>>
workers == <<worker_pending, worker_front, batch, worker>>
bounds == <<calls, flushes, signals>>
pyVars == <<history, bounds, head, gap_pending, queue, unfinished, workers, caller, handler>>

NoDraft == [session |-> 0, seq |-> 0, prev |-> 0, gap |-> 0, json |-> TRUE, forced |-> FALSE]
At(pc) == [pc |-> pc, draft |-> NoDraft, event |-> 0, saved |-> head]
Json == {TRUE, ~MayDefyJson}

PyInit ==
  /\ events = <<>> /\ entered = {} /\ ingested = {} /\ given_up = {} /\ overflowed = 0
  /\ calls = 0 /\ flushes = 0 /\ signals = 0
  /\ head = [session |-> 1, seq |-> 0, sig |-> 0]
  /\ gap_pending = 0
  /\ queue = <<>> /\ unfinished = 0
  /\ worker_pending = <<>> /\ worker_front = <<>> /\ batch = <<>> /\ worker = "waiting"
  /\ caller = At("idle")
  /\ handler = "none"

Queued(e) == [event |-> e, retries |-> 0]
IsMarker(e) == events[e].gap > 0
Full == Len(queue) >= QueueMaxSize

\* Who holds _sign_lock, and the queue's own mutex.
SignLockFree == caller.pc \in {"idle", "flushing"}
MutexFree == caller.pc # "putting"

----------------------------------------------------------------------------
(* send_audit_async and flush on the main thread.                          *)

\* The event goes on to be signed; prev_seq and prev_sig are saved.
Drafting(gap, json, forced) ==
  [At("drafted") EXCEPT !.draft.gap = gap, !.draft.json = json, !.draft.forced = forced]

\* Variant: an overflow is counted and not remembered for a marker.
OverflowForgotten ==
  /\ overflowed' = overflowed + 1
  /\ UNCHANGED gap_pending

\* A full queue: the event is dropped before it is signed.
Overflow ==
  /\ overflowed' = overflowed + 1
  /\ gap_pending' = gap_pending + 1

SendAudit ==
  /\ caller.pc = "idle" /\ handler = "none"
  /\ calls < MaxCalls
  /\ calls' = calls + 1
  /\ IF Full
       THEN Overflow /\ UNCHANGED caller
       ELSE /\ IF gap_pending > 0 /\ Len(queue) + 2 <= QueueMaxSize
                 THEN caller' = Drafting(gap_pending, TRUE, FALSE)
                 ELSE \E json \in Json : caller' = Drafting(0, json, FALSE)
            /\ UNCHANGED <<overflowed, gap_pending>>
  /\ UNCHANGED <<events, entered, ingested, given_up, flushes, signals, head, queue,
                 unfinished, workers, handler>>

\* flush(): a forced marker for a pending gap, then the wait.
CallFlush ==
  /\ caller.pc = "idle" /\ handler = "none"
  /\ flushes < MaxFlushes
  /\ flushes' = flushes + 1
  /\ caller' = IF gap_pending > 0 THEN Drafting(gap_pending, TRUE, TRUE) ELSE At("flushing")
  /\ UNCHANGED <<history, calls, signals, head, gap_pending, queue, unfinished, workers, handler>>

FlushReturns ==
  /\ caller.pc = "flushing" /\ handler = "none"
  /\ caller' = At("idle")
  /\ UNCHANGED <<history, bounds, head, gap_pending, queue, unfinished, workers, handler>>

\* _sign_event_locked: the number, ...
Number ==
  /\ caller.pc = "drafted" /\ handler = "none"
  /\ head' = [head EXCEPT !.seq = @ + 1]
  /\ caller' = [caller EXCEPT !.pc = "numbered", !.draft.session = head.session,
                              !.draft.seq = head.seq + 1]
  /\ UNCHANGED <<history, bounds, gap_pending, queue, unfinished, workers, handler>>

\* ... the link, ...
Link ==
  /\ caller.pc = "numbered" /\ handler = "none"
  /\ caller' = [caller EXCEPT !.pc = "linked", !.draft.prev = head.sig]
  /\ UNCHANGED <<history, bounds, head, gap_pending, queue, unfinished, workers, handler>>

\* ... and the signature, which becomes the head.
Sign ==
  /\ caller.pc = "linked" /\ handler = "none"
  /\ events' = Append(events, caller.draft)
  /\ head' = [head EXCEPT !.sig = Len(events) + 1]
  /\ caller' = [caller EXCEPT !.pc = "signed", !.event = Len(events) + 1]
  /\ UNCHANGED <<entered, ingested, given_up, overflowed, bounds, gap_pending, queue,
                 unfinished, workers, handler>>

\* put_nowait takes the queue's mutex.
EnterPut ==
  /\ caller.pc = "signed" /\ handler = "none"
  /\ caller' = [caller EXCEPT !.pc = "putting"]
  /\ UNCHANGED <<history, bounds, head, gap_pending, queue, unfinished, workers, handler>>

\* The signed event is enqueued; or the queue is full, and the chain goes back
\* to where it was before the event, or before the marker.
Put ==
  /\ caller.pc = "putting" /\ handler = "none"
  /\ LET draft == caller.draft
     IN  IF ~Full \/ draft.forced
         THEN /\ queue' = Append(queue, Queued(caller.event))
              /\ unfinished' = unfinished + 1
              /\ entered' = entered \cup {caller.event}
              /\ caller' = IF draft.gap > 0 THEN [caller EXCEPT !.pc = "clearing"] ELSE At("idle")
              /\ UNCHANGED <<head, gap_pending, overflowed>>
         ELSE /\ UNCHANGED <<queue, unfinished, entered>>
              /\ IF draft.gap > 0
                   THEN /\ head' = [head EXCEPT !.seq = draft.seq - 1, !.sig = draft.prev]
                        /\ \E json \in Json :
                             caller' = [Drafting(0, json, FALSE) EXCEPT !.saved = head']
                        /\ UNCHANGED <<gap_pending, overflowed>>
                   ELSE /\ head' = [head EXCEPT !.seq = caller.saved.seq, !.sig = caller.saved.sig]
                        /\ Overflow
                        /\ caller' = At("idle")
  /\ UNCHANGED <<events, ingested, given_up, bounds, workers, handler>>

\* The marker is in the queue: its drops are declared, and the event follows.
Clear ==
  /\ caller.pc = "clearing" /\ handler = "none"
  /\ gap_pending' = 0
  /\ IF caller.draft.forced THEN caller' = At("flushing")
     ELSE \E json \in Json : caller' = Drafting(0, json, FALSE)
  /\ UNCHANGED <<history, bounds, head, queue, unfinished, workers, handler>>

\* _handle_shutdown_signal, _atexit_flush: the handler declares a pending gap
\* in the middle of whatever the caller was doing, and waits for the worker.
\* The mutex is not reentrant: with the caller inside put_nowait it hangs.
HandleSignal ==
  /\ handler = "none" /\ signals < MaxSignals
  /\ signals' = signals + 1
  /\ IF gap_pending = 0
       THEN /\ handler' = "waiting"
            /\ UNCHANGED <<events, entered, head, gap_pending, queue, unfinished>>
       ELSE LET marker == Len(events) + 1
            IN  /\ events' = Append(events, [NoDraft EXCEPT !.session = head.session,
                                 !.seq = head.seq + 1, !.prev = head.sig, !.gap = gap_pending])
                /\ head' = [head EXCEPT !.seq = @ + 1, !.sig = marker]
                /\ IF MutexFree
                     THEN /\ queue' = Append(queue, Queued(marker))
                          /\ unfinished' = unfinished + 1
                          /\ entered' = entered \cup {marker}
                          /\ gap_pending' = 0
                          /\ handler' = "waiting"
                     ELSE /\ handler' = "hung"
                          /\ UNCHANGED <<entered, gap_pending, queue, unfinished>>
  /\ UNCHANGED <<ingested, given_up, overflowed, calls, flushes, workers, caller>>

\* Its flush ended and the host's own handler let the process go on.
HandlerReturns ==
  /\ handler = "waiting"
  /\ handler' = "none"
  /\ UNCHANGED <<history, bounds, head, gap_pending, queue, unfinished, workers, caller>>

----------------------------------------------------------------------------
(* The worker thread: _worker_loop.                                        *)

\* Where the next item comes from: what was carried, what is retried, the queue.
Sources ==
  IF worker_front # <<>> THEN "front"
  ELSE IF worker_pending # <<>> THEN "pending"
  ELSE IF MutexFree /\ queue # <<>> THEN "queue" ELSE "none"
NextItem ==
  CASE Sources = "front" -> Head(worker_front)
    [] Sources = "pending" -> Head(worker_pending)
    [] Sources = "queue" -> Head(queue)
TakeNext ==
  /\ worker_pending' = IF Sources = "pending" THEN Tail(worker_pending) ELSE worker_pending
  /\ queue' = IF Sources = "queue" THEN Tail(queue) ELSE queue

\* What json.dumps raises is swallowed with the batch: n tasks are done.
Swallow(n) ==
  /\ batch' = <<>>
  /\ worker' = "waiting"
  /\ unfinished' = unfinished - n

GetFirst ==
  /\ worker = "waiting" /\ Sources # "none"
  /\ TakeNext
  /\ worker_front' = IF Sources = "front" THEN <<>> ELSE worker_front
  /\ LET first == NextItem
     IN  IF ~events[first.event].json
         THEN Swallow(1)
         ELSE /\ batch' = <<first>>
              /\ worker' = IF IsMarker(first.event) THEN "sending" ELSE "collecting"
              /\ UNCHANGED unfinished
  /\ UNCHANGED <<history, bounds, head, gap_pending, caller, handler>>

\* A marker is carried to a batch of its own, and so is an event that does not
\* fit the byte budget.
Collect ==
  /\ worker = "collecting" /\ Len(batch) < BatchSize /\ Sources # "none"
  /\ TakeNext
  /\ LET item == NextItem
         rest == IF Sources = "front" THEN <<>> ELSE worker_front
     IN  \E fits \in BOOLEAN :
           IF ~events[item.event].json
             THEN /\ worker_front' = rest
                  /\ Swallow(Len(batch))
           ELSE IF fits /\ ~IsMarker(item.event)
             THEN /\ batch' = Append(batch, item)
                  /\ worker_front' = rest
                  /\ UNCHANGED <<worker, unfinished>>
             ELSE /\ worker_front' = <<item>>
                  /\ worker' = "sending"
                  /\ UNCHANGED <<batch, unfinished>>
  /\ UNCHANGED <<history, bounds, head, gap_pending, caller, handler>>

StopCollecting ==
  /\ worker = "collecting"
  /\ Len(batch) = BatchSize \/ (Sources = "none" /\ MutexFree)
  /\ worker' = "sending"
  /\ UNCHANGED <<history, bounds, head, gap_pending, queue, unfinished, worker_pending,
                 worker_front, batch, caller, handler>>

BatchEvents == {batch[i].event : i \in DOMAIN batch}

\* The batch is settled: requeued items keep their task.  Lost events, unless
\* one is a marker, are declared at the head of a fresh session.
SettleBatch(lost, requeued) ==
  LET declares == lost # {} /\ \A e \in lost : ~IsMarker(e)
      marker == Len(events) + 1
  IN  /\ given_up' = given_up \cup lost
      /\ worker_pending' = worker_pending \o requeued
      /\ batch' = <<>>
      /\ worker' = "waiting"
      /\ IF declares
           THEN /\ SignLockFree
                /\ events' = Append(events, [NoDraft EXCEPT !.session = head.session + 1,
                                             !.seq = 1, !.gap = Cardinality(lost)])
                /\ head' = [session |-> head.session + 1, seq |-> 1, sig |-> marker]
                /\ MutexFree
                /\ queue' = Append(queue, Queued(marker))
                /\ entered' = entered \cup {marker}
                /\ unfinished' = unfinished + 1 + Len(requeued) - Len(batch)
           ELSE /\ unfinished' = unfinished + Len(requeued) - Len(batch)
                /\ UNCHANGED <<events, head, queue, entered>>

\* Accepted: all of it but the events refused in the body.  The worker does not
\* hear of them when the body cannot be read: it counts the batch as sent.
DeliverBatch ==
  /\ worker = "sending"
  /\ \E refused \in SUBSET BatchEvents :
     \E reported \in {refused, {}} :
       /\ ingested' = ingested \cup (BatchEvents \ refused)
       /\ SettleBatch(reported, <<>>)
  /\ UNCHANGED <<overflowed, bounds, gap_pending, worker_front, caller, handler>>

\* Refused, or permanently undeliverable, as a whole.
DiscardBatch ==
  /\ worker = "sending"
  /\ SettleBatch(BatchEvents, <<>>)
  /\ UNCHANGED <<ingested, overflowed, bounds, gap_pending, worker_front, caller, handler>>

RetriedItems(items) == [i \in DOMAIN items |-> [items[i] EXCEPT !.retries = @ + 1]]
MayRetry(item) == item.retries < MaxSendRetries

\* The places of the items that have retries left, in their order.
KeptPlaces(items) ==
  LET kept == {i \in DOMAIN items : MayRetry(items[i])}
  IN  {places \in [1..Cardinality(kept) -> kept] :
         \A j, k \in DOMAIN places : j < k => places[j] < places[k]}

\* Variant: a retried item has finished its task.
RetryFinished ==
  /\ worker = "sending"
  /\ ingested' = ingested
  /\ worker_pending' = worker_pending \o RetriedItems(batch)
  /\ batch' = <<>> /\ worker' = "waiting"
  /\ unfinished' = unfinished - Len(batch)
  /\ UNCHANGED <<events, head, queue, entered, given_up, overflowed, bounds, gap_pending,
                 worker_front, caller, handler>>

\* No answer or a retryable one; ingest may have recorded some of it.
RetryBatch ==
  /\ worker = "sending"
  /\ \E arrived \in {{}, BatchEvents} : ingested' = ingested \cup arrived
  /\ \E places \in KeptPlaces(batch) :
       SettleBatch({batch[i].event : i \in {j \in DOMAIN batch : ~MayRetry(batch[j])}},
                   RetriedItems([j \in DOMAIN places |-> batch[places[j]]]))
  /\ UNCHANGED <<overflowed, bounds, gap_pending, worker_front, caller, handler>>

Caller == SendAudit \/ CallFlush \/ FlushReturns \/ Number \/ Link \/ Sign \/ EnterPut \/ Put \/ Clear
Worker == GetFirst \/ Collect \/ StopCollecting \/ DeliverBatch \/ DiscardBatch \/ RetryBatch

PyNext == Caller \/ HandleSignal \/ HandlerReturns \/ Worker

PySpec == PyInit /\ [][PyNext]_pyVars

----------------------------------------------------------------------------
(* Properties.                                                             *)

Carried(items) == {items[i].event : i \in DOMAIN items}
Held == Carried(queue) \cup Carried(worker_pending) \cup Carried(worker_front) \cup Carried(batch)

\* flush() reads one number, unfinished_tasks, of one of the four places an
\* event may be in.  It is zero exactly when nothing is left to deliver, so no
\* flush returns early and none waits for what is not there.
FlushSeesAll ==
  unfinished = Len(queue) + Len(worker_pending) + Len(worker_front) + Len(batch)

Declared == LET total[n \in 0..Len(events)] ==
                  IF n = 0 THEN 0
                  ELSE total[n - 1] + (IF n \in entered THEN events[n].gap ELSE 0)
            IN  total[Len(events)]

\* Every overflow and every lost event is declared by a marker that entered
\* the queue, or still counted as pending, wherever a handler interrupts.
DropsOnRecord ==
  Declared + gap_pending >= overflowed + Cardinality({e \in given_up : ~IsMarker(e)})

\* No event that entered the queue is gone without a trace in the counters.
LossIsVisible == entered \subseteq Held \cup ingested \cup given_up
=============================================================================
