---------------------------- MODULE AuditSender ----------------------------
(***************************************************************************)
(* The fire-and-forget audit sender with its default, in-memory queue      *)
(* (sdk-typescript/src/proxy/sender/fire-and-forget.ts, durable_delivery   *)
(* not configured), and the ingest service as the sender sees it.          *)
(*                                                                         *)
(* One action is one turn of the JavaScript event loop: an application     *)
(* call to enqueueAuditEvent, a call to flushQueue, the settling of the    *)
(* one outstanding fetch, or the firing of the backoff timer.  Everything  *)
(* the turn does synchronously belongs to the action: declaring a gap,     *)
(* signing, queueing, counting, and taking the next batch.                 *)
(*                                                                         *)
(* An event is known by its signature.  HMAC-SHA256 signatures are taken   *)
(* to be distinct, so the n-th event ever signed has signature n, and      *)
(* prev_sig is the number of the event it links to (0 stands for an absent *)
(* prev_sig).  Session ids come from randomUUID and are numbered the same  *)
(* way.  The payload of an event is abstracted to the audit-gap claim it   *)
(* carries: gap = 0 for an ordinary event, the declared count for a marker.*)
(***************************************************************************)
EXTENDS Integers, Sequences, FiniteSets

CONSTANTS
  MAX_QUEUE_SIZE,    \* bound of the in-memory queue (1000 in the code)
  SEND_BATCH_SIZE,   \* most events in one request (25 in the code)
  MAX_SEND_RETRIES,  \* retry budget of one event (2 in the code)
  ReplyStatuses,     \* HTTP statuses the ingest service may answer with
  MayRefuse,         \* the ingest service refuses single events of a request it accepts
  MaxOffered         \* BOUND: events the application hands to the sender

ASSUME SenderAssumption ==
  /\ MAX_QUEUE_SIZE \in Nat \ {0}
  /\ SEND_BATCH_SIZE \in Nat \ {0}
  /\ MAX_SEND_RETRIES \in Nat
  /\ ReplyStatuses \subseteq Nat
  /\ MayRefuse \in BOOLEAN
  /\ MaxOffered \in Nat

VARIABLES
  pendingQueue,     \* items waiting to be sent, front first
  inflight,         \* items of the request the processor awaits
  phase,            \* the queue processor: idle, in backoff, or sending
  inBackoff,        \* Date.now() < backoffState.until
  chain,            \* sdkSessionId, seqNo, lastSig, and the events signed so far
  gapPendingCount,  \* overflow drops no marker has declared yet
  senderStats,      \* the delivery counters
  offered,          \* history: events handed to enqueueAuditEvent
  lost,             \* history: signed events the sender knows it lost
  unread,           \* history: events refused in a response it could not read
  recorded          \* ingest: events it holds

sender == <<pendingQueue, inflight, phase, inBackoff, chain, gapPendingCount, senderStats>>
vars == <<sender, offered, lost, unread, recorded>>

----------------------------------------------------------------------------
(* Events, queue items and the signed chain.                               *)

OverflowReason == "queue_overflow"
DeliveryReasons == {"ingest_rejected", "permanent_failure", "retry_exhausted"}
GapReasons == {OverflowReason} \cup DeliveryReasons

Event == [sdk_sig : Nat, sdk_session_id : Nat, seq_no : Nat, prev_sig : Nat,
          gap : Nat, reason : GapReasons \cup {"none"}]
Item == [event : Event, retries : 0..MAX_SEND_RETRIES]

\* The signing state, and the delivery counters.
ChainState == [sdkSessionId : Nat, seqNo : Nat, lastSig : Nat, signed : Nat]
Counters == {"enqueued", "sent", "retries", "dropped_overflow", "dropped_permanent",
             "dropped_retry_exhausted", "dropped_rejected", "gap_markers",
             "gap_events_declared"}
SenderStats == [Counters -> Nat]

\* The counters after adding to some of them.
Count(stats, added) ==
  [k \in DOMAIN stats |-> IF k \in DOMAIN added THEN stats[k] + added[k] ELSE stats[k]]

IsGapMarker(e) == e.reason # "none"

EventsOf(items) == {items[i].event : i \in DOMAIN items}

\* The event signAndEnqueue stamps and signs on chain state c.
Signed(c, gap, reason) ==
  [sdk_sig |-> c.signed + 1, sdk_session_id |-> c.sdkSessionId,
   seq_no |-> c.seqNo + 1, prev_sig |-> c.lastSig, gap |-> gap, reason |-> reason]

\* Variant: the next event is not linked to this one.
AdvancedUnlinked(c) ==
  [sdkSessionId |-> c.sdkSessionId, seqNo |-> c.seqNo + 1, lastSig |-> c.lastSig,
   signed |-> c.signed + 1]

\* The chain state after signing one event on c.
Advanced(c) ==
  [sdkSessionId |-> c.sdkSessionId, seqNo |-> c.seqNo + 1, lastSig |-> c.signed + 1,
   signed |-> c.signed + 1]

\* The fresh session a loss of signed events forces.
FreshSession(c) ==
  [sdkSessionId |-> c.sdkSessionId + 1, seqNo |-> 0, lastSig |-> 0, signed |-> c.signed]

NewItem(e) == [event |-> e, retries |-> 0]

----------------------------------------------------------------------------
(* processQueue: the drain loop from its top to its next await.            *)

\* Lengths a batch may have: a marker travels alone, and any shorter prefix
\* is a batch cut by MAX_BATCH_BYTES.
BatchSizes(q) ==
  {k \in 1..Len(q) :
     /\ k <= SEND_BATCH_SIZE
     /\ k > 1 => \A i \in 1..k : ~IsGapMarker(q[i].event)}

\* The loop runs on queue q; the same turn then appends the items of rest.
Drain(q, backoff, rest) ==
  \/ /\ q = <<>>
     /\ phase' = "idle"
     /\ inflight' = <<>>
     /\ pendingQueue' = rest
  \/ /\ q # <<>>
     /\ backoff
     /\ phase' = "backoff"
     /\ inflight' = <<>>
     /\ pendingQueue' = q \o rest
  \/ /\ q # <<>>
     /\ ~backoff
     /\ phase' = "sending"
     /\ \E k \in BatchSizes(q) :
          /\ inflight' = SubSeq(q, 1, k)
          /\ pendingQueue' = SubSeq(q, k + 1, Len(q)) \o rest

\* Variant: a call during backoff relies on somebody else to drain the queue.
KickOutsideBackoff(q, rest) ==
  IF phase = "idle" /\ ~inBackoff
    THEN Drain(q, inBackoff, rest)
    ELSE /\ pendingQueue' = q \o rest
         /\ UNCHANGED <<inflight, phase>>

\* processQueue called with queue q while a processor may already be running.
Kick(q, rest) ==
  IF phase = "idle"
    THEN Drain(q, inBackoff, rest)
    ELSE /\ pendingQueue' = q \o rest
         /\ UNCHANGED <<inflight, phase>>

----------------------------------------------------------------------------
(* Entry points of the application.                                        *)

Init ==
  /\ pendingQueue = <<>>
  /\ inflight = <<>>
  /\ phase = "idle"
  /\ inBackoff = FALSE
  /\ chain = [sdkSessionId |-> 1, seqNo |-> 0, lastSig |-> 0, signed |-> 0]
  /\ gapPendingCount = 0
  /\ senderStats = [k \in Counters |-> 0]
  /\ offered = 0
  /\ lost = {}
  /\ unread = {}
  /\ recorded = {}

\* Variant: off by one.
QueueOverfull == Len(pendingQueue) > MAX_QUEUE_SIZE

\* The bound enqueueAuditEvent checks.
QueueFull == Len(pendingQueue) >= MAX_QUEUE_SIZE

\* Variant: the drop is counted but not remembered for a marker.
ForgetOverflow ==
  /\ offered < MaxOffered
  /\ QueueFull
  /\ offered' = offered + 1
  /\ senderStats' = Count(senderStats, [dropped_overflow |-> 1])
  /\ UNCHANGED <<pendingQueue, inflight, phase, inBackoff, chain, gapPendingCount,
                 lost, unread, recorded>>

\* enqueueAuditEvent on a full queue: dropped before it is signed.
DropOnOverflow ==
  /\ offered < MaxOffered
  /\ QueueFull
  /\ offered' = offered + 1
  /\ gapPendingCount' = gapPendingCount + 1
  /\ senderStats' = Count(senderStats, [dropped_overflow |-> 1])
  /\ UNCHANGED <<pendingQueue, inflight, phase, inBackoff, chain, lost, unread, recorded>>

\* declarePendingGap, unforced, finds room for the marker and for the event.
DeclaresPendingGap ==
  /\ gapPendingCount > 0
  /\ Len(pendingQueue) + 2 <= MAX_QUEUE_SIZE

\* enqueueAuditEvent with no gap to declare, or no room to declare it.
Enqueue ==
  /\ offered < MaxOffered
  /\ ~QueueFull
  /\ ~DeclaresPendingGap
  /\ offered' = offered + 1
  /\ chain' = Advanced(chain)
  /\ senderStats' = Count(senderStats, [enqueued |-> 1])
  /\ Kick(Append(pendingQueue, NewItem(Signed(chain, 0, "none"))), <<>>)
  /\ UNCHANGED <<inBackoff, gapPendingCount, lost, unread, recorded>>

\* enqueueAuditEvent that first signs the marker for the gap that just ended.
EnqueueAfterGap ==
  /\ offered < MaxOffered
  /\ ~QueueFull
  /\ DeclaresPendingGap
  /\ offered' = offered + 1
  /\ gapPendingCount' = 0
  /\ chain' = Advanced(Advanced(chain))
  /\ senderStats' = Count(senderStats, [enqueued |-> 2, gap_markers |-> 1,
                                         gap_events_declared |-> gapPendingCount])
  /\ Kick(Append(pendingQueue, NewItem(Signed(chain, gapPendingCount, OverflowReason))),
          <<NewItem(Signed(Advanced(chain), 0, "none"))>>)
  /\ UNCHANGED <<inBackoff, lost, unread, recorded>>

\* flushQueue: the pending gap is declared by force, then the queue is kicked.
FlushQueue ==
  /\ IF gapPendingCount = 0
       THEN /\ Kick(pendingQueue, <<>>)
            /\ UNCHANGED <<chain, gapPendingCount, senderStats>>
       ELSE /\ gapPendingCount' = 0
            /\ chain' = Advanced(chain)
            /\ senderStats' = Count(senderStats, [enqueued |-> 1, gap_markers |-> 1,
                                                   gap_events_declared |-> gapPendingCount])
            /\ Kick(Append(pendingQueue,
                           NewItem(Signed(chain, gapPendingCount, OverflowReason))), <<>>)
  /\ UNCHANGED <<inBackoff, offered, lost, unread, recorded>>

----------------------------------------------------------------------------
(* Settling the outstanding request.                                       *)

\* The verdict on an HTTP status; single says which ingest path was used.
ClassifyStatus(status, single) ==
  CASE status \in 200..299      -> "ok"
    [] status = 403            -> IF single THEN "rejected" ELSE "permanent"
    [] status \in {408, 429}    -> "retryable"
    [] status \in 300..499 \ {403, 408, 429} -> "permanent"
    [] OTHER                   -> "retryable"

Single == Len(inflight) = 1

\* A body that is absent, cut short or not JSON, or whose reading the timer of
\* the request aborts: it is still armed.
Unreadable == [readable |-> FALSE, count |-> -1, enumerated |-> 0, duplicates |-> 0]

\* Refusals in the body of an accepted response: enumerated ones, reconciled
\* with the accepted count when the body states one (count >= 0).  A body that
\* cannot be read reports none.
CountRejects(n, body) ==
  LET shortfall == n - body.count - body.duplicates
      drops == IF body.count >= 0 /\ shortfall > body.enumerated
                 THEN shortfall ELSE body.enumerated
  IN  IF ~body.readable \/ drops < 0 THEN 0 ELSE IF drops > n THEN n ELSE drops

\* Bodies that report r refusals and d duplicates out of n events truthfully:
\* all refusals enumerated and no count, or a count and any enumeration.
TruthfulBodies(n, r, d) ==
  {[readable |-> TRUE, count |-> -1, enumerated |-> r, duplicates |-> d]}
  \cup {[readable |-> TRUE, count |-> n - r - d, enumerated |-> m, duplicates |-> d] : m \in 0..r}

\* Variants: a lost marker is replaced by another; a single loss is ignored.
DeclaresLostMarkers(events, dropped) == dropped > 0
DeclaresBatchLoss(events, dropped) == dropped > 1 /\ \A e \in events : ~IsGapMarker(e)

\* declareDeliveryGap is silent when nothing was lost or a marker was.
DeclaresLoss(events, dropped) == dropped > 0 /\ \A e \in events : ~IsGapMarker(e)

\* declareDeliveryGap: the chain, the marker appended and the counters after
\* `dropped` of the signed events were lost.
ChainAfterLoss(events, dropped) ==
  IF DeclaresLoss(events, dropped) THEN Advanced(FreshSession(chain)) ELSE chain

\* Variants: the marker goes through the bounded queue; it declares one event.
MarkerIfRoom(events, dropped, reason) ==
  IF DeclaresLoss(events, dropped) /\ ~QueueFull
    THEN <<NewItem(Signed(FreshSession(chain), dropped, reason))>> ELSE <<>>
MarkerOfOne(events, dropped, reason) ==
  IF DeclaresLoss(events, dropped)
    THEN <<NewItem(Signed(FreshSession(chain), 1, reason))>> ELSE <<>>

MarkerAfterLoss(events, dropped, reason) ==
  IF DeclaresLoss(events, dropped)
    THEN <<NewItem(Signed(FreshSession(chain), dropped, reason))>> ELSE <<>>

\* Variant: the marker is not counted as enqueued.
StatsWithoutMarker(stats, events, dropped) ==
  IF DeclaresLoss(events, dropped)
    THEN Count(stats, [gap_markers |-> 1, gap_events_declared |-> dropped])
    ELSE stats

StatsAfterLoss(stats, events, dropped) ==
  IF DeclaresLoss(events, dropped)
    THEN Count(stats, [enqueued |-> 1, gap_markers |-> 1, gap_events_declared |-> dropped])
    ELSE stats

\* The events of the request an accepting ingest service may refuse.
Refusals(status) ==
  IF MayRefuse /\ status # 409 THEN SUBSET (EventsOf(inflight) \ recorded) ELSE {{}}

\* isDuplicateResponse: a 409 for a request recorded by an earlier attempt.
DuplicateResponse(status) == status = 409 /\ EventsOf(inflight) \subseteq recorded

\* The request was accepted: every event in it is recorded, was recorded by
\* an earlier attempt, or is refused one by one in the response body, which
\* may not be readable.  A 409 that says duplicate_event is an acceptance too.
DeliverOk(status) ==
  /\ phase = "sending"
  /\ \/ ClassifyStatus(status, Single) = "ok"
     \/ DuplicateResponse(status)
  /\ \E refused \in Refusals(status) :
     \E body \in {Unreadable}
                  \cup TruthfulBodies(Len(inflight), Cardinality(refused),
                                     Cardinality(EventsOf(inflight) \cap recorded)) :
       LET rejected == CountRejects(Len(inflight), body)
           reported == IF body.readable THEN refused ELSE {}
       IN
         /\ recorded' = recorded \cup (EventsOf(inflight) \ refused)
         /\ lost' = lost \cup reported
         /\ unread' = unread \cup (refused \ reported)
         /\ senderStats' = StatsAfterLoss(
                             Count(senderStats, [sent |-> Len(inflight) - rejected,
                                                 dropped_rejected |-> rejected]),
                             EventsOf(inflight), rejected)
         /\ chain' = ChainAfterLoss(EventsOf(inflight), rejected)
         /\ inBackoff' = FALSE
         /\ Drain(pendingQueue \o MarkerAfterLoss(EventsOf(inflight), rejected,
                                                  "ingest_rejected"), FALSE, <<>>)
  /\ UNCHANGED <<gapPendingCount, offered>>

\* A final refusal of the whole request: 403 on the single-event path.
RefuseRequest(status) ==
  /\ phase = "sending"
  /\ ClassifyStatus(status, Single) = "rejected"
  /\ lost' = lost \cup EventsOf(inflight)
  /\ senderStats' = StatsAfterLoss(Count(senderStats, [dropped_rejected |-> Len(inflight)]),
                                   EventsOf(inflight), Len(inflight))
  /\ chain' = ChainAfterLoss(EventsOf(inflight), Len(inflight))
  /\ inBackoff' = FALSE
  /\ Drain(pendingQueue \o MarkerAfterLoss(EventsOf(inflight), Len(inflight),
                                           "ingest_rejected"), FALSE, <<>>)
  /\ UNCHANGED <<gapPendingCount, offered, unread, recorded>>

\* A failure the same bytes will always meet: discarded at once.  So is a 409
\* whose body cannot be read, whatever it says.
DiscardPermanent(status) ==
  /\ phase = "sending"
  /\ ClassifyStatus(status, Single) = "permanent"
  /\ lost' = lost \cup EventsOf(inflight)
  /\ senderStats' = StatsAfterLoss(Count(senderStats, [dropped_permanent |-> Len(inflight)]),
                                   EventsOf(inflight), Len(inflight))
  /\ chain' = ChainAfterLoss(EventsOf(inflight), Len(inflight))
  /\ Drain(pendingQueue \o MarkerAfterLoss(EventsOf(inflight), Len(inflight),
                                           "permanent_failure"), inBackoff, <<>>)
  /\ UNCHANGED <<inBackoff, gapPendingCount, offered, unread, recorded>>

\* Variant: no retry budget.
AlwaysRetriable(items) == DOMAIN items

\* The order-preserving selections of the items that have retries left, as
\* increasing sequences of positions.
Retriable(items) == {i \in DOMAIN items : items[i].retries < MAX_SEND_RETRIES}
Selections(items) ==
  {pos \in [1..Cardinality(Retriable(items)) -> Retriable(items)] :
     /\ \A a, b \in DOMAIN pos : a < b => pos[a] < pos[b]
     /\ \A i \in Retriable(items) : \E a \in DOMAIN pos : pos[a] = i}

\* Variant: the items are put back one by one from the first to the last.
RetriedInReverse(items, pos) ==
  [j \in DOMAIN pos |-> [items[pos[Len(pos) + 1 - j]] EXCEPT !.retries = @ + 1]]

\* The items requeueFront puts back, and the events it gives up on.
Retried(items, pos) ==
  [j \in DOMAIN pos |-> [items[pos[j]] EXCEPT !.retries = @ + 1]]
Exhausted(items) == {items[i].event : i \in DOMAIN items \ Retriable(items)}

\* requeueFront, then the gap for the events whose budget ran out.  The ingest
\* service may have recorded any part of the request all the same.  (A request
\* that it records only after the abort looks no different to the sender, so it
\* counts as recorded here and now.)
RequeueFront ==
  \E pos \in Selections(inflight) :
    LET exhausted == Exhausted(inflight)
        dropped == Len(inflight) - Len(pos)
    IN
      /\ \E stored \in SUBSET (EventsOf(inflight) \ recorded) :
           recorded' = recorded \cup stored
      /\ lost' = lost \cup exhausted
      /\ senderStats' = StatsAfterLoss(
                          Count(senderStats, [retries |-> Len(pos),
                                              dropped_retry_exhausted |-> dropped]),
                          exhausted, dropped)
      /\ chain' = ChainAfterLoss(exhausted, dropped)
      /\ inBackoff' = TRUE
      /\ Drain((Retried(inflight, pos) \o pendingQueue)
                 \o MarkerAfterLoss(exhausted, dropped, "retry_exhausted"), TRUE, <<>>)

\* The ingest service answers with a retryable status.
RetryLater(status) ==
  /\ phase = "sending"
  /\ ClassifyStatus(status, Single) = "retryable"
  /\ RequeueFront
  /\ UNCHANGED <<gapPendingCount, offered, unread>>

\* The request is aborted by its timer, or the network fails.
TimeOut ==
  /\ phase = "sending"
  /\ RequeueFront
  /\ UNCHANGED <<gapPendingCount, offered, unread>>

\* Time reaches backoffState.until; a processor waiting for it takes a batch.
BackoffElapses ==
  /\ inBackoff
  /\ inBackoff' = FALSE
  /\ IF phase = "backoff"
       THEN Drain(pendingQueue, FALSE, <<>>)
       ELSE UNCHANGED <<pendingQueue, inflight, phase>>
  /\ UNCHANGED <<chain, gapPendingCount, senderStats, offered, lost, unread, recorded>>

----------------------------------------------------------------------------

Reply(status) ==
  \/ DeliverOk(status)
  \/ RefuseRequest(status)
  \/ DiscardPermanent(status)
  \/ RetryLater(status)

Settle == TimeOut \/ \E status \in ReplyStatuses : Reply(status)

Next ==
  \/ DropOnOverflow
  \/ Enqueue
  \/ EnqueueAfterGap
  \/ FlushQueue
  \/ \E status \in ReplyStatuses : Reply(status)
  \/ TimeOut
  \/ BackoffElapses

Spec == Init /\ [][Next]_vars

----------------------------------------------------------------------------
(* Properties.                                                             *)

\* The events the sender still holds.
Waiting == EventsOf(pendingQueue) \cup EventsOf(inflight)

\* Type invariant.
TypeOK ==
  /\ pendingQueue \in Seq(Item)
  /\ inflight \in Seq(Item)
  /\ phase \in {"idle", "backoff", "sending"}
  /\ inBackoff \in BOOLEAN
  /\ chain \in ChainState
  /\ gapPendingCount \in Nat
  /\ senderStats \in SenderStats
  /\ offered \in Nat
  /\ lost \subseteq Event
  /\ unread \subseteq Event
  /\ recorded \subseteq Event

\* No lost wakeup: isProcessing drops back to false only on an empty queue, so
\* nothing enqueued during an await is stranded until the next enqueue, and an
\* awaited request always has a batch.
ProcessorAwake ==
  /\ phase = "idle" => pendingQueue = <<>>
  /\ phase = "backoff" => pendingQueue # <<>> /\ inBackoff
  /\ phase = "sending" <=> inflight # <<>>

\* The delivery counters account for every event, whatever races the queue
\* meets: an event offered was dropped on overflow or signed, and an event
\* signed is sent, dropped under exactly one heading, or still held.
CountersBalance ==
  /\ offered + senderStats.gap_markers = senderStats.enqueued + senderStats.dropped_overflow
  /\ senderStats.enqueued = senderStats.sent + senderStats.dropped_rejected
                             + senderStats.dropped_permanent
                             + senderStats.dropped_retry_exhausted
                             + (Len(pendingQueue) + Len(inflight))

\* Every loss is declared once: each event dropped before or after signing is
\* in the pending gap or in the claim of a signed marker, except a lost marker,
\* which is never declared again.
LossesDeclared ==
  senderStats.dropped_overflow + senderStats.dropped_rejected
    + senderStats.dropped_permanent + senderStats.dropped_retry_exhausted
  = gapPendingCount + senderStats.gap_events_declared
    + Cardinality({e \in lost : IsGapMarker(e)})

\* A signed event leaves the sender only for the ingest service or for the
\* loss counters: requeueing, batching and markers never drop one unseen.  The
\* one exception is an event ingest refused in an accepted response the sender
\* could not read: it is counted as sent, and is in no loss counter, in no
\* marker's claim and in no record.
NothingVanishes ==
  /\ {e.sdk_sig : e \in Waiting \cup recorded \cup lost \cup unread} = 1..chain.signed
  /\ unread \cap (Waiting \cup recorded \cup lost) = {}

\* Delivery order: what the sender holds is in signing order, no item twice,
\* even when a failed batch is put back in front of events signed meanwhile;
\* and retry counts fall along the queue, so a budget runs out front first.
SignOrder ==
  LET held == inflight \o pendingQueue IN
    \A i, j \in DOMAIN held : i < j =>
      /\ held[i].event.sdk_sig < held[j].event.sdk_sig
      /\ held[i].retries >= held[j].retries

\* The queue cannot grow without bound: overflow markers apart, a queue and
\* the batch taken from it never hold more than one full queue and one batch.
QueueBounded ==
  LET held == inflight \o pendingQueue IN
    Cardinality({i \in DOMAIN held : held[i].event.reason # OverflowReason})
      <= MAX_QUEUE_SIZE + SEND_BATCH_SIZE
=============================================================================
