------------------------ MODULE AuditDeliveryProofs ------------------------
(***************************************************************************)
(* Theorems about AuditSender, and about the end of its process, for every *)
(* queue bound, batch size, retry budget, reply of the ingest service and  *)
(* number of events; and about the verdict on what the service recorded.   *)
(*                                                                         *)
(* The first part is about types, wakeups and counters.  The second speaks *)
(* of one sequence, the items held: the request under way and then the     *)
(* queue.  A step either extends it with newly signed items or settles a   *)
(* request, which keeps an increasing selection of it and may append a     *)
(* marker.  The third is about what obsvr-verify concludes from the events *)
(* recorded: sums over finite sets, the scan of one session, the sessions  *)
(* of an export, then the ledger of everything ever signed, which the      *)
(* counters and the recorded markers are compared with.                    *)
(***************************************************************************)
EXTENDS AuditShutdown, AuditEvidence, Counting, SequenceTheorems, FiniteSetTheorems,
        WellFoundedInduction, TLAPS

----------------------------------------------------------------------------
(* Types of the values the handlers build.                                 *)

\* Signing yields an event, and a queue item of it.
LEMMA SignedType ==
  ASSUME NEW c \in ChainState, NEW gap \in Nat, NEW reason \in GapReasons \cup {"none"}
  PROVE  /\ Signed(c, gap, reason) \in Event
         /\ NewItem(Signed(c, gap, reason)) \in Item
<1>1. Signed(c, gap, reason) \in Event
  BY DEF Signed, Event, ChainState
<1>2. 0 \in 0..MAX_SEND_RETRIES
  BY SenderAssumption DEF SenderAssumption
<1> QED
  BY <1>1, <1>2 DEF NewItem, Item

\* Signing and opening a session keep the chain state well typed.
LEMMA ChainType ==
  ASSUME NEW c \in ChainState
  PROVE  Advanced(c) \in ChainState /\ FreshSession(c) \in ChainState
<1>1. Advanced(c) \in ChainState
  BY DEF Advanced, ChainState
<1>2. FreshSession(c) \in ChainState
  BY DEF FreshSession, ChainState
<1> QED
  BY <1>1, <1>2

\* The items and the marker the handlers append are sequences of items.
LEMMA OneItemType ==
  ASSUME NEW item \in Item
  PROVE  <<item>> \in Seq(Item) /\ Len(<<item>>) = 1
  OBVIOUS

\* The events of a sequence of items are finitely many events.
LEMMA EventsOfType ==
  ASSUME NEW items \in Seq(Item)
  PROVE  /\ EventsOf(items) \subseteq Event
         /\ IsFiniteSet(EventsOf(items))
<1>1. ASSUME NEW i \in DOMAIN items PROVE items[i].event \in Event
  <2>1. i \in 1..Len(items)
    BY LenProperties
  <2>2. items[i] \in Item
    BY <2>1, ElementOfSeq
  <2> QED
    BY <2>2 DEF Item
<1> DEFINE f == [i \in DOMAIN items |-> items[i].event]
<1>2. f \in Surjection(DOMAIN items, EventsOf(items))
  BY DEF EventsOf, Surjection
<1>3. IsFiniteSet(DOMAIN items)
  <2>1. Len(items) \in Nat /\ DOMAIN items = 1..Len(items)
    BY LenProperties
  <2>2. IsFiniteSet(1..Len(items))
    BY <2>1, FS_Interval
  <2> QED
    BY <2>1, <2>2
<1>4. IsFiniteSet(EventsOf(items))
  BY <1>2, <1>3, FS_Surjection
<1> QED
  BY <1>1, <1>4 DEF EventsOf

\* The drain loop neither loses nor duplicates an item: what it leaves queued
\* and in flight is, in number, the queue it ran on and what was appended.
LEMMA DrainLemma ==
  ASSUME NEW q \in Seq(Item), NEW rest \in Seq(Item), NEW backoff \in BOOLEAN,
         Drain(q, backoff, rest)
  PROVE  /\ pendingQueue' \in Seq(Item)
         /\ inflight' \in Seq(Item)
         /\ phase' \in {"idle", "backoff", "sending"}
         /\ Len(pendingQueue') + Len(inflight') = Len(q) + Len(rest)
         /\ phase' = "idle" => q = <<>>
         /\ phase' = "idle" /\ rest = <<>> => pendingQueue' = <<>>
         /\ phase' = "backoff" => pendingQueue' # <<>> /\ backoff
         /\ phase' = "sending" <=> inflight' # <<>>
<1>1. CASE q = <<>> /\ phase' = "idle" /\ inflight' = <<>> /\ pendingQueue' = rest
  BY <1>1, EmptySeq
<1>2. CASE /\ q # <<>> /\ backoff /\ phase' = "backoff"
           /\ inflight' = <<>> /\ pendingQueue' = q \o rest
  <2>1. /\ q \o rest \in Seq(Item)
        /\ Len(q \o rest) = Len(q) + Len(rest)
        /\ q \o rest # <<>>
    BY <1>2, ConcatProperties, ConcatEqualIffEmpty
  <2> QED
    BY <1>2, <2>1, EmptySeq
<1>3. ASSUME NEW k \in BatchSizes(q), q # <<>>, phase' = "sending",
             inflight' = SubSeq(q, 1, k),
             pendingQueue' = SubSeq(q, k + 1, Len(q)) \o rest
      PROVE  /\ pendingQueue' \in Seq(Item) /\ inflight' \in Seq(Item)
             /\ Len(pendingQueue') + Len(inflight') = Len(q) + Len(rest)
             /\ inflight' # <<>>
  <2>1. k \in 1..Len(q) /\ Len(q) \in Nat /\ Len(rest) \in Nat
    BY LenProperties DEF BatchSizes
  <2>2. \A i \in 1..Len(q) : q[i] \in Item
    BY ElementOfSeq
  <2>3. SubSeq(q, 1, k) \in Seq(Item) /\ Len(SubSeq(q, 1, k)) = k
    BY <2>1, <2>2, SubSeqProperties
  <2>4. /\ SubSeq(q, k + 1, Len(q)) \in Seq(Item)
        /\ Len(SubSeq(q, k + 1, Len(q))) = Len(q) - k
    BY <2>1, <2>2, SubSeqProperties
  <2>5. /\ SubSeq(q, k + 1, Len(q)) \o rest \in Seq(Item)
        /\ Len(SubSeq(q, k + 1, Len(q)) \o rest) = Len(q) - k + Len(rest)
    BY <2>1, <2>4, ConcatProperties
  <2>6. Len(<<>>) = 0
    OBVIOUS
  <2>7. SubSeq(q, 1, k) # <<>>
    BY <2>1, <2>3, <2>6
  <2>8. Len(SubSeq(q, k + 1, Len(q)) \o rest) + Len(SubSeq(q, 1, k)) = Len(q) + Len(rest)
    BY <2>1, <2>3, <2>5
  <2> QED
    BY <1>3, <2>3, <2>5, <2>7, <2>8
<1> QED
  BY <1>1, <1>2, <1>3 DEF Drain

\* The same of a call that may find the processor running.
LEMMA KickLemma ==
  ASSUME NEW q \in Seq(Item), NEW rest \in Seq(Item), TypeOK, ProcessorAwake,
         rest # <<>> => q # <<>>, phase = "backoff" => q # <<>>,
         Kick(q, rest), inBackoff' = inBackoff
  PROVE  /\ pendingQueue' \in Seq(Item)
         /\ inflight' \in Seq(Item)
         /\ phase' \in {"idle", "backoff", "sending"}
         /\ Len(pendingQueue') + Len(inflight') = Len(q) + Len(rest) + Len(inflight)
         /\ ProcessorAwake'
<1>1. CASE phase = "idle"
  <2>1. Drain(q, inBackoff, rest)
    BY <1>1 DEF Kick
  <2>2. Len(inflight) = 0
    BY <1>1, EmptySeq DEF ProcessorAwake
  <2>3. Len(q) \in Nat /\ Len(rest) \in Nat
    BY LenProperties
  <2> QED
    BY <2>1, <2>2, <2>3, DrainLemma DEF TypeOK, ProcessorAwake
<1>2. CASE phase # "idle"
  <2>1. pendingQueue' = q \o rest /\ inflight' = inflight /\ phase' = phase
    BY <1>2 DEF Kick
  <2>2. q \o rest \in Seq(Item) /\ Len(q \o rest) = Len(q) + Len(rest)
    BY ConcatProperties
  <2>3. q # <<>> => q \o rest # <<>>
    BY ConcatEqualIffEmpty
  <2> QED
    BY <1>2, <2>1, <2>2, <2>3 DEF TypeOK, ProcessorAwake
<1> QED
  BY <1>1, <1>2

----------------------------------------------------------------------------
(* The delivery counters.                                                  *)

\* Adding to some counters leaves a record of counters, changed only there.
LEMMA CountLemma ==
  ASSUME NEW stats \in SenderStats, NEW added,
         DOMAIN added \subseteq Counters,
         \A k \in DOMAIN added : added[k] \in Nat
  PROVE  /\ Count(stats, added) \in SenderStats
         /\ \A k \in Counters :
              Count(stats, added)[k] = IF k \in DOMAIN added THEN stats[k] + added[k]
                                                              ELSE stats[k]
  BY DEF SenderStats, Count

\* Every counter is a natural number.
LEMMA StatsAreNat ==
  ASSUME NEW stats \in SenderStats
  PROVE  /\ stats.enqueued \in Nat /\ stats.sent \in Nat /\ stats.retries \in Nat
         /\ stats.dropped_overflow \in Nat /\ stats.dropped_permanent \in Nat
         /\ stats.dropped_retry_exhausted \in Nat /\ stats.dropped_rejected \in Nat
         /\ stats.gap_markers \in Nat /\ stats.gap_events_declared \in Nat
  BY DEF SenderStats, Counters

\* The counters balance: n events were offered and k signed ones are held.
Balanced(stats, n, k) ==
  /\ n + stats.gap_markers = stats.enqueued + stats.dropped_overflow
  /\ stats.enqueued = stats.sent + stats.dropped_rejected + stats.dropped_permanent
                        + stats.dropped_retry_exhausted + k

\* What the record `added` adds to counter c.
Added(added, c) == IF c \in DOMAIN added THEN added[c] ELSE 0

\* The balance is kept when each event newly offered is enqueued or dropped, but
\* for the markers, and each event newly enqueued, or no longer held, is counted.
LEMMA CountBalance ==
  ASSUME NEW stats \in SenderStats, NEW added,
         NEW n \in Nat, NEW k \in Nat, NEW m \in Nat, NEW j \in Nat,
         Balanced(stats, n, k),
         DOMAIN added \subseteq Counters,
         \A c \in DOMAIN added : added[c] \in Nat,
         m + Added(added, "gap_markers")
           = n + Added(added, "enqueued") + Added(added, "dropped_overflow"),
         k + Added(added, "enqueued")
           = j + Added(added, "sent") + Added(added, "dropped_rejected")
               + Added(added, "dropped_permanent") + Added(added, "dropped_retry_exhausted")
  PROVE  Count(stats, added) \in SenderStats /\ Balanced(Count(stats, added), m, j)
<1> DEFINE after == Count(stats, added)
           d(c) == Added(added, c)
<1>1. /\ after \in SenderStats
      /\ \A c \in Counters : after[c] = stats[c] + d(c) /\ d(c) \in Nat /\ stats[c] \in Nat
  BY CountLemma DEF Added, SenderStats
<1> HIDE DEF after, d
<1>2. /\ after.enqueued = stats.enqueued + d("enqueued")
      /\ after.gap_markers = stats.gap_markers + d("gap_markers")
      /\ after.dropped_overflow = stats.dropped_overflow + d("dropped_overflow")
      /\ after.sent = stats.sent + d("sent")
      /\ after.dropped_rejected = stats.dropped_rejected + d("dropped_rejected")
      /\ after.dropped_permanent = stats.dropped_permanent + d("dropped_permanent")
      /\ after.dropped_retry_exhausted = stats.dropped_retry_exhausted + d("dropped_retry_exhausted")
  BY <1>1 DEF Counters
<1>3. /\ stats.enqueued \in Nat /\ d("enqueued") \in Nat
      /\ stats.gap_markers \in Nat /\ d("gap_markers") \in Nat
      /\ stats.dropped_overflow \in Nat /\ d("dropped_overflow") \in Nat
      /\ stats.sent \in Nat /\ d("sent") \in Nat
      /\ stats.dropped_rejected \in Nat /\ d("dropped_rejected") \in Nat
      /\ stats.dropped_permanent \in Nat /\ d("dropped_permanent") \in Nat
      /\ stats.dropped_retry_exhausted \in Nat /\ d("dropped_retry_exhausted") \in Nat
  BY <1>1 DEF Counters
<1>4. m + after.gap_markers = after.enqueued + after.dropped_overflow
  <2>1. n + stats.gap_markers = stats.enqueued + stats.dropped_overflow
    BY DEF Balanced
  <2>2. m + d("gap_markers") = n + d("enqueued") + d("dropped_overflow")
    BY DEF d
  <2> QED
    BY <1>2, <1>3, <2>1, <2>2
<1>5. after.enqueued = after.sent + after.dropped_rejected + after.dropped_permanent
                        + after.dropped_retry_exhausted + j
  <2>1. stats.enqueued = stats.sent + stats.dropped_rejected + stats.dropped_permanent
                          + stats.dropped_retry_exhausted + k
    BY DEF Balanced
  <2>2. k + d("enqueued") = j + d("sent") + d("dropped_rejected")
                              + d("dropped_permanent") + d("dropped_retry_exhausted")
    BY DEF d
  <2> QED
    BY <1>2, <1>3, <2>1, <2>2
<1> QED
  BY <1>1, <1>4, <1>5 DEF Balanced, after

\* Counting a marker, and holding it, keeps the balance.
LEMMA MarkerBalance ==
  ASSUME NEW stats \in SenderStats, NEW n \in Nat, NEW k \in Nat, NEW gap \in Nat,
         Balanced(stats, n, k)
  PROVE  LET after == Count(stats, [enqueued |-> 1, gap_markers |-> 1,
                                    gap_events_declared |-> gap])
         IN after \in SenderStats /\ Balanced(after, n, k + 1)
<1> DEFINE added == [enqueued |-> 1, gap_markers |-> 1, gap_events_declared |-> gap]
<1>1. DOMAIN added \subseteq Counters /\ \A c \in DOMAIN added : added[c] \in Nat
  BY DEF Counters
<1>2. /\ n + Added(added, "gap_markers")
           = n + Added(added, "enqueued") + Added(added, "dropped_overflow")
      /\ k + Added(added, "enqueued")
           = (k + 1) + Added(added, "sent") + Added(added, "dropped_rejected")
               + Added(added, "dropped_permanent") + Added(added, "dropped_retry_exhausted")
  BY DEF Added
<1> HIDE DEF added
<1>3. k + 1 \in Nat
  OBVIOUS
<1>4. Count(stats, added) \in SenderStats /\ Balanced(Count(stats, added), n, k + 1)
  BY <1>1, <1>2, <1>3, CountBalance
<1> QED
  BY <1>4 DEF added

\* declareDeliveryGap appends at most one well-typed marker, and counts it
\* exactly when it appends it.
LEMMA LossLemma ==
  ASSUME chain \in ChainState, NEW events, NEW dropped \in Nat,
         NEW reason \in DeliveryReasons, NEW stats \in SenderStats,
         NEW n \in Nat, NEW k \in Nat, Balanced(stats, n, k)
  PROVE  LET marker == MarkerAfterLoss(events, dropped, reason)
             after == StatsAfterLoss(stats, events, dropped)
         IN /\ marker \in Seq(Item)
            /\ ChainAfterLoss(events, dropped) \in ChainState
            /\ after \in SenderStats
            /\ Balanced(after, n, k + Len(marker))
<1>1. FreshSession(chain) \in ChainState
  BY ChainType
<1>2. Advanced(FreshSession(chain)) \in ChainState
  BY <1>1, ChainType
<1> DEFINE item == NewItem(Signed(FreshSession(chain), dropped, reason))
<1>3. item \in Item
  BY <1>1, SignedType DEF GapReasons
<1> HIDE DEF item
<1>4. <<item>> \in Seq(Item) /\ Len(<<item>>) = 1
  BY <1>3, OneItemType
<1>5. <<>> \in Seq(Item) /\ Len(<<>>) = 0
  BY EmptySeq
<1>6. CASE DeclaresLoss(events, dropped)
  <2>1. /\ MarkerAfterLoss(events, dropped, reason) = <<item>>
        /\ ChainAfterLoss(events, dropped) = Advanced(FreshSession(chain))
        /\ StatsAfterLoss(stats, events, dropped)
             = Count(stats, [enqueued |-> 1, gap_markers |-> 1, gap_events_declared |-> dropped])
    BY <1>6 DEF MarkerAfterLoss, ChainAfterLoss, StatsAfterLoss, item
  <2>2. LET after == Count(stats, [enqueued |-> 1, gap_markers |-> 1,
                                   gap_events_declared |-> dropped])
        IN after \in SenderStats /\ Balanced(after, n, k + 1)
    BY MarkerBalance
  <2> QED
    BY <1>2, <1>4, <2>1, <2>2
<1>7. CASE ~DeclaresLoss(events, dropped)
  <2>1. /\ MarkerAfterLoss(events, dropped, reason) = <<>>
        /\ ChainAfterLoss(events, dropped) = chain
        /\ StatsAfterLoss(stats, events, dropped) = stats
    BY <1>7 DEF MarkerAfterLoss, ChainAfterLoss, StatsAfterLoss
  <2>2. k + 0 = k
    OBVIOUS
  <2> QED
    BY <1>5, <2>1, <2>2
<1> QED
  BY <1>6, <1>7

----------------------------------------------------------------------------
(* The settling of a request.                                              *)

\* The invariant the theorems below rest on; it is inductive.
SenderInv == TypeOK /\ ProcessorAwake /\ CountersBalance

\* A settled request whose events are each counted as gone or kept, followed
\* by declareDeliveryGap and another turn of the loop, preserves the invariant.
LEMMA SettleLemma ==
  ASSUME SenderInv, NEW kept \in Seq(Item), NEW stats \in SenderStats,
         NEW events, NEW dropped \in Nat, NEW reason \in DeliveryReasons,
         NEW backoff \in BOOLEAN,
         Balanced(stats, offered, Len(kept)),
         Drain(kept \o MarkerAfterLoss(events, dropped, reason), backoff, <<>>),
         senderStats' = StatsAfterLoss(stats, events, dropped),
         chain' = ChainAfterLoss(events, dropped),
         inBackoff' = backoff,
         lost' \subseteq Event, unread' \subseteq Event, recorded' \subseteq Event,
         gapPendingCount' = gapPendingCount, offered' = offered
  PROVE  SenderInv'
<1> DEFINE marker == MarkerAfterLoss(events, dropped, reason)
           q == kept \o marker
<1>1. TypeOK
  BY DEF SenderInv
<1>2. Len(kept) \in Nat /\ offered \in Nat /\ chain \in ChainState
  BY <1>1, LenProperties DEF TypeOK
<1>3. /\ marker \in Seq(Item)
      /\ chain' \in ChainState
      /\ senderStats' \in SenderStats
      /\ Balanced(senderStats', offered, Len(kept) + Len(marker))
  BY <1>2, LossLemma
<1>4. q \in Seq(Item) /\ Len(q) = Len(kept) + Len(marker)
  BY <1>3, ConcatProperties
<1>5. Drain(q, backoff, <<>>)
  OBVIOUS
<1> HIDE DEF q, marker
<1>6. /\ pendingQueue' \in Seq(Item)
      /\ inflight' \in Seq(Item)
      /\ phase' \in {"idle", "backoff", "sending"}
      /\ Len(pendingQueue') + Len(inflight') = Len(q) + Len(<<>>)
      /\ phase' = "idle" => pendingQueue' = <<>>
      /\ phase' = "backoff" => pendingQueue' # <<>> /\ backoff
      /\ phase' = "sending" <=> inflight' # <<>>
  BY <1>4, <1>5, DrainLemma, EmptySeq
<1>7. TypeOK'
  BY <1>1, <1>3, <1>6 DEF TypeOK
<1>8. ProcessorAwake'
  BY <1>6 DEF ProcessorAwake
<1>9. CountersBalance'
  <2>1. Len(pendingQueue') \in Nat /\ Len(inflight') \in Nat
    BY <1>6, LenProperties
  <2>2. Len(pendingQueue') + Len(inflight') = Len(kept) + Len(marker)
    BY <1>4, <1>6, <2>1
  <2>3. Balanced(senderStats', offered', Len(pendingQueue') + Len(inflight'))
    BY <1>3, <2>2
  <2> QED
    BY <2>3 DEF Balanced, CountersBalance
<1> QED
  BY <1>7, <1>8, <1>9 DEF SenderInv

\* A retry of an item with retries left stays within the budget.
LEMMA BudgetLemma ==
  ASSUME NEW item \in Item, item.retries < MAX_SEND_RETRIES
  PROVE  [item EXCEPT !.retries = @ + 1] \in Item
<1>1. item.retries \in 0..MAX_SEND_RETRIES /\ MAX_SEND_RETRIES \in Nat
  BY SenderAssumption DEF Item, SenderAssumption
<1>2. item.retries + 1 \in 0..MAX_SEND_RETRIES
  BY <1>1
<1> QED
  BY <1>2 DEF Item

\* The items requeueFront puts back are as many as the selection has positions,
\* and no more than the request had.
LEMMA RetriedLemma ==
  ASSUME NEW items \in Seq(Item), NEW pos \in Selections(items)
  PROVE  /\ Retried(items, pos) \in Seq(Item)
         /\ Len(Retried(items, pos)) = Len(pos)
         /\ Len(pos) \in Nat
         /\ Len(pos) <= Len(items)
         /\ Exhausted(items) \subseteq Event
<1> DEFINE n == Cardinality(Retriable(items))
<1>1. Len(items) \in Nat /\ DOMAIN items = 1..Len(items)
  BY LenProperties
<1>2. IsFiniteSet(1..Len(items)) /\ Cardinality(1..Len(items)) = Len(items)
  BY <1>1, FS_Interval
<1>3. n \in Nat /\ n <= Len(items)
  <2>1. Retriable(items) \in SUBSET (1..Len(items))
    BY <1>1 DEF Retriable
  <2>2. IsFiniteSet(Retriable(items)) /\ n <= Len(items)
    BY <1>2, <2>1, FS_Subset
  <2> QED
    BY <2>2, FS_CardinalityType
<1>4. pos \in [1..n -> Retriable(items)]
  BY DEF Selections
<1> HIDE DEF n
<1>5. DOMAIN pos = 1..n /\ Len(pos) = n
  BY <1>3, <1>4
<1>6. \A j \in 1..n : [items[pos[j]] EXCEPT !.retries = @ + 1] \in Item
  <2>1. SUFFICES ASSUME NEW j \in 1..n
                 PROVE  [items[pos[j]] EXCEPT !.retries = @ + 1] \in Item
    OBVIOUS
  <2>2. pos[j] \in 1..Len(items) /\ items[pos[j]].retries < MAX_SEND_RETRIES
    BY <1>1, <1>4 DEF Retriable
  <2>3. items[pos[j]] \in Item
    BY <2>2, ElementOfSeq
  <2> QED
    BY <2>2, <2>3, BudgetLemma
<1>7. Retried(items, pos) \in [1..n -> Item]
  BY <1>5, <1>6 DEF Retried
<1>8. Retried(items, pos) \in Seq(Item) /\ Len(Retried(items, pos)) = n
  BY <1>3, <1>7
<1>9. Exhausted(items) \subseteq Event
  BY EventsOfType DEF Exhausted, EventsOf
<1> QED
  BY <1>3, <1>5, <1>8, <1>9

\* The refusals read from a truthful body, or from none that can be read, are
\* between none and all.
LEMMA CountRejectsLemma ==
  ASSUME NEW n \in Nat, NEW r \in Nat, NEW d \in Nat,
         NEW body \in {Unreadable} \cup TruthfulBodies(n, r, d)
  PROVE  CountRejects(n, body) \in 0..n
<1>1. CASE body = Unreadable
  BY <1>1 DEF CountRejects, Unreadable
<1>2. CASE body \in TruthfulBodies(n, r, d)
  <2>1. /\ body.count \in Int /\ body.enumerated \in Int /\ body.duplicates \in Int
        /\ body.readable = TRUE
    BY <1>2 DEF TruthfulBodies
  <2> QED
    BY <2>1 DEF CountRejects
<1> QED
  BY <1>1, <1>2

----------------------------------------------------------------------------
(* The invariant.                                                          *)

\* An event offered is dropped on overflow: nothing else but the gap changes.
LEMMA OverflowStep == SenderInv /\ DropOnOverflow => SenderInv'
<1> SUFFICES ASSUME SenderInv, DropOnOverflow PROVE SenderInv'
  OBVIOUS
<1> DEFINE added == [dropped_overflow |-> 1]
           held == Len(pendingQueue) + Len(inflight)
<1>1. /\ TypeOK /\ ProcessorAwake /\ CountersBalance
      /\ UNCHANGED <<pendingQueue, inflight, phase, inBackoff, chain, lost, unread, recorded>>
      /\ offered' = offered + 1 /\ gapPendingCount' = gapPendingCount + 1
      /\ senderStats' = Count(senderStats, added)
  BY DEF SenderInv, DropOnOverflow
<1>2. senderStats \in SenderStats /\ offered \in Nat /\ held \in Nat
  BY <1>1, LenProperties DEF TypeOK
<1>3. Balanced(senderStats, offered, held)
  BY <1>1 DEF Balanced, CountersBalance
<1>4. DOMAIN added \subseteq Counters /\ \A c \in DOMAIN added : added[c] \in Nat
  BY DEF Counters
<1>5. /\ offered + 1 + Added(added, "gap_markers")
           = offered + Added(added, "enqueued") + Added(added, "dropped_overflow")
      /\ held + Added(added, "enqueued")
           = held + Added(added, "sent") + Added(added, "dropped_rejected")
               + Added(added, "dropped_permanent") + Added(added, "dropped_retry_exhausted")
  BY <1>2 DEF Added
<1> HIDE DEF added, held
<1>6. senderStats' \in SenderStats /\ Balanced(senderStats', offered + 1, held)
  BY <1>1, <1>2, <1>3, <1>4, <1>5, CountBalance
<1>7. TypeOK'
  BY <1>1, <1>6 DEF TypeOK
<1>8. ProcessorAwake'
  BY <1>1 DEF ProcessorAwake
<1>9. CountersBalance'
  BY <1>1, <1>6 DEF Balanced, CountersBalance, held
<1> QED
  BY <1>7, <1>8, <1>9 DEF SenderInv

\* A synchronous entry point that counts `added`, calls processQueue with queue
\* q and appends rest afterwards preserves the invariant.
LEMMA KickStep ==
  ASSUME SenderInv, NEW q \in Seq(Item), NEW rest \in Seq(Item), NEW stats \in SenderStats,
         NEW n \in Nat,
         rest # <<>> => q # <<>>, phase = "backoff" => q # <<>>,
         Balanced(stats, n, Len(q) + Len(rest) + Len(inflight)),
         Kick(q, rest), senderStats' = stats, offered' = n,
         chain' \in ChainState, gapPendingCount' \in Nat,
         inBackoff' = inBackoff, lost' = lost, unread' = unread, recorded' = recorded
  PROVE  SenderInv'
<1>1. TypeOK /\ ProcessorAwake
  BY DEF SenderInv
<1>2. /\ pendingQueue' \in Seq(Item)
      /\ inflight' \in Seq(Item)
      /\ phase' \in {"idle", "backoff", "sending"}
      /\ Len(pendingQueue') + Len(inflight') = Len(q) + Len(rest) + Len(inflight)
      /\ ProcessorAwake'
  BY <1>1, KickLemma
<1>3. TypeOK'
  BY <1>1, <1>2 DEF TypeOK
<1>4. Balanced(senderStats', offered', Len(pendingQueue') + Len(inflight'))
  BY <1>2
<1> QED
  BY <1>2, <1>3, <1>4 DEF SenderInv, Balanced, CountersBalance

\* An event is signed and queued.
LEMMA EnqueueStep == SenderInv /\ Enqueue => SenderInv'
<1> SUFFICES ASSUME SenderInv, Enqueue PROVE SenderInv'
  OBVIOUS
<1> DEFINE added == [enqueued |-> 1]
           item == NewItem(Signed(chain, 0, "none"))
           q == Append(pendingQueue, item)
           held == Len(pendingQueue) + Len(inflight)
<1>1. /\ TypeOK /\ CountersBalance
      /\ Kick(q, <<>>)
      /\ offered' = offered + 1 /\ chain' = Advanced(chain)
      /\ senderStats' = Count(senderStats, added)
      /\ inBackoff' = inBackoff /\ gapPendingCount' = gapPendingCount
      /\ lost' = lost /\ unread' = unread /\ recorded' = recorded
  BY DEF SenderInv, Enqueue
<1>2. /\ senderStats \in SenderStats /\ offered \in Nat /\ chain \in ChainState
      /\ Len(pendingQueue) \in Nat /\ Len(inflight) \in Nat /\ gapPendingCount \in Nat
  BY <1>1, LenProperties DEF TypeOK
<1>3. held \in Nat /\ Balanced(senderStats, offered, held)
  BY <1>1, <1>2 DEF Balanced, CountersBalance
<1>4. DOMAIN added \subseteq Counters /\ \A c \in DOMAIN added : added[c] \in Nat
  BY DEF Counters
<1>5. /\ offered + 1 + Added(added, "gap_markers")
           = offered + Added(added, "enqueued") + Added(added, "dropped_overflow")
      /\ held + Added(added, "enqueued")
           = (held + 1) + Added(added, "sent") + Added(added, "dropped_rejected")
               + Added(added, "dropped_permanent") + Added(added, "dropped_retry_exhausted")
  BY <1>2, <1>3 DEF Added
<1>6. item \in Item
  BY <1>2, SignedType
<1>7. q \in Seq(Item) /\ Len(q) = Len(pendingQueue) + 1 /\ q # <<>>
  BY <1>1, <1>6, AppendProperties DEF TypeOK
<1>8. <<>> \in Seq(Item) /\ Len(<<>>) = 0
  BY EmptySeq
<1>9. Advanced(chain) \in ChainState
  BY <1>2, ChainType
<1> HIDE DEF added, item, q
<1>10. /\ Count(senderStats, added) \in SenderStats
       /\ Balanced(Count(senderStats, added), offered + 1, held + 1)
  BY <1>2, <1>3, <1>4, <1>5, CountBalance
<1>11. held + 1 = Len(q) + Len(<<>>) + Len(inflight)
  BY <1>2, <1>7, <1>8
<1> HIDE DEF held
<1>12. Balanced(Count(senderStats, added), offered + 1, Len(q) + Len(<<>>) + Len(inflight))
  BY <1>10, <1>11
<1>13. offered + 1 \in Nat
  BY <1>2
<1> QED
  BY <1>1, <1>2, <1>7, <1>8, <1>9, <1>10, <1>12, <1>13, KickStep

\* The gap that has ended is declared before the next event is signed.
LEMMA EnqueueAfterGapStep == SenderInv /\ EnqueueAfterGap => SenderInv'
<1> SUFFICES ASSUME SenderInv, EnqueueAfterGap PROVE SenderInv'
  OBVIOUS
<1> DEFINE added == [enqueued |-> 2, gap_markers |-> 1, gap_events_declared |-> gapPendingCount]
           marker == NewItem(Signed(chain, gapPendingCount, OverflowReason))
           item == NewItem(Signed(Advanced(chain), 0, "none"))
           q == Append(pendingQueue, marker)
           held == Len(pendingQueue) + Len(inflight)
<1>1. /\ TypeOK /\ CountersBalance
      /\ Kick(q, <<item>>)
      /\ offered' = offered + 1 /\ chain' = Advanced(Advanced(chain))
      /\ senderStats' = Count(senderStats, added)
      /\ inBackoff' = inBackoff /\ gapPendingCount' = 0
      /\ lost' = lost /\ unread' = unread /\ recorded' = recorded
  BY DEF SenderInv, EnqueueAfterGap
<1>2. /\ senderStats \in SenderStats /\ offered \in Nat /\ chain \in ChainState
      /\ Len(pendingQueue) \in Nat /\ Len(inflight) \in Nat /\ gapPendingCount \in Nat
  BY <1>1, LenProperties DEF TypeOK
<1>3. held \in Nat /\ Balanced(senderStats, offered, held)
  BY <1>1, <1>2 DEF Balanced, CountersBalance
<1>4. DOMAIN added \subseteq Counters /\ \A c \in DOMAIN added : added[c] \in Nat
  BY <1>2 DEF Counters
<1>5. /\ offered + 1 + Added(added, "gap_markers")
           = offered + Added(added, "enqueued") + Added(added, "dropped_overflow")
      /\ held + Added(added, "enqueued")
           = (held + 2) + Added(added, "sent") + Added(added, "dropped_rejected")
               + Added(added, "dropped_permanent") + Added(added, "dropped_retry_exhausted")
  BY <1>2, <1>3 DEF Added
<1>6. Advanced(chain) \in ChainState /\ Advanced(Advanced(chain)) \in ChainState
  BY <1>2, ChainType
<1>7. marker \in Item /\ item \in Item
  BY <1>2, <1>6, SignedType DEF GapReasons
<1>8. /\ q \in Seq(Item) /\ Len(q) = Len(pendingQueue) + 1 /\ q # <<>>
      /\ <<item>> \in Seq(Item) /\ Len(<<item>>) = 1
  BY <1>1, <1>7, AppendProperties, OneItemType DEF TypeOK
<1> HIDE DEF added, marker, item, q
<1>9. /\ Count(senderStats, added) \in SenderStats
      /\ Balanced(Count(senderStats, added), offered + 1, held + 2)
  BY <1>2, <1>3, <1>4, <1>5, CountBalance
<1>10. held + 2 = Len(q) + Len(<<item>>) + Len(inflight)
  BY <1>2, <1>8
<1> HIDE DEF held
<1>11. Balanced(Count(senderStats, added), offered + 1,
                Len(q) + Len(<<item>>) + Len(inflight))
  BY <1>9, <1>10
<1>12. offered + 1 \in Nat /\ 0 \in Nat
  BY <1>2
<1> QED
  BY <1>1, <1>6, <1>8, <1>9, <1>11, <1>12, KickStep

\* flushQueue: with no gap to declare the queue is only kicked.
LEMMA FlushStep == SenderInv /\ FlushQueue => SenderInv'
<1> SUFFICES ASSUME SenderInv, FlushQueue PROVE SenderInv'
  OBVIOUS
<1> DEFINE held == Len(pendingQueue) + Len(inflight)
<1>1. /\ TypeOK /\ CountersBalance /\ ProcessorAwake
      /\ inBackoff' = inBackoff /\ offered' = offered
      /\ lost' = lost /\ unread' = unread /\ recorded' = recorded
  BY DEF SenderInv, FlushQueue
<1>2. /\ senderStats \in SenderStats /\ offered \in Nat /\ chain \in ChainState
      /\ Len(pendingQueue) \in Nat /\ Len(inflight) \in Nat /\ gapPendingCount \in Nat
      /\ pendingQueue \in Seq(Item)
  BY <1>1, LenProperties DEF TypeOK
<1>3. held \in Nat /\ Balanced(senderStats, offered, held)
  BY <1>1, <1>2 DEF Balanced, CountersBalance
<1>4. <<>> \in Seq(Item) /\ Len(<<>>) = 0
  BY EmptySeq
<1>5. CASE gapPendingCount = 0
  <2>1. /\ Kick(pendingQueue, <<>>)
        /\ chain' = chain /\ gapPendingCount' = gapPendingCount /\ senderStats' = senderStats
    BY <1>5 DEF FlushQueue
  <2>2. Len(pendingQueue) + Len(<<>>) + Len(inflight) = held
    BY <1>2, <1>4
  <2>3. phase = "backoff" => pendingQueue # <<>>
    BY <1>1 DEF ProcessorAwake
  <2> HIDE DEF held
  <2> QED
    BY <1>1, <1>2, <1>3, <1>4, <2>1, <2>2, <2>3, KickStep
<1>6. CASE gapPendingCount # 0
  <2> DEFINE added == [enqueued |-> 1, gap_markers |-> 1, gap_events_declared |-> gapPendingCount]
             marker == NewItem(Signed(chain, gapPendingCount, OverflowReason))
             q == Append(pendingQueue, marker)
  <2>1. /\ Kick(q, <<>>)
        /\ chain' = Advanced(chain) /\ gapPendingCount' = 0
        /\ senderStats' = Count(senderStats, added)
    BY <1>6 DEF FlushQueue
  <2>2. marker \in Item
    BY <1>2, SignedType DEF GapReasons
  <2>3. q \in Seq(Item) /\ Len(q) = Len(pendingQueue) + 1 /\ q # <<>>
    BY <1>2, <2>2, AppendProperties
  <2>4. /\ Count(senderStats, added) \in SenderStats
        /\ Balanced(Count(senderStats, added), offered, held + 1)
    BY <1>2, <1>3, MarkerBalance
  <2>5. held + 1 = Len(q) + Len(<<>>) + Len(inflight)
    BY <1>2, <1>4, <2>3
  <2>6. Advanced(chain) \in ChainState /\ 0 \in Nat
    BY <1>2, ChainType
  <2> HIDE DEF added, marker, q, held
  <2>7. Balanced(Count(senderStats, added), offered, Len(q) + Len(<<>>) + Len(inflight))
    BY <2>4, <2>5
  <2> QED
    BY <1>1, <1>2, <1>4, <2>1, <2>3, <2>4, <2>6, <2>7, KickStep
<1> QED
  BY <1>5, <1>6

\* Time passes: a waiting processor takes its batch from a queue it left full.
LEMMA BackoffStep == SenderInv /\ BackoffElapses => SenderInv'
<1> SUFFICES ASSUME SenderInv, BackoffElapses PROVE SenderInv'
  OBVIOUS
<1>1. /\ TypeOK /\ CountersBalance /\ ProcessorAwake
      /\ inBackoff' = FALSE /\ chain' = chain /\ gapPendingCount' = gapPendingCount
      /\ senderStats' = senderStats /\ offered' = offered
      /\ lost' = lost /\ unread' = unread /\ recorded' = recorded
  BY DEF SenderInv, BackoffElapses
<1>2. CASE phase = "backoff"
  <2>1. Drain(pendingQueue, FALSE, <<>>)
    BY <1>2 DEF BackoffElapses
  <2>2. pendingQueue \in Seq(Item) /\ Len(pendingQueue) \in Nat
    BY <1>1, LenProperties DEF TypeOK
  <2>3. <<>> \in Seq(Item) /\ Len(<<>>) = 0 /\ Len(inflight) = 0
    BY <1>1, <1>2, EmptySeq DEF ProcessorAwake
  <2>4. /\ pendingQueue' \in Seq(Item)
        /\ inflight' \in Seq(Item)
        /\ phase' \in {"idle", "backoff", "sending"}
        /\ Len(pendingQueue') + Len(inflight') = Len(pendingQueue) + Len(<<>>)
        /\ phase' = "idle" => pendingQueue' = <<>>
        /\ phase' # "backoff"
        /\ phase' = "sending" <=> inflight' # <<>>
    BY <2>1, <2>2, <2>3, DrainLemma
  <2>5. TypeOK' /\ ProcessorAwake'
    BY <1>1, <2>4 DEF TypeOK, ProcessorAwake
  <2>6. Len(pendingQueue') + Len(inflight') = Len(pendingQueue) + Len(inflight)
    BY <2>2, <2>3, <2>4
  <2>7. CountersBalance'
    BY <1>1, <2>6 DEF CountersBalance
  <2> QED
    BY <2>5, <2>7 DEF SenderInv
<1>3. CASE phase # "backoff"
  <2>1. pendingQueue' = pendingQueue /\ inflight' = inflight /\ phase' = phase
    BY <1>3 DEF BackoffElapses
  <2> QED
    BY <1>1, <1>3, <2>1 DEF SenderInv, TypeOK, ProcessorAwake, CountersBalance
<1> QED
  BY <1>2, <1>3

\* An accepted request: the events it carried are sent or refused.
LEMMA DeliverStep ==
  ASSUME NEW status \in ReplyStatuses, SenderInv, DeliverOk(status)
  PROVE  SenderInv'
<1> DEFINE Reported(refused, body) == IF body.readable THEN refused ELSE {}
           Outcome(refused, body, rejected) ==
          /\ recorded' = recorded \cup (EventsOf(inflight) \ refused)
          /\ lost' = lost \cup Reported(refused, body)
          /\ unread' = unread \cup (refused \ Reported(refused, body))
          /\ senderStats' = StatsAfterLoss(
                              Count(senderStats, [sent |-> Len(inflight) - rejected,
                                                  dropped_rejected |-> rejected]),
                              EventsOf(inflight), rejected)
          /\ chain' = ChainAfterLoss(EventsOf(inflight), rejected)
          /\ inBackoff' = FALSE
          /\ Drain(pendingQueue \o MarkerAfterLoss(EventsOf(inflight), rejected,
                                                   "ingest_rejected"), FALSE, <<>>)
           Bodies(refused) ==
             {Unreadable}
               \cup TruthfulBodies(Len(inflight), Cardinality(refused),
                                  Cardinality(EventsOf(inflight) \cap recorded))
<1>1. \E refused \in Refusals(status) : \E body \in Bodies(refused) :
        Outcome(refused, body, CountRejects(Len(inflight), body))
  BY DEF DeliverOk
<1>2. PICK refused \in Refusals(status) :
        \E body \in Bodies(refused) : Outcome(refused, body, CountRejects(Len(inflight), body))
  BY <1>1
<1>3. PICK body \in Bodies(refused) : Outcome(refused, body, CountRejects(Len(inflight), body))
  BY <1>2
<1>4. TypeOK /\ CountersBalance /\ gapPendingCount' = gapPendingCount /\ offered' = offered
  BY DEF SenderInv, DeliverOk
<1>5. /\ senderStats \in SenderStats /\ offered \in Nat
      /\ pendingQueue \in Seq(Item) /\ inflight \in Seq(Item)
      /\ Len(pendingQueue) \in Nat /\ Len(inflight) \in Nat
  BY <1>4, LenProperties DEF TypeOK
<1> DEFINE rejected == CountRejects(Len(inflight), body)
           taken == Len(inflight) - rejected
           added == [sent |-> taken, dropped_rejected |-> rejected]
           held == Len(pendingQueue) + Len(inflight)
<1>6. EventsOf(inflight) \subseteq Event /\ IsFiniteSet(EventsOf(inflight))
  BY <1>5, EventsOfType
<1>7. /\ refused \subseteq EventsOf(inflight)
      /\ IsFiniteSet(refused) /\ Cardinality(refused) \in Nat
      /\ Cardinality(EventsOf(inflight) \cap recorded) \in Nat
  <2>1. refused \subseteq EventsOf(inflight)
    BY DEF Refusals
  <2> QED
    BY <1>6, <2>1, FS_Subset, FS_CardinalityType
<1>8. rejected \in Nat /\ taken \in Nat /\ taken + rejected = Len(inflight)
  <2>1. rejected \in 0..Len(inflight)
    BY <1>5, <1>7, CountRejectsLemma
  <2> HIDE DEF rejected
  <2> QED
    BY <1>5, <2>1
<1> HIDE DEF rejected, taken
<1>9. held \in Nat /\ Balanced(senderStats, offered, held)
  BY <1>4, <1>5 DEF Balanced, CountersBalance
<1>10. DOMAIN added \subseteq Counters /\ \A c \in DOMAIN added : added[c] \in Nat
  BY <1>8 DEF Counters
<1>11. /\ offered + Added(added, "gap_markers")
           = offered + Added(added, "enqueued") + Added(added, "dropped_overflow")
      /\ held + Added(added, "enqueued")
           = Len(pendingQueue) + Added(added, "sent") + Added(added, "dropped_rejected")
               + Added(added, "dropped_permanent") + Added(added, "dropped_retry_exhausted")
  BY <1>5, <1>8 DEF Added
<1> HIDE DEF added, held
<1>12. /\ Count(senderStats, added) \in SenderStats
       /\ Balanced(Count(senderStats, added), offered, Len(pendingQueue))
  BY <1>5, <1>9, <1>10, <1>11, CountBalance
<1>13. /\ senderStats' = StatsAfterLoss(Count(senderStats, added), EventsOf(inflight), rejected)
       /\ chain' = ChainAfterLoss(EventsOf(inflight), rejected)
       /\ inBackoff' = FALSE
       /\ Drain(pendingQueue \o MarkerAfterLoss(EventsOf(inflight), rejected,
                                                "ingest_rejected"), FALSE, <<>>)
  BY <1>3 DEF added, rejected, taken
<1>14. lost' \subseteq Event /\ unread' \subseteq Event /\ recorded' \subseteq Event
  BY <1>3, <1>4, <1>6, <1>7 DEF TypeOK
<1>15. "ingest_rejected" \in DeliveryReasons
  BY DEF DeliveryReasons
<1> QED
  BY <1>4, <1>5, <1>8, <1>12, <1>13, <1>14, <1>15, SettleLemma

\* A refused request: all its events are counted as rejected.
LEMMA RefuseStep ==
  ASSUME NEW status \in ReplyStatuses, SenderInv, RefuseRequest(status)
  PROVE  SenderInv'
<1> DEFINE gone == Len(inflight)
           added == [dropped_rejected |-> gone]
           held == Len(pendingQueue) + Len(inflight)
<1>1. /\ TypeOK /\ CountersBalance
      /\ gapPendingCount' = gapPendingCount /\ offered' = offered
      /\ lost' = lost \cup EventsOf(inflight) /\ unread' = unread /\ recorded' = recorded
      /\ senderStats' = StatsAfterLoss(Count(senderStats, added), EventsOf(inflight), gone)
      /\ chain' = ChainAfterLoss(EventsOf(inflight), gone)
      /\ inBackoff' = FALSE
      /\ Drain(pendingQueue \o MarkerAfterLoss(EventsOf(inflight), gone, "ingest_rejected"),
               FALSE, <<>>)
  BY DEF SenderInv, RefuseRequest
<1>2. /\ senderStats \in SenderStats /\ offered \in Nat /\ FALSE \in BOOLEAN
      /\ pendingQueue \in Seq(Item) /\ inflight \in Seq(Item)
      /\ Len(pendingQueue) \in Nat /\ gone \in Nat
  BY <1>1, LenProperties DEF TypeOK
<1>3. held \in Nat /\ Balanced(senderStats, offered, held)
  BY <1>1, <1>2 DEF Balanced, CountersBalance
<1>4. DOMAIN added \subseteq Counters /\ \A c \in DOMAIN added : added[c] \in Nat
  BY <1>2 DEF Counters
<1>5. /\ offered + Added(added, "gap_markers")
           = offered + Added(added, "enqueued") + Added(added, "dropped_overflow")
      /\ held + Added(added, "enqueued")
           = Len(pendingQueue) + Added(added, "sent") + Added(added, "dropped_rejected")
               + Added(added, "dropped_permanent") + Added(added, "dropped_retry_exhausted")
  BY <1>2 DEF Added
<1> HIDE DEF gone, added, held
<1>6. /\ Count(senderStats, added) \in SenderStats
      /\ Balanced(Count(senderStats, added), offered, Len(pendingQueue))
  BY <1>2, <1>3, <1>4, <1>5, CountBalance
<1>7. lost' \subseteq Event /\ unread' \subseteq Event /\ recorded' \subseteq Event
  BY <1>1, <1>2, EventsOfType DEF TypeOK
<1>8. "ingest_rejected" \in DeliveryReasons
  BY DEF DeliveryReasons
<1> QED
  BY <1>1, <1>2, <1>6, <1>7, <1>8, SettleLemma

\* A discarded request: all its events are counted as permanent failures.
LEMMA DiscardStep ==
  ASSUME NEW status \in ReplyStatuses, SenderInv, DiscardPermanent(status)
  PROVE  SenderInv'
<1> DEFINE gone == Len(inflight)
           added == [dropped_permanent |-> gone]
           held == Len(pendingQueue) + Len(inflight)
<1>1. /\ TypeOK /\ CountersBalance
      /\ gapPendingCount' = gapPendingCount /\ offered' = offered
      /\ lost' = lost \cup EventsOf(inflight) /\ unread' = unread /\ recorded' = recorded
      /\ senderStats' = StatsAfterLoss(Count(senderStats, added), EventsOf(inflight), gone)
      /\ chain' = ChainAfterLoss(EventsOf(inflight), gone)
      /\ inBackoff' = inBackoff
      /\ Drain(pendingQueue \o MarkerAfterLoss(EventsOf(inflight), gone, "permanent_failure"),
               inBackoff, <<>>)
  BY DEF SenderInv, DiscardPermanent
<1>2. /\ senderStats \in SenderStats /\ offered \in Nat /\ inBackoff \in BOOLEAN
      /\ pendingQueue \in Seq(Item) /\ inflight \in Seq(Item)
      /\ Len(pendingQueue) \in Nat /\ gone \in Nat
  BY <1>1, LenProperties DEF TypeOK
<1>3. held \in Nat /\ Balanced(senderStats, offered, held)
  BY <1>1, <1>2 DEF Balanced, CountersBalance
<1>4. DOMAIN added \subseteq Counters /\ \A c \in DOMAIN added : added[c] \in Nat
  BY <1>2 DEF Counters
<1>5. /\ offered + Added(added, "gap_markers")
           = offered + Added(added, "enqueued") + Added(added, "dropped_overflow")
      /\ held + Added(added, "enqueued")
           = Len(pendingQueue) + Added(added, "sent") + Added(added, "dropped_rejected")
               + Added(added, "dropped_permanent") + Added(added, "dropped_retry_exhausted")
  BY <1>2 DEF Added
<1> HIDE DEF gone, added, held
<1>6. /\ Count(senderStats, added) \in SenderStats
      /\ Balanced(Count(senderStats, added), offered, Len(pendingQueue))
  BY <1>2, <1>3, <1>4, <1>5, CountBalance
<1>7. lost' \subseteq Event /\ unread' \subseteq Event /\ recorded' \subseteq Event
  BY <1>1, <1>2, EventsOfType DEF TypeOK
<1>8. "permanent_failure" \in DeliveryReasons
  BY DEF DeliveryReasons
<1> QED
  BY <1>1, <1>2, <1>6, <1>7, <1>8, SettleLemma

\* A failed request: its events are put back or counted as out of retries.
LEMMA RequeueStep ==
  ASSUME SenderInv, RequeueFront, gapPendingCount' = gapPendingCount, offered' = offered,
         unread' = unread
  PROVE  SenderInv'
<1> DEFINE exhausted == Exhausted(inflight)
<1>1. PICK pos \in Selections(inflight) :
        LET dropped == Len(inflight) - Len(pos)
        IN /\ \E stored \in SUBSET (EventsOf(inflight) \ recorded) :
                recorded' = recorded \cup stored
           /\ lost' = lost \cup exhausted
           /\ senderStats' = StatsAfterLoss(
                               Count(senderStats, [retries |-> Len(pos),
                                                   dropped_retry_exhausted |-> dropped]),
                               exhausted, dropped)
           /\ chain' = ChainAfterLoss(exhausted, dropped)
           /\ inBackoff' = TRUE
           /\ Drain((Retried(inflight, pos) \o pendingQueue)
                      \o MarkerAfterLoss(exhausted, dropped, "retry_exhausted"), TRUE, <<>>)
  BY DEF RequeueFront
<1>2. TypeOK /\ CountersBalance
  BY DEF SenderInv
<1>3. /\ senderStats \in SenderStats /\ offered \in Nat
      /\ pendingQueue \in Seq(Item) /\ inflight \in Seq(Item)
      /\ Len(pendingQueue) \in Nat /\ Len(inflight) \in Nat
  BY <1>2, LenProperties DEF TypeOK
<1> DEFINE dropped == Len(inflight) - Len(pos)
           added == [retries |-> Len(pos), dropped_retry_exhausted |-> dropped]
           held == Len(pendingQueue) + Len(inflight)
           kept == Retried(inflight, pos) \o pendingQueue
<1>4. /\ Retried(inflight, pos) \in Seq(Item)
      /\ Len(Retried(inflight, pos)) = Len(pos)
      /\ Len(pos) \in Nat /\ Len(pos) <= Len(inflight)
      /\ exhausted \subseteq Event
  BY <1>3, RetriedLemma
<1>5. dropped \in Nat /\ dropped + Len(pos) = Len(inflight)
  BY <1>3, <1>4
<1>6. kept \in Seq(Item) /\ Len(kept) = Len(pos) + Len(pendingQueue)
  BY <1>3, <1>4, ConcatProperties
<1>7. /\ lost' = lost \cup exhausted
      /\ senderStats' = StatsAfterLoss(Count(senderStats, added), exhausted, dropped)
      /\ chain' = ChainAfterLoss(exhausted, dropped)
      /\ inBackoff' = TRUE
      /\ Drain(kept \o MarkerAfterLoss(exhausted, dropped, "retry_exhausted"), TRUE, <<>>)
  BY <1>1
<1>8. recorded' \subseteq Event
  <2>1. PICK stored \in SUBSET (EventsOf(inflight) \ recorded) :
          recorded' = recorded \cup stored
    BY <1>1
  <2> QED
    BY <1>2, <1>3, <2>1, EventsOfType DEF TypeOK
<1> HIDE DEF exhausted, dropped, kept
<1>9. held \in Nat /\ Balanced(senderStats, offered, held)
  BY <1>2, <1>3 DEF Balanced, CountersBalance
<1>10. DOMAIN added \subseteq Counters /\ \A c \in DOMAIN added : added[c] \in Nat
  BY <1>4, <1>5 DEF Counters
<1>11. /\ offered + Added(added, "gap_markers")
            = offered + Added(added, "enqueued") + Added(added, "dropped_overflow")
       /\ held + Added(added, "enqueued")
            = Len(kept) + Added(added, "sent") + Added(added, "dropped_rejected")
                + Added(added, "dropped_permanent") + Added(added, "dropped_retry_exhausted")
  <2>1. /\ Added(added, "gap_markers") = 0 /\ Added(added, "enqueued") = 0
        /\ Added(added, "dropped_overflow") = 0 /\ Added(added, "sent") = 0
        /\ Added(added, "dropped_rejected") = 0 /\ Added(added, "dropped_permanent") = 0
        /\ Added(added, "dropped_retry_exhausted") = dropped
    BY DEF Added
  <2>2. held = Len(kept) + dropped
    <3>1. /\ Len(pos) \in Nat /\ Len(pendingQueue) \in Nat /\ dropped \in Nat
          /\ Len(inflight) = dropped + Len(pos)
          /\ Len(kept) = Len(pos) + Len(pendingQueue)
      BY <1>3, <1>4, <1>5, <1>6
    <3>2. held = Len(pendingQueue) + (dropped + Len(pos))
      BY <3>1
    <3> QED
      BY <3>1, <3>2
  <2> HIDE DEF added, held
  <2> QED
    BY <1>3, <1>4, <1>5, <1>6, <1>9, <2>1, <2>2
<1> HIDE DEF added, held
<1>12. Len(kept) \in Nat
  BY <1>3, <1>4, <1>6
<1>13. /\ Count(senderStats, added) \in SenderStats
       /\ Balanced(Count(senderStats, added), offered, Len(kept))
  BY <1>3, <1>9, <1>10, <1>11, <1>12, CountBalance
<1>14. "retry_exhausted" \in DeliveryReasons /\ lost' \subseteq Event /\ unread' \subseteq Event
  BY <1>2, <1>4, <1>7 DEF DeliveryReasons, TypeOK
<1> QED
  BY <1>5, <1>6, <1>7, <1>8, <1>13, <1>14, SettleLemma

\* A failed request, answered or not, is a requeue.
LEMMA RetryStep ==
  /\ \A status \in ReplyStatuses : SenderInv /\ RetryLater(status) => SenderInv'
  /\ SenderInv /\ TimeOut => SenderInv'
<1>1. ASSUME NEW status \in ReplyStatuses, SenderInv, RetryLater(status) PROVE SenderInv'
  BY <1>1, RequeueStep DEF RetryLater
<1>2. ASSUME SenderInv, TimeOut PROVE SenderInv'
  BY <1>2, RequeueStep DEF TimeOut
<1> QED
  BY <1>1, <1>2

\* A stuttering step changes none of the variables the invariant reads.
LEMMA StutterStep == SenderInv /\ UNCHANGED vars => SenderInv'
  BY DEF SenderInv, TypeOK, ProcessorAwake, CountersBalance, vars, sender

\* The sender starts idle, with an empty queue and nothing counted.
LEMMA InitInv == Init => SenderInv
<1> SUFFICES ASSUME Init PROVE SenderInv
  OBVIOUS
<1>1. <<>> \in Seq(Item) /\ Len(<<>>) = 0
  BY EmptySeq
<1>2. chain \in ChainState /\ senderStats \in SenderStats
  BY DEF Init, ChainState, SenderStats
<1>3. TypeOK /\ ProcessorAwake
  BY <1>1, <1>2 DEF Init, TypeOK, ProcessorAwake
<1>4. CountersBalance
  <2>1. \A c \in Counters : senderStats[c] = 0
    BY DEF Init
  <2>2. /\ senderStats.enqueued = 0 /\ senderStats.sent = 0 /\ senderStats.gap_markers = 0
        /\ senderStats.dropped_overflow = 0 /\ senderStats.dropped_rejected = 0
        /\ senderStats.dropped_permanent = 0 /\ senderStats.dropped_retry_exhausted = 0
    BY <2>1 DEF Counters
  <2> QED
    BY <1>1, <2>2 DEF Init, CountersBalance
<1> QED
  BY <1>3, <1>4 DEF SenderInv

\* Every step of the sender preserves the invariant.
LEMMA StepInv == SenderInv /\ [Next]_vars => SenderInv'
<1> SUFFICES ASSUME SenderInv, [Next]_vars PROVE SenderInv'
  OBVIOUS
<1>1. CASE DropOnOverflow
  BY <1>1, OverflowStep
<1>2. CASE Enqueue
  BY <1>2, EnqueueStep
<1>3. CASE EnqueueAfterGap
  BY <1>3, EnqueueAfterGapStep
<1>4. CASE FlushQueue
  BY <1>4, FlushStep
<1>5. ASSUME NEW status \in ReplyStatuses, Reply(status) PROVE SenderInv'
  <2>1. CASE DeliverOk(status)
    BY <2>1, DeliverStep
  <2>2. CASE RefuseRequest(status)
    BY <2>2, RefuseStep
  <2>3. CASE DiscardPermanent(status)
    BY <2>3, DiscardStep
  <2>4. CASE RetryLater(status)
    BY <2>4, RetryStep
  <2> QED
    BY <1>5, <2>1, <2>2, <2>3, <2>4 DEF Reply
<1>6. CASE TimeOut
  BY <1>6, RetryStep
<1>7. CASE BackoffElapses
  BY <1>7, BackoffStep
<1>8. CASE UNCHANGED vars
  BY <1>8, StutterStep
<1> QED
  BY <1>1, <1>2, <1>3, <1>4, <1>5, <1>6, <1>7, <1>8 DEF Next

\* The invariant holds of every reachable state.
THEOREM SenderInvariant == Spec => []SenderInv
<1>1. Init => SenderInv
  BY InitInv
<1>2. SenderInv /\ [Next]_vars => SenderInv'
  BY StepInv
<1> QED
  BY <1>1, <1>2, PTL DEF Spec

----------------------------------------------------------------------------
(* The theorems.                                                           *)

\* Type correctness of the sender, of its chain state and of its counters.
THEOREM TypeCorrect == Spec => []TypeOK
<1>1. SenderInv => TypeOK
  BY DEF SenderInv
<1> QED
  BY <1>1, SenderInvariant, PTL

\* No interleaving of enqueues, flushes, replies and timers leaves an event in
\* the queue of an idle processor (isProcessing false).
THEOREM NoLostWakeup == Spec => []ProcessorAwake
<1>1. SenderInv => ProcessorAwake
  BY DEF SenderInv
<1> QED
  BY <1>1, SenderInvariant, PTL

\* The delivery counters account for every event offered and signed.
THEOREM CountersAccount == Spec => []CountersBalance
<1>1. SenderInv => CountersBalance
  BY DEF SenderInv
<1> QED
  BY <1>1, SenderInvariant, PTL

----------------------------------------------------------------------------
(* The items held.                                                         *)

Held == inflight \o pendingQueue

----------------------------------------------------------------------------
(* Sequences of items.                                                     *)

\* The events of a concatenation are those of its parts.
LEMMA ConcatEvents ==
  ASSUME NEW s \in Seq(Item), NEW t \in Seq(Item)
  PROVE  EventsOf(s \o t) = EventsOf(s) \cup EventsOf(t)
<1>1. /\ s \o t \in Seq(Item) /\ Len(s \o t) = Len(s) + Len(t)
      /\ \A i \in 1..Len(s) + Len(t) :
           (s \o t)[i] = IF i <= Len(s) THEN s[i] ELSE t[i - Len(s)]
  BY ConcatProperties
<1>2. /\ Len(s) \in Nat /\ Len(t) \in Nat
      /\ DOMAIN s = 1..Len(s) /\ DOMAIN t = 1..Len(t)
      /\ DOMAIN (s \o t) = 1..Len(s) + Len(t)
  BY <1>1, LenProperties
<1>3. ASSUME NEW i \in DOMAIN (s \o t)
      PROVE  (s \o t)[i].event \in EventsOf(s) \cup EventsOf(t)
  <2>1. CASE i <= Len(s)
    BY <1>1, <1>2, <1>3, <2>1 DEF EventsOf
  <2>2. CASE ~(i <= Len(s))
    <3>1. i - Len(s) \in DOMAIN t /\ (s \o t)[i] = t[i - Len(s)]
      BY <1>1, <1>2, <1>3, <2>2
    <3> QED
      BY <3>1 DEF EventsOf
  <2> QED
    BY <2>1, <2>2
<1>4. ASSUME NEW i \in DOMAIN s PROVE s[i].event \in EventsOf(s \o t)
  <2>1. i \in DOMAIN (s \o t) /\ (s \o t)[i] = s[i]
    BY <1>1, <1>2
  <2> QED
    BY <2>1 DEF EventsOf
<1>5. ASSUME NEW i \in DOMAIN t PROVE t[i].event \in EventsOf(s \o t)
  <2>1. i + Len(s) \in DOMAIN (s \o t) /\ (s \o t)[i + Len(s)] = t[i]
    BY <1>1, <1>2
  <2> QED
    BY <2>1 DEF EventsOf
<1> QED
  BY <1>3, <1>4, <1>5 DEF EventsOf

\* The drain loop takes what it sends from the front, and a marker alone.
TakesFront ==
  /\ Len(inflight) <= SEND_BATCH_SIZE
  /\ Len(inflight) > 1 => \A i \in DOMAIN inflight : ~IsGapMarker(inflight[i].event)

\* The loop moves items from the queue to the request and changes no order.
LEMMA DrainHeld ==
  ASSUME NEW q \in Seq(Item), NEW rest \in Seq(Item), NEW backoff, Drain(q, backoff, rest)
  PROVE  Held' = q \o rest /\ TakesFront'
<1> USE SenderAssumption DEF SenderAssumption
<1>1. <<>> \in Seq(Item) /\ Len(<<>>) = 0 /\ Len(q) \in Nat /\ q \o rest \in Seq(Item)
  BY EmptySeq, LenProperties, ConcatProperties
<1>2. ASSUME inflight' = <<>>, pendingQueue' = q \o rest
      PROVE  Held' = q \o rest /\ TakesFront'
  BY <1>1, <1>2, ConcatEmptySeq DEF Held, TakesFront
<1>3. CASE q = <<>> /\ inflight' = <<>> /\ pendingQueue' = rest
  BY <1>1, <1>2, <1>3, ConcatEmptySeq
<1>4. ASSUME NEW k \in BatchSizes(q), q # <<>>,
             inflight' = SubSeq(q, 1, k),
             pendingQueue' = SubSeq(q, k + 1, Len(q)) \o rest
      PROVE  Held' = q \o rest /\ TakesFront'
  <2>1. /\ k \in 1..Len(q) /\ k <= SEND_BATCH_SIZE
        /\ k > 1 => \A i \in 1..k : ~IsGapMarker(q[i].event)
    BY DEF BatchSizes
  <2>2. \A i \in 1..Len(q) : q[i] \in Item
    BY ElementOfSeq
  <2>3. /\ SubSeq(q, 1, k) \in Seq(Item) /\ Len(SubSeq(q, 1, k)) = k
        /\ \A i \in 1..k : SubSeq(q, 1, k)[i] = q[i]
    BY <1>1, <2>1, <2>2, SubSeqProperties
  <2>4. SubSeq(q, k + 1, Len(q)) \in Seq(Item)
    BY <1>1, <2>1, <2>2, SubSeqProperties
  <2>5. SubSeq(q, 1, k) \o SubSeq(q, k + 1, Len(q)) = q
    <3>1. SubSeq(q, 1, k) \o SubSeq(q, k + 1, Len(q)) = SubSeq(q, 1, Len(q))
      BY <1>1, <2>1, ConcatAdjacentSubSeq
    <3> QED
      BY <3>1, SubSeqFull
  <2>6. Held' = q \o rest
    <3> DEFINE front == SubSeq(q, 1, k)
               back == SubSeq(q, k + 1, Len(q))
    <3>1. front \in Seq(Item) /\ back \in Seq(Item)
      BY <2>3, <2>4
    <3>4. front \o back = q
      BY <2>5
    <3>2. inflight' = front /\ pendingQueue' = back \o rest
      BY <1>4
    <3> HIDE DEF front, back
    <3>3. (front \o back) \o rest = front \o (back \o rest)
      BY <3>1, ConcatAssociative
    <3> QED
      BY <3>2, <3>3, <3>4 DEF Held
  <2>7. TakesFront'
    <3>1. DOMAIN SubSeq(q, 1, k) = 1..k
      BY <2>3, LenProperties
    <3> QED
      BY <1>4, <2>1, <2>3, <3>1 DEF TakesFront
  <2> QED
    BY <2>6, <2>7
<1> QED
  BY <1>2, <1>3, <1>4 DEF Drain

\* So does a call that finds the loop running.
LEMMA KickHeld ==
  ASSUME TypeOK, ProcessorAwake, TakesFront,
         NEW q \in Seq(Item), NEW rest \in Seq(Item), Kick(q, rest)
  PROVE  Held' = (inflight \o q) \o rest /\ TakesFront'
<1>1. inflight \in Seq(Item)
  BY DEF TypeOK
<1>2. CASE phase = "idle"
  <2>1. inflight = <<>> /\ <<>> \o q = q
    BY <1>2, ConcatEmptySeq DEF ProcessorAwake
  <2> QED
    BY <1>2, <2>1, DrainHeld DEF Kick
<1>3. CASE phase # "idle"
  <2>1. inflight' = inflight /\ pendingQueue' = q \o rest
    BY <1>3 DEF Kick
  <2>2. inflight \o (q \o rest) = (inflight \o q) \o rest
    BY <1>1, ConcatAssociative
  <2> QED
    BY <2>1, <2>2 DEF Held, TakesFront
<1> QED
  BY <1>2, <1>3

----------------------------------------------------------------------------
(* The inductive invariant.                                                *)

Below(x, y) == x.event.sdk_sig < y.event.sdk_sig /\ x.retries >= y.retries
Sorted(s) == \A i, j \in DOMAIN s : i < j => Below(s[i], s[j])
SigsOf(events) == {e.sdk_sig : e \in events}
Bounded(s) == {i \in DOMAIN s : s[i].event.reason # OverflowReason}
LostMarkers == {e \in lost : IsGapMarker(e)}

Drops(stats) ==
  stats.dropped_overflow + stats.dropped_rejected
    + stats.dropped_permanent + stats.dropped_retry_exhausted

DeliveryInv ==
  /\ SenderInv /\ TakesFront
  /\ SignOrder
  /\ NothingVanishes
  /\ EventsOf(Held) \cap lost = {} /\ IsFiniteSet(lost)
  /\ LossesDeclared
  /\ QueueBounded

\* The properties in the words of this module.
LEMMA Restated ==
  ASSUME TypeOK
  PROVE  /\ Held \in Seq(Item) /\ Len(Held) \in Nat /\ DOMAIN Held = 1..Len(Held)
         /\ Len(Held) = Len(inflight) + Len(pendingQueue)
         /\ Waiting = EventsOf(Held)
         /\ SignOrder <=> Sorted(Held)
         /\ NothingVanishes <=>
              /\ SigsOf(EventsOf(Held) \cup recorded \cup lost \cup unread) = 1..chain.signed
              /\ unread \cap (EventsOf(Held) \cup recorded \cup lost) = {}
         /\ QueueBounded <=> Cardinality(Bounded(Held)) <= MAX_QUEUE_SIZE + SEND_BATCH_SIZE
         /\ LossesDeclared <=> Drops(senderStats) = gapPendingCount + senderStats.gap_events_declared
                                                      + Cardinality(LostMarkers)
<1>1. inflight \in Seq(Item) /\ pendingQueue \in Seq(Item)
  BY DEF TypeOK
<1>2. /\ Held \in Seq(Item) /\ Len(Held) \in Nat /\ DOMAIN Held = 1..Len(Held)
      /\ Len(Held) = Len(inflight) + Len(pendingQueue)
  BY <1>1, ConcatProperties, LenProperties DEF Held
<1>3. Waiting = EventsOf(Held)
  BY <1>1, ConcatEvents DEF Waiting, Held
<1>4. SignOrder <=> Sorted(Held)
  BY DEF SignOrder, Sorted, Below, Held
<1>5. NothingVanishes <=>
        /\ SigsOf(EventsOf(Held) \cup recorded \cup lost \cup unread) = 1..chain.signed
        /\ unread \cap (EventsOf(Held) \cup recorded \cup lost) = {}
  BY <1>3 DEF NothingVanishes, SigsOf
<1>6. QueueBounded <=> Cardinality(Bounded(Held)) <= MAX_QUEUE_SIZE + SEND_BATCH_SIZE
  BY DEF QueueBounded, Bounded, Held
<1>7. LossesDeclared <=> Drops(senderStats) = gapPendingCount + senderStats.gap_events_declared
                                                + Cardinality(LostMarkers)
  BY DEF LossesDeclared, Drops, LostMarkers
<1> QED
  BY <1>2, <1>3, <1>4, <1>5, <1>6, <1>7

\* The sum of the drop counters is a number, and so are the events declared.
LEMMA DropsAreNat ==
  ASSUME NEW stats \in SenderStats
  PROVE  Drops(stats) \in Nat /\ stats.gap_events_declared \in Nat
<1>1. /\ stats.dropped_overflow \in Nat /\ stats.dropped_rejected \in Nat
      /\ stats.dropped_permanent \in Nat /\ stats.dropped_retry_exhausted \in Nat
      /\ stats.gap_events_declared \in Nat
  BY StatsAreNat
<1> QED
  BY <1>1 DEF Drops

\* The items held that the queue bound speaks of are finitely many.
LEMMA BoundedFinite ==
  ASSUME NEW s \in Seq(Item)
  PROVE  /\ IsFiniteSet(Bounded(s)) /\ Cardinality(Bounded(s)) \in Nat
         /\ Cardinality(Bounded(s)) <= Len(s)
<1>1. DOMAIN s = 1..Len(s) /\ Len(s) \in Nat
  BY LenProperties
<1>2. IsFiniteSet(1..Len(s)) /\ Cardinality(1..Len(s)) = Len(s)
  BY <1>1, FS_Interval
<1>3. Bounded(s) \in SUBSET (1..Len(s))
  BY <1>1 DEF Bounded
<1> QED
  BY <1>2, <1>3, FS_Subset, FS_CardinalityType

\* The signatures of what is held, recorded or lost are those given out.
LEMMA HeldSigs ==
  ASSUME TypeOK, NothingVanishes
  PROVE  /\ \A i \in DOMAIN Held : Held[i].event.sdk_sig \in 1..chain.signed
         /\ \A e \in lost \cup unread \cup recorded : e.sdk_sig \in 1..chain.signed
<1>1. SigsOf(EventsOf(Held) \cup recorded \cup lost \cup unread) = 1..chain.signed
  BY Restated
<1>2. \A i \in DOMAIN Held : Held[i].event \in EventsOf(Held)
  BY DEF EventsOf
<1> QED
  BY <1>1, <1>2 DEF SigsOf

\* Items signed after those of a sorted sequence, on a fresh budget, go last.
LEMMA SortedExtends ==
  ASSUME NEW s \in Seq(Item), NEW new \in Seq(Item), NEW n \in Nat, Sorted(s),
         \A i \in DOMAIN s : s[i].event.sdk_sig \in 1..n,
         \A i \in 1..Len(new) : new[i].event.sdk_sig = n + i /\ new[i].retries = 0
  PROVE  Sorted(s \o new)
<1>1. /\ s \o new \in Seq(Item) /\ Len(s \o new) = Len(s) + Len(new)
      /\ \A i \in 1..Len(s) + Len(new) :
           (s \o new)[i] = IF i <= Len(s) THEN s[i] ELSE new[i - Len(s)]
  BY ConcatProperties
<1>2. /\ Len(s) \in Nat /\ Len(new) \in Nat
      /\ DOMAIN s = 1..Len(s) /\ DOMAIN (s \o new) = 1..Len(s) + Len(new)
  BY <1>1, LenProperties
<1>3. \A i \in DOMAIN s : s[i] \in Item /\ s[i].retries \in Nat
  <2>1. \A i \in 1..Len(s) : s[i] \in Item
    BY ElementOfSeq
  <2>2. \A item \in Item : item.retries \in Nat
    BY SenderAssumption DEF Item, SenderAssumption
  <2> QED
    BY <1>2, <2>1, <2>2
<1> SUFFICES ASSUME NEW i \in 1..Len(s) + Len(new), NEW j \in 1..Len(s) + Len(new), i < j
             PROVE  Below((s \o new)[i], (s \o new)[j])
  BY <1>2 DEF Sorted
<1>4. CASE j <= Len(s)
  BY <1>1, <1>2, <1>4 DEF Sorted
<1>5. CASE i <= Len(s) /\ ~(j <= Len(s))
  <2>1. /\ i \in DOMAIN s /\ j - Len(s) \in 1..Len(new)
        /\ (s \o new)[i] = s[i] /\ (s \o new)[j] = new[j - Len(s)]
    BY <1>1, <1>2, <1>5
  <2>2. /\ new[j - Len(s)].event.sdk_sig > n /\ new[j - Len(s)].retries = 0
        /\ s[i].event.sdk_sig \in 1..n /\ s[i].retries \in Nat
    BY <1>3, <2>1
  <2> QED
    BY <2>1, <2>2 DEF Below
<1>6. CASE ~(i <= Len(s))
  <2>1. /\ i - Len(s) \in 1..Len(new) /\ j - Len(s) \in 1..Len(new)
        /\ (s \o new)[i] = new[i - Len(s)] /\ (s \o new)[j] = new[j - Len(s)]
    BY <1>1, <1>2, <1>6
  <2>2. /\ new[i - Len(s)].event.sdk_sig = n + (i - Len(s)) /\ new[i - Len(s)].retries = 0
        /\ new[j - Len(s)].event.sdk_sig = n + (j - Len(s)) /\ new[j - Len(s)].retries = 0
    BY <2>1
  <2> QED
    BY <1>2, <2>1, <2>2 DEF Below
<1> QED
  BY <1>4, <1>5, <1>6

\* What newly signed items add to the signatures given out.
LEMMA NewSigs ==
  ASSUME NEW old, NEW new \in Seq(Item), NEW n \in Nat, SigsOf(old) = 1..n,
         \A i \in 1..Len(new) : new[i].event.sdk_sig = n + i
  PROVE  SigsOf(old \cup EventsOf(new)) = 1..n + Len(new)
<1>1. Len(new) \in Nat /\ DOMAIN new = 1..Len(new)
  BY LenProperties
<1>2. SigsOf(EventsOf(new)) = (n + 1)..(n + Len(new))
  <2>1. ASSUME NEW k \in (n + 1)..(n + Len(new)) PROVE k \in SigsOf(EventsOf(new))
    <3>1. k - n \in 1..Len(new) /\ n + (k - n) = k
      BY <1>1
    <3>2. new[k - n].event.sdk_sig = k /\ new[k - n].event \in EventsOf(new)
      BY <1>1, <3>1 DEF EventsOf
    <3> QED
      BY <3>2 DEF SigsOf
  <2>2. ASSUME NEW e \in EventsOf(new) PROVE e.sdk_sig \in (n + 1)..(n + Len(new))
    <3>1. PICK i \in 1..Len(new) : e = new[i].event
      BY <1>1 DEF EventsOf
    <3> QED
      BY <1>1, <3>1
  <2> QED
    BY <2>1, <2>2 DEF SigsOf
<1>3. SigsOf(old \cup EventsOf(new)) = SigsOf(old) \cup SigsOf(EventsOf(new))
  BY DEF SigsOf
<1>4. (1..n) \cup ((n + 1)..(n + Len(new))) = 1..(n + Len(new))
  <2> DEFINE m == Len(new)
  <2>1. m \in Nat
    BY <1>1
  <2> HIDE DEF m
  <2>2. (1..n) \cup ((n + 1)..(n + m)) = 1..(n + m)
    BY <2>1
  <2> QED
    BY <2>2 DEF m
<1> QED
  BY <1>2, <1>3, <1>4

----------------------------------------------------------------------------
(* A step that extends the items held.                                     *)

\* What is newly dropped is newly pending, or newly declared.
LEMMA StaysDeclared ==
  ASSUME NEW s \in SenderStats, NEW t \in SenderStats, NEW g \in Nat, NEW h \in Nat, NEW m \in Nat,
         Drops(s) = g + s.gap_events_declared + m,
         Drops(t) + g + s.gap_events_declared = Drops(s) + h + t.gap_events_declared
  PROVE  Drops(t) = h + t.gap_events_declared + m
<1>1. /\ Drops(s) \in Nat /\ s.gap_events_declared \in Nat
      /\ Drops(t) \in Nat /\ t.gap_events_declared \in Nat
  BY DropsAreNat
<1>2. ASSUME NEW a \in Nat, NEW b \in Nat, NEW c \in Nat, NEW d \in Nat,
             a = g + c + m, b + g + c = a + h + d
      PROVE  b = h + d + m
  BY <1>2
<1> QED
  BY <1>1, <1>2

\* Nothing newly lost, and every new drop pending or declared.
LEMMA LossesStayDeclared ==
  ASSUME TypeOK, TypeOK', LossesDeclared, IsFiniteSet(lost), lost' = lost,
         Drops(senderStats') + gapPendingCount + senderStats.gap_events_declared
           = Drops(senderStats) + gapPendingCount' + senderStats'.gap_events_declared
  PROVE  LossesDeclared'
<1>1. Drops(senderStats) = gapPendingCount + senderStats.gap_events_declared
                             + Cardinality(LostMarkers)
  BY Restated
<1>2. Cardinality(LostMarkers) \in Nat
  BY FS_Subset, FS_CardinalityType DEF LostMarkers
<1>3. /\ senderStats \in SenderStats /\ senderStats' \in SenderStats
      /\ gapPendingCount \in Nat /\ gapPendingCount' \in Nat
  BY DEF TypeOK
<1>4. Drops(senderStats') = gapPendingCount' + senderStats'.gap_events_declared
                              + Cardinality(LostMarkers)
  <2>1. PICK m \in Nat : m = Cardinality(LostMarkers)
    BY <1>2
  <2>2. PICK t \in SenderStats : t = senderStats'
    BY <1>3
  <2>3. PICK h \in Nat : h = gapPendingCount'
    BY <1>3
  <2>4. Drops(t) = h + t.gap_events_declared + m
    <3>1. /\ Drops(senderStats) = gapPendingCount + senderStats.gap_events_declared + m
          /\ Drops(t) + gapPendingCount + senderStats.gap_events_declared
                = Drops(senderStats) + h + t.gap_events_declared
      BY <1>1, <2>1, <2>2, <2>3
    <3> QED
      BY <1>3, <3>1, StaysDeclared
  <2> QED
    BY <2>1, <2>2, <2>3, <2>4
<1> QED
  BY <1>4 DEF LossesDeclared, Drops, LostMarkers

\* Newly signed items behind those held keep the invariant, if they find
\* room in the queue or declare an overflow.
LEMMA ExtendStep ==
  ASSUME DeliveryInv, SenderInv', TakesFront',
         NEW new \in Seq(Item), Held' = Held \o new,
         chain'.signed = chain.signed + Len(new),
         \A i \in 1..Len(new) : new[i].event.sdk_sig = chain.signed + i /\ new[i].retries = 0,
         lost' = lost, unread' = unread, recorded' = recorded,
         Drops(senderStats') + gapPendingCount + senderStats.gap_events_declared
           = Drops(senderStats) + gapPendingCount' + senderStats'.gap_events_declared,
         \/ \A i \in 1..Len(new) : new[i].event.reason = OverflowReason
         \/ Len(pendingQueue) + Len(new) <= MAX_QUEUE_SIZE
  PROVE  DeliveryInv'
<1> USE SenderAssumption DEF SenderAssumption
<1>1. TypeOK /\ TypeOK'
  BY DEF DeliveryInv, SenderInv
<1>2. /\ chain.signed \in Nat /\ Len(new) \in Nat /\ DOMAIN new = 1..Len(new)
      /\ Len(inflight) \in Nat /\ Len(pendingQueue) \in Nat
      /\ Held \in Seq(Item) /\ Len(Held) = Len(inflight) + Len(pendingQueue)
  BY <1>1, Restated, LenProperties DEF TypeOK, ChainState
<1>3. Held \o new \in Seq(Item) /\ EventsOf(Held \o new) = EventsOf(Held) \cup EventsOf(new)
  BY <1>2, ConcatProperties, ConcatEvents
<1>4. /\ \A i \in DOMAIN Held : Held[i].event.sdk_sig \in 1..chain.signed
      /\ \A e \in lost \cup unread \cup recorded : e.sdk_sig \in 1..chain.signed
  BY <1>1, HeldSigs DEF DeliveryInv
<1>5. SignOrder'
  <2>1. Sorted(Held)
    BY <1>1, Restated DEF DeliveryInv
  <2>2. Sorted(Held \o new)
    BY <1>2, <1>4, <2>1, SortedExtends
  <2>3. Sorted(Held')
    BY <2>2
  <2> QED
    BY <2>3 DEF SignOrder, Sorted, Below, Held
<1>6. NothingVanishes'
  <2>1. SigsOf(EventsOf(Held) \cup recorded \cup lost \cup unread) = 1..chain.signed
    BY <1>1, Restated DEF DeliveryInv
  <2>2. SigsOf((EventsOf(Held) \cup recorded \cup lost \cup unread) \cup EventsOf(new))
          = 1..chain.signed + Len(new)
    <3> DEFINE old == EventsOf(Held) \cup recorded \cup lost \cup unread
               n == chain.signed
    <3>1. n \in Nat /\ SigsOf(old) = 1..n /\ \A i \in 1..Len(new) : new[i].event.sdk_sig = n + i
      BY <1>2, <2>1
    <3> HIDE DEF old, n
    <3>2. SigsOf(old \cup EventsOf(new)) = 1..n + Len(new)
      BY <3>1, NewSigs
    <3> QED
      BY <3>2 DEF old, n
  <2>3. EventsOf(Held') \cup recorded' \cup lost' \cup unread'
          = (EventsOf(Held) \cup recorded \cup lost \cup unread) \cup EventsOf(new)
    BY <1>3
  <2>4. Waiting' = EventsOf(Held')
    <3>1. inflight' \in Seq(Item) /\ pendingQueue' \in Seq(Item)
      BY <1>1 DEF TypeOK
    <3>2. EventsOf(inflight' \o pendingQueue') = EventsOf(inflight') \cup EventsOf(pendingQueue')
      BY <3>1, ConcatEvents
    <3> QED
      BY <3>2 DEF Waiting, Held, EventsOf
  <2>5. unread' \cap (EventsOf(Held') \cup recorded' \cup lost') = {}
    <3>1. unread \cap (EventsOf(Held) \cup recorded \cup lost) = {}
      BY <1>1, Restated DEF DeliveryInv
    <3>2. ASSUME NEW e \in EventsOf(new) PROVE e \notin unread
      <4>1. PICK i \in 1..Len(new) : e = new[i].event
        BY <1>2 DEF EventsOf
      <4>2. e.sdk_sig = chain.signed + i
        BY <4>1
      <4> QED
        BY <1>2, <1>4, <4>2
    <3> QED
      BY <1>3, <3>1, <3>2
  <2> QED
    BY <2>2, <2>3, <2>4, <2>5 DEF NothingVanishes, SigsOf
<1>7. (EventsOf(Held) \cap lost = {} /\ IsFiniteSet(lost))'
  <2>1. ASSUME NEW e \in EventsOf(new) PROVE e \notin lost
    <3>1. PICK i \in 1..Len(new) : e = new[i].event
      BY <1>2 DEF EventsOf
    <3>2. e.sdk_sig = chain.signed + i
      BY <3>1
    <3> QED
      BY <1>2, <1>4, <3>2
  <2>2. EventsOf(Held') \cap lost = {}
    BY <1>3, <2>1 DEF DeliveryInv
  <2>3. EventsOf(Held') = EventsOf(Held)'
    BY DEF EventsOf
  <2> QED
    BY <2>2, <2>3 DEF DeliveryInv
<1>8. LossesDeclared'
  BY <1>1, LossesStayDeclared DEF DeliveryInv
<1>9. QueueBounded'
  <2>1. Cardinality(Bounded(Held)) <= MAX_QUEUE_SIZE + SEND_BATCH_SIZE
    BY <1>1, Restated DEF DeliveryInv
  <2>2. Cardinality(Bounded(Held \o new)) <= MAX_QUEUE_SIZE + SEND_BATCH_SIZE
    <3>1. /\ Len(Held \o new) = Len(Held) + Len(new)
          /\ \A i \in 1..Len(Held) + Len(new) :
               (Held \o new)[i] = IF i <= Len(Held) THEN Held[i] ELSE new[i - Len(Held)]
          /\ DOMAIN (Held \o new) = 1..Len(Held) + Len(new)
      <4>1. /\ Len(Held \o new) = Len(Held) + Len(new)
            /\ \A i \in 1..Len(Held) + Len(new) :
                 (Held \o new)[i] = IF i <= Len(Held) THEN Held[i] ELSE new[i - Len(Held)]
        BY <1>2, ConcatProperties
      <4>2. DOMAIN (Held \o new) = 1..Len(Held \o new)
        BY <1>3, LenProperties
      <4> QED
        BY <4>1, <4>2
    <3>2. CASE \A i \in 1..Len(new) : new[i].event.reason = OverflowReason
      <4>1. Bounded(Held \o new) = Bounded(Held)
        <5>1. DOMAIN Held = 1..Len(Held) /\ Len(Held) \in Nat
          BY <1>2, LenProperties
        <5>2. \A i \in 1..Len(Held) + Len(new) : ~(i <= Len(Held)) => i - Len(Held) \in 1..Len(new)
          BY <1>2, <5>1
        <5>3. \A i \in 1..Len(Held) + Len(new) :
                IF i <= Len(Held) THEN (Held \o new)[i] = Held[i]
                ELSE (Held \o new)[i].event.reason = OverflowReason
          BY <3>1, <3>2, <5>2
        <5>4. 1..Len(Held) = {i \in 1..Len(Held) + Len(new) : i <= Len(Held)}
          BY <1>2, <5>1
        <5> DEFINE b == Held \o new
        <5>5. Bounded(b) = {i \in 1..Len(Held) + Len(new) : b[i].event.reason # OverflowReason}
          BY <3>1 DEF Bounded
        <5>6. Bounded(Held) = {i \in 1..Len(Held) : Held[i].event.reason # OverflowReason}
          BY <5>1 DEF Bounded
        <5> HIDE DEF b
        <5>7. \A i : i \in Bounded(b) <=> i \in Bounded(Held)
          BY <5>3, <5>4, <5>5, <5>6 DEF b
        <5> QED
          BY <5>7 DEF b
      <4> QED
        BY <2>1, <4>1
    <3>3. CASE Len(pendingQueue) + Len(new) <= MAX_QUEUE_SIZE
      <4>1. Cardinality(Bounded(Held \o new)) <= Len(Held \o new)
            /\ Cardinality(Bounded(Held \o new)) \in Nat
        BY <1>3, BoundedFinite
      <4>2. Len(inflight) <= SEND_BATCH_SIZE
        BY DEF DeliveryInv, TakesFront
      <4> QED
        BY <1>2, <3>1, <3>3, <4>1, <4>2
    <3> QED
      BY <3>2, <3>3
  <2>3. Cardinality(Bounded(Held')) <= MAX_QUEUE_SIZE + SEND_BATCH_SIZE
    BY <2>2
  <2> QED
    BY <2>3 DEF QueueBounded, Bounded, Held
<1> QED
  BY <1>5, <1>6, <1>7, <1>8, <1>9 DEF DeliveryInv

----------------------------------------------------------------------------
(* A step that settles a request.                                          *)

\* The request is settled: kept is a selection, in order, of the items held,
\* the rest is recorded, gone or unread, and what is gone was in the request.
Settled(kept, f, gone) ==
  /\ kept \in Seq(Item)
  /\ f \in [1..Len(kept) -> 1..Len(Held)]
  /\ \A i, j \in 1..Len(kept) : i < j => f[i] < f[j] /\ kept[i].retries >= kept[j].retries
  /\ \A j \in 1..Len(kept) : kept[j].event = Held[f[j]].event
  /\ \A i \in 1..Len(Held) :
       \/ \E j \in 1..Len(kept) : f[j] = i
       \/ Held[i].event \in gone \cup recorded' \cup unread'
  /\ \A e \in gone \cup (unread' \ unread) : \E i \in 1..Len(inflight) :
       Held[i].event = e /\ \A j \in 1..Len(kept) : f[j] # i
  /\ recorded \subseteq recorded'
  /\ recorded' \subseteq recorded \cup EventsOf(Held)
  /\ lost' = lost \cup gone
  /\ unread \subseteq unread'
  /\ (unread' \ unread) \cap (gone \cup lost \cup recorded') = {}

\* What is kept is sorted, and apart from what is lost.
LEMMA KeptSorted ==
  ASSUME DeliveryInv, NEW kept, NEW f, NEW gone, Settled(kept, f, gone)
  PROVE  /\ Sorted(kept)
         /\ \A i \in DOMAIN kept : kept[i].event.sdk_sig \in 1..chain.signed
         /\ EventsOf(kept) \subseteq EventsOf(Held)
         /\ EventsOf(kept) \cap lost' = {}
         /\ unread' \cap (EventsOf(kept) \cup recorded' \cup lost') = {}
         /\ gone \subseteq EventsOf(Held)
         /\ EventsOf(kept) \cup recorded' \cup lost' \cup unread' = EventsOf(Held) \cup recorded \cup lost \cup unread
<1>1. TypeOK
  BY DEF DeliveryInv, SenderInv
<1>2. /\ Held \in Seq(Item) /\ Len(Held) \in Nat /\ DOMAIN Held = 1..Len(Held)
      /\ Sorted(Held) /\ Len(inflight) \in Nat /\ Len(inflight) <= Len(Held)
  <2>1. Len(inflight) \in Nat /\ Len(pendingQueue) \in Nat
    BY <1>1, LenProperties DEF TypeOK
  <2> QED
    BY <1>1, <2>1, Restated DEF DeliveryInv
<1>3. kept \in Seq(Item) /\ DOMAIN kept = 1..Len(kept) /\ Len(kept) \in Nat
  BY LenProperties DEF Settled
<1>4. \A j \in 1..Len(kept) : f[j] \in 1..Len(Held) /\ kept[j].event = Held[f[j]].event
  BY DEF Settled
<1>5. \A i \in DOMAIN Held : Held[i].event.sdk_sig \in 1..chain.signed
  BY <1>1, HeldSigs DEF DeliveryInv
<1>6. Sorted(kept)
  <2> SUFFICES ASSUME NEW i \in 1..Len(kept), NEW j \in 1..Len(kept), i < j
               PROVE  Below(kept[i], kept[j])
    BY <1>3 DEF Sorted
  <2>1. f[i] < f[j] /\ kept[i].retries >= kept[j].retries
    BY DEF Settled
  <2>2. Held[f[i]].event.sdk_sig < Held[f[j]].event.sdk_sig
    BY <1>2, <1>4, <2>1 DEF Sorted, Below
  <2> QED
    BY <1>4, <2>1, <2>2 DEF Below
<1>7. EventsOf(kept) \subseteq EventsOf(Held)
  BY <1>2, <1>3, <1>4 DEF EventsOf
<1>8. gone \subseteq EventsOf(Held) /\ unread' \ unread \subseteq EventsOf(Held)
  <2>1. \A e \in gone \cup (unread' \ unread) : \E i \in 1..Len(inflight) : Held[i].event = e
    BY DEF Settled
  <2>2. 1..Len(inflight) \subseteq DOMAIN Held
    BY <1>2
  <2>3. \A e \in gone \cup (unread' \ unread) : e \in EventsOf(Held)
    BY <2>1, <2>2 DEF EventsOf
  <2> QED
    BY <2>3
<1>9. ASSUME NEW e \in EventsOf(kept), e \in gone \cup (unread' \ unread) PROVE FALSE
  <2>1. PICK j \in 1..Len(kept) : e = kept[j].event
    BY <1>3 DEF EventsOf
  <2>2. PICK i \in 1..Len(inflight) :
          Held[i].event = e /\ \A k \in 1..Len(kept) : f[k] # i
    BY <1>9 DEF Settled
  <2>3. /\ i \in 1..Len(Held) /\ f[j] \in 1..Len(Held) /\ f[j] # i
        /\ Held[i].event.sdk_sig = Held[f[j]].event.sdk_sig
        /\ Held[i].event.sdk_sig \in Nat
    BY <1>2, <1>4, <1>5, <2>1, <2>2
  <2>4. CASE f[j] < i
    BY <1>2, <2>3, <2>4 DEF Sorted, Below
  <2>5. CASE i < f[j]
    BY <1>2, <2>3, <2>5 DEF Sorted, Below
  <2> QED
    BY <2>3, <2>4, <2>5
<1>10. EventsOf(kept) \cap lost' = {}
  <2>1. EventsOf(Held) \cap lost = {} /\ lost' = lost \cup gone
    BY DEF DeliveryInv, Settled
  <2> QED
    BY <1>7, <1>9, <2>1
<1>11. EventsOf(kept) \cup recorded' \cup lost' \cup unread' = EventsOf(Held) \cup recorded \cup lost \cup unread
  <2>1. ASSUME NEW e \in EventsOf(Held)
        PROVE  e \in EventsOf(kept) \cup gone \cup recorded' \cup unread'
    <3>1. PICK i \in 1..Len(Held) : e = Held[i].event
      BY <1>2 DEF EventsOf
    <3>2. CASE \E j \in 1..Len(kept) : f[j] = i
      BY <1>3, <1>4, <3>1, <3>2 DEF EventsOf
    <3>3. CASE Held[i].event \in gone \cup recorded' \cup unread'
      BY <3>1, <3>3
    <3> QED
      BY <3>2, <3>3 DEF Settled
  <2>2. /\ recorded \subseteq recorded' /\ recorded' \subseteq recorded \cup EventsOf(Held)
        /\ lost' = lost \cup gone /\ unread \subseteq unread'
    BY DEF Settled
  <2> QED
    BY <1>7, <1>8, <2>1, <2>2
<1>12. unread' \cap (EventsOf(kept) \cup recorded' \cup lost') = {}
  <2>1. unread \cap (EventsOf(Held) \cup recorded \cup lost) = {}
    BY <1>1, Restated DEF DeliveryInv
  <2>2. /\ lost' = lost \cup gone /\ recorded' \subseteq recorded \cup EventsOf(Held)
        /\ (unread' \ unread) \cap (gone \cup lost \cup recorded') = {}
    BY DEF Settled
  <2>3. unread \cap (EventsOf(kept) \cup recorded' \cup lost') = {}
    BY <1>7, <1>8, <2>1, <2>2
  <2> QED
    BY <1>9, <2>2, <2>3
<1>13. \A i \in DOMAIN kept : kept[i].event.sdk_sig \in 1..chain.signed
  BY <1>2, <1>3, <1>4, <1>5
<1> QED
  BY <1>6, <1>7, <1>8, <1>10, <1>11, <1>13, <1>12

\* The marker declareDeliveryGap appends, if it appends one.
LEMMA MarkerShape ==
  ASSUME TypeOK, NEW events, NEW dropped \in Nat, NEW reason \in DeliveryReasons
  PROVE  LET marker == MarkerAfterLoss(events, dropped, reason)
         IN /\ marker \in Seq(Item) /\ Len(marker) \in 0..1
            /\ Len(marker) = 1 <=> DeclaresLoss(events, dropped)
            /\ ChainAfterLoss(events, dropped).signed = chain.signed + Len(marker)
            /\ \A i \in 1..Len(marker) :
                 marker[i].event.sdk_sig = chain.signed + i /\ marker[i].retries = 0
<1>1. chain \in ChainState /\ chain.signed \in Nat
  BY DEF TypeOK, ChainState
<1> DEFINE item == NewItem(Signed(FreshSession(chain), dropped, reason))
<1>2. item \in Item /\ item.event.sdk_sig = chain.signed + 1 /\ item.retries = 0
  <2>1. FreshSession(chain) \in ChainState
    BY <1>1, ChainType
  <2>2. item \in Item
    BY <2>1, SignedType DEF GapReasons
  <2> QED
    BY <2>2 DEF NewItem, Signed, FreshSession
<1> HIDE DEF item
<1>3. CASE DeclaresLoss(events, dropped)
  <2>1. /\ MarkerAfterLoss(events, dropped, reason) = <<item>>
        /\ ChainAfterLoss(events, dropped) = Advanced(FreshSession(chain))
    BY <1>3 DEF MarkerAfterLoss, ChainAfterLoss, item
  <2>2. Advanced(FreshSession(chain)).signed = chain.signed + 1
    BY DEF Advanced, FreshSession
  <2>3. <<item>> \in Seq(Item) /\ Len(<<item>>) = 1 /\ <<item>>[1] = item
    BY <1>2
  <2> QED
    BY <1>2, <1>3, <2>1, <2>2, <2>3
<1>4. CASE ~DeclaresLoss(events, dropped)
  <2>1. /\ MarkerAfterLoss(events, dropped, reason) = <<>>
        /\ ChainAfterLoss(events, dropped) = chain
    BY <1>4 DEF MarkerAfterLoss, ChainAfterLoss
  <2> QED
    BY <1>1, <1>4, <2>1, EmptySeq
<1> QED
  BY <1>3, <1>4

\* No more items are held afterwards: the marker takes the place of a loss.
LEMMA SettleBounded ==
  ASSUME DeliveryInv, NEW kept, NEW f, NEW gone, Settled(kept, f, gone),
         NEW marker \in Seq(Item), Len(marker) \in 0..1,
         Len(marker) = 1 => \E e \in gone : ~IsGapMarker(e)
  PROVE  Cardinality(Bounded(kept \o marker)) <= MAX_QUEUE_SIZE + SEND_BATCH_SIZE
<1>1. TypeOK
  BY DEF DeliveryInv, SenderInv
<1>2. /\ Held \in Seq(Item) /\ Len(Held) \in Nat /\ DOMAIN Held = 1..Len(Held)
      /\ Cardinality(Bounded(Held)) <= MAX_QUEUE_SIZE + SEND_BATCH_SIZE
      /\ Len(inflight) \in Nat /\ Len(inflight) <= Len(Held)
  <2>1. Len(inflight) \in Nat /\ Len(pendingQueue) \in Nat
    BY <1>1, LenProperties DEF TypeOK
  <2> QED
    BY <1>1, <2>1, Restated DEF DeliveryInv
<1>3. /\ kept \in Seq(Item) /\ Len(kept) \in Nat /\ DOMAIN kept = 1..Len(kept)
      /\ f \in [1..Len(kept) -> 1..Len(Held)]
      /\ \A j \in 1..Len(kept) : kept[j].event = Held[f[j]].event
      /\ \A i, j \in 1..Len(kept) : i < j => f[i] < f[j]
  BY LenProperties DEF Settled
<1>4. /\ kept \o marker \in Seq(Item)
      /\ DOMAIN (kept \o marker) = 1..Len(kept) + Len(marker)
      /\ \A i \in 1..Len(kept) : (kept \o marker)[i] = kept[i]
  <2>1. /\ kept \o marker \in Seq(Item) /\ Len(kept \o marker) = Len(kept) + Len(marker)
        /\ \A i \in 1..Len(kept) + Len(marker) :
             (kept \o marker)[i] = IF i <= Len(kept) THEN kept[i] ELSE marker[i - Len(kept)]
    BY <1>3, ConcatProperties
  <2>2. DOMAIN (kept \o marker) = 1..Len(kept \o marker)
    BY <2>1, LenProperties
  <2> QED
    BY <1>3, <2>1, <2>2
<1> DEFINE B == Bounded(kept \o marker)
<1>5. IsFiniteSet(Bounded(Held)) /\ Cardinality(Bounded(Held)) \in Nat
  BY <1>2, BoundedFinite
<1>6. IsFiniteSet(B) /\ Cardinality(B) \in Nat
  BY <1>4, BoundedFinite
<1>7. \A j \in B : /\ j \in 1..Len(kept) + Len(marker)
                   /\ j <= Len(kept) => f[j] \in Bounded(Held) /\ j \in 1..Len(kept)
  <2> SUFFICES ASSUME NEW j \in B
               PROVE  /\ j \in 1..Len(kept) + Len(marker)
                      /\ j <= Len(kept) => f[j] \in Bounded(Held) /\ j \in 1..Len(kept)
    OBVIOUS
  <2>1. j \in 1..Len(kept) + Len(marker) /\ (kept \o marker)[j].event.reason # OverflowReason
    BY <1>4 DEF Bounded
  <2>2. ASSUME j <= Len(kept) PROVE f[j] \in Bounded(Held) /\ j \in 1..Len(kept)
    <3>1. j \in 1..Len(kept) /\ (kept \o marker)[j] = kept[j]
      BY <1>3, <1>4, <2>1, <2>2
    <3>2. f[j] \in 1..Len(Held) /\ kept[j].event = Held[f[j]].event
      BY <1>3, <3>1
    <3> QED
      BY <1>2, <2>1, <3>1, <3>2 DEF Bounded
  <2> QED
    BY <2>1, <2>2
<1>8. \A i, j \in 1..Len(kept) : i # j => f[i] # f[j]
  <2> SUFFICES ASSUME NEW i \in 1..Len(kept), NEW j \in 1..Len(kept), i # j PROVE f[i] # f[j]
    OBVIOUS
  <2>1. f[i] \in Nat /\ f[j] \in Nat
    <3>1. f[i] \in 1..Len(Held) /\ f[j] \in 1..Len(Held)
      BY <1>3
    <3> QED
      BY <1>2, <3>1
  <2>2. (i < j => f[i] < f[j]) /\ (j < i => f[j] < f[i])
    BY <1>3
  <2> QED
    BY <1>3, <2>1, <2>2
<1> HIDE DEF B
<1>9. ASSUME NEW g \in Injection(B, Bounded(Held))
      PROVE  Cardinality(B) <= MAX_QUEUE_SIZE + SEND_BATCH_SIZE
  <2>1. Cardinality(B) <= Cardinality(Bounded(Held))
    BY <1>5, FS_Injection
  <2>2. MAX_QUEUE_SIZE \in Nat /\ SEND_BATCH_SIZE \in Nat
    BY SenderAssumption DEF SenderAssumption
  <2> QED
    BY <1>2, <1>5, <1>6, <2>1, <2>2
<1>10. CASE Len(marker) = 0
  <2> DEFINE g == [j \in B |-> f[j]]
  <2>1. \A j \in B : j \in 1..Len(kept) /\ f[j] \in Bounded(Held)
    BY <1>3, <1>7, <1>10
  <2>2. g \in Injection(B, Bounded(Held))
    BY <1>8, <2>1 DEF Injection, IsInjective
  <2> QED
    BY <1>9, <2>2 DEF B
<1>11. CASE Len(marker) = 1
  <2>1. PICK e \in gone : ~IsGapMarker(e)
    BY <1>11
  <2>2. PICK p \in 1..Len(inflight) :
          Held[p].event = e /\ \A j \in 1..Len(kept) : f[j] # p
    BY DEF Settled
  <2>3. p \in Bounded(Held)
    <3>1. Held[p].event.reason = "none"
      BY <2>1, <2>2 DEF IsGapMarker
    <3> QED
      BY <1>2, <2>2, <3>1 DEF Bounded, OverflowReason
  <2> DEFINE g == [j \in B |-> IF j <= Len(kept) THEN f[j] ELSE p]
  <2>4. g \in [B -> Bounded(Held)]
    BY <1>7, <2>3
  <2>5. ASSUME NEW i \in B, NEW j \in B, g[i] = g[j] PROVE i = j
    <3>1. CASE i <= Len(kept) /\ j <= Len(kept)
      <4>1. i \in 1..Len(kept) /\ j \in 1..Len(kept) /\ f[i] = f[j]
        BY <1>7, <2>5, <3>1
      <4> QED
        BY <1>8, <4>1
    <3>2. CASE i <= Len(kept) /\ ~(j <= Len(kept))
      <4>1. i \in 1..Len(kept) /\ f[i] = p
        BY <1>7, <2>5, <3>2
      <4> QED
        BY <2>2, <4>1
    <3>3. CASE ~(i <= Len(kept)) /\ j <= Len(kept)
      <4>1. j \in 1..Len(kept) /\ f[j] = p
        BY <1>7, <2>5, <3>3
      <4> QED
        BY <2>2, <4>1
    <3>4. CASE ~(i <= Len(kept)) /\ ~(j <= Len(kept))
      BY <1>3, <1>7, <1>11, <3>4
    <3> QED
      BY <3>1, <3>2, <3>3, <3>4
  <2> HIDE DEF g
  <2>6. g \in Injection(B, Bounded(Held))
    BY <2>4, <2>5 DEF Injection, IsInjective
  <2> QED
    BY <1>9, <2>6 DEF B
<1> QED
  BY <1>10, <1>11

\* The losses of the request are declared, unless a marker was lost: a marker
\* travels alone, so that nothing else was.
LEMMA SettleDeclared ==
  ASSUME DeliveryInv, TypeOK', NEW events, NEW gone, NEW stats \in SenderStats,
         NEW dropped \in 0..Len(inflight),
         gone \subseteq events, events \subseteq EventsOf(inflight), dropped = 0 <=> gone = {},
         Drops(stats) = Drops(senderStats) + dropped,
         stats.gap_events_declared = senderStats.gap_events_declared,
         senderStats' = StatsAfterLoss(stats, events, dropped),
         gapPendingCount' = gapPendingCount, lost' = lost \cup gone
  PROVE  LossesDeclared'
<1>1. TypeOK /\ TakesFront /\ EventsOf(Held) \cap lost = {} /\ IsFiniteSet(lost)
      /\ LossesDeclared
  BY DEF DeliveryInv, SenderInv
<1>2. /\ Len(inflight) \in Nat /\ DOMAIN inflight = 1..Len(inflight) /\ dropped \in Nat
      /\ gapPendingCount \in Nat /\ EventsOf(inflight) \subseteq EventsOf(Held)
      /\ senderStats \in SenderStats
  BY <1>1, LenProperties, ConcatEvents DEF TypeOK, Held
<1> DEFINE m == Cardinality(LostMarkers)
           declared == senderStats.gap_events_declared
<1>3. /\ m \in Nat /\ declared \in Nat /\ IsFiniteSet(LostMarkers)
      /\ Drops(senderStats) = gapPendingCount + declared + m
  <2>1. LostMarkers \subseteq lost
    BY DEF LostMarkers
  <2>2. IsFiniteSet(LostMarkers) /\ m \in Nat
    BY <1>1, <2>1, FS_Subset, FS_CardinalityType
  <2> QED
    BY <1>1, <1>2, <2>2, Restated, StatsAreNat
<1> SUFFICES Drops(senderStats') = gapPendingCount' + senderStats'.gap_events_declared
                                     + Cardinality(LostMarkers')
  BY DEF LossesDeclared, Drops, LostMarkers
<1>4. LostMarkers' = LostMarkers \cup {e \in gone : IsGapMarker(e)}
  BY DEF LostMarkers
<1>5. CASE DeclaresLoss(events, dropped)
  <2>1. LostMarkers' = LostMarkers
    BY <1>4, <1>5 DEF DeclaresLoss
  <2>2. Drops(senderStats') = Drops(stats)
        /\ senderStats'.gap_events_declared = declared + dropped
    <3> DEFINE added == [enqueued |-> 1, gap_markers |-> 1, gap_events_declared |-> dropped]
    <3>1. senderStats' = Count(stats, added)
      BY <1>5 DEF StatsAfterLoss
    <3>2. DOMAIN added \subseteq Counters /\ \A k \in DOMAIN added : added[k] \in Nat
      BY <1>2 DEF Counters
    <3>3. \A k \in Counters :
            senderStats'[k] = IF k \in DOMAIN added THEN stats[k] + added[k] ELSE stats[k]
      BY <3>1, <3>2, CountLemma
    <3>4. DOMAIN added = {"enqueued", "gap_markers", "gap_events_declared"}
          /\ added["gap_events_declared"] = dropped
      OBVIOUS
    <3> HIDE DEF added
    <3>5. /\ senderStats'.dropped_overflow = stats.dropped_overflow
          /\ senderStats'.dropped_rejected = stats.dropped_rejected
          /\ senderStats'.dropped_permanent = stats.dropped_permanent
          /\ senderStats'.dropped_retry_exhausted = stats.dropped_retry_exhausted
          /\ senderStats'.gap_events_declared = stats.gap_events_declared + dropped
      BY <3>3, <3>4 DEF Counters
    <3> QED
      BY <3>5 DEF Drops
  <2> QED
    BY <1>2, <1>3, <2>1, <2>2
<1>6. CASE ~DeclaresLoss(events, dropped)
  <2>1. senderStats' = stats
    BY <1>6 DEF StatsAfterLoss
  <2>2. CASE dropped = 0
    <3>1. LostMarkers' = LostMarkers
      BY <1>4, <2>2
    <3> QED
      BY <1>2, <1>3, <2>1, <2>2, <3>1
  <2>3. CASE dropped # 0
    <3>1. PICK e \in events : IsGapMarker(e)
      BY <1>2, <1>6, <2>3 DEF DeclaresLoss
    <3>2. PICK i \in DOMAIN inflight : inflight[i].event = e
      BY <3>1 DEF EventsOf
    <3>3. Len(inflight) = 1 /\ i = 1
      BY <1>1, <1>2, <3>1, <3>2 DEF TakesFront
    <3>4. EventsOf(inflight) = {e} /\ dropped = 1 /\ gone = {e}
      BY <1>2, <2>3, <3>2, <3>3 DEF EventsOf
    <3>5. LostMarkers' = LostMarkers \cup {e} /\ e \notin LostMarkers
      BY <1>1, <1>2, <1>4, <3>1, <3>4 DEF LostMarkers
    <3>6. Cardinality(LostMarkers') = m + 1
      BY <1>3, <3>5, FS_AddElement
    <3> QED
      BY <1>2, <1>3, <2>1, <3>4, <3>6
  <2> QED
    BY <2>2, <2>3
<1> QED
  BY <1>5, <1>6

\* A settled request keeps the invariant, with the marker for what is gone.
LEMMA SettleStep ==
  ASSUME DeliveryInv, SenderInv', TakesFront',
         NEW kept, NEW f, NEW gone, Settled(kept, f, gone),
         NEW events, NEW dropped \in 0..Len(inflight), NEW reason \in DeliveryReasons,
         NEW stats \in SenderStats,
         gone \subseteq events, events \subseteq EventsOf(inflight), dropped = 0 <=> gone = {},
         Drops(stats) = Drops(senderStats) + dropped,
         stats.gap_events_declared = senderStats.gap_events_declared,
         senderStats' = StatsAfterLoss(stats, events, dropped),
         chain' = ChainAfterLoss(events, dropped),
         gapPendingCount' = gapPendingCount,
         Held' = kept \o MarkerAfterLoss(events, dropped, reason)
  PROVE  DeliveryInv'
<1> DEFINE marker == MarkerAfterLoss(events, dropped, reason)
<1>1. /\ TypeOK /\ TypeOK' /\ lost' = lost \cup gone
      /\ chain.signed \in Nat /\ dropped \in Nat
      /\ \A e \in lost \cup unread \cup recorded : e.sdk_sig \in 1..chain.signed
  <2>1. /\ TypeOK /\ TypeOK' /\ lost' = lost \cup gone
        /\ NothingVanishes
    BY DEF DeliveryInv, SenderInv, Settled
  <2> QED
    BY <2>1, HeldSigs DEF TypeOK, ChainState
<1>2. /\ marker \in Seq(Item) /\ Len(marker) \in 0..1
      /\ Len(marker) = 1 <=> DeclaresLoss(events, dropped)
      /\ chain'.signed = chain.signed + Len(marker)
      /\ \A i \in 1..Len(marker) :
           marker[i].event.sdk_sig = chain.signed + i /\ marker[i].retries = 0
  BY <1>1, MarkerShape
<1>3. Len(marker) = 1 => \E e \in gone : ~IsGapMarker(e)
  BY <1>2 DEF DeclaresLoss
<1>4. Held' = kept \o marker
  OBVIOUS
<1> HIDE DEF marker
<1>5. kept \in Seq(Item)
  BY DEF Settled
<1>6. /\ Sorted(kept)
      /\ \A i \in DOMAIN kept : kept[i].event.sdk_sig \in 1..chain.signed
      /\ EventsOf(kept) \subseteq EventsOf(Held)
      /\ EventsOf(kept) \cap lost' = {}
      /\ unread' \cap (EventsOf(kept) \cup recorded' \cup lost') = {}
      /\ unread' \subseteq EventsOf(Held) \cup recorded \cup lost \cup unread
      /\ gone \subseteq EventsOf(Held)
      /\ EventsOf(kept) \cup recorded' \cup lost' \cup unread' = EventsOf(Held) \cup recorded \cup lost \cup unread
  BY KeptSorted
<1>apart. ASSUME NEW e \in EventsOf(marker) PROVE e \notin lost' \cup unread'
  <2>1. PICK i \in 1..Len(marker) : e = marker[i].event
    BY <1>2, LenProperties DEF EventsOf
  <2>2. e.sdk_sig > chain.signed
    BY <1>1, <1>2, <2>1
  <2>3. \A x \in EventsOf(Held) : x.sdk_sig \in 1..chain.signed
    BY <1>1, HeldSigs DEF DeliveryInv, EventsOf
  <2> QED
    BY <1>1, <1>6, <2>2, <2>3
<1>7. EventsOf(kept \o marker) = EventsOf(kept) \cup EventsOf(marker)
  BY <1>2, <1>5, ConcatEvents
<1>8. SignOrder'
  <2>1. Sorted(kept \o marker)
    BY <1>1, <1>2, <1>5, <1>6, SortedExtends
  <2>2. Sorted(Held')
    BY <1>4, <2>1
  <2> QED
    BY <2>2 DEF SignOrder, Sorted, Below, Held
<1>9. NothingVanishes'
  <2>1. SigsOf(EventsOf(Held) \cup recorded \cup lost \cup unread) = 1..chain.signed
    BY <1>1, Restated DEF DeliveryInv
  <2>2. SigsOf((EventsOf(Held) \cup recorded \cup lost \cup unread) \cup EventsOf(marker))
          = 1..chain'.signed
    <3> DEFINE old == EventsOf(Held) \cup recorded \cup lost \cup unread
               n == chain.signed
    <3>1. /\ n \in Nat /\ SigsOf(old) = 1..n /\ marker \in Seq(Item)
          /\ \A i \in 1..Len(marker) : marker[i].event.sdk_sig = n + i
      BY <1>1, <1>2, <2>1
    <3> HIDE DEF old, n
    <3>2. SigsOf(old \cup EventsOf(marker)) = 1..n + Len(marker)
      BY <3>1, NewSigs
    <3> QED
      BY <1>2, <3>2 DEF old, n
  <2>3. EventsOf(Held') \cup recorded' \cup lost' \cup unread'
          = (EventsOf(Held) \cup recorded \cup lost \cup unread) \cup EventsOf(marker)
    BY <1>4, <1>6, <1>7
  <2>4. Waiting' = EventsOf(Held')
    <3>1. inflight' \in Seq(Item) /\ pendingQueue' \in Seq(Item)
      BY <1>1 DEF TypeOK
    <3>2. EventsOf(inflight' \o pendingQueue') = EventsOf(inflight') \cup EventsOf(pendingQueue')
      BY <3>1, ConcatEvents
    <3> QED
      BY <3>2 DEF Waiting, Held, EventsOf
  <2>5. unread' \cap (EventsOf(Held') \cup recorded' \cup lost') = {}
    BY <1>4, <1>6, <1>7, <1>apart
  <2> QED
    BY <2>2, <2>3, <2>4, <2>5 DEF NothingVanishes, SigsOf
<1>10. (EventsOf(Held) \cap lost = {} /\ IsFiniteSet(lost))'
  <2>2. EventsOf(Held') \cap lost' = {}
    BY <1>4, <1>6, <1>7, <1>apart
  <2>3. IsFiniteSet(lost')
    <3>1. IsFiniteSet(lost) /\ IsFiniteSet(EventsOf(Held))
      BY <1>1, Restated, EventsOfType DEF DeliveryInv
    <3>2. IsFiniteSet(gone)
      BY <1>6, <3>1, FS_Subset
    <3> QED
      BY <1>1, <3>1, <3>2, FS_Union
  <2>4. EventsOf(Held') = EventsOf(Held)'
    BY DEF EventsOf
  <2> QED
    BY <2>2, <2>3, <2>4
<1>11. LossesDeclared'
  BY <1>1, SettleDeclared
<1>12. QueueBounded'
  <2>1. Cardinality(Bounded(kept \o marker)) <= MAX_QUEUE_SIZE + SEND_BATCH_SIZE
    BY <1>2, <1>3, SettleBounded
  <2>2. Cardinality(Bounded(Held')) <= MAX_QUEUE_SIZE + SEND_BATCH_SIZE
    BY <1>4, <2>1
  <2> QED
    BY <2>2 DEF QueueBounded, Bounded, Held
<1> QED
  BY <1>8, <1>9, <1>10, <1>11, <1>12 DEF DeliveryInv

----------------------------------------------------------------------------
(* The steps of the application and of the timer.                          *)

\* A step that changes nothing but where the items held are.
LEMMA SameHeld ==
  ASSUME DeliveryInv, SenderInv', TakesFront', Held' = Held,
         chain'.signed = chain.signed, lost' = lost, unread' = unread, recorded' = recorded,
         Drops(senderStats') + gapPendingCount + senderStats.gap_events_declared
           = Drops(senderStats) + gapPendingCount' + senderStats'.gap_events_declared
  PROVE  DeliveryInv'
<1>1. <<>> \in Seq(Item) /\ Len(<<>>) = 0 /\ 1..Len(<<>>) = {}
  BY EmptySeq
<1>2. Held \in Seq(Item) /\ Held \o <<>> = Held /\ chain.signed \in Nat
  BY <1>1, Restated, ConcatEmptySeq DEF DeliveryInv, SenderInv, TypeOK, ChainState
<1> DEFINE new == <<>>
<1>3. /\ new \in Seq(Item) /\ Held' = Held \o new /\ chain'.signed = chain.signed + Len(new)
      /\ \A i \in 1..Len(new) : new[i].event.sdk_sig = chain.signed + i /\ new[i].retries = 0
      /\ \A i \in 1..Len(new) : new[i].event.reason = OverflowReason
  BY <1>1, <1>2
<1> HIDE DEF new
<1> QED
  BY <1>3, ExtendStep

\* What adding to some counters does to the sum of the drop counters.
LEMMA DropsAdd ==
  ASSUME NEW stats \in SenderStats, NEW added, DOMAIN added \subseteq Counters,
         \A k \in DOMAIN added : added[k] \in Nat
  PROVE  /\ Count(stats, added) \in SenderStats
         /\ Drops(Count(stats, added))
              = Drops(stats) + Added(added, "dropped_overflow") + Added(added, "dropped_rejected")
                  + Added(added, "dropped_permanent") + Added(added, "dropped_retry_exhausted")
         /\ Count(stats, added).gap_events_declared
              = stats.gap_events_declared + Added(added, "gap_events_declared")
<1> DEFINE after == Count(stats, added)
           d(c) == Added(added, c)
<1>1. /\ after \in SenderStats
      /\ \A c \in Counters : after[c] = stats[c] + d(c) /\ d(c) \in Nat /\ stats[c] \in Nat
  BY CountLemma DEF Added, SenderStats
<1> HIDE DEF after, d
<1>2. /\ after.dropped_overflow = stats.dropped_overflow + d("dropped_overflow")
      /\ after.dropped_rejected = stats.dropped_rejected + d("dropped_rejected")
      /\ after.dropped_permanent = stats.dropped_permanent + d("dropped_permanent")
      /\ after.dropped_retry_exhausted = stats.dropped_retry_exhausted + d("dropped_retry_exhausted")
      /\ after.gap_events_declared = stats.gap_events_declared + d("gap_events_declared")
  BY <1>1 DEF Counters
<1>3. /\ stats.dropped_overflow \in Nat /\ d("dropped_overflow") \in Nat
      /\ stats.dropped_rejected \in Nat /\ d("dropped_rejected") \in Nat
      /\ stats.dropped_permanent \in Nat /\ d("dropped_permanent") \in Nat
      /\ stats.dropped_retry_exhausted \in Nat /\ d("dropped_retry_exhausted") \in Nat
  BY <1>1 DEF Counters
<1>4. Drops(after) = Drops(stats) + d("dropped_overflow") + d("dropped_rejected")
                       + d("dropped_permanent") + d("dropped_retry_exhausted")
  BY <1>2, <1>3 DEF Drops
<1> QED
  BY <1>1, <1>2, <1>4 DEF after, d

\* An item appended to the queue, and the rest the turn appends after it.
LEMMA KickAppend ==
  ASSUME TypeOK, ProcessorAwake, TakesFront, NEW item \in Item, NEW rest \in Seq(Item),
         Kick(Append(pendingQueue, item), rest)
  PROVE  Held' = Held \o (<<item>> \o rest) /\ TakesFront'
<1>1. inflight \in Seq(Item) /\ pendingQueue \in Seq(Item) /\ <<item>> \in Seq(Item)
  BY OneItemType DEF TypeOK
<1> DEFINE q == Append(pendingQueue, item)
           new == <<item>>
<1>2. q \in Seq(Item) /\ q = pendingQueue \o new
  BY <1>1, AppendProperties, AppendIsConcat
<1>3. Held' = (inflight \o q) \o rest /\ TakesFront'
  BY <1>2, KickHeld
<1>4. new \in Seq(Item)
  BY <1>1
<1> HIDE DEF q, new
<1>5. inflight \o (pendingQueue \o new) = (inflight \o pendingQueue) \o new
  BY <1>1, <1>4, ConcatAssociative
<1>6. Held \in Seq(Item) /\ inflight \o q = Held \o new
  BY <1>1, <1>2, <1>5, ConcatProperties DEF Held
<1>7. (Held \o new) \o rest = Held \o (new \o rest)
  BY <1>4, <1>6, ConcatAssociative
<1> QED
  BY <1>3, <1>6, <1>7 DEF new

\* An event dropped on overflow is pending declaration.
LEMMA OverflowKeeps == DeliveryInv /\ SenderInv' /\ DropOnOverflow => DeliveryInv'
<1> SUFFICES ASSUME DeliveryInv, SenderInv', DropOnOverflow PROVE DeliveryInv'
  OBVIOUS
<1> DEFINE added == [dropped_overflow |-> 1]
<1>1. /\ senderStats \in SenderStats /\ gapPendingCount \in Nat /\ TakesFront
      /\ gapPendingCount' = gapPendingCount + 1 /\ senderStats' = Count(senderStats, added)
      /\ UNCHANGED <<pendingQueue, inflight, chain, lost, unread, recorded>>
  BY DEF DeliveryInv, SenderInv, TypeOK, DropOnOverflow
<1>2. Held' = Held /\ TakesFront'
  BY <1>1 DEF Held, TakesFront
<1>3. DOMAIN added \subseteq Counters /\ \A k \in DOMAIN added : added[k] \in Nat
  BY DEF Counters
<1>4. /\ Added(added, "dropped_overflow") = 1 /\ Added(added, "dropped_rejected") = 0
      /\ Added(added, "dropped_permanent") = 0 /\ Added(added, "dropped_retry_exhausted") = 0
      /\ Added(added, "gap_events_declared") = 0
  BY DEF Added
<1> HIDE DEF added
<1>5. /\ Drops(senderStats') = Drops(senderStats) + 1
      /\ senderStats'.gap_events_declared = senderStats.gap_events_declared
  BY <1>1, <1>3, <1>4, DropsAdd, DropsAreNat
<1>6. Drops(senderStats) \in Nat /\ senderStats.gap_events_declared \in Nat
  BY <1>1, DropsAreNat
<1>7. Drops(senderStats') + gapPendingCount + senderStats.gap_events_declared
        = Drops(senderStats) + gapPendingCount' + senderStats'.gap_events_declared
  BY <1>1, <1>5, <1>6
<1> QED
  BY <1>1, <1>2, <1>7, SameHeld

\* An event signed goes behind the items held.
LEMMA EnqueueKeeps == DeliveryInv /\ SenderInv' /\ Enqueue => DeliveryInv'
<1> SUFFICES ASSUME DeliveryInv, SenderInv', Enqueue PROVE DeliveryInv'
  OBVIOUS
<1> USE SenderAssumption DEF SenderAssumption
<1> DEFINE added == [enqueued |-> 1]
           item == NewItem(Signed(chain, 0, "none"))
<1>1. /\ TypeOK /\ ProcessorAwake /\ TakesFront
      /\ Kick(Append(pendingQueue, item), <<>>)
      /\ chain' = Advanced(chain) /\ ~QueueFull
      /\ senderStats' = Count(senderStats, added) /\ gapPendingCount' = gapPendingCount
      /\ lost' = lost /\ unread' = unread /\ recorded' = recorded
  BY DEF DeliveryInv, SenderInv, Enqueue
<1>2. /\ senderStats \in SenderStats /\ gapPendingCount \in Nat /\ chain \in ChainState
      /\ Len(pendingQueue) \in Nat /\ chain.signed \in Nat
  BY <1>1, LenProperties DEF TypeOK, ChainState
<1>3. /\ item \in Item /\ item.event.sdk_sig = chain.signed + 1 /\ item.retries = 0
      /\ chain'.signed = chain.signed + 1
  BY <1>1, <1>2, SignedType DEF NewItem, Signed, Advanced
<1>4. DOMAIN added \subseteq Counters /\ \A k \in DOMAIN added : added[k] \in Nat
  BY DEF Counters
<1>5. /\ Added(added, "dropped_overflow") = 0 /\ Added(added, "dropped_rejected") = 0
      /\ Added(added, "dropped_permanent") = 0 /\ Added(added, "dropped_retry_exhausted") = 0
      /\ Added(added, "gap_events_declared") = 0
  BY DEF Added
<1> HIDE DEF added, item
<1>6. /\ Drops(senderStats') = Drops(senderStats)
      /\ senderStats'.gap_events_declared = senderStats.gap_events_declared
  BY <1>1, <1>2, <1>4, <1>5, DropsAdd, DropsAreNat
<1> DEFINE new == <<item>>
<1>7. Held' = Held \o new /\ TakesFront'
  <2>1. Held' = Held \o (<<item>> \o <<>>) /\ TakesFront'
    BY <1>1, <1>3, EmptySeq, KickAppend
  <2>2. <<item>> \in Seq(Item)
    BY <1>3, OneItemType
  <2> QED
    BY <2>1, <2>2, ConcatEmptySeq
<1>8. /\ new \in Seq(Item) /\ Len(new) = 1
      /\ \A i \in 1..Len(new) : new[i].event.sdk_sig = chain.signed + i /\ new[i].retries = 0
  BY <1>3, OneItemType
<1> HIDE DEF new
<1>9. Len(pendingQueue) + Len(new) <= MAX_QUEUE_SIZE
  BY <1>1, <1>2, <1>8 DEF QueueFull
<1>10. /\ chain'.signed = chain.signed + Len(new)
       /\ Drops(senderStats') + gapPendingCount + senderStats.gap_events_declared
            = Drops(senderStats) + gapPendingCount' + senderStats'.gap_events_declared
  BY <1>1, <1>3, <1>6, <1>8
<1> QED
  BY <1>1, <1>7, <1>8, <1>9, <1>10, ExtendStep

\* A gap that has ended is declared in front of the event that ends it.
LEMMA EnqueueAfterGapKeeps == DeliveryInv /\ SenderInv' /\ EnqueueAfterGap => DeliveryInv'
<1> SUFFICES ASSUME DeliveryInv, SenderInv', EnqueueAfterGap PROVE DeliveryInv'
  OBVIOUS
<1> USE SenderAssumption DEF SenderAssumption
<1> DEFINE added == [enqueued |-> 2, gap_markers |-> 1, gap_events_declared |-> gapPendingCount]
           marker == NewItem(Signed(chain, gapPendingCount, OverflowReason))
           item == NewItem(Signed(Advanced(chain), 0, "none"))
<1>1. /\ TypeOK /\ ProcessorAwake /\ TakesFront /\ DeclaresPendingGap
      /\ Kick(Append(pendingQueue, marker), <<item>>)
      /\ chain' = Advanced(Advanced(chain))
      /\ senderStats' = Count(senderStats, added) /\ gapPendingCount' = 0
      /\ lost' = lost /\ unread' = unread /\ recorded' = recorded
  BY DEF DeliveryInv, SenderInv, EnqueueAfterGap
<1>2. /\ senderStats \in SenderStats /\ gapPendingCount \in Nat /\ chain \in ChainState
      /\ Len(pendingQueue) \in Nat /\ chain.signed \in Nat
  BY <1>1, LenProperties DEF TypeOK, ChainState
<1>3. /\ marker \in Item /\ marker.event.sdk_sig = chain.signed + 1 /\ marker.retries = 0
      /\ item \in Item /\ item.event.sdk_sig = chain.signed + 2 /\ item.retries = 0
      /\ chain'.signed = chain.signed + 2
  <2>1. Advanced(chain) \in ChainState /\ Advanced(chain).signed = chain.signed + 1
    BY <1>2, ChainType DEF Advanced
  <2>2. marker \in Item /\ item \in Item
    BY <1>2, <2>1, SignedType DEF GapReasons
  <2> QED
    BY <1>1, <1>2, <2>1, <2>2 DEF NewItem, Signed, Advanced
<1>4. DOMAIN added \subseteq Counters /\ \A k \in DOMAIN added : added[k] \in Nat
  BY <1>2 DEF Counters
<1>5. /\ Added(added, "dropped_overflow") = 0 /\ Added(added, "dropped_rejected") = 0
      /\ Added(added, "dropped_permanent") = 0 /\ Added(added, "dropped_retry_exhausted") = 0
      /\ Added(added, "gap_events_declared") = gapPendingCount
  BY DEF Added
<1> HIDE DEF added, item, marker
<1>6. /\ Drops(senderStats') = Drops(senderStats)
      /\ senderStats'.gap_events_declared = senderStats.gap_events_declared + gapPendingCount
  BY <1>1, <1>2, <1>4, <1>5, DropsAdd, DropsAreNat
<1> DEFINE new == <<marker>> \o <<item>>
<1>7. Held' = Held \o new /\ TakesFront'
  BY <1>1, <1>3, OneItemType, KickAppend
<1>8. /\ new \in Seq(Item) /\ Len(new) = 2
      /\ \A i \in 1..Len(new) : new[i].event.sdk_sig = chain.signed + i /\ new[i].retries = 0
  <2>1. <<marker>> \in Seq(Item) /\ <<item>> \in Seq(Item) /\ Len(<<marker>>) = 1
        /\ Len(<<item>>) = 1
    BY <1>3, OneItemType
  <2>2. /\ new \in Seq(Item) /\ Len(new) = 1 + 1
        /\ \A i \in 1..1 + 1 : new[i] = IF i <= 1 THEN <<marker>>[i] ELSE <<item>>[i - 1]
    BY <2>1, ConcatProperties
  <2>3. new[1] = marker /\ new[2] = item
    BY <2>2
  <2> QED
    BY <1>3, <2>2, <2>3
<1> HIDE DEF new
<1>9. Len(pendingQueue) + Len(new) <= MAX_QUEUE_SIZE
  BY <1>1, <1>2, <1>8 DEF DeclaresPendingGap
<1>10. /\ chain'.signed = chain.signed + Len(new)
       /\ Drops(senderStats') + gapPendingCount + senderStats.gap_events_declared
            = Drops(senderStats) + gapPendingCount' + senderStats'.gap_events_declared
  <2>1. Drops(senderStats) \in Nat /\ senderStats.gap_events_declared \in Nat
    BY <1>2, DropsAreNat
  <2> QED
    BY <1>1, <1>2, <1>3, <1>6, <1>8, <2>1
<1> QED
  BY <1>1, <1>7, <1>8, <1>9, <1>10, ExtendStep

\* A flush declares the pending gap, whatever the room.
LEMMA FlushKeeps == DeliveryInv /\ SenderInv' /\ FlushQueue => DeliveryInv'
<1> SUFFICES ASSUME DeliveryInv, SenderInv', FlushQueue PROVE DeliveryInv'
  OBVIOUS
<1>1. /\ TypeOK /\ ProcessorAwake /\ TakesFront /\ lost' = lost /\ unread' = unread /\ recorded' = recorded
  BY DEF DeliveryInv, SenderInv, FlushQueue
<1>2. /\ senderStats \in SenderStats /\ gapPendingCount \in Nat /\ chain \in ChainState
      /\ Len(pendingQueue) \in Nat /\ chain.signed \in Nat
      /\ pendingQueue \in Seq(Item) /\ Held \in Seq(Item)
  BY <1>1, Restated, LenProperties DEF TypeOK, ChainState
<1>3. CASE gapPendingCount = 0
  <2>1. /\ Kick(pendingQueue, <<>>)
        /\ UNCHANGED <<chain, gapPendingCount, senderStats>>
    BY <1>3 DEF FlushQueue
  <2>2. Held' = Held \o <<>> /\ TakesFront'
    BY <1>1, <1>2, <2>1, EmptySeq, KickHeld DEF Held
  <2>3. Held' = Held
    BY <1>2, <2>2, ConcatEmptySeq
  <2> QED
    BY <1>1, <2>1, <2>2, <2>3, SameHeld
<1>4. CASE gapPendingCount # 0
  <2> DEFINE added == [enqueued |-> 1, gap_markers |-> 1, gap_events_declared |-> gapPendingCount]
             item == NewItem(Signed(chain, gapPendingCount, OverflowReason))
  <2>1. /\ Kick(Append(pendingQueue, item), <<>>)
        /\ chain' = Advanced(chain) /\ gapPendingCount' = 0
        /\ senderStats' = Count(senderStats, added)
    BY <1>4 DEF FlushQueue
  <2>2. /\ item \in Item /\ item.event.sdk_sig = chain.signed + 1 /\ item.retries = 0
        /\ item.event.reason = OverflowReason /\ chain'.signed = chain.signed + 1
    <3>1. item \in Item
      BY <1>2, SignedType DEF GapReasons
    <3> QED
      BY <1>2, <2>1, <3>1 DEF NewItem, Signed, Advanced
  <2>3. DOMAIN added \subseteq Counters /\ \A k \in DOMAIN added : added[k] \in Nat
    BY <1>2 DEF Counters
  <2>4. /\ Added(added, "dropped_overflow") = 0 /\ Added(added, "dropped_rejected") = 0
        /\ Added(added, "dropped_permanent") = 0 /\ Added(added, "dropped_retry_exhausted") = 0
        /\ Added(added, "gap_events_declared") = gapPendingCount
    BY DEF Added
  <2> HIDE DEF added, item
  <2>5. /\ Drops(senderStats') = Drops(senderStats)
        /\ senderStats'.gap_events_declared = senderStats.gap_events_declared + gapPendingCount
    BY <1>2, <2>1, <2>3, <2>4, DropsAdd, DropsAreNat
  <2> DEFINE new == <<item>>
  <2>6. Held' = Held \o new /\ TakesFront'
    <3>1. Held' = Held \o (<<item>> \o <<>>) /\ TakesFront'
      BY <1>1, <2>1, <2>2, EmptySeq, KickAppend
    <3>2. <<item>> \in Seq(Item)
      BY <2>2, OneItemType
    <3> QED
      BY <3>1, <3>2, ConcatEmptySeq
  <2>7. /\ new \in Seq(Item) /\ Len(new) = 1
        /\ \A i \in 1..Len(new) : new[i].event.sdk_sig = chain.signed + i /\ new[i].retries = 0
        /\ \A i \in 1..Len(new) : new[i].event.reason = OverflowReason
    BY <2>2, OneItemType
  <2> HIDE DEF new
  <2>8. /\ chain'.signed = chain.signed + Len(new)
        /\ Drops(senderStats') + gapPendingCount + senderStats.gap_events_declared
             = Drops(senderStats) + gapPendingCount' + senderStats'.gap_events_declared
    <3>1. Drops(senderStats) \in Nat /\ senderStats.gap_events_declared \in Nat
      BY <1>2, DropsAreNat
    <3> QED
      BY <1>2, <2>1, <2>2, <2>5, <2>7, <3>1
  <2> QED
    BY <1>1, <2>6, <2>7, <2>8, ExtendStep
<1> QED
  BY <1>3, <1>4

\* A processor that waited for its backoff takes a batch from the front.
LEMMA BackoffKeeps == DeliveryInv /\ SenderInv' /\ BackoffElapses => DeliveryInv'
<1> SUFFICES ASSUME DeliveryInv, SenderInv', BackoffElapses PROVE DeliveryInv'
  OBVIOUS
<1>1. /\ TypeOK /\ ProcessorAwake /\ TakesFront
      /\ UNCHANGED <<chain, gapPendingCount, senderStats, lost, unread, recorded>>
      /\ pendingQueue \in Seq(Item) /\ Held \in Seq(Item)
  BY Restated DEF DeliveryInv, SenderInv, BackoffElapses, TypeOK
<1>2. Held' = Held /\ TakesFront'
  <2>1. CASE phase = "backoff"
    <3>1. Drain(pendingQueue, FALSE, <<>>) /\ inflight = <<>>
      BY <1>1, <2>1 DEF BackoffElapses, ProcessorAwake
    <3>2. Held' = pendingQueue \o <<>> /\ TakesFront'
      BY <1>1, <3>1, EmptySeq, DrainHeld
    <3>3. pendingQueue \o <<>> = pendingQueue /\ Held = pendingQueue
      BY <1>1, <3>1, ConcatEmptySeq DEF Held
    <3> QED
      BY <3>2, <3>3
  <2>2. CASE phase # "backoff"
    <3>1. pendingQueue' = pendingQueue /\ inflight' = inflight
      BY <2>2 DEF BackoffElapses
    <3> QED
      BY <1>1, <3>1 DEF Held, TakesFront
  <2> QED
    BY <2>1, <2>2
<1> QED
  BY <1>1, <1>2, SameHeld

----------------------------------------------------------------------------
(* The settling of a request that is not put back.                         *)

\* The request is gone from the front; what of it is not recorded is lost or
\* unread.
LEMMA TailKept ==
  ASSUME DeliveryInv, NEW gone, gone \subseteq EventsOf(inflight),
         EventsOf(inflight) \subseteq gone \cup recorded' \cup unread',
         recorded \subseteq recorded', recorded' \subseteq recorded \cup EventsOf(inflight),
         unread \subseteq unread', unread' \subseteq unread \cup EventsOf(inflight),
         (unread' \ unread) \cap (gone \cup lost \cup recorded') = {},
         lost' = lost \cup gone
  PROVE  Settled(pendingQueue, [j \in 1..Len(pendingQueue) |-> j + Len(inflight)], gone)
<1> DEFINE n == Len(inflight)
           m == Len(pendingQueue)
           f == [j \in 1..m |-> j + n]
<1>1. /\ pendingQueue \in Seq(Item) /\ inflight \in Seq(Item) /\ n \in Nat /\ m \in Nat
      /\ DOMAIN inflight = 1..n
      /\ Held \in Seq(Item) /\ Len(Held) = n + m /\ DOMAIN Held = 1..Len(Held)
      /\ Sorted(Held) /\ EventsOf(Held) = EventsOf(inflight) \cup EventsOf(pendingQueue)
  <2>1. pendingQueue \in Seq(Item) /\ inflight \in Seq(Item) /\ TypeOK
    BY DEF DeliveryInv, SenderInv, TypeOK
  <2>2. EventsOf(Held) = EventsOf(inflight) \cup EventsOf(pendingQueue)
    BY <2>1, ConcatEvents DEF Held
  <2> QED
    BY <2>1, <2>2, Restated, LenProperties DEF DeliveryInv
<1>2. \A i \in 1..n + m : Held[i] = IF i <= n THEN inflight[i] ELSE pendingQueue[i - n]
  BY <1>1, ConcatProperties DEF Held
<1> HIDE DEF n, m
<1>3. f \in [1..m -> 1..Len(Held)] /\ \A j \in 1..m : f[j] = j + n
  BY <1>1
<1>4. \A j \in 1..m : Held[f[j]] = pendingQueue[j]
  BY <1>1, <1>2, <1>3
<1>5. \A i, j \in 1..m : i < j => f[i] < f[j] /\ pendingQueue[i].retries >= pendingQueue[j].retries
  <2> SUFFICES ASSUME NEW i \in 1..m, NEW j \in 1..m, i < j
               PROVE  f[i] < f[j] /\ pendingQueue[i].retries >= pendingQueue[j].retries
    OBVIOUS
  <2>1. f[i] < f[j] /\ f[i] \in DOMAIN Held /\ f[j] \in DOMAIN Held
    BY <1>1, <1>3
  <2> QED
    BY <1>1, <1>4, <2>1 DEF Sorted, Below
<1>6. \A i \in 1..n : Held[i] = inflight[i] /\ inflight[i].event \in EventsOf(inflight)
  <2>1. \A i \in 1..n : Held[i] = inflight[i]
    BY <1>1, <1>2
  <2>2. \A i \in 1..n : inflight[i].event \in EventsOf(inflight)
    BY <1>1 DEF EventsOf
  <2> QED
    BY <2>1, <2>2
<1>7. \A i \in 1..Len(Held) :
        \/ \E j \in 1..m : f[j] = i
        \/ Held[i].event \in gone \cup recorded' \cup unread'
  <2> SUFFICES ASSUME NEW i \in 1..Len(Held)
               PROVE  \/ \E j \in 1..m : f[j] = i
                      \/ Held[i].event \in gone \cup recorded' \cup unread'
    OBVIOUS
  <2>1. CASE i <= n
    <3>1. i \in 1..n
      BY <1>1, <2>1
    <3> QED
      BY <1>6, <3>1
  <2>2. CASE ~(i <= n)
    <3>1. i - n \in 1..m /\ f[i - n] = i
      BY <1>1, <1>3, <2>2
    <3> QED
      BY <3>1
  <2> QED
    BY <2>1, <2>2
<1>8. \A e \in gone \cup (unread' \ unread) :
        \E i \in 1..n : Held[i].event = e /\ \A j \in 1..m : f[j] # i
  <2> SUFFICES ASSUME NEW e \in gone \cup (unread' \ unread)
               PROVE  \E i \in 1..n : Held[i].event = e /\ \A j \in 1..m : f[j] # i
    OBVIOUS
  <2>1. PICK i \in 1..n : inflight[i].event = e
    BY <1>1 DEF EventsOf
  <2>2. \A j \in 1..m : f[j] # i
    BY <1>1, <1>3
  <2> QED
    BY <1>6, <2>1, <2>2
<1>9. recorded' \subseteq recorded \cup EventsOf(Held)
  BY <1>1
<1>10. \A j \in 1..m : pendingQueue[j].event = Held[f[j]].event
  BY <1>4
<1> HIDE DEF f
<1>11. Settled(pendingQueue, f, gone)
  BY <1>1, <1>3, <1>5, <1>7, <1>8, <1>9, <1>10 DEF Settled, n, m
<1> QED
  BY <1>11 DEF f, m, n

\* The request has ended, and `dropped` events of it are gone.
LEMMA EndedStep ==
  ASSUME DeliveryInv, SenderInv', NEW gone, NEW dropped \in 0..Len(inflight),
         NEW reason \in DeliveryReasons, NEW backoff, NEW added,
         DOMAIN added \subseteq Counters, \A k \in DOMAIN added : added[k] \in Nat,
         Added(added, "dropped_overflow") + Added(added, "dropped_rejected")
           + Added(added, "dropped_permanent") + Added(added, "dropped_retry_exhausted") = dropped,
         Added(added, "gap_events_declared") = 0,
         gone \subseteq EventsOf(inflight), dropped = 0 <=> gone = {},
         EventsOf(inflight) \subseteq gone \cup recorded' \cup unread',
         recorded \subseteq recorded', recorded' \subseteq recorded \cup EventsOf(inflight),
         unread \subseteq unread', unread' \subseteq unread \cup EventsOf(inflight),
         (unread' \ unread) \cap (gone \cup lost \cup recorded') = {},
         lost' = lost \cup gone, gapPendingCount' = gapPendingCount,
         senderStats' = StatsAfterLoss(Count(senderStats, added), EventsOf(inflight), dropped),
         chain' = ChainAfterLoss(EventsOf(inflight), dropped),
         Drain(pendingQueue \o MarkerAfterLoss(EventsOf(inflight), dropped, reason),
               backoff, <<>>)
  PROVE  DeliveryInv'
<1> DEFINE events == EventsOf(inflight)
           stats == Count(senderStats, added)
           marker == MarkerAfterLoss(events, dropped, reason)
           f == [j \in 1..Len(pendingQueue) |-> j + Len(inflight)]
<1>1. /\ TypeOK /\ senderStats \in SenderStats /\ pendingQueue \in Seq(Item)
      /\ inflight \in Seq(Item) /\ dropped \in Nat
  <2>1. /\ TypeOK /\ senderStats \in SenderStats /\ pendingQueue \in Seq(Item)
        /\ inflight \in Seq(Item)
    BY DEF DeliveryInv, SenderInv, TypeOK
  <2>2. Len(inflight) \in Nat
    BY <2>1, LenProperties
  <2> QED
    BY <2>1, <2>2
<1>2. Settled(pendingQueue, f, gone)
  BY TailKept
<1>3. /\ stats \in SenderStats
      /\ Drops(stats) = Drops(senderStats) + dropped
      /\ stats.gap_events_declared = senderStats.gap_events_declared
  <2> DEFINE d(c) == Added(added, c)
  <2>1. \A c \in Counters : d(c) \in Nat
    BY DEF Added
  <2>2. /\ stats \in SenderStats
        /\ Drops(stats)
             = Drops(senderStats) + d("dropped_overflow") + d("dropped_rejected")
                 + d("dropped_permanent") + d("dropped_retry_exhausted")
        /\ stats.gap_events_declared = senderStats.gap_events_declared + d("gap_events_declared")
    BY <1>1, DropsAdd
  <2>3. /\ d("dropped_overflow") + d("dropped_rejected")
             + d("dropped_permanent") + d("dropped_retry_exhausted") = dropped
        /\ d("gap_events_declared") = 0
    OBVIOUS
  <2>4. Drops(senderStats) \in Nat /\ senderStats.gap_events_declared \in Nat
    BY <1>1, DropsAreNat
  <2>5. /\ d("dropped_overflow") \in Nat /\ d("dropped_rejected") \in Nat
        /\ d("dropped_permanent") \in Nat /\ d("dropped_retry_exhausted") \in Nat
    BY <2>1 DEF Counters
  <2> HIDE DEF d, stats
  <2> QED
    BY <2>2, <2>3, <2>4, <2>5
<1>4. marker \in Seq(Item)
  BY <1>1, MarkerShape
<1>5. Held' = pendingQueue \o marker /\ TakesFront'
  <2> DEFINE q == pendingQueue \o marker
  <2>1. q \in Seq(Item) /\ Drain(q, backoff, <<>>)
    BY <1>1, <1>4, ConcatProperties
  <2> HIDE DEF q
  <2>2. Held' = q \o <<>> /\ TakesFront'
    BY <2>1, EmptySeq, DrainHeld
  <2>3. q \o <<>> = q
    BY <2>1, ConcatEmptySeq
  <2> QED
    BY <2>2, <2>3 DEF q
<1>6. /\ senderStats' = StatsAfterLoss(stats, events, dropped)
      /\ chain' = ChainAfterLoss(events, dropped)
      /\ gone \subseteq events /\ events \subseteq EventsOf(inflight)
      /\ Held' = pendingQueue \o MarkerAfterLoss(events, dropped, reason)
  BY <1>5
<1> HIDE DEF events, stats, marker, f
<1> QED
  BY <1>2, <1>3, <1>5, <1>6, SettleStep

\* A truthful body is read as exactly the refusals it reports, one that cannot be
\* read as none.
LEMMA CountRejectsExact ==
  ASSUME NEW n \in Nat, NEW r \in Nat, NEW d \in Nat, r + d <= n,
         NEW body \in {Unreadable} \cup TruthfulBodies(n, r, d)
  PROVE  CountRejects(n, body) = IF body.readable THEN r ELSE 0
<1>1. CASE body = Unreadable
  BY <1>1 DEF CountRejects, Unreadable
<1>2. CASE body.count = -1 /\ body.enumerated = r /\ body.duplicates = d /\ body.readable = TRUE
  BY <1>2 DEF CountRejects
<1>3. CASE /\ body.count = n - r - d /\ body.enumerated \in 0..r /\ body.duplicates = d
           /\ body.readable = TRUE
  BY <1>3 DEF CountRejects
<1>4. CASE body \in TruthfulBodies(n, r, d)
  <2>1. body.readable = TRUE
    BY <1>4 DEF TruthfulBodies
  <2>2. \/ body.count = -1 /\ body.enumerated = r /\ body.duplicates = d
        \/ body.count = n - r - d /\ body.enumerated \in 0..r /\ body.duplicates = d
    BY <1>4 DEF TruthfulBodies
  <2> QED
    BY <1>2, <1>3, <2>1, <2>2
<1> QED
  BY <1>1, <1>4

\* An accepted request: what is not refused is recorded.
LEMMA DeliverKeeps ==
  ASSUME NEW status \in ReplyStatuses, DeliveryInv, SenderInv', DeliverOk(status)
  PROVE  DeliveryInv'
<1> DEFINE E == EventsOf(inflight)
           Reported(refused, body) == IF body.readable THEN refused ELSE {}
           Outcome(refused, body, rejected) ==
             /\ recorded' = recorded \cup (E \ refused)
             /\ lost' = lost \cup Reported(refused, body)
             /\ unread' = unread \cup (refused \ Reported(refused, body))
             /\ senderStats' = StatsAfterLoss(
                                 Count(senderStats, [sent |-> Len(inflight) - rejected,
                                                     dropped_rejected |-> rejected]),
                                 E, rejected)
             /\ chain' = ChainAfterLoss(E, rejected)
             /\ inBackoff' = FALSE
             /\ Drain(pendingQueue \o MarkerAfterLoss(E, rejected, "ingest_rejected"),
                      FALSE, <<>>)
           Bodies(refused) ==
             {Unreadable}
               \cup TruthfulBodies(Len(inflight), Cardinality(refused),
                                  Cardinality(E \cap recorded))
<1>1. \E refused \in Refusals(status) : \E body \in Bodies(refused) :
        Outcome(refused, body, CountRejects(Len(inflight), body))
  BY DEF DeliverOk
<1>2. PICK refused \in Refusals(status) :
        \E body \in Bodies(refused) : Outcome(refused, body, CountRejects(Len(inflight), body))
  BY <1>1
<1>3. PICK body \in Bodies(refused) : Outcome(refused, body, CountRejects(Len(inflight), body))
  BY <1>2
<1>4. /\ inflight \in Seq(Item) /\ Len(inflight) \in Nat /\ DOMAIN inflight = 1..Len(inflight)
      /\ gapPendingCount' = gapPendingCount
  BY LenProperties DEF DeliveryInv, SenderInv, TypeOK, DeliverOk
<1>5. refused \subseteq E /\ refused \cap recorded = {}
  BY DEF Refusals
<1>6. IsFiniteSet(E) /\ Cardinality(E) \in Nat /\ Cardinality(E) <= Len(inflight)
  <2> DEFINE h == [i \in DOMAIN inflight |-> inflight[i].event]
  <2>1. h \in Surjection(DOMAIN inflight, E)
    BY DEF EventsOf, Surjection
  <2>2. IsFiniteSet(DOMAIN inflight) /\ Cardinality(DOMAIN inflight) = Len(inflight)
    BY <1>4, FS_Interval
  <2> HIDE DEF h
  <2>3. IsFiniteSet(E) /\ Cardinality(E) <= Cardinality(DOMAIN inflight)
    BY <2>1, <2>2, FS_Surjection
  <2> QED
    BY <2>2, <2>3, FS_CardinalityType
<1> HIDE DEF E
<1> DEFINE r == Cardinality(refused)
           d == Cardinality(E \cap recorded)
<1>7. /\ IsFiniteSet(refused) /\ r \in Nat /\ d \in Nat /\ r + d <= Len(inflight)
  <2>1. refused \in SUBSET E /\ (E \cap recorded) \in SUBSET E
        /\ refused \cup (E \cap recorded) \in SUBSET E /\ refused \cap (E \cap recorded) = {}
    BY <1>5
  <2>2. /\ IsFiniteSet(refused) /\ IsFiniteSet(E \cap recorded)
        /\ Cardinality(refused \cup (E \cap recorded)) <= Cardinality(E)
    BY <1>6, <2>1, FS_Subset
  <2>3. r \in Nat /\ d \in Nat
    BY <2>2, FS_CardinalityType
  <2>4. Cardinality(refused \cup (E \cap recorded)) = r + d
    <3>1. Cardinality(refused \cup (E \cap recorded))
            = Cardinality(refused) + Cardinality(E \cap recorded)
                - Cardinality(refused \cap (E \cap recorded))
      BY <2>2, FS_Union
    <3>2. Cardinality(refused \cap (E \cap recorded)) = 0
      BY <2>1, FS_EmptySet
    <3> QED
      BY <2>3, <3>1, <3>2
  <2> QED
    BY <1>4, <1>6, <2>2, <2>3, <2>4
<1> DEFINE reported == Reported(refused, body)
           k == Cardinality(reported)
<1>8. /\ CountRejects(Len(inflight), body) = k /\ k \in Nat /\ k <= Len(inflight)
      /\ k = 0 <=> reported = {}
  <2>1. CountRejects(Len(inflight), body) = IF body.readable THEN r ELSE 0
    BY <1>4, <1>7, CountRejectsExact DEF E
  <2>2. CASE body.readable
    <3>1. reported = refused /\ k = r
      BY <2>2
    <3>2. r = 0 <=> refused = {}
      BY <1>7, FS_EmptySet
    <3> QED
      BY <1>4, <1>7, <2>1, <2>2, <3>1, <3>2
  <2>3. CASE ~body.readable
    <3>1. reported = {} /\ k = 0
      BY <2>3, FS_EmptySet
    <3> QED
      BY <1>4, <2>1, <2>3, <3>1
  <2> QED
    BY <2>2, <2>3
<1>9. reported \subseteq refused
  OBVIOUS
<1>10. Outcome(refused, body, k)
  BY <1>3, <1>8
<1> DEFINE added == [sent |-> Len(inflight) - k, dropped_rejected |-> k]
<1>11. k \in 0..Len(inflight) /\ Len(inflight) - k \in Nat
  BY <1>4, <1>8
<1>16. /\ E \subseteq reported \cup recorded' \cup unread' /\ recorded \subseteq recorded'
       /\ recorded' \subseteq recorded \cup E /\ lost' = lost \cup reported
       /\ unread \subseteq unread' /\ unread' \subseteq unread \cup E
       /\ unread' \ unread \subseteq refused /\ (unread' \ unread) \cap reported = {}
       /\ chain' = ChainAfterLoss(E, k)
       /\ Drain(pendingQueue \o MarkerAfterLoss(E, k, "ingest_rejected"), FALSE, <<>>)
       /\ recorded' = recorded \cup (E \ refused)
  BY <1>5, <1>10
<1> HIDE DEF r, d, k
<1>12. DOMAIN added \subseteq Counters /\ \A c \in DOMAIN added : added[c] \in Nat
  BY <1>8, <1>11 DEF Counters
<1>13. /\ Added(added, "dropped_overflow") = 0 /\ Added(added, "dropped_rejected") = k
       /\ Added(added, "dropped_permanent") = 0 /\ Added(added, "dropped_retry_exhausted") = 0
       /\ Added(added, "gap_events_declared") = 0
  BY DEF Added
<1>14. senderStats' = StatsAfterLoss(Count(senderStats, added), E, k)
  BY <1>10
<1> HIDE DEF added, reported
<1>15. Added(added, "dropped_overflow") + Added(added, "dropped_rejected")
         + Added(added, "dropped_permanent") + Added(added, "dropped_retry_exhausted") = k
  BY <1>8, <1>13
<1>17. "ingest_rejected" \in DeliveryReasons
  BY DEF DeliveryReasons
<1>18. E \cap lost = {}
  <2>1. inflight \in Seq(Item) /\ pendingQueue \in Seq(Item)
    BY DEF DeliveryInv, SenderInv, TypeOK
  <2>2. E \subseteq EventsOf(Held)
    BY <2>1, ConcatEvents DEF Held, E
  <2> QED
    BY <2>2 DEF DeliveryInv
<1>19. (unread' \ unread) \cap (reported \cup lost \cup recorded') = {}
  BY <1>5, <1>16, <1>18
<1>20. reported \subseteq E
  BY <1>5, <1>9
<1> QED
  BY <1>4, <1>8, <1>11, <1>12, <1>13, <1>14, <1>15, <1>16, <1>17, <1>19, <1>20, EndedStep DEF E

\* A request given up as a whole is lost as a whole.
LEMMA AllLost ==
  ASSUME DeliveryInv, SenderInv', phase = "sending", NEW k \in {"dropped_rejected", "dropped_permanent"},
         NEW reason \in DeliveryReasons, NEW backoff,
         lost' = lost \cup EventsOf(inflight), unread' = unread, recorded' = recorded,
         gapPendingCount' = gapPendingCount,
         senderStats' = StatsAfterLoss(Count(senderStats, [c \in {k} |-> Len(inflight)]),
                                       EventsOf(inflight), Len(inflight)),
         chain' = ChainAfterLoss(EventsOf(inflight), Len(inflight)),
         Drain(pendingQueue \o MarkerAfterLoss(EventsOf(inflight), Len(inflight), reason),
               backoff, <<>>)
  PROVE  DeliveryInv'
<1> DEFINE n == Len(inflight)
           added == [c \in {k} |-> n]
           gone == EventsOf(inflight)
<1>1. /\ inflight \in Seq(Item) /\ n \in Nat /\ DOMAIN inflight = 1..n /\ inflight # <<>>
  BY LenProperties DEF DeliveryInv, SenderInv, TypeOK, ProcessorAwake
<1>2. n # 0 /\ gone # {} /\ n \in 0..n
  <2>1. n # 0
    BY <1>1, EmptySeq
  <2>2. inflight[1].event \in gone
    BY <1>1, <2>1 DEF EventsOf
  <2> QED
    BY <1>1, <2>1, <2>2
<1>3. DOMAIN added \subseteq Counters /\ \A c \in DOMAIN added : added[c] \in Nat
  BY <1>1 DEF Counters
<1>4. /\ Added(added, "dropped_overflow") + Added(added, "dropped_rejected")
           + Added(added, "dropped_permanent") + Added(added, "dropped_retry_exhausted") = n
      /\ Added(added, "gap_events_declared") = 0
  <2>1. CASE k = "dropped_rejected"
    <3>1. /\ Added(added, "dropped_overflow") = 0 /\ Added(added, "dropped_rejected") = n
          /\ Added(added, "dropped_permanent") = 0 /\ Added(added, "dropped_retry_exhausted") = 0
          /\ Added(added, "gap_events_declared") = 0
      BY <2>1 DEF Added
    <3> HIDE DEF added
    <3> QED
      BY <1>1, <3>1
  <2>2. CASE k = "dropped_permanent"
    <3>1. /\ Added(added, "dropped_overflow") = 0 /\ Added(added, "dropped_rejected") = 0
          /\ Added(added, "dropped_permanent") = n /\ Added(added, "dropped_retry_exhausted") = 0
          /\ Added(added, "gap_events_declared") = 0
      BY <2>2 DEF Added
    <3> HIDE DEF added
    <3> QED
      BY <1>1, <3>1
  <2> QED
    BY <2>1, <2>2
<1>5. /\ gone \subseteq gone \cup recorded' /\ recorded \subseteq recorded'
      /\ recorded' \subseteq recorded \cup gone /\ gone \subseteq EventsOf(inflight)
  OBVIOUS
<1>6. senderStats' = StatsAfterLoss(Count(senderStats, added), gone, n)
  OBVIOUS
<1>7. n = 0 <=> gone = {}
  BY <1>2
<1>8. Drain(pendingQueue \o MarkerAfterLoss(gone, n, reason), backoff, <<>>)
      /\ chain' = ChainAfterLoss(gone, n) /\ lost' = lost \cup gone
  OBVIOUS
<1> HIDE DEF added
<1> QED
  BY <1>2, <1>3, <1>4, <1>5, <1>6, <1>7, <1>8, EndedStep

\* A request refused or discarded is given up as a whole.
LEMMA RefuseKeeps ==
  ASSUME NEW status \in ReplyStatuses, DeliveryInv, SenderInv',
         RefuseRequest(status) \/ DiscardPermanent(status)
  PROVE  DeliveryInv'
<1>1. "ingest_rejected" \in DeliveryReasons /\ "permanent_failure" \in DeliveryReasons
  BY DEF DeliveryReasons
<1>2. CASE RefuseRequest(status)
  <2>1. [dropped_rejected |-> Len(inflight)] = [c \in {"dropped_rejected"} |-> Len(inflight)]
    OBVIOUS
  <2>2. /\ phase = "sending" /\ lost' = lost \cup EventsOf(inflight) /\ unread' = unread /\ recorded' = recorded
        /\ gapPendingCount' = gapPendingCount
        /\ senderStats' = StatsAfterLoss(Count(senderStats, [dropped_rejected |-> Len(inflight)]),
                                         EventsOf(inflight), Len(inflight))
        /\ chain' = ChainAfterLoss(EventsOf(inflight), Len(inflight))
        /\ Drain(pendingQueue \o MarkerAfterLoss(EventsOf(inflight), Len(inflight),
                                                 "ingest_rejected"), FALSE, <<>>)
    BY <1>2 DEF RefuseRequest
  <2>3. senderStats' = StatsAfterLoss(Count(senderStats, [c \in {"dropped_rejected"} |-> Len(inflight)]),
                                      EventsOf(inflight), Len(inflight))
    BY <2>1, <2>2
  <2> QED
    BY <1>1, <2>2, <2>3, AllLost
<1>3. CASE DiscardPermanent(status)
  <2>1. [dropped_permanent |-> Len(inflight)] = [c \in {"dropped_permanent"} |-> Len(inflight)]
    OBVIOUS
  <2>2. /\ phase = "sending" /\ lost' = lost \cup EventsOf(inflight) /\ unread' = unread /\ recorded' = recorded
        /\ gapPendingCount' = gapPendingCount
        /\ senderStats' = StatsAfterLoss(Count(senderStats, [dropped_permanent |-> Len(inflight)]),
                                         EventsOf(inflight), Len(inflight))
        /\ chain' = ChainAfterLoss(EventsOf(inflight), Len(inflight))
        /\ Drain(pendingQueue \o MarkerAfterLoss(EventsOf(inflight), Len(inflight),
                                                 "permanent_failure"), inBackoff, <<>>)
    BY <1>3 DEF DiscardPermanent
  <2>3. senderStats' = StatsAfterLoss(Count(senderStats, [c \in {"dropped_permanent"} |-> Len(inflight)]),
                                      EventsOf(inflight), Len(inflight))
    BY <2>1, <2>2
  <2> QED
    BY <1>1, <2>2, <2>3, AllLost
<1> QED
  BY <1>2, <1>3

----------------------------------------------------------------------------
(* The settling of a request that is put back.                             *)

\* What is put back is a selection, in order, of the request; what is not is out
\* of retries.
LEMMA RetriedKept ==
  ASSUME DeliveryInv, NEW pos \in Selections(inflight),
         recorded \subseteq recorded', recorded' \subseteq recorded \cup EventsOf(inflight),
         lost' = lost \cup Exhausted(inflight), unread' = unread
  PROVE  /\ Settled(Retried(inflight, pos) \o pendingQueue,
                    [j \in 1..Len(pos) + Len(pendingQueue) |->
                       IF j <= Len(pos) THEN pos[j] ELSE j - Len(pos) + Len(inflight)],
                    Exhausted(inflight))
         /\ Len(pos) \in 0..Len(inflight)
         /\ Len(inflight) - Len(pos) = 0 <=> Exhausted(inflight) = {}
<1> USE SenderAssumption DEF SenderAssumption
<1> DEFINE n == Len(inflight)
           m == Len(pendingQueue)
           r == Len(pos)
           gone == Exhausted(inflight)
           back == Retried(inflight, pos)
           kept == back \o pendingQueue
           f == [j \in 1..r + m |-> IF j <= r THEN pos[j] ELSE j - r + n]
<1>1. /\ pendingQueue \in Seq(Item) /\ inflight \in Seq(Item) /\ n \in Nat /\ m \in Nat
      /\ DOMAIN inflight = 1..n
      /\ Held \in Seq(Item) /\ Len(Held) = n + m /\ DOMAIN Held = 1..Len(Held)
      /\ Sorted(Held) /\ EventsOf(Held) = EventsOf(inflight) \cup EventsOf(pendingQueue)
  <2>1. pendingQueue \in Seq(Item) /\ inflight \in Seq(Item) /\ TypeOK
    BY DEF DeliveryInv, SenderInv, TypeOK
  <2>2. EventsOf(Held) = EventsOf(inflight) \cup EventsOf(pendingQueue)
    BY <2>1, ConcatEvents DEF Held
  <2> QED
    BY <2>1, <2>2, Restated, LenProperties DEF DeliveryInv
<1>2. \A i \in 1..n + m : Held[i] = IF i <= n THEN inflight[i] ELSE pendingQueue[i - n]
  BY <1>1, ConcatProperties DEF Held
<1>3. /\ back \in Seq(Item) /\ Len(back) = r /\ r \in Nat /\ r <= n
  BY <1>1, RetriedLemma
<1>4. /\ pos \in [1..r -> Retriable(inflight)]
      /\ \A a, b \in 1..r : a < b => pos[a] < pos[b]
      /\ \A i \in Retriable(inflight) : \E a \in 1..r : pos[a] = i
      /\ r = Cardinality(Retriable(inflight))
  <2>1. pos \in [1..Cardinality(Retriable(inflight)) -> Retriable(inflight)]
    BY DEF Selections
  <2>2. Cardinality(Retriable(inflight)) \in Nat
    <3>1. IsFiniteSet(1..n)
      BY <1>1, FS_Interval
    <3>2. Retriable(inflight) \in SUBSET (1..n)
      BY <1>1 DEF Retriable
    <3> QED
      BY <3>1, <3>2, FS_Subset, FS_CardinalityType
  <2>3. DOMAIN pos = 1..Cardinality(Retriable(inflight)) /\ r = Cardinality(Retriable(inflight))
    BY <2>1, <2>2
  <2> QED
    BY <2>1, <2>3 DEF Selections
<1>5. \A j \in 1..r : back[j] = [inflight[pos[j]] EXCEPT !.retries = @ + 1]
  <2>1. DOMAIN pos = 1..r
    BY <1>4
  <2> QED
    BY <2>1 DEF Retried
<1>6. /\ kept \in Seq(Item) /\ Len(kept) = r + m
      /\ \A j \in 1..r + m : kept[j] = IF j <= r THEN back[j] ELSE pendingQueue[j - r]
  BY <1>1, <1>3, ConcatProperties
<1>7. \A j \in 1..r : /\ pos[j] \in 1..n /\ inflight[pos[j]] \in Item
                      /\ inflight[pos[j]].retries \in Nat /\ inflight[pos[j]] = Held[pos[j]]
                      /\ back[j].event = Held[pos[j]].event
                      /\ back[j].retries = Held[pos[j]].retries + 1
  <2> SUFFICES ASSUME NEW j \in 1..r
               PROVE  /\ pos[j] \in 1..n /\ inflight[pos[j]] \in Item
                      /\ inflight[pos[j]].retries \in Nat /\ inflight[pos[j]] = Held[pos[j]]
                      /\ back[j].event = Held[pos[j]].event
                      /\ back[j].retries = Held[pos[j]].retries + 1
    OBVIOUS
  <2>1. pos[j] \in 1..n
    BY <1>1, <1>4 DEF Retriable
  <2>2. inflight[pos[j]] \in Item
    BY <1>1, <2>1, ElementOfSeq
  <2>3. inflight[pos[j]].retries \in Nat
    BY <2>2 DEF Item
  <2>4. inflight[pos[j]] = Held[pos[j]]
    BY <1>1, <1>2, <2>1
  <2>5. /\ back[j].event = inflight[pos[j]].event
        /\ back[j].retries = inflight[pos[j]].retries + 1
    BY <1>5, <2>2 DEF Item
  <2> QED
    BY <2>1, <2>2, <2>3, <2>4, <2>5
<1>8. \A j \in 1..m : j + n \in 1..Len(Held) /\ Held[j + n] = pendingQueue[j]
  BY <1>1, <1>2
<1>9. \A i \in 1..n : Held[i] = inflight[i] /\ inflight[i].event \in EventsOf(inflight)
  <2>1. \A i \in 1..n : i \in 1..n + m /\ i <= n
    BY <1>1
  <2>2. \A i \in 1..n : inflight[i].event \in EventsOf(inflight)
    BY <1>1 DEF EventsOf
  <2> QED
    BY <1>2, <2>1, <2>2
<1>10. \A i \in 1..Len(Held) : Held[i].retries \in Nat
  <2>1. \A i \in 1..Len(Held) : Held[i] \in Item
    BY <1>1, ElementOfSeq
  <2> QED
    BY <2>1 DEF Item
<1>11. DOMAIN inflight \ Retriable(inflight) = {} <=> gone = {}
  BY DEF Exhausted
<1>12. n - r = 0 <=> gone = {}
  <2>1. /\ IsFiniteSet(1..n) /\ Cardinality(1..n) = n
        /\ Retriable(inflight) \in SUBSET (1..n)
    <3>1. Retriable(inflight) \in SUBSET (1..n)
      BY <1>1 DEF Retriable
    <3> HIDE DEF n
    <3>2. IsFiniteSet(1..n) /\ Cardinality(1..n) = n
      BY <1>1, FS_Interval
    <3> QED
      BY <3>1, <3>2
  <2>2. r = n => Retriable(inflight) = 1..n
    BY <1>4, <2>1, FS_Subset
  <2>3. Retriable(inflight) = 1..n => r = n
    BY <1>4, <2>1
  <2>4. DOMAIN inflight \ Retriable(inflight) = {} <=> Retriable(inflight) = 1..n
    BY <1>1, <2>1
  <2> HIDE DEF n, r, gone
  <2>5. n - r = 0 <=> r = n
    BY <1>1, <1>3
  <2> QED
    BY <1>11, <2>2, <2>3, <2>4, <2>5
<1>13. \A e \in gone : \E i \in 1..n : Held[i].event = e /\ i \notin Retriable(inflight)
  BY <1>1, <1>9 DEF Exhausted
<1>14. \A i \in 1..n : i \notin Retriable(inflight) => Held[i].event \in gone
  BY <1>1, <1>9 DEF Exhausted
<1> HIDE DEF n, m, r, gone, back, kept
<1>15. /\ f \in [1..r + m -> 1..Len(Held)]
       /\ \A j \in 1..r : j \in 1..r + m /\ f[j] = pos[j]
       /\ \A j \in 1..r + m : ~(j <= r) => f[j] = j - r + n /\ j - r \in 1..m
  <2>1. \A j \in 1..r + m : j <= r => j \in 1..r /\ pos[j] \in 1..Len(Held)
    BY <1>1, <1>3, <1>7
  <2>2. \A j \in 1..r + m : ~(j <= r) => j - r + n \in 1..Len(Held) /\ j - r \in 1..m
    BY <1>1, <1>3
  <2>3. \A j \in 1..r : j \in 1..r + m /\ j <= r
    BY <1>1, <1>3
  <2> QED
    BY <2>1, <2>2, <2>3
<1> HIDE DEF f
<1>16. \A j \in 1..r + m :
         \/ /\ j \in 1..r /\ f[j] = pos[j] /\ kept[j] = back[j] /\ f[j] \in 1..n
         \/ /\ j - r \in 1..m /\ f[j] = (j - r) + n /\ kept[j] = pendingQueue[j - r]
            /\ f[j] \notin 1..n /\ ~(j <= r)
  <2> SUFFICES ASSUME NEW j \in 1..r + m
               PROVE
                 \/ /\ j \in 1..r /\ f[j] = pos[j] /\ kept[j] = back[j] /\ f[j] \in 1..n
                 \/ /\ j - r \in 1..m /\ f[j] = (j - r) + n /\ kept[j] = pendingQueue[j - r]
                    /\ f[j] \notin 1..n /\ ~(j <= r)
    OBVIOUS
  <2>1. CASE j <= r
    <3>1. j \in 1..r
      BY <1>1, <1>3, <2>1
    <3> QED
      BY <1>6, <1>7, <1>15, <2>1, <3>1
  <2>2. CASE ~(j <= r)
    <3>1. j - r \in 1..m /\ f[j] = (j - r) + n /\ kept[j] = pendingQueue[j - r]
      BY <1>6, <1>15, <2>2
    <3>2. f[j] \notin 1..n
      BY <1>1, <1>3, <3>1
    <3> QED
      BY <2>2, <3>1, <3>2
  <2> QED
    BY <2>1, <2>2
<1>17. \A j \in 1..r + m : /\ kept[j].event = Held[f[j]].event
                           /\ f[j] \in 1..n => kept[j].retries = Held[f[j]].retries + 1
                           /\ f[j] \notin 1..n => kept[j].retries = Held[f[j]].retries
  BY <1>7, <1>8, <1>16
<1>18. \A i, j \in 1..r + m : i < j => f[i] < f[j] /\ kept[i].retries >= kept[j].retries
  <2> SUFFICES ASSUME NEW i \in 1..r + m, NEW j \in 1..r + m, i < j
               PROVE  f[i] < f[j] /\ kept[i].retries >= kept[j].retries
    OBVIOUS
  <2>1. f[i] < f[j] /\ (f[j] \in 1..n => f[i] \in 1..n)
    <3>1. CASE i \in 1..r /\ j \in 1..r
      <4>1. f[i] = pos[i] /\ f[j] = pos[j] /\ pos[i] < pos[j] /\ pos[i] \in 1..n
        BY <1>4, <1>7, <1>15, <3>1
      <4> QED
        BY <4>1
    <3>2. CASE i \in 1..r /\ ~(j <= r)
      BY <1>1, <1>3, <1>16, <3>2
    <3>3. CASE ~(i <= r)
      <4>1. ~(j <= r)
        BY <1>1, <1>3, <3>3
      <4> QED
        BY <1>1, <1>3, <1>16, <3>3, <4>1
    <3> QED
      BY <1>16, <3>1, <3>2, <3>3
  <2>2. f[i] \in 1..Len(Held) /\ f[j] \in 1..Len(Held)
    BY <1>15
  <2>3. Held[f[i]].retries >= Held[f[j]].retries
    BY <1>1, <2>1, <2>2 DEF Sorted, Below
  <2>4. Held[f[i]].retries \in Nat /\ Held[f[j]].retries \in Nat
    BY <1>10, <2>2
  <2> QED
    BY <1>17, <2>1, <2>3, <2>4
<1>19. \A i \in 1..Len(Held) :
         \/ \E j \in 1..r + m : f[j] = i
         \/ Held[i].event \in gone \cup recorded'
  <2> SUFFICES ASSUME NEW i \in 1..Len(Held)
               PROVE  \/ \E j \in 1..r + m : f[j] = i
                      \/ Held[i].event \in gone \cup recorded'
    OBVIOUS
  <2>1. CASE i \in Retriable(inflight)
    <3>1. PICK a \in 1..r : pos[a] = i
      BY <1>4, <2>1
    <3> QED
      BY <1>15, <3>1
  <2>2. CASE i \in 1..n /\ i \notin Retriable(inflight)
    BY <1>14, <2>2
  <2>3. CASE i \notin 1..n
    <3>1. i - n + r \in 1..r + m /\ ~(i - n + r <= r)
      BY <1>1, <1>3, <2>3
    <3>2. f[i - n + r] = (i - n + r) - r + n
      BY <1>15, <3>1
    <3>3. (i - n + r) - r + n = i
      BY <1>1, <1>3
    <3> QED
      BY <3>1, <3>2, <3>3
  <2> QED
    BY <2>1, <2>2, <2>3
<1>20. \A e \in gone \cup (unread' \ unread) :
         \E i \in 1..n : Held[i].event = e /\ \A j \in 1..r + m : f[j] # i
  <2> SUFFICES ASSUME NEW e \in gone \cup (unread' \ unread)
               PROVE  \E i \in 1..n : Held[i].event = e /\ \A j \in 1..r + m : f[j] # i
    OBVIOUS
  <2>1. PICK i \in 1..n : Held[i].event = e /\ i \notin Retriable(inflight)
    BY <1>13
  <2>2. \A j \in 1..r + m : f[j] # i
    BY <1>4, <1>16, <2>1
  <2> QED
    BY <2>1, <2>2
<1>21. recorded' \subseteq recorded \cup EventsOf(Held) /\ lost' = lost \cup gone
  BY <1>1 DEF gone
<1>22. Settled(kept, f, gone)
  BY <1>6, <1>15, <1>17, <1>18, <1>19, <1>20, <1>21 DEF Settled, n
<1>23. r \in 0..n
  BY <1>1, <1>3
<1> QED
  BY <1>12, <1>22, <1>23 DEF n, m, r, gone, back, kept, f

\* A failed request is put back, but for the events that are out of retries.
LEMMA RequeueKeeps ==
  ASSUME DeliveryInv, SenderInv', RequeueFront, gapPendingCount' = gapPendingCount,
         unread' = unread
  PROVE  DeliveryInv'
<1> DEFINE gone == Exhausted(inflight)
<1>1. PICK pos \in Selections(inflight) :
        LET dropped == Len(inflight) - Len(pos)
        IN /\ \E stored \in SUBSET (EventsOf(inflight) \ recorded) :
                recorded' = recorded \cup stored
           /\ lost' = lost \cup gone
           /\ senderStats' = StatsAfterLoss(
                               Count(senderStats, [retries |-> Len(pos),
                                                   dropped_retry_exhausted |-> dropped]),
                               gone, dropped)
           /\ chain' = ChainAfterLoss(gone, dropped)
           /\ inBackoff' = TRUE
           /\ Drain((Retried(inflight, pos) \o pendingQueue)
                      \o MarkerAfterLoss(gone, dropped, "retry_exhausted"), TRUE, <<>>)
  BY DEF RequeueFront
<1>2. recorded \subseteq recorded' /\ recorded' \subseteq recorded \cup EventsOf(inflight)
  BY <1>1
<1> DEFINE kept == Retried(inflight, pos) \o pendingQueue
           f == [j \in 1..Len(pos) + Len(pendingQueue) |->
                   IF j <= Len(pos) THEN pos[j] ELSE j - Len(pos) + Len(inflight)]
           dropped == Len(inflight) - Len(pos)
           added == [retries |-> Len(pos), dropped_retry_exhausted |-> dropped]
           stats == Count(senderStats, added)
           marker == MarkerAfterLoss(gone, dropped, "retry_exhausted")
<1>3. /\ Settled(kept, f, gone) /\ Len(pos) \in 0..Len(inflight)
      /\ dropped = 0 <=> gone = {}
  BY <1>1, <1>2, RetriedKept
<1>4. /\ TypeOK /\ senderStats \in SenderStats /\ Len(inflight) \in Nat
      /\ "retry_exhausted" \in DeliveryReasons /\ gone \subseteq EventsOf(inflight)
  BY LenProperties DEF DeliveryInv, SenderInv, TypeOK, DeliveryReasons, Exhausted, EventsOf
<1>5. dropped \in 0..Len(inflight) /\ Len(pos) \in Nat /\ dropped \in Nat
  BY <1>3, <1>4
<1>6. /\ senderStats' = StatsAfterLoss(stats, gone, dropped)
      /\ chain' = ChainAfterLoss(gone, dropped)
      /\ Drain(kept \o marker, TRUE, <<>>)
  BY <1>1
<1> HIDE DEF gone, kept, f, dropped
<1>7. /\ stats \in SenderStats
      /\ Drops(stats) = Drops(senderStats) + dropped
      /\ stats.gap_events_declared = senderStats.gap_events_declared
  <2>1. DOMAIN added \subseteq Counters /\ \A k \in DOMAIN added : added[k] \in Nat
    BY <1>5 DEF Counters
  <2>2. /\ Added(added, "dropped_overflow") = 0 /\ Added(added, "dropped_rejected") = 0
        /\ Added(added, "dropped_permanent") = 0
        /\ Added(added, "dropped_retry_exhausted") = dropped
        /\ Added(added, "gap_events_declared") = 0
    BY DEF Added
  <2> HIDE DEF added
  <2>3. Drops(senderStats) \in Nat /\ senderStats.gap_events_declared \in Nat
    BY <1>4, DropsAreNat
  <2>4. /\ stats \in SenderStats
        /\ Drops(stats) = Drops(senderStats) + 0 + 0 + 0 + dropped
        /\ stats.gap_events_declared = senderStats.gap_events_declared + 0
    BY <1>4, <2>1, <2>2, DropsAdd
  <2> HIDE DEF stats
  <2> QED
    BY <1>5, <2>3, <2>4
<1>8. Held' = kept \o marker /\ TakesFront'
  <2>1. kept \in Seq(Item) /\ marker \in Seq(Item)
    BY <1>3, <1>4, <1>5, MarkerShape DEF Settled
  <2> DEFINE q == kept \o marker
  <2>2. q \in Seq(Item) /\ Drain(q, TRUE, <<>>)
    BY <1>6, <2>1, ConcatProperties
  <2> HIDE DEF q
  <2>3. Held' = q \o <<>> /\ TakesFront'
    BY <2>2, EmptySeq, DrainHeld
  <2>4. q \o <<>> = q
    BY <2>2, ConcatEmptySeq
  <2> QED
    BY <2>3, <2>4 DEF q
<1>9. gone \subseteq gone
  OBVIOUS
<1> HIDE DEF stats
<1> QED
  BY <1>3, <1>4, <1>5, <1>6, <1>7, <1>8, <1>9, SettleStep

----------------------------------------------------------------------------
(* The sender.                                                             *)

\* The sender starts with nothing held, lost or declared.
LEMMA DeliveryInit == Init => DeliveryInv
<1> SUFFICES ASSUME Init PROVE DeliveryInv
  OBVIOUS
<1> USE SenderAssumption DEF SenderAssumption
<1>1. SenderInv /\ TypeOK
  BY InitInv DEF SenderInv
<1>2. <<>> \in Seq(Item) /\ Len(<<>>) = 0 /\ DOMAIN <<>> = {}
  BY EmptySeq
<1>3. /\ inflight = <<>> /\ pendingQueue = <<>> /\ lost = {} /\ unread = {} /\ recorded = {}
      /\ chain.signed = 0 /\ gapPendingCount = 0
  BY DEF Init
<1>4. Held = <<>>
  BY <1>2, <1>3, ConcatEmptySeq DEF Held
<1>5. TakesFront /\ SignOrder
  BY <1>2, <1>3, <1>4 DEF TakesFront, SignOrder, Held
<1>6. NothingVanishes
  BY <1>2, <1>3 DEF NothingVanishes, Waiting, EventsOf
<1>7. IsFiniteSet(lost)
  BY <1>3, FS_EmptySet
<1>8. LossesDeclared
  <2>1. \A c \in Counters : senderStats[c] = 0
    BY DEF Init
  <2>2. /\ senderStats.dropped_overflow = 0 /\ senderStats.dropped_rejected = 0
        /\ senderStats.dropped_permanent = 0 /\ senderStats.dropped_retry_exhausted = 0
        /\ senderStats.gap_events_declared = 0
    BY <2>1 DEF Counters
  <2>3. Cardinality({e \in lost : IsGapMarker(e)}) = 0
    <3>1. {e \in lost : IsGapMarker(e)} = {}
      BY <1>3
    <3> QED
      BY <3>1, FS_EmptySet
  <2> QED
    BY <1>3, <2>2, <2>3 DEF LossesDeclared
<1>9. QueueBounded
  <2>1. Bounded(Held) = {}
    BY <1>2, <1>4 DEF Bounded
  <2>2. Cardinality(Bounded(Held)) = 0
    BY <2>1, FS_EmptySet
  <2> QED
    BY <1>1, <2>2, Restated
<1> QED
  BY <1>1, <1>3, <1>5, <1>6, <1>7, <1>8, <1>9 DEF DeliveryInv

\* Every step of the sender preserves the invariant.
LEMMA DeliveryStep == DeliveryInv /\ [Next]_vars => DeliveryInv'
<1> SUFFICES ASSUME DeliveryInv, [Next]_vars PROVE DeliveryInv'
  OBVIOUS
<1>1. SenderInv'
  BY StepInv DEF DeliveryInv
<1>2. CASE DropOnOverflow
  BY <1>1, <1>2, OverflowKeeps
<1>3. CASE Enqueue
  BY <1>1, <1>3, EnqueueKeeps
<1>4. CASE EnqueueAfterGap
  BY <1>1, <1>4, EnqueueAfterGapKeeps
<1>5. CASE FlushQueue
  BY <1>1, <1>5, FlushKeeps
<1>6. ASSUME NEW status \in ReplyStatuses, Reply(status) PROVE DeliveryInv'
  <2>1. CASE DeliverOk(status)
    BY <1>1, <2>1, DeliverKeeps
  <2>2. CASE RefuseRequest(status) \/ DiscardPermanent(status)
    BY <1>1, <2>2, RefuseKeeps
  <2>3. CASE RetryLater(status)
    BY <1>1, <2>3, RequeueKeeps DEF RetryLater
  <2> QED
    BY <1>6, <2>1, <2>2, <2>3 DEF Reply
<1>7. CASE TimeOut
  BY <1>1, <1>7, RequeueKeeps DEF TimeOut
<1>8. CASE BackoffElapses
  BY <1>1, <1>8, BackoffKeeps
<1>9. CASE UNCHANGED vars
  <2>1. /\ inflight' = inflight /\ pendingQueue' = pendingQueue /\ chain' = chain
        /\ gapPendingCount' = gapPendingCount /\ senderStats' = senderStats
        /\ lost' = lost /\ unread' = unread /\ recorded' = recorded
    BY <1>9 DEF vars, sender
  <2>2. Held' = Held /\ TakesFront'
    BY <2>1 DEF Held, TakesFront, DeliveryInv
  <2> QED
    BY <1>1, <2>1, <2>2, SameHeld
<1> QED
  BY <1>2, <1>3, <1>4, <1>5, <1>6, <1>7, <1>8, <1>9 DEF Next

\* The invariant holds of every reachable state.
THEOREM DeliveryInvariant == Spec => []DeliveryInv
  BY DeliveryInit, DeliveryStep, PTL DEF Spec

\* What the sender holds stays in signing order, no item twice, through
\* requeueing, batching and markers, and retry counts fall along the queue.
THEOREM HeldInSignOrder == Spec => []SignOrder
<1>1. DeliveryInv => SignOrder
  BY DEF DeliveryInv
<1> QED
  BY <1>1, DeliveryInvariant, PTL

\* A signed event is held, recorded by the ingest service, counted as lost, or
\* refused in an accepted response the sender could not read; an event of the
\* last kind is none of the others.
THEOREM SignedIsSomewhere == Spec => []NothingVanishes
<1>1. DeliveryInv => NothingVanishes
  BY DEF DeliveryInv
<1> QED
  BY <1>1, DeliveryInvariant, PTL

\* Every loss is declared exactly once, or pending declaration; only a lost
\* marker is never declared again.
THEOREM LossesOnRecord == Spec => []LossesDeclared
<1>1. DeliveryInv => LossesDeclared
  BY DEF DeliveryInv
<1> QED
  BY <1>1, DeliveryInvariant, PTL

\* The queue and the request under way never hold more than one full queue and
\* one batch, overflow markers apart, although delivery markers and requeued
\* batches are not held to the bound.
THEOREM MemoryBounded == Spec => []QueueBounded
<1>1. DeliveryInv => QueueBounded
  BY DEF DeliveryInv
<1> QED
  BY <1>1, DeliveryInvariant, PTL

----------------------------------------------------------------------------
(* The end of the process.                                                 *)

\* A step of the process is a step of its sender, or leaves it alone.
LEMMA ExitSteps == [ExitNext]_allVars => [Next]_vars
<1>1. ASSUME ExitNext PROVE [Next]_vars
  <2>1. CASE AppEnqueues
    BY <2>1 DEF AppEnqueues, Next
  <2>2. CASE AppDone
    BY <2>2 DEF AppDone
  <2>3. CASE SenderSteps
    BY <2>3 DEF SenderSteps, Settle, Next
  <2>4. CASE BeforeExit
    BY <2>4 DEF BeforeExit, StartFlush, Next
  <2>5. CASE Signal
    BY <2>5 DEF Signal, StartFlush, Next
  <2>6. CASE FlushDrains
    BY <2>6 DEF FlushDrains
  <2>7. CASE FlushExpires
    BY <2>7 DEF FlushExpires
  <2> QED
    BY <1>1, <2>1, <2>2, <2>3, <2>4, <2>5, <2>6, <2>7 DEF ExitNext
<1> QED
  BY <1>1 DEF allVars

\* The handlers that end a process drive the sender only as its callers may.
THEOREM ExitImplementsSender == ExitSpec => Spec
<1>1. ExitInit => Init
  BY DEF ExitInit
<1> QED
  BY <1>1, ExitSteps, PTL DEF ExitSpec, Spec

\* The guard is up only while a flush runs, or once the process was killed.
ExitInv ==
  /\ ProcessorAwake
  /\ process = "running" /\ flush = "none" => ~exitFlushStarted
  /\ NormalExitDrains

\* A flush that starts or settles leaves the guard as the invariant says.
LEMMA FinishGuard ==
  ASSUME NEW kind, Finish(kind), process = "running"
  PROVE  /\ process' = "running" /\ flush' = "none" => ~exitFlushStarted'
         /\ process' # "exited"
  BY DEF Finish

\* So does a flush that starts.
LEMMA StartGuard ==
  ASSUME NEW kind, kind # "none", StartFlush(kind), process = "running"
  PROVE  /\ process' = "running" /\ flush' = "none" => ~exitFlushStarted'
         /\ process' # "exited"
<1>1. CASE Finish(kind)
  BY <1>1, FinishGuard
<1>2. CASE flush' = kind /\ exitFlushStarted' = TRUE /\ process' = process
  BY <1>2
<1> QED
  BY <1>1, <1>2 DEF StartFlush

\* Every step of the process preserves the invariant.
LEMMA ExitStep == ExitInv /\ ProcessorAwake' /\ [ExitNext]_allVars => ExitInv'
<1> SUFFICES ASSUME ExitInv, ProcessorAwake', [ExitNext]_allVars
             PROVE  /\ process' = "running" /\ flush' = "none" => ~exitFlushStarted'
                    /\ NormalExitDrains'
  BY DEF ExitInv
<1>1. CASE ExitNext
  <2>1. process = "running" /\ (flush = "none" => ~exitFlushStarted) /\ ProcessorAwake
    BY <1>1 DEF ExitNext, ExitInv
  <2>2. CASE AppEnqueues \/ SenderSteps
    BY <2>1, <2>2 DEF AppEnqueues, SenderSteps, shutdown, NormalExitDrains
  <2>3. CASE AppDone
    BY <2>1, <2>3 DEF AppDone, NormalExitDrains
  <2>4. CASE BeforeExit
    <3>1. phase # "sending" /\ flush = "none"
      BY <2>4 DEF BeforeExit, LoopEmpty
    <3>2. CASE exitFlushStarted \/ pendingQueue = <<>>
      <4>1. pendingQueue' = <<>> /\ inflight' = <<>> /\ process' = "exited"
        BY <2>1, <2>4, <3>1, <3>2 DEF BeforeExit, ProcessorAwake, vars, sender
      <4>2. Waiting' = {}
        BY <4>1 DEF Waiting, EventsOf
      <4> QED
        BY <4>1, <4>2 DEF NormalExitDrains
    <3>3. CASE ~(exitFlushStarted \/ pendingQueue = <<>>)
      <4>1. StartFlush("beforeExit")
        BY <2>4, <3>3 DEF BeforeExit
      <4> QED
        BY <2>1, <4>1, StartGuard DEF NormalExitDrains
    <3> QED
      BY <3>2, <3>3
  <2>5. CASE Signal
    <3>1. PICK kind \in {"ours", "host"} : StartFlush(kind)
      BY <2>5 DEF Signal
    <3> QED
      BY <2>1, <3>1, StartGuard DEF NormalExitDrains
  <2>6. CASE FlushDrains \/ FlushExpires
    <3>1. Finish(flush)
      BY <2>6 DEF FlushDrains, FlushExpires
    <3> QED
      BY <2>1, <3>1, FinishGuard DEF NormalExitDrains
  <2> QED
    BY <1>1, <2>2, <2>3, <2>4, <2>5, <2>6 DEF ExitNext
<1>2. CASE UNCHANGED allVars
  BY <1>2 DEF ExitInv, NormalExitDrains, Waiting, allVars, vars, sender, shutdown
<1> QED
  BY <1>1, <1>2

\* A process that ends by itself holds no signed event, whatever flushes
\* expired, backoffs ran and requests were refused before.
THEOREM ExitDrains == ExitSpec => []NormalExitDrains
<1>1. ExitInit => ExitInv
  BY InitInv DEF ExitInit, ExitInv, NormalExitDrains, SenderInv
<1>2. ExitSpec => []ProcessorAwake
  BY ExitImplementsSender, NoLostWakeup, PTL
<1>3. ExitInv => NormalExitDrains
  BY DEF ExitInv
<1> QED
  BY <1>1, <1>2, <1>3, ExitStep, PTL DEF ExitSpec

----------------------------------------------------------------------------
(* The scan of one session.                                                *)

\* f holds the states of the scan after each prefix of the events.
Scans(f, events, mode, n) ==
  /\ f[0] = Cli!Start
  /\ \A i \in 1..n : f[i] = Cli!Scan(f[i - 1], i, events[i], events[1], mode)

\* The scan has a state after every event.
LEMMA ScanExists ==
  ASSUME NEW events, NEW mode
  PROVE  \A n \in Nat : \E f : Scans(f, events, mode, n)
<1> DEFINE Bad == {n \in Nat : ~\E f : Scans(f, events, mode, n)}
<1>1. Bad \subseteq Nat /\ \A n \in Nat : n \notin Bad <=> \E f : Scans(f, events, mode, n)
  OBVIOUS
<1>2. 0 \notin Bad
  <2>1. Scans([i \in {0} |-> Cli!Start], events, mode, 0)
    BY DEF Scans
  <2>2. QED
    BY <2>1
<1> HIDE DEF Bad
<1>3. ASSUME Bad # {} PROVE FALSE
  <2>1. PICK n \in Bad : \A m \in Bad : ~(m < n)
    BY <1>1, <1>3, LeastOf
  <2>2. n \in Nat /\ n # 0
    BY <1>1, <1>2, <2>1
  <2>3. n - 1 \in Nat /\ n - 1 \notin Bad
    BY <1>1, <2>1, <2>2
  <2>4. PICK f : Scans(f, events, mode, n - 1)
    BY <1>1, <2>3
  <2> DEFINE last == Cli!Scan(f[n - 1], n, events[n], events[1], mode)
             g == [i \in 0..n |-> IF i = n THEN last ELSE f[i]]
  <2> HIDE DEF last
  <2>5. g[0] = Cli!Start /\ g[n] = last /\ \A i \in 0..(n - 1) : g[i] = f[i]
    BY <2>2, <2>4 DEF Scans
  <2> HIDE DEF g
  <2>6. ASSUME NEW i \in 1..n
        PROVE  g[i] = Cli!Scan(g[i - 1], i, events[i], events[1], mode)
    <3>1. CASE i = n
      <4>1. g[i - 1] = f[n - 1]
        BY <2>2, <2>5, <3>1
      <4>2. QED
        BY <2>5, <3>1, <4>1 DEF last
    <3>2. CASE i # n
      <4>1. i \in 1..(n - 1) /\ i \in 0..(n - 1) /\ i - 1 \in 0..(n - 1)
        BY <2>2, <3>2
      <4>2. f[i] = Cli!Scan(f[i - 1], i, events[i], events[1], mode)
        BY <2>4, <4>1 DEF Scans
      <4>3. QED
        BY <2>5, <4>1, <4>2
    <3>3. QED
      BY <3>1, <3>2
  <2>7. Scans(g, events, mode, n)
    BY <2>5, <2>6 DEF Scans
  <2>8. QED
    BY <1>1, <2>1, <2>2, <2>7
<1>4. QED
  BY <1>1, <1>3

\* What the verifier computes is the last of these states.
LEMMA ScannedIs ==
  ASSUME NEW events, Len(events) \in Nat, NEW mode
  PROVE  \E f : /\ Scans(f, events, mode, Len(events))
                /\ Cli!Scanned(events, mode) = f[Len(events)]
<1> DEFINE n == Len(events)
           step(f) == [i \in 0..n |-> IF i = 0 THEN Cli!Start
                                      ELSE Cli!Scan(f[i - 1], i, events[i], events[1], mode)]
           after == CHOOSE f : f = step(f)
<1>1. PICK f : Scans(f, events, mode, n)
  BY ScanExists
<1> DEFINE w == step(f)
<1>2. \A i \in 0..n : w[i] = f[i]
  BY <1>1 DEF Scans
<1>3. \A i \in 0..n : i # 0 => i - 1 \in 0..n
  OBVIOUS
<1> HIDE DEF w
<1>4. step(w) = step(f)
  BY <1>2, <1>3
<1>5. w = step(w)
  BY <1>4 DEF w
<1>6. after = step(after)
  BY <1>5
<1>7. Cli!Scanned(events, mode) = after[n]
  BY DEF Cli!Scanned
<1> HIDE DEF after
<1>8. Scans(after, events, mode, n)
  BY <1>6 DEF Scans
<1>9. QED
  BY <1>7, <1>8

\* A scan that ends without a break had none before, and each event was tallied.
LEMMA CleanScan ==
  ASSUME NEW events, NEW mode, NEW n \in Nat, NEW f, Scans(f, events, mode, n), f[n].breaks = {}
  PROVE  /\ f[0].gapMarkers = 0 /\ f[0].eventsDeclaredLost = 0
         /\ \A i \in 1..n :
              /\ f[i].gapMarkers = f[i - 1].gapMarkers + (IF Cli!IsAuditGap(events[i]) THEN 1 ELSE 0)
              /\ f[i].eventsDeclaredLost = f[i - 1].eventsDeclaredLost
                   + (IF Cli!IsAuditGap(events[i]) THEN Cli!Dropped(events[i]) ELSE 0)
<1>1. \A st, i, e, first : "breaks" \in DOMAIN st =>
        /\ "breaks" \in DOMAIN Cli!Scan(st, i, e, first, mode)
        /\ st.breaks \subseteq Cli!Scan(st, i, e, first, mode).breaks
  <2>1. SUFFICES ASSUME NEW st, NEW i, NEW e, NEW first, "breaks" \in DOMAIN st
        PROVE  /\ "breaks" \in DOMAIN Cli!Scan(st, i, e, first, mode)
               /\ st.breaks \subseteq Cli!Scan(st, i, e, first, mode).breaks
    OBVIOUS
  <2>2. CASE e.sdk_session_id # first.sdk_session_id
    <3>1. Cli!Scan(st, i, e, first, mode) = [st EXCEPT !.breaks = st.breaks \cup {i}]
      BY <2>2 DEF Cli!Scan
    <3>2. \A x : DOMAIN [st EXCEPT !.breaks = x] = DOMAIN st /\ [st EXCEPT !.breaks = x].breaks = x
      BY <2>1
    <3>3. QED
      BY <2>1, <3>1, <3>2
  <2>3. CASE e.sdk_session_id = first.sdk_session_id
    <3>1. \A a, b, c, d, g, h, k :
            "breaks" \in DOMAIN [lastSeq |-> a, lastSig |-> b, lastTimestamp |-> c, breaks |-> d,
                                 gapMarkers |-> g, eventsDeclaredLost |-> h, deviceSignedEvents |-> k]
      OBVIOUS
    <3>2. "breaks" \in DOMAIN Cli!Scan(st, i, e, first, mode)
      BY <2>3, <3>1, Zenon DEF Cli!Scan
    <3>3. st.breaks \subseteq Cli!Scan(st, i, e, first, mode).breaks
      BY <2>3 DEF Cli!Scan
    <3>4. QED
      BY <3>2, <3>3
  <2>4. QED
    BY <2>2, <2>3
<1>2. \A i \in 0..n : "breaks" \in DOMAIN f[i]
  <2> DEFINE Bad == {i \in 0..n : "breaks" \notin DOMAIN f[i]}
  <2>1. Bad \subseteq Nat /\ \A i \in 0..n : i \notin Bad <=> "breaks" \in DOMAIN f[i]
    OBVIOUS
  <2>2. 0 \notin Bad
    BY DEF Scans, Cli!Start
  <2>3. \A i \in Bad : i \in 0..n
    OBVIOUS
  <2> HIDE DEF Bad
  <2>4. ASSUME Bad # {} PROVE FALSE
    <3>1. PICK i \in Bad : \A m \in Bad : ~(m < i)
      BY <2>1, <2>4, LeastOf
    <3>2. i \in 1..n /\ i - 1 \in 0..n /\ i - 1 \notin Bad
      BY <2>2, <2>3, <3>1
    <3>3. "breaks" \in DOMAIN f[i - 1]
      BY <2>1, <3>2
    <3>4. f[i] = Cli!Scan(f[i - 1], i, events[i], events[1], mode)
      BY <3>2 DEF Scans
    <3>5. QED
      BY <1>1, <2>1, <2>3, <3>1, <3>3, <3>4
  <2>5. QED
    BY <2>1, <2>4
<1>3. \A i \in 1..n : f[i - 1].breaks \subseteq f[i].breaks
  <2>1. SUFFICES ASSUME NEW i \in 1..n PROVE f[i - 1].breaks \subseteq f[i].breaks
    OBVIOUS
  <2>2. "breaks" \in DOMAIN f[i - 1]
    BY <1>2
  <2>3. QED
    BY <1>1, <2>2 DEF Scans
<1>4. \A i \in 0..n : f[i].breaks = {}
  <2> DEFINE Bad == {k \in 0..n : f[n - k].breaks # {}}
  <2>1. Bad \subseteq Nat /\ \A k \in 0..n : k \notin Bad => f[n - k].breaks = {}
    OBVIOUS
  <2>2. 0 \notin Bad
    OBVIOUS
  <2>3. \A k \in Bad : k \in 0..n /\ f[n - k].breaks # {}
    OBVIOUS
  <2> HIDE DEF Bad
  <2>4. ASSUME Bad # {} PROVE FALSE
    <3>1. PICK k \in Bad : \A m \in Bad : ~(m < k)
      BY <2>1, <2>4, LeastOf
    <3>2. k \in 1..n /\ k - 1 \in 0..n /\ k - 1 \notin Bad
      BY <2>1, <2>2, <2>3, <3>1
    <3>3. f[n - (k - 1)].breaks = {}
      BY <2>1, <3>2
    <3>4. n - (k - 1) \in 1..n /\ (n - (k - 1)) - 1 = n - k
      BY <3>2
    <3>5. f[n - k].breaks \subseteq f[n - (k - 1)].breaks
      BY <1>3, <3>4
    <3>6. QED
      BY <2>3, <3>1, <3>3, <3>5
  <2>5. ASSUME NEW i \in 0..n PROVE f[i].breaks = {}
    <3>1. n - i \in 0..n /\ n - (n - i) = i
      OBVIOUS
    <3>2. QED
      BY <2>1, <2>4, <3>1
  <2>6. QED
    BY <2>5
<1>5. f[0].gapMarkers = 0 /\ f[0].eventsDeclaredLost = 0
  BY DEF Scans, Cli!Start
<1>6. ASSUME NEW i \in 1..n
      PROVE  /\ f[i].gapMarkers = f[i - 1].gapMarkers + (IF Cli!IsAuditGap(events[i]) THEN 1 ELSE 0)
             /\ f[i].eventsDeclaredLost = f[i - 1].eventsDeclaredLost
                  + (IF Cli!IsAuditGap(events[i]) THEN Cli!Dropped(events[i]) ELSE 0)
  <2>1. f[i] = Cli!Scan(f[i - 1], i, events[i], events[1], mode)
    BY DEF Scans
  <2>2. f[i].breaks = {} /\ f[i - 1].breaks = {}
    BY <1>4
  <2>3. CASE events[i].sdk_session_id # events[1].sdk_session_id
    <3>1. f[i] = [f[i - 1] EXCEPT !.breaks = f[i - 1].breaks \cup {i}]
      BY <2>1, <2>3 DEF Cli!Scan
    <3>2. "breaks" \in DOMAIN f[i - 1]
      BY <1>2
    <3>3. i \in f[i].breaks
      BY <3>1, <3>2
    <3>4. QED
      BY <2>2, <3>3
  <2>4. CASE events[i].sdk_session_id = events[1].sdk_session_id
    BY <2>1, <2>2, <2>4 DEF Cli!Scan
  <2>5. QED
    BY <2>3, <2>4
<1>7. QED
  BY <1>5, <1>6

\* What a marker counts for, and what it declares.
One == [e \in Event |-> IF IsGapMarker(e) THEN 1 ELSE 0]
Claim == [e \in Event |-> IF IsGapMarker(e) THEN e.gap ELSE 0]

\* The verifier takes exactly the sender's markers for markers.
LEMMA MarkersRead ==
  \A e : /\ Cli!IsAuditGap(Exported(e)) <=> IsGapMarker(e)
         /\ IsGapMarker(e) => Cli!Dropped(Exported(e)) = e.gap
<1>1. SUFFICES ASSUME NEW e
      PROVE  /\ Cli!IsAuditGap(Exported(e)) <=> IsGapMarker(e)
             /\ IsGapMarker(e) => Cli!Dropped(Exported(e)) = e.gap
  OBVIOUS
<1>2. CASE IsGapMarker(e)
  <2>1. Exported(e).class = "audit.gap" /\ Exported(e).prompt = <<0, e.gap>>
    BY <1>2 DEF Exported
  <2>2. QED
    BY <1>2, <2>1 DEF Cli!IsAuditGap, Cli!AUDIT_GAP_OPERATION, Cli!Dropped
<1>3. CASE ~IsGapMarker(e)
  <2>1. Exported(e).class = "llm_call"
    BY <1>3 DEF Exported
  <2>2. QED
    BY <1>3, <2>1 DEF Cli!IsAuditGap, Cli!AUDIT_GAP_OPERATION
<1>4. QED
  BY <1>2, <1>3

\* A session found valid is tallied in full: the markers in it and what they declare.
LEMMA SessionTallied ==
  ASSUME NEW n \in Nat \ {0}, NEW ev \in [1..n -> Event], \A i, j \in 1..n : ev[i] = ev[j] => i = j,
         NEW events, events = [k \in 1..n |-> Exported(ev[k])], NEW mode,
         Cli!VerifyAuditChain(events, mode).valid, NEW E, E = {ev[k] : k \in 1..n}
  PROVE  /\ Cli!VerifyAuditChain(events, mode).gapMarkers = Total(One, E)
         /\ Cli!VerifyAuditChain(events, mode).eventsDeclaredLost = Total(Claim, E)
<1>1. events \in Seq({Exported(ev[k]) : k \in 1..n}) /\ Len(events) = n /\ events # <<>>
  OBVIOUS
<1>2. Cli!Supported(events[1])
  <2>1. events[1].chain_format = 5
    BY DEF Exported
  <2>2. QED
    BY <2>1 DEF Cli!Supported, Cli!DeclaredFormat, Cli!NoFormat, Cli!CHAIN_FORMATS_SUPPORTED
<1> DEFINE st == Cli!Scanned(events, mode)
<1>3. /\ Cli!VerifyAuditChain(events, mode).valid <=> st.breaks = {}
      /\ Cli!VerifyAuditChain(events, mode).gapMarkers = st.gapMarkers
      /\ Cli!VerifyAuditChain(events, mode).eventsDeclaredLost = st.eventsDeclaredLost
  BY <1>1, <1>2 DEF Cli!VerifyAuditChain
<1> HIDE DEF st
<1>4. PICK f : Scans(f, events, mode, n) /\ st = f[n]
  BY <1>1, ScannedIs DEF st
<1>5. f[n].breaks = {}
  BY <1>3, <1>4
<1>6. /\ f[0].gapMarkers = 0 /\ f[0].eventsDeclaredLost = 0
      /\ \A i \in 1..n :
           /\ f[i].gapMarkers = f[i - 1].gapMarkers + (IF Cli!IsAuditGap(events[i]) THEN 1 ELSE 0)
           /\ f[i].eventsDeclaredLost = f[i - 1].eventsDeclaredLost
                + (IF Cli!IsAuditGap(events[i]) THEN Cli!Dropped(events[i]) ELSE 0)
  BY <1>4, <1>5, CleanScan
<1>7. \A i \in 1..n : /\ f[i].gapMarkers = f[i - 1].gapMarkers + One[ev[i]]
                      /\ f[i].eventsDeclaredLost = f[i - 1].eventsDeclaredLost + Claim[ev[i]]
  <2>1. SUFFICES ASSUME NEW i \in 1..n
        PROVE  /\ f[i].gapMarkers = f[i - 1].gapMarkers + One[ev[i]]
               /\ f[i].eventsDeclaredLost = f[i - 1].eventsDeclaredLost + Claim[ev[i]]
    OBVIOUS
  <2>2. events[i] = Exported(ev[i]) /\ ev[i] \in Event
    OBVIOUS
  <2>3. QED
    BY <1>6, <2>2, MarkersRead DEF One, Claim
<1>8. \A e \in Event : One[e] \in Nat /\ Claim[e] \in Nat
  BY DEF One, Claim, Event
<1> DEFINE Upto(i) == {ev[k] : k \in 1..i}
           Right(i) == /\ f[i].gapMarkers = Total(One, Upto(i))
                       /\ f[i].eventsDeclaredLost = Total(Claim, Upto(i))
           Bad == {i \in 0..n : ~Right(i)}
<1>9. \A i \in 0..n : IsFiniteSet(Upto(i)) /\ Upto(i) \subseteq Event
  <2>1. SUFFICES ASSUME NEW i \in 0..n PROVE IsFiniteSet(Upto(i)) /\ Upto(i) \subseteq Event
    OBVIOUS
  <2>2. IsFiniteSet(1..i)
    BY FS_Interval
  <2>3. [k \in 1..i |-> ev[k]] \in Surjection(1..i, Upto(i))
    BY DEF Surjection
  <2>4. IsFiniteSet(Upto(i))
    BY <2>2, <2>3, FS_Surjection
  <2>5. QED
    BY <2>4
<1>10. Right(0)
  <2>1. Upto(0) = {}
    OBVIOUS
  <2>2. Total(One, {}) = 0 /\ Total(Claim, {}) = 0
    BY TotalRemoves, FS_EmptySet
  <2>3. QED
    BY <1>6, <2>1, <2>2
<1>11. ASSUME NEW i \in 1..n, Right(i - 1) PROVE Right(i)
  <2>1. Upto(i) = Upto(i - 1) \cup {ev[i]} /\ ev[i] \notin Upto(i - 1) /\ ev[i] \in Event
    OBVIOUS
  <2>2. IsFiniteSet(Upto(i - 1)) /\ Upto(i - 1) \subseteq Event
    <3>1. i - 1 \in 0..n
      OBVIOUS
    <3> HIDE DEF Upto
    <3>2. QED
      BY <1>9, <3>1
  <2>3. /\ f[i - 1].gapMarkers = Total(One, Upto(i - 1))
        /\ f[i - 1].eventsDeclaredLost = Total(Claim, Upto(i - 1))
    BY <1>11
  <2> HIDE DEF Upto
  <2>4. Total(One, Upto(i)) = Total(One, Upto(i - 1)) + One[ev[i]]
    BY <1>8, <2>1, <2>2, TotalAdds
  <2>5. Total(Claim, Upto(i)) = Total(Claim, Upto(i - 1)) + Claim[ev[i]]
    BY <1>8, <2>1, <2>2, TotalAdds
  <2>6. QED
    BY <1>7, <2>3, <2>4, <2>5
<1> HIDE DEF Right
<1>12. /\ Bad \subseteq Nat
       /\ \A i \in Bad : i \in 0..n /\ ~Right(i)
       /\ \A i \in 0..n : i \notin Bad => Right(i)
  OBVIOUS
<1> HIDE DEF Bad
<1>13. ASSUME Bad # {} PROVE FALSE
  <2>1. PICK i \in Bad : \A m \in Bad : ~(m < i)
    BY <1>12, <1>13, LeastOf
  <2>2. i \in 1..n /\ i - 1 \in 0..n /\ i - 1 \notin Bad
    BY <1>10, <1>12, <2>1
  <2>3. QED
    BY <1>11, <1>12, <2>1, <2>2
<1>14. Right(n)
  BY <1>12, <1>13
<1>15. Upto(n) = E
  OBVIOUS
<1> HIDE DEF Upto
<1>16. QED
  BY <1>3, <1>4, <1>14, <1>15 DEF Right

----------------------------------------------------------------------------
(* The export and its sessions.                                            *)

Readable ==
  /\ IsFiniteSet(recorded) /\ recorded \subseteq Event
  /\ \A d, e \in recorded : d.sdk_sig = e.sdk_sig => d = e

\* The export lists the recorded events in the order they were signed in.
LEMMA BundleIs ==
  ASSUME Readable
  PROVE  \E r : LET n == Cardinality(recorded) IN
           /\ n \in Nat /\ r \in [1..n -> recorded]
           /\ \A i, j \in 1..n : i < j => r[i].sdk_sig < r[j].sdk_sig
           /\ \A e \in recorded : \E k \in 1..n : r[k] = e
           /\ Bundle = [i \in 1..n |-> Exported(r[i])]
<1> DEFINE n == Cardinality(recorded)
           R == {p \in recorded \X recorded : p[1].sdk_sig < p[2].sdk_sig}
           AtPlace(k) == CHOOSE x \in recorded :
                           Cardinality({y \in recorded : y.sdk_sig < x.sdk_sig}) = k - 1
           r == [k \in 1..n |-> AtPlace(k)]
<1>1. \A e \in recorded : e.sdk_sig \in Nat
  BY DEF Readable, Event
<1>2. \A x, y \in recorded : <<x, y>> \in R <=> x.sdk_sig < y.sdk_sig
  OBVIOUS
<1>3. Bundle = [i \in 1..n |-> Exported(r[i])]
  <2>1. Bundle = [i \in DOMAIN r |-> Exported(r[i])]
    BY DEF Bundle, Cli!Ranked, Cli!Cardinality, Cardinality
  <2>2. DOMAIN r = 1..n
    OBVIOUS
  <2> HIDE DEF r
  <2>3. QED
    BY <2>1, <2>2
<1>4. Orders(R, recorded)
  <2> HIDE DEF R
  <2>1. QED
    BY <1>1, <1>2 DEF Orders, Readable
<1>5. \A x \in recorded : {y \in recorded : y.sdk_sig < x.sdk_sig} = {y \in recorded : <<y, x>> \in R}
  <2> HIDE DEF R
  <2>1. QED
    BY <1>2
<1> HIDE DEF R
<1>6. RanksBy(r, R, recorded)
  <2>1. ASSUME NEW k \in 1..n, NEW x \in recorded, Cardinality({y \in recorded : <<y, x>> \in R}) = k - 1
        PROVE  r[k] \in recorded /\ Cardinality({y \in recorded : <<y, r[k]>> \in R}) = k - 1
    <3>1. r[k] = CHOOSE z \in recorded : Cardinality({y \in recorded : y.sdk_sig < z.sdk_sig}) = k - 1
      OBVIOUS
    <3>2. Cardinality({y \in recorded : y.sdk_sig < x.sdk_sig}) = k - 1
      BY <1>5, <2>1
    <3>3. r[k] \in recorded /\ Cardinality({y \in recorded : y.sdk_sig < r[k].sdk_sig}) = k - 1
      BY <3>1, <3>2
    <3> HIDE DEF r
    <3>4. QED
      BY <1>5, <3>3
  <2>2. r = [k \in 1..n |-> r[k]]
    <3> HIDE DEF AtPlace
    <3>1. QED
      OBVIOUS
  <2> HIDE DEF r
  <2>3. QED
    BY <2>1, <2>2 DEF RanksBy
<1> HIDE DEF r
<1>7. /\ n \in Nat /\ r \in [1..n -> recorded]
      /\ \A i, j \in 1..n : i < j => <<r[i], r[j]>> \in R
      /\ \A e \in recorded : \E k \in 1..n : r[k] = e
  BY <1>4, <1>6, RankedEnumerates DEF Readable
<1>8. \A i, j \in 1..n : i < j => r[i].sdk_sig < r[j].sdk_sig
  BY <1>2, <1>7
<1>9. QED
  BY <1>3, <1>7, <1>8

\* What the verifier reads of one session: its recorded events, each once, sorted by seq_no.
LEMMA SessionOfBundle ==
  ASSUME Readable, NEW sid \in Cli!SessionsOf(Bundle)
  PROVE  \E m \in Nat \ {0} : \E ev \in [1..m -> Event] :
           /\ \A i, j \in 1..m : ev[i] = ev[j] => i = j
           /\ {ev[k] : k \in 1..m} = {e \in recorded : e.sdk_session_id = sid}
           /\ \A i, j \in 1..m : i < j => ev[i].seq_no <= ev[j].seq_no
           /\ Cli!SessionEvents(Bundle, sid) = [k \in 1..m |-> Exported(ev[k])]
<1> DEFINE n == Cardinality(recorded)
<1>1. PICK r : /\ n \in Nat /\ r \in [1..n -> recorded]
               /\ \A i, j \in 1..n : i < j => r[i].sdk_sig < r[j].sdk_sig
               /\ \A e \in recorded : \E k \in 1..n : r[k] = e
               /\ Bundle = [i \in 1..n |-> Exported(r[i])]
  BY BundleIs
<1> HIDE DEF n
<1>2. \A i \in 1..n : /\ r[i] \in recorded /\ r[i] \in Event
                      /\ r[i].sdk_sig \in Nat /\ r[i].seq_no \in Nat
  BY <1>1 DEF Readable, Event
<1>3. \A i, j \in 1..n : r[i] = r[j] => i = j
  <2>1. SUFFICES ASSUME NEW i \in 1..n, NEW j \in 1..n, r[i] = r[j], i # j PROVE FALSE
    OBVIOUS
  <2>2. i < j \/ j < i
    BY <2>1, <1>1
  <2>3. r[i].sdk_sig < r[j].sdk_sig \/ r[j].sdk_sig < r[i].sdk_sig
    BY <1>1, <2>2
  <2>4. QED
    BY <1>2, <2>1, <2>3
<1>4. /\ DOMAIN Bundle = 1..n
      /\ \A i \in 1..n : /\ Bundle[i].sdk_session_id = r[i].sdk_session_id
                         /\ Cli!SeqKey(Bundle[i]) = r[i].seq_no
  BY <1>1, <1>2 DEF Exported, Cli!SeqKey, Cli!NoSeq
<1> DEFINE mine == {i \in 1..n : r[i].sdk_session_id = sid}
           m == Cardinality(mine)
           Before(a, b) == r[a].seq_no < r[b].seq_no \/ (r[a].seq_no = r[b].seq_no /\ a < b)
           R == {p \in mine \X mine : Before(p[1], p[2])}
           AtPlace(k) == CHOOSE x \in mine : Cardinality({y \in mine :
                   \/ Cli!SeqKey(Bundle[y]) < Cli!SeqKey(Bundle[x])
                   \/ Cli!SeqKey(Bundle[y]) = Cli!SeqKey(Bundle[x]) /\ y < x}) = k - 1
           o == [k \in 1..m |-> AtPlace(k)]
<1>5. mine = {i \in DOMAIN Bundle : Bundle[i].sdk_session_id = sid} /\ mine \subseteq 1..n
  BY <1>4
<1>6. Cli!SessionEvents(Bundle, sid) = [k \in DOMAIN o |-> Bundle[o[k]]]
  <2> DEFINE order == Cli!Ranked(mine, LAMBDA a, b :
                        \/ Cli!SeqKey(Bundle[a]) < Cli!SeqKey(Bundle[b])
                        \/ Cli!SeqKey(Bundle[a]) = Cli!SeqKey(Bundle[b]) /\ a < b)
  <2>1. order = o
    BY DEF Cli!Ranked, Cli!Cardinality, Cardinality
  <2> HIDE DEF mine, o
  <2>2. Cli!SessionEvents(Bundle, sid) = [k \in DOMAIN order |-> Bundle[order[k]]]
    BY <1>5, Zenon DEF Cli!SessionEvents
  <2> HIDE DEF order
  <2>3. QED
    BY <2>1, <2>2
<1>7. IsFiniteSet(mine)
  BY <1>1, <1>5, FS_Interval, FS_Subset
<1> HIDE DEF mine, m
<1>8. \A x, y \in mine : <<x, y>> \in R <=> Before(x, y)
  OBVIOUS
<1>9. \A x \in mine : {y \in mine : \/ Cli!SeqKey(Bundle[y]) < Cli!SeqKey(Bundle[x])
                                    \/ Cli!SeqKey(Bundle[y]) = Cli!SeqKey(Bundle[x]) /\ y < x}
                      = {y \in mine : <<y, x>> \in R}
  <2> HIDE DEF R
  <2>1. QED
    BY <1>4, <1>5, <1>8
<1> HIDE DEF R
<1>10. Orders(R, mine)
  <2>1. \A x \in mine : x \in Int /\ r[x].seq_no \in Nat
    BY <1>1, <1>2, <1>5
  <2>2. QED
    BY <1>8, <2>1 DEF Orders
<1>11. RanksBy(o, R, mine)
  <2>1. ASSUME NEW k \in 1..m, NEW x \in mine, Cardinality({y \in mine : <<y, x>> \in R}) = k - 1
        PROVE  o[k] \in mine /\ Cardinality({y \in mine : <<y, o[k]>> \in R}) = k - 1
    <3> DEFINE Ahead(z) == {y \in mine :
                   \/ Cli!SeqKey(Bundle[y]) < Cli!SeqKey(Bundle[z])
                   \/ Cli!SeqKey(Bundle[y]) = Cli!SeqKey(Bundle[z]) /\ y < z}
    <3>1. o[k] = CHOOSE z \in mine : Cardinality(Ahead(z)) = k - 1
      OBVIOUS
    <3>2. \A z \in mine : Ahead(z) = {y \in mine : <<y, z>> \in R}
      BY <1>9
    <3> HIDE DEF Ahead, o
    <3>3. Cardinality(Ahead(x)) = k - 1
      BY <2>1, <3>2
    <3>4. o[k] \in mine /\ Cardinality(Ahead(o[k])) = k - 1
      BY <3>1, <3>3
    <3>5. QED
      BY <3>2, <3>4
  <2>2. o = [k \in 1..m |-> o[k]]
    <3> HIDE DEF AtPlace
    <3>1. QED
      OBVIOUS
  <2> HIDE DEF o
  <2>3. QED
    BY <2>1, <2>2 DEF RanksBy, m
<1>12. DOMAIN o = 1..m
  OBVIOUS
<1> HIDE DEF o
<1>13. /\ m \in Nat /\ o \in [1..m -> mine]
       /\ \A i, j \in 1..m : i < j => <<o[i], o[j]>> \in R
       /\ \A x \in mine : \E k \in 1..m : o[k] = x
  BY <1>7, <1>10, <1>11, RankedEnumerates DEF m
<1> DEFINE ev == [k \in 1..m |-> r[o[k]]]
<1>14. \A k \in 1..m : o[k] \in mine /\ o[k] \in 1..n /\ ev[k] = r[o[k]]
  BY <1>5, <1>13
<1>15. ev \in [1..m -> Event]
  BY <1>2, <1>14
<1>16. Cli!SessionEvents(Bundle, sid) = [k \in 1..m |-> Exported(ev[k])]
  <2>1. \A k \in 1..m : Bundle[o[k]] = Exported(ev[k])
    BY <1>1, <1>14
  <2>2. QED
    BY <1>6, <1>12, <2>1
<1> HIDE DEF ev
<1>17. \A i, j \in 1..m : i < j => ev[i].seq_no <= ev[j].seq_no
  <2>1. SUFFICES ASSUME NEW i \in 1..m, NEW j \in 1..m, i < j PROVE ev[i].seq_no <= ev[j].seq_no
    OBVIOUS
  <2>2. Before(o[i], o[j])
    BY <1>8, <1>13, <1>14, <2>1
  <2>3. r[o[i]].seq_no \in Nat /\ r[o[j]].seq_no \in Nat /\ ev[i] = r[o[i]] /\ ev[j] = r[o[j]]
    BY <1>2, <1>14
  <2>4. QED
    BY <2>2, <2>3
<1>18. \A i, j \in 1..m : ev[i] = ev[j] => i = j
  <2>1. SUFFICES ASSUME NEW i \in 1..m, NEW j \in 1..m, ev[i] = ev[j], i # j PROVE FALSE
    OBVIOUS
  <2>2. o[i] = o[j]
    BY <1>3, <1>14, <2>1
  <2>3. i < j \/ j < i
    BY <2>1, <1>13
  <2>4. <<o[i], o[i]>> \in R
    BY <1>13, <2>2, <2>3
  <2>5. QED
    BY <1>10, <1>14, <2>4 DEF Orders
<1>19. {ev[k] : k \in 1..m} = {e \in recorded : e.sdk_session_id = sid}
  <2>1. ASSUME NEW k \in 1..m PROVE ev[k] \in recorded /\ ev[k].sdk_session_id = sid
    BY <1>2, <1>14 DEF mine
  <2>2. ASSUME NEW e \in recorded, e.sdk_session_id = sid PROVE \E k \in 1..m : ev[k] = e
    <3>1. PICK i \in 1..n : r[i] = e
      BY <1>1
    <3>2. i \in mine
      BY <2>2, <3>1 DEF mine
    <3>3. PICK k \in 1..m : o[k] = i
      BY <1>13, <3>2
    <3>4. QED
      BY <1>14, <3>1, <3>3
  <2>3. QED
    BY <2>1, <2>2
<1>20. m # 0
  <2>1. PICK i \in DOMAIN Bundle : Bundle[i].sdk_session_id = sid
    BY DEF Cli!SessionsOf
  <2>2. i \in mine
    BY <1>5, <2>1
  <2>3. QED
    BY <1>13, <2>2
<1>21. m \in Nat \ {0}
  BY <1>13, <1>20
<1>22. QED
  BY <1>15, <1>16, <1>17, <1>18, <1>19, <1>21, Zenon

\* The sums the verifier takes over the sessions are totals.
LEMMA MarkersSummed ==
  ASSUME NEW S, IsFiniteSet(S), NEW res
  PROVE  Cli!MapThenSumSet(LAMBDA d : res[d].gapMarkers, S)
           = Total([d \in S |-> res[d].gapMarkers], S)
<1> DEFINE t == [d \in S |-> res[d].gapMarkers]
           step(g) == [s \in SUBSET S |-> IF s = {} THEN 0
                         ELSE LET x == CHOOSE y \in s : TRUE IN res[x].gapMarkers + g[s \ {x}]]
           iter == CHOOSE g : g = step(g)
<1>1. Cli!MapThenSumSet(LAMBDA d : res[d].gapMarkers, S) = iter[S]
  BY DEF Cli!MapThenSumSet, Cli!MapThenFoldSet
<1>2. ASSUME NEW g PROVE step(g) = SumStep(t, S, g)
  <2>1. \A s \in SUBSET S : s # {} => t[CHOOSE y \in s : TRUE] = res[CHOOSE y \in s : TRUE].gapMarkers
    OBVIOUS
  <2> HIDE DEF t
  <2>2. QED
    BY <2>1 DEF SumStep
<1>3. PICK g : Sums(t, S, g)
  BY SumExists
<1> HIDE DEF t
<1>4. g = step(g)
  BY <1>2, <1>3 DEF Sums
<1>5. iter = step(iter)
  BY <1>4
<1> HIDE DEF iter, step
<1>6. Sums(t, S, iter)
  BY <1>2, <1>5 DEF Sums
<1>7. QED
  BY <1>1, <1>6, TotalIs DEF t

\* The lost events the sessions declare, summed over the sessions, are a total.
LEMMA DeclaredSummed ==
  ASSUME NEW S, IsFiniteSet(S), NEW res
  PROVE  Cli!MapThenSumSet(LAMBDA d : res[d].eventsDeclaredLost, S)
           = Total([d \in S |-> res[d].eventsDeclaredLost], S)
<1> DEFINE t == [d \in S |-> res[d].eventsDeclaredLost]
           step(g) == [s \in SUBSET S |-> IF s = {} THEN 0
                         ELSE LET x == CHOOSE y \in s : TRUE IN res[x].eventsDeclaredLost + g[s \ {x}]]
           iter == CHOOSE g : g = step(g)
<1>1. Cli!MapThenSumSet(LAMBDA d : res[d].eventsDeclaredLost, S) = iter[S]
  BY DEF Cli!MapThenSumSet, Cli!MapThenFoldSet
<1>2. ASSUME NEW g PROVE step(g) = SumStep(t, S, g)
  <2>1. \A s \in SUBSET S : s # {} => t[CHOOSE y \in s : TRUE] = res[CHOOSE y \in s : TRUE].eventsDeclaredLost
    OBVIOUS
  <2> HIDE DEF t
  <2>2. QED
    BY <2>1 DEF SumStep
<1>3. PICK g : Sums(t, S, g)
  BY SumExists
<1> HIDE DEF t
<1>4. g = step(g)
  BY <1>2, <1>3 DEF Sums
<1>5. iter = step(iter)
  BY <1>4
<1> HIDE DEF iter, step
<1>6. Sums(t, S, iter)
  BY <1>2, <1>5 DEF Sums
<1>7. QED
  BY <1>1, <1>6, TotalIs DEF t

\* The verdict on the export, session by session.
SessionVerdict(sid) ==
  Cli!VerifyAuditChain(Cli!SessionEvents(Bundle, sid), [keyed |-> TRUE, pinned |-> {}])

\* What the verifier says of a readable export, session by session: it is valid
\* when every session is, its declared losses are the sessions' total, and only a
\* valid export without a gap marker exits with code 0.
LEMMA VerdictIs ==
  ASSUME Readable
  PROVE  /\ IsFiniteSet(Cli!SessionsOf(Bundle))
         /\ Cli!SessionsOf(Bundle) = {e.sdk_session_id : e \in recorded}
         /\ Verdict.valid <=> \A sid \in Cli!SessionsOf(Bundle) : SessionVerdict(sid).valid
         /\ Verdict.eventsDeclaredLost
              = Total([sid \in Cli!SessionsOf(Bundle) |-> SessionVerdict(sid).eventsDeclaredLost],
                      Cli!SessionsOf(Bundle))
         /\ Verdict.exitCode = 0 =>
              /\ Verdict.valid
              /\ Total([sid \in Cli!SessionsOf(Bundle) |-> SessionVerdict(sid).gapMarkers],
                       Cli!SessionsOf(Bundle)) = 0
<1> DEFINE D == Cli!SessionsOf(Bundle)
           res == [sid \in D |-> SessionVerdict(sid)]
           markers == Cli!MapThenSumSet(LAMBDA sid : res[sid].gapMarkers, DOMAIN res)
           declared == Cli!MapThenSumSet(LAMBDA sid : res[sid].eventsDeclaredLost, DOMAIN res)
           valid == \A sid \in DOMAIN res : res[sid].valid
<1>1. D = {e.sdk_session_id : e \in recorded}
  <2>1. PICK r : LET n == Cardinality(recorded) IN
           /\ n \in Nat /\ r \in [1..n -> recorded]
           /\ \A e \in recorded : \E k \in 1..n : r[k] = e
           /\ Bundle = [i \in 1..n |-> Exported(r[i])]
    BY BundleIs
  <2>2. D = {Bundle[i].sdk_session_id : i \in DOMAIN Bundle}
    BY DEF Cli!SessionsOf
  <2>3. \A i \in DOMAIN Bundle : r[i] \in recorded /\ Bundle[i].sdk_session_id = r[i].sdk_session_id
    BY <2>1 DEF Exported
  <2>4. \A e \in recorded : \E k \in DOMAIN Bundle : r[k] = e
    BY <2>1
  <2> HIDE DEF D
  <2>5. QED
    BY <2>2, <2>3, <2>4
<1>2. IsFiniteSet(D)
  <2>1. [e \in recorded |-> e.sdk_session_id] \in Surjection(recorded, D)
    BY <1>1 DEF Surjection
  <2>2. IsFiniteSet(recorded)
    BY DEF Readable
  <2> HIDE DEF D
  <2>3. QED
    BY <2>1, <2>2, FS_Surjection
<1>3. Verdict = [valid |-> valid, eventsDeclaredLost |-> declared, exitCode |-> Cli!ExitCode(valid, markers)]
  BY DEF Verdict, Cli!KeyedReport, SessionVerdict
<1> HIDE DEF D
<1>4. DOMAIN res = D /\ \A sid \in D : res[sid] = SessionVerdict(sid)
  OBVIOUS
<1> HIDE DEF res
<1>5. markers = Total([sid \in D |-> res[sid].gapMarkers], D)
  BY <1>2, <1>4, MarkersSummed
<1>6. declared = Total([sid \in D |-> res[sid].eventsDeclaredLost], D)
  BY <1>2, <1>4, DeclaredSummed
<1>7. /\ [sid \in D |-> res[sid].gapMarkers] = [sid \in D |-> SessionVerdict(sid).gapMarkers]
      /\ [sid \in D |-> res[sid].eventsDeclaredLost] = [sid \in D |-> SessionVerdict(sid).eventsDeclaredLost]
      /\ valid <=> \A sid \in D : SessionVerdict(sid).valid
  BY <1>4
<1> HIDE DEF markers, declared, valid
<1>8. Cli!ExitCode(valid, markers) = 0 => valid /\ markers = 0
  BY DEF Cli!ExitCode, Cli!EXIT_INCOMPLETE
<1>9. QED
  BY <1>1, <1>2, <1>3, <1>5, <1>6, <1>7, <1>8 DEF D

\* A valid verdict has counted every recorded marker and everything they declare.
LEMMA VerdictTallies ==
  ASSUME Readable
  PROVE  /\ Verdict.valid => Verdict.eventsDeclaredLost = Total(Claim, recorded)
         /\ Verdict.exitCode = 0 => Verdict.valid /\ \A e \in recorded : ~IsGapMarker(e)
<1> DEFINE D == Cli!SessionsOf(Bundle)
           session == [e \in recorded |-> e.sdk_session_id]
           Of(sid) == {e \in recorded : session[e] = sid}
           part == [sid \in D |-> Of(sid)]
           marks == [sid \in D |-> SessionVerdict(sid).gapMarkers]
           claims == [sid \in D |-> SessionVerdict(sid).eventsDeclaredLost]
<1>1. /\ IsFiniteSet(recorded) /\ recorded \subseteq Event
      /\ \A e \in recorded : One[e] \in Nat /\ Claim[e] \in Nat
  BY DEF Readable, One, Claim, Event
<1>2. ASSUME NEW sid \in D, SessionVerdict(sid).valid
      PROVE  marks[sid] = Total(One, Of(sid)) /\ claims[sid] = Total(Claim, Of(sid))
  <2>1. PICK m \in Nat \ {0} : \E ev \in [1..m -> Event] :
          /\ \A i, j \in 1..m : ev[i] = ev[j] => i = j
          /\ {ev[k] : k \in 1..m} = {e \in recorded : e.sdk_session_id = sid}
          /\ Cli!SessionEvents(Bundle, sid) = [k \in 1..m |-> Exported(ev[k])]
    BY SessionOfBundle
  <2>2. PICK ev \in [1..m -> Event] :
          /\ \A i, j \in 1..m : ev[i] = ev[j] => i = j
          /\ {ev[k] : k \in 1..m} = {e \in recorded : e.sdk_session_id = sid}
          /\ Cli!SessionEvents(Bundle, sid) = [k \in 1..m |-> Exported(ev[k])]
    BY <2>1
  <2>3. /\ SessionVerdict(sid).gapMarkers = Total(One, {ev[k] : k \in 1..m})
        /\ SessionVerdict(sid).eventsDeclaredLost = Total(Claim, {ev[k] : k \in 1..m})
    <3> DEFINE events == Cli!SessionEvents(Bundle, sid)
               mode == [keyed |-> TRUE, pinned |-> {}]
    <3>1. SessionVerdict(sid) = Cli!VerifyAuditChain(events, mode)
      BY DEF SessionVerdict
    <3>2. events = [k \in 1..m |-> Exported(ev[k])]
      BY <2>2
    <3> HIDE DEF events, mode
    <3>3. Cli!VerifyAuditChain(events, mode).valid
      BY <1>2, <3>1
    <3>4. /\ Cli!VerifyAuditChain(events, mode).gapMarkers = Total(One, {ev[k] : k \in 1..m})
          /\ Cli!VerifyAuditChain(events, mode).eventsDeclaredLost = Total(Claim, {ev[k] : k \in 1..m})
      <4>1. ev \in [1..m -> Event] /\ (\A i, j \in 1..m : ev[i] = ev[j] => i = j)
        BY <2>2
      <4>2. QED
        BY <3>2, <3>3, <4>1, SessionTallied
    <3>5. QED
      BY <3>1, <3>4
  <2>4. Of(sid) = {e \in recorded : e.sdk_session_id = sid}
    OBVIOUS
  <2>5. marks[sid] = SessionVerdict(sid).gapMarkers /\ claims[sid] = SessionVerdict(sid).eventsDeclaredLost
    OBVIOUS
  <2>6. QED
    BY <2>2, <2>3, <2>4, <2>5
<1>3. ASSUME Verdict.valid
      PROVE  /\ Total(marks, D) = Total(One, recorded)
             /\ Total(claims, D) = Total(Claim, recorded)
  <2>1. \A sid \in D : marks[sid] = Total(One, Of(sid)) /\ claims[sid] = Total(Claim, Of(sid))
    BY <1>2, <1>3, VerdictIs
  <2>2. IsFiniteSet(D) /\ \A e \in recorded : session[e] \in D
    BY VerdictIs
  <2>3. \A sid \in D : part[sid] = {e \in recorded : session[e] = sid} /\ part[sid] = Of(sid)
    OBVIOUS
  <2> HIDE DEF D, marks, claims, session, part, Of
  <2>4. \A sid \in D : marks[sid] = Total(One, part[sid]) /\ claims[sid] = Total(Claim, part[sid])
    BY <2>1, <2>3
  <2>5. Total(marks, D) = Total(One, recorded)
    BY <1>1, <2>2, <2>3, <2>4, TotalByClass
  <2>6. Total(claims, D) = Total(Claim, recorded)
    BY <1>1, <2>2, <2>3, <2>4, TotalByClass
  <2>7. QED
    BY <2>5, <2>6
<1>4. ASSUME Verdict.exitCode = 0
      PROVE  Verdict.valid /\ \A e \in recorded : ~IsGapMarker(e)
  <2>1. Verdict.valid /\ Total(marks, D) = 0
    BY <1>4, VerdictIs
  <2>2. Total(One, recorded) = 0
    BY <1>3, <2>1
  <2>3. ASSUME NEW e \in recorded, IsGapMarker(e) PROVE FALSE
    <3>1. Total(One, recorded) = One[e] + Total(One, recorded \ {e})
      BY <1>1, TotalRemoves
    <3>2. One[e] = 1
      BY <1>1, <2>3 DEF One
    <3>3. Total(One, recorded \ {e}) \in Nat
      BY <1>1, FS_RemoveElement, TotalRemoves
    <3>4. QED
      BY <2>2, <3>1, <3>2, <3>3
  <2>4. QED
    BY <2>1, <2>3
<1>5. Verdict.valid => Verdict.eventsDeclaredLost = Total(Claim, recorded)
  BY <1>3, VerdictIs
<1>6. QED
  BY <1>4, <1>5

\* An increasing list of the numbers from 1 on is these numbers.
LEMMA CountsUp ==
  ASSUME NEW n \in Nat, NEW s \in [1..n -> 1..n], \A i, j \in 1..n : i < j => s[i] < s[j],
         \A k \in 1..n : \E i \in 1..n : s[i] = k
  PROVE  \A k \in 1..n : s[k] = k
<1> DEFINE Bad == {k \in 1..n : s[k] # k}
<1>1. /\ Bad \subseteq Nat
      /\ \A k \in Bad : k \in 1..n /\ s[k] # k
      /\ \A k \in 1..n : k \notin Bad => s[k] = k
  OBVIOUS
<1> HIDE DEF Bad
<1>2. ASSUME Bad # {} PROVE FALSE
  <2>1. PICK k \in Bad : \A m \in Bad : ~(m < k)
    BY <1>1, <1>2, LeastOf
  <2>2. k \in 1..n /\ s[k] # k /\ \A j \in 1..n : j < k => s[j] = j
    BY <1>1, <2>1
  <2>3. s[k] > k
    <3>1. s[k] \in 1..n
      BY <2>2
    <3>2. CASE s[k] < k
      <4>1. s[s[k]] = s[k] /\ s[s[k]] < s[k]
        BY <2>2, <3>1, <3>2
      <4>2. QED
        BY <3>1, <4>1
    <3>3. QED
      BY <2>2, <3>1, <3>2
  <2>4. PICK m \in 1..n : s[m] = k
    BY <2>2
  <2>5. CASE m < k
    BY <2>2, <2>4, <2>5
  <2>6. CASE m > k
    <3>1. s[k] < s[m] /\ s[k] \in 1..n
      BY <2>2, <2>6
    <3>2. QED
      BY <2>2, <2>3, <2>4, <3>1
  <2>7. CASE m = k
    BY <2>2, <2>4, <2>7
  <2>8. QED
    BY <2>2, <2>5, <2>6, <2>7
<1>3. QED
  BY <1>1, <1>2

----------------------------------------------------------------------------
(* The ledger of everything ever signed.                                   *)

\* The events ever signed: what is held, recorded, lost or unread.
EverSigned == EventsOf(Held) \cup recorded \cup lost \cup unread
Markers(A) == {e \in A : IsGapMarker(e)}

\* The events a session of the chain state c has signed, and what they declare.
Ledger(A, c, marks, claims) ==
  /\ IsFiniteSet(A) /\ A \subseteq Event
  /\ SigsOf(A) = 1..c.signed
  /\ \A e, f \in A : e.sdk_sig = f.sdk_sig => e = f
  /\ Cardinality(Markers(A)) = marks
  /\ Total(Claim, A) = claims

\* One unbroken session, every event linked to the one signed before it.
OneSession(A, c) ==
  /\ c.sdkSessionId = 1 /\ c.seqNo = c.signed /\ c.lastSig = c.signed
  /\ \A e \in A : /\ e.sdk_session_id = 1 /\ e.seq_no = e.sdk_sig
                  /\ e.prev_sig = e.sdk_sig - 1

\* The signed events counted as dropped.
SignedDrops(stats) ==
  stats.dropped_rejected + stats.dropped_permanent + stats.dropped_retry_exhausted

EvidenceInv ==
  /\ Ledger(EverSigned, chain, senderStats.gap_markers, senderStats.gap_events_declared)
  /\ senderStats.enqueued = chain.signed
  /\ lost = {} => OneSession(EverSigned, chain)
  /\ Cardinality(lost) <= SignedDrops(senderStats)

\* What an event claims is a number, for each event.
LEMMA ClaimType == \A e \in Event : Claim[e] \in Nat
  BY DEF Claim, Event

\* Signing an event enters it into the ledger.
LEMMA LedgerSigned ==
  ASSUME NEW A, NEW c, NEW d \in ChainState, c.signed \in Nat, d.signed = c.signed,
         NEW marks \in Nat, NEW claims \in Nat, Ledger(A, c, marks, claims),
         NEW gap \in Nat, NEW reason \in GapReasons \cup {"none"}
  PROVE  Ledger(A \cup {Signed(d, gap, reason)}, Advanced(d),
                marks + (IF reason = "none" THEN 0 ELSE 1),
                claims + (IF reason = "none" THEN 0 ELSE gap))
<1> DEFINE e == Signed(d, gap, reason)
           B == A \cup {e}
<1>1. /\ e \in Event /\ e.sdk_sig = c.signed + 1 /\ e.gap = gap /\ e.reason = reason
      /\ Advanced(d).signed = c.signed + 1
  BY SignedType DEF Signed, Advanced
<1>2. /\ IsFiniteSet(A) /\ A \subseteq Event /\ SigsOf(A) = 1..c.signed
      /\ \A x, y \in A : x.sdk_sig = y.sdk_sig => x = y
      /\ Cardinality(Markers(A)) = marks /\ Total(Claim, A) = claims
  BY DEF Ledger
<1> HIDE DEF e
<1>3. \A x \in A : x.sdk_sig \in 1..c.signed
  BY <1>2 DEF SigsOf
<1>4. e \notin A /\ \A x \in A : x.sdk_sig # e.sdk_sig
  BY <1>1, <1>3
<1>5. IsFiniteSet(B) /\ B \subseteq Event
  BY <1>1, <1>2, FS_AddElement
<1>6. SigsOf(B) = 1..c.signed + 1
  <2>1. SigsOf(B) = SigsOf(A) \cup {c.signed + 1}
    BY <1>1 DEF SigsOf
  <2>2. (1..c.signed) \cup {c.signed + 1} = 1..c.signed + 1
    OBVIOUS
  <2> QED
    BY <1>2, <2>1, <2>2
<1>7. \A x, y \in B : x.sdk_sig = y.sdk_sig => x = y
  BY <1>2, <1>4
<1>8. Cardinality(Markers(B)) = marks + (IF reason = "none" THEN 0 ELSE 1)
  <2>1. IsFiniteSet(Markers(A)) /\ e \notin Markers(A)
    BY <1>2, <1>4, FS_Subset DEF Markers
  <2>2. CASE reason = "none"
    <3>1. Markers(B) = Markers(A)
      BY <1>1, <2>2 DEF Markers, IsGapMarker
    <3> QED
      BY <1>2, <2>2, <3>1
  <2>3. CASE reason # "none"
    <3>1. Markers(B) = Markers(A) \cup {e}
      BY <1>1, <2>3 DEF Markers, IsGapMarker
    <3>2. Cardinality(Markers(A) \cup {e}) = Cardinality(Markers(A)) + 1
      BY <2>1, FS_AddElement
    <3> QED
      BY <1>2, <2>3, <3>1, <3>2
  <2> QED
    BY <2>2, <2>3
<1>9. Total(Claim, B) = claims + (IF reason = "none" THEN 0 ELSE gap)
  <2>1. Claim[e] = IF reason = "none" THEN 0 ELSE gap
    BY <1>1 DEF Claim, IsGapMarker
  <2>2. Total(Claim, B) = Total(Claim, A) + Claim[e]
    BY <1>1, <1>2, <1>4, ClaimType, TotalAdds
  <2> QED
    BY <1>2, <2>1, <2>2
<1>10. Ledger(B, Advanced(d), marks + (IF reason = "none" THEN 0 ELSE 1),
              claims + (IF reason = "none" THEN 0 ELSE gap))
  BY <1>1, <1>5, <1>6, <1>7, <1>8, <1>9 DEF Ledger
<1> QED
  BY <1>10 DEF e

\* Signing on the current chain goes on with the session.
LEMMA SessionSigned ==
  ASSUME NEW A, NEW c \in ChainState, OneSession(A, c), NEW gap, NEW reason
  PROVE  OneSession(A \cup {Signed(c, gap, reason)}, Advanced(c))
<1>1. c.signed \in Nat /\ c.seqNo \in Nat /\ c.lastSig \in Nat
  BY DEF ChainState
<1>2. /\ Signed(c, gap, reason).sdk_session_id = 1
      /\ Signed(c, gap, reason).seq_no = c.signed + 1
      /\ Signed(c, gap, reason).sdk_sig = c.signed + 1
      /\ Signed(c, gap, reason).prev_sig = (c.signed + 1) - 1
  BY <1>1 DEF OneSession, Signed
<1>3. /\ Advanced(c).sdkSessionId = 1 /\ Advanced(c).seqNo = Advanced(c).signed
      /\ Advanced(c).lastSig = Advanced(c).signed
  BY <1>1 DEF OneSession, Advanced
<1> QED
  BY <1>2, <1>3 DEF OneSession

\* A part of the ledger with all of its signatures is all of it.
LEMMA LedgerIs ==
  ASSUME NEW A, NEW c, NEW marks, NEW claims, Ledger(A, c, marks, claims),
         NEW B, B \subseteq A, SigsOf(B) = 1..c.signed
  PROVE  B = A
<1>1. ASSUME NEW e \in A PROVE e \in B
  <2>1. e.sdk_sig \in SigsOf(B)
    BY DEF Ledger, SigsOf
  <2>2. PICK f \in B : f.sdk_sig = e.sdk_sig
    BY <2>1 DEF SigsOf
  <2> QED
    BY <2>2 DEF Ledger
<1> QED
  BY <1>1

\* A step after which nothing is held, recorded, lost or unread that was not
\* before, but for what it signs.
LEMMA EvidenceStep ==
  ASSUME TypeOK', NothingVanishes', NEW A, EverSigned' \subseteq A,
         Ledger(A, chain', senderStats'.gap_markers, senderStats'.gap_events_declared),
         senderStats'.enqueued = chain'.signed,
         lost' = {} => OneSession(A, chain'),
         Cardinality(lost') <= SignedDrops(senderStats')
  PROVE  EvidenceInv'
<1>1. SigsOf(EverSigned') = 1..chain'.signed
  <2>1. inflight' \in Seq(Item) /\ pendingQueue' \in Seq(Item)
    BY DEF TypeOK
  <2>2. EventsOf(inflight' \o pendingQueue') = EventsOf(inflight') \cup EventsOf(pendingQueue')
    BY <2>1, ConcatEvents
  <2>3. EverSigned' = Waiting' \cup recorded' \cup lost' \cup unread'
    BY <2>2 DEF EverSigned, Held, Waiting, EventsOf
  <2> QED
    BY <2>3 DEF NothingVanishes, SigsOf
<1>2. EverSigned' = A
  BY <1>1, LedgerIs
<1>3. Ledger(EverSigned', chain', senderStats'.gap_markers, senderStats'.gap_events_declared)
  BY <1>2
<1>4. lost' = {} => OneSession(EverSigned', chain')
  BY <1>2
<1>5. Cardinality(lost') = Cardinality(lost)' /\ Cardinality(lost') <= SignedDrops(senderStats')
  BY DEF Cardinality
<1>6. SignedDrops(senderStats') = SignedDrops(senderStats)'
  BY DEF SignedDrops
<1> QED
  BY <1>3, <1>4, <1>5, <1>6 DEF EvidenceInv, Ledger, OneSession, Markers, SigsOf

\* What adding to some counters does to those the ledger speaks of.
LEMMA LedgerCounts ==
  ASSUME NEW stats \in SenderStats, NEW added, DOMAIN added \subseteq Counters,
         \A k \in DOMAIN added : added[k] \in Nat
  PROVE  /\ Count(stats, added) \in SenderStats
         /\ Count(stats, added).enqueued = stats.enqueued + Added(added, "enqueued")
         /\ Count(stats, added).gap_markers = stats.gap_markers + Added(added, "gap_markers")
         /\ Count(stats, added).gap_events_declared
              = stats.gap_events_declared + Added(added, "gap_events_declared")
         /\ SignedDrops(Count(stats, added))
              = SignedDrops(stats) + (Added(added, "dropped_rejected")
                  + Added(added, "dropped_permanent") + Added(added, "dropped_retry_exhausted"))
         /\ SignedDrops(stats) \in Nat
<1> DEFINE after == Count(stats, added)
           d(c) == Added(added, c)
<1>1. /\ after \in SenderStats
      /\ \A c \in Counters : after[c] = stats[c] + d(c) /\ d(c) \in Nat /\ stats[c] \in Nat
  BY CountLemma DEF Added, SenderStats
<1> HIDE DEF after, d
<1>2. /\ after.dropped_rejected = stats.dropped_rejected + d("dropped_rejected")
      /\ after.dropped_permanent = stats.dropped_permanent + d("dropped_permanent")
      /\ after.dropped_retry_exhausted = stats.dropped_retry_exhausted + d("dropped_retry_exhausted")
      /\ after.enqueued = stats.enqueued + d("enqueued")
      /\ after.gap_markers = stats.gap_markers + d("gap_markers")
      /\ after.gap_events_declared = stats.gap_events_declared + d("gap_events_declared")
  BY <1>1 DEF Counters
<1>3. /\ stats.dropped_rejected \in Nat /\ d("dropped_rejected") \in Nat
      /\ stats.dropped_permanent \in Nat /\ d("dropped_permanent") \in Nat
      /\ stats.dropped_retry_exhausted \in Nat /\ d("dropped_retry_exhausted") \in Nat
  BY <1>1 DEF Counters
<1>4. /\ SignedDrops(after) = SignedDrops(stats) + (d("dropped_rejected")
                       + d("dropped_permanent") + d("dropped_retry_exhausted"))
      /\ SignedDrops(stats) \in Nat
  BY <1>2, <1>3 DEF SignedDrops
<1> QED
  BY <1>1, <1>2, <1>4 DEF after, d

\* A step that signs nothing and loses nothing.
LEMMA EvidenceSame ==
  ASSUME EvidenceInv, TypeOK', NothingVanishes', EverSigned' \subseteq EverSigned,
         chain' = chain, lost' = lost,
         senderStats'.enqueued = senderStats.enqueued,
         senderStats'.gap_markers = senderStats.gap_markers,
         senderStats'.gap_events_declared = senderStats.gap_events_declared,
         SignedDrops(senderStats') = SignedDrops(senderStats)
  PROVE  EvidenceInv'
<1>1. /\ Ledger(EverSigned, chain', senderStats'.gap_markers, senderStats'.gap_events_declared)
      /\ senderStats'.enqueued = chain'.signed
      /\ lost' = {} => OneSession(EverSigned, chain')
      /\ Cardinality(lost') <= SignedDrops(senderStats')
  BY DEF EvidenceInv
<1> QED
  BY <1>1, EvidenceStep

\* An event dropped on overflow was never signed.
LEMMA OverflowEvidence ==
  ASSUME DeliveryInv, DeliveryInv', EvidenceInv, DropOnOverflow
  PROVE  EvidenceInv'
<1> DEFINE added == [dropped_overflow |-> 1]
<1>1. /\ senderStats \in SenderStats /\ TypeOK' /\ NothingVanishes'
      /\ senderStats' = Count(senderStats, added)
      /\ UNCHANGED <<pendingQueue, inflight, chain, lost, unread, recorded>>
  BY DEF DeliveryInv, SenderInv, TypeOK, DropOnOverflow
<1>2. EverSigned' = EverSigned
  BY <1>1 DEF EverSigned, Held, EventsOf
<1>3. DOMAIN added \subseteq Counters /\ \A k \in DOMAIN added : added[k] \in Nat
  BY DEF Counters
<1>4. /\ Added(added, "enqueued") = 0 /\ Added(added, "gap_markers") = 0
      /\ Added(added, "gap_events_declared") = 0 /\ Added(added, "dropped_rejected") = 0
      /\ Added(added, "dropped_permanent") = 0 /\ Added(added, "dropped_retry_exhausted") = 0
  BY DEF Added
<1> HIDE DEF added
<1>5. /\ senderStats'.enqueued = senderStats.enqueued
      /\ senderStats'.gap_markers = senderStats.gap_markers
      /\ senderStats'.gap_events_declared = senderStats.gap_events_declared
      /\ SignedDrops(senderStats') = SignedDrops(senderStats)
  <2>1. /\ senderStats.enqueued \in Nat /\ senderStats.gap_markers \in Nat
        /\ senderStats.gap_events_declared \in Nat
    BY <1>1, StatsAreNat
  <2> QED
    BY <1>1, <1>3, <1>4, <2>1, LedgerCounts
<1> QED
  BY <1>1, <1>2, <1>5, EvidenceSame

\* The events of the items held after an append.
LEMMA HeldAfter ==
  ASSUME TypeOK, NEW new \in Seq(Item), Held' = Held \o new,
         lost' = lost, unread' = unread, recorded' = recorded
  PROVE  EverSigned' = EverSigned \cup EventsOf(new)
<1>1. EventsOf(Held \o new) = EventsOf(Held) \cup EventsOf(new)
  BY Restated, ConcatEvents
<1>2. EventsOf(Held)' = EventsOf(Held')
  BY DEF EventsOf
<1> QED
  BY <1>1, <1>2 DEF EverSigned

\* The event of an item on its own.
LEMMA EventsOfOne ==
  ASSUME NEW item
  PROVE  EventsOf(<<item>>) = {item.event}
<1>1. DOMAIN <<item>> = {1} /\ <<item>>[1] = item
  OBVIOUS
<1> QED
  BY <1>1 DEF EventsOf

\* An event signed on the current chain, and appended.
LEMMA EnqueueEvidence ==
  ASSUME DeliveryInv, DeliveryInv', EvidenceInv, Enqueue
  PROVE  EvidenceInv'
<1> DEFINE added == [enqueued |-> 1]
           e == Signed(chain, 0, "none")
           item == NewItem(e)
<1>1. /\ TypeOK /\ ProcessorAwake /\ TakesFront /\ TypeOK' /\ NothingVanishes'
      /\ Kick(Append(pendingQueue, item), <<>>)
      /\ chain' = Advanced(chain)
      /\ senderStats' = Count(senderStats, added)
      /\ lost' = lost /\ unread' = unread /\ recorded' = recorded
  BY DEF DeliveryInv, SenderInv, Enqueue
<1>2. senderStats \in SenderStats /\ chain \in ChainState /\ chain.signed \in Nat
  BY <1>1 DEF TypeOK, ChainState
<1>3. item \in Item /\ item.event = e
  BY <1>2, SignedType DEF NewItem
<1>4. DOMAIN added \subseteq Counters /\ \A k \in DOMAIN added : added[k] \in Nat
  BY DEF Counters
<1>5. /\ Added(added, "enqueued") = 1 /\ Added(added, "gap_markers") = 0
      /\ Added(added, "gap_events_declared") = 0 /\ Added(added, "dropped_rejected") = 0
      /\ Added(added, "dropped_permanent") = 0 /\ Added(added, "dropped_retry_exhausted") = 0
  BY DEF Added
<1> HIDE DEF added, item
<1>6. /\ senderStats.enqueued \in Nat /\ senderStats.gap_markers \in Nat
      /\ senderStats.gap_events_declared \in Nat
  BY <1>2, StatsAreNat
<1>7. /\ senderStats'.enqueued = senderStats.enqueued + 1
      /\ senderStats'.gap_markers = senderStats.gap_markers + 0
      /\ senderStats'.gap_events_declared = senderStats.gap_events_declared + 0
      /\ SignedDrops(senderStats') = SignedDrops(senderStats)
  BY <1>1, <1>2, <1>4, <1>5, LedgerCounts
<1>8. EverSigned' = EverSigned \cup {e}
  <2>1. Held' = Held \o (<<item>> \o <<>>)
    BY <1>1, <1>3, EmptySeq, KickAppend
  <2>2. <<item>> \in Seq(Item)
    BY <1>3, OneItemType
  <2>3. Held' = Held \o <<item>>
    BY <2>1, <2>2, ConcatEmptySeq
  <2> QED
    BY <1>1, <1>3, <2>2, <2>3, HeldAfter, EventsOfOne
<1>9. Ledger(EverSigned \cup {e}, chain', senderStats'.gap_markers,
             senderStats'.gap_events_declared)
  <2>1. Ledger(EverSigned \cup {e}, Advanced(chain), senderStats.gap_markers + 0,
               senderStats.gap_events_declared + 0)
    BY <1>2, <1>6, LedgerSigned DEF EvidenceInv
  <2> QED
    BY <1>1, <1>7, <2>1
<1>10. senderStats'.enqueued = chain'.signed
  BY <1>1, <1>2, <1>7 DEF EvidenceInv, Advanced
<1>11. lost' = {} => OneSession(EverSigned \cup {e}, chain')
  BY <1>1, <1>2, SessionSigned DEF EvidenceInv
<1>12. Cardinality(lost') <= SignedDrops(senderStats')
  BY <1>1, <1>7 DEF EvidenceInv
<1> HIDE DEF e
<1> QED
  BY <1>1, <1>8, <1>9, <1>10, <1>11, <1>12, EvidenceStep

\* The marker of a gap that has ended, and the event that ends it.
LEMMA AfterGapEvidence ==
  ASSUME DeliveryInv, DeliveryInv', EvidenceInv, EnqueueAfterGap
  PROVE  EvidenceInv'
<1> DEFINE added == [enqueued |-> 2, gap_markers |-> 1, gap_events_declared |-> gapPendingCount]
           m == Signed(chain, gapPendingCount, OverflowReason)
           e == Signed(Advanced(chain), 0, "none")
           marker == NewItem(m)
           item == NewItem(e)
<1>1. /\ TypeOK /\ ProcessorAwake /\ TakesFront /\ TypeOK' /\ NothingVanishes'
      /\ Kick(Append(pendingQueue, marker), <<item>>)
      /\ chain' = Advanced(Advanced(chain))
      /\ senderStats' = Count(senderStats, added)
      /\ lost' = lost /\ unread' = unread /\ recorded' = recorded
  BY DEF DeliveryInv, SenderInv, EnqueueAfterGap
<1>2. /\ senderStats \in SenderStats /\ chain \in ChainState /\ chain.signed \in Nat
      /\ Advanced(chain) \in ChainState /\ Advanced(chain).signed \in Nat
      /\ gapPendingCount \in Nat
      /\ OverflowReason \in GapReasons /\ OverflowReason # "none"
  <2>1. senderStats \in SenderStats /\ chain \in ChainState /\ gapPendingCount \in Nat
    BY <1>1 DEF TypeOK
  <2>2. Advanced(chain) \in ChainState
    BY <2>1, ChainType
  <2> QED
    BY <2>1, <2>2 DEF ChainState, GapReasons, OverflowReason
<1>3. marker \in Item /\ marker.event = m /\ item \in Item /\ item.event = e
  BY <1>2, SignedType DEF NewItem
<1>4. DOMAIN added \subseteq Counters /\ \A k \in DOMAIN added : added[k] \in Nat
  BY <1>2 DEF Counters
<1>5. /\ Added(added, "enqueued") = 2 /\ Added(added, "gap_markers") = 1
      /\ Added(added, "gap_events_declared") = gapPendingCount
      /\ Added(added, "dropped_rejected") = 0
      /\ Added(added, "dropped_permanent") = 0 /\ Added(added, "dropped_retry_exhausted") = 0
  BY DEF Added
<1> HIDE DEF added, item, marker
<1>6. /\ senderStats.enqueued \in Nat /\ senderStats.gap_markers \in Nat
      /\ senderStats.gap_events_declared \in Nat
  BY <1>2, StatsAreNat
<1>7. /\ senderStats'.enqueued = senderStats.enqueued + 2
      /\ senderStats'.gap_markers = senderStats.gap_markers + 1
      /\ senderStats'.gap_events_declared = senderStats.gap_events_declared + gapPendingCount
      /\ SignedDrops(senderStats') = SignedDrops(senderStats)
  BY <1>1, <1>2, <1>4, <1>5, LedgerCounts
<1>8. EverSigned' = (EverSigned \cup {m}) \cup {e}
  <2>1. /\ <<marker>> \in Seq(Item) /\ <<item>> \in Seq(Item)
        /\ EventsOf(<<marker>>) = {m} /\ EventsOf(<<item>>) = {e}
    BY <1>3, OneItemType, EventsOfOne
  <2> DEFINE s == <<marker>>
             t == <<item>>
  <2>2. Held' = Held \o (s \o t)
    BY <1>1, <1>3, <2>1, KickAppend
  <2>3. s \in Seq(Item) /\ t \in Seq(Item) /\ EventsOf(s) = {m} /\ EventsOf(t) = {e}
    BY <2>1
  <2> HIDE DEF s, t
  <2>4. s \o t \in Seq(Item) /\ EventsOf(s \o t) = {m} \cup {e}
    BY <2>3, ConcatProperties, ConcatEvents
  <2>5. EverSigned' = EverSigned \cup EventsOf(s \o t)
    BY <1>1, <2>2, <2>4, HeldAfter
  <2> QED
    BY <2>4, <2>5
<1>9. Ledger((EverSigned \cup {m}) \cup {e}, chain', senderStats'.gap_markers,
             senderStats'.gap_events_declared)
  <2>1. Ledger(EverSigned \cup {m}, Advanced(chain), senderStats.gap_markers + 1,
               senderStats.gap_events_declared + gapPendingCount)
    BY <1>2, <1>6, LedgerSigned DEF EvidenceInv
  <2>2. /\ senderStats.gap_markers + 1 \in Nat
        /\ senderStats.gap_events_declared + gapPendingCount \in Nat
    BY <1>2, <1>6
  <2>3. Ledger((EverSigned \cup {m}) \cup {e}, Advanced(Advanced(chain)),
               (senderStats.gap_markers + 1) + 0,
               (senderStats.gap_events_declared + gapPendingCount) + 0)
    BY <1>2, <2>1, <2>2, LedgerSigned
  <2> QED
    BY <1>1, <1>7, <2>2, <2>3
<1>10. senderStats'.enqueued = chain'.signed
  <2>1. chain'.signed = (chain.signed + 1) + 1
    BY <1>1 DEF Advanced
  <2> QED
    BY <1>2, <1>7, <2>1 DEF EvidenceInv
<1>11. lost' = {} => OneSession((EverSigned \cup {m}) \cup {e}, chain')
  <2> SUFFICES ASSUME lost = {} PROVE OneSession((EverSigned \cup {m}) \cup {e}, chain')
    BY <1>1
  <2>1. OneSession(EverSigned \cup {m}, Advanced(chain))
    BY <1>2, SessionSigned DEF EvidenceInv
  <2> QED
    BY <1>1, <1>2, <2>1, SessionSigned
<1>12. Cardinality(lost') <= SignedDrops(senderStats')
  BY <1>1, <1>7 DEF EvidenceInv
<1> HIDE DEF e, m
<1> QED
  BY <1>1, <1>8, <1>9, <1>10, <1>11, <1>12, EvidenceStep

\* A marker the flush forces out, or nothing.
LEMMA FlushEvidence ==
  ASSUME DeliveryInv, DeliveryInv', EvidenceInv, FlushQueue
  PROVE  EvidenceInv'
<1>1. /\ TypeOK /\ ProcessorAwake /\ TakesFront /\ TypeOK' /\ NothingVanishes'
      /\ lost' = lost /\ unread' = unread /\ recorded' = recorded
  BY DEF DeliveryInv, SenderInv, FlushQueue
<1>2. /\ senderStats \in SenderStats /\ chain \in ChainState /\ chain.signed \in Nat
      /\ gapPendingCount \in Nat /\ pendingQueue \in Seq(Item) /\ Held \in Seq(Item)
      /\ OverflowReason \in GapReasons /\ OverflowReason # "none"
  BY <1>1, Restated DEF TypeOK, ChainState, GapReasons, OverflowReason
<1>3. CASE gapPendingCount = 0
  <2>1. /\ Kick(pendingQueue, <<>>)
        /\ UNCHANGED <<chain, gapPendingCount, senderStats>>
    BY <1>3 DEF FlushQueue
  <2>2. Held' = Held \o <<>>
    BY <1>1, <1>2, <2>1, EmptySeq, KickHeld DEF Held
  <2>3. Held' = Held
    BY <1>2, <2>2, ConcatEmptySeq
  <2>4. EverSigned' = EverSigned
    BY <1>1, <2>3 DEF EverSigned, EventsOf
  <2> QED
    BY <1>1, <2>1, <2>4, EvidenceSame
<1>4. CASE gapPendingCount # 0
  <2> DEFINE added == [enqueued |-> 1, gap_markers |-> 1, gap_events_declared |-> gapPendingCount]
             m == Signed(chain, gapPendingCount, OverflowReason)
             item == NewItem(m)
  <2>1. /\ Kick(Append(pendingQueue, item), <<>>)
        /\ chain' = Advanced(chain)
        /\ senderStats' = Count(senderStats, added)
    BY <1>4 DEF FlushQueue
  <2>2. item \in Item /\ item.event = m
    BY <1>2, SignedType DEF NewItem
  <2>3. DOMAIN added \subseteq Counters /\ \A k \in DOMAIN added : added[k] \in Nat
    BY <1>2 DEF Counters
  <2>4. /\ Added(added, "enqueued") = 1 /\ Added(added, "gap_markers") = 1
        /\ Added(added, "gap_events_declared") = gapPendingCount
        /\ Added(added, "dropped_rejected") = 0
        /\ Added(added, "dropped_permanent") = 0 /\ Added(added, "dropped_retry_exhausted") = 0
    BY DEF Added
  <2> HIDE DEF added, item
  <2>5. /\ senderStats.enqueued \in Nat /\ senderStats.gap_markers \in Nat
        /\ senderStats.gap_events_declared \in Nat
    BY <1>2, StatsAreNat
  <2>6. /\ senderStats'.enqueued = senderStats.enqueued + 1
        /\ senderStats'.gap_markers = senderStats.gap_markers + 1
        /\ senderStats'.gap_events_declared = senderStats.gap_events_declared + gapPendingCount
        /\ SignedDrops(senderStats') = SignedDrops(senderStats)
    BY <1>2, <2>1, <2>3, <2>4, LedgerCounts
  <2>7. EverSigned' = EverSigned \cup {m}
    <3>1. Held' = Held \o (<<item>> \o <<>>)
      BY <1>1, <2>1, <2>2, EmptySeq, KickAppend
    <3>2. <<item>> \in Seq(Item)
      BY <2>2, OneItemType
    <3>3. Held' = Held \o <<item>>
      BY <3>1, <3>2, ConcatEmptySeq
    <3> QED
      BY <1>1, <2>2, <3>2, <3>3, HeldAfter, EventsOfOne
  <2>8. Ledger(EverSigned \cup {m}, chain', senderStats'.gap_markers,
               senderStats'.gap_events_declared)
    <3>1. Ledger(EverSigned \cup {m}, Advanced(chain), senderStats.gap_markers + 1,
                 senderStats.gap_events_declared + gapPendingCount)
      BY <1>2, <2>5, LedgerSigned DEF EvidenceInv
    <3> QED
      BY <2>1, <2>6, <3>1
  <2>9. senderStats'.enqueued = chain'.signed
    BY <1>2, <2>1, <2>6 DEF EvidenceInv, Advanced
  <2>10. lost' = {} => OneSession(EverSigned \cup {m}, chain')
    BY <1>1, <1>2, <2>1, SessionSigned DEF EvidenceInv
  <2>11. Cardinality(lost') <= SignedDrops(senderStats')
    BY <1>1, <2>6 DEF EvidenceInv
  <2> HIDE DEF m
  <2> QED
    BY <1>1, <2>7, <2>8, <2>9, <2>10, <2>11, EvidenceStep
<1> QED
  BY <1>3, <1>4

\* The end of a backoff signs nothing.
LEMMA BackoffEvidence ==
  ASSUME DeliveryInv, DeliveryInv', EvidenceInv, BackoffElapses
  PROVE  EvidenceInv'
<1>1. /\ TypeOK /\ ProcessorAwake /\ TakesFront /\ TypeOK' /\ NothingVanishes'
      /\ UNCHANGED <<chain, senderStats, lost, unread, recorded>>
      /\ pendingQueue \in Seq(Item) /\ Held \in Seq(Item)
  BY Restated DEF DeliveryInv, SenderInv, BackoffElapses, TypeOK
<1>2. Held' = Held
  <2>1. CASE phase = "backoff"
    <3>1. Drain(pendingQueue, FALSE, <<>>) /\ inflight = <<>>
      BY <1>1, <2>1 DEF BackoffElapses, ProcessorAwake
    <3>2. Held' = pendingQueue \o <<>>
      BY <1>1, <3>1, EmptySeq, DrainHeld
    <3>3. pendingQueue \o <<>> = pendingQueue /\ Held = pendingQueue
      BY <1>1, <3>1, ConcatEmptySeq DEF Held
    <3> QED
      BY <3>2, <3>3
  <2>2. CASE phase # "backoff"
    BY <2>2 DEF BackoffElapses, Held
  <2> QED
    BY <2>1, <2>2
<1>3. EverSigned' = EverSigned
  BY <1>1, <1>2 DEF EverSigned, EventsOf
<1> QED
  BY <1>1, <1>3, EvidenceSame

\* A request has settled: of its events, those of `gone` are lost, `dropped` at
\* least in number, and declareDeliveryGap signs the marker for them.
LEMMA SettledEvidence ==
  ASSUME DeliveryInv, DeliveryInv', EvidenceInv,
         NEW kept \in Seq(Item), NEW gone, NEW events, NEW dropped \in Nat,
         NEW reason \in DeliveryReasons, NEW backoff, NEW added,
         EventsOf(kept) \subseteq EventsOf(Held), gone \subseteq EventsOf(Held),
         recorded' \subseteq recorded \cup EventsOf(Held),
         unread' \subseteq unread \cup EventsOf(Held),
         IsFiniteSet(gone), Cardinality(gone) <= dropped, dropped = 0 <=> gone = {},
         DOMAIN added \subseteq Counters, \A k \in DOMAIN added : added[k] \in Nat,
         Added(added, "enqueued") = 0, Added(added, "gap_markers") = 0,
         Added(added, "gap_events_declared") = 0,
         Added(added, "dropped_rejected") + Added(added, "dropped_permanent")
           + Added(added, "dropped_retry_exhausted") = dropped,
         lost' = lost \cup gone,
         senderStats' = StatsAfterLoss(Count(senderStats, added), events, dropped),
         chain' = ChainAfterLoss(events, dropped),
         Drain(kept \o MarkerAfterLoss(events, dropped, reason), backoff, <<>>)
  PROVE  EvidenceInv'
<1> DEFINE stats == Count(senderStats, added)
           marker == MarkerAfterLoss(events, dropped, reason)
           m == Signed(FreshSession(chain), dropped, reason)
<1>1. /\ TypeOK /\ TypeOK' /\ NothingVanishes' /\ senderStats \in SenderStats
      /\ chain \in ChainState /\ chain.signed \in Nat /\ IsFiniteSet(lost)
      /\ FreshSession(chain) \in ChainState /\ FreshSession(chain).signed = chain.signed
      /\ reason \in GapReasons /\ reason # "none"
  <2>1. /\ TypeOK /\ TypeOK' /\ NothingVanishes' /\ IsFiniteSet(lost)
    BY DEF DeliveryInv, SenderInv
  <2>2. senderStats \in SenderStats /\ chain \in ChainState
    BY <2>1 DEF TypeOK
  <2>3. FreshSession(chain) \in ChainState /\ chain.signed \in Nat
    BY <2>2, ChainType DEF ChainState
  <2>4. FreshSession(chain).signed = chain.signed
    BY DEF FreshSession
  <2>5. reason \in GapReasons /\ reason # "none"
    BY DEF GapReasons, DeliveryReasons
  <2> QED
    BY <2>1, <2>2, <2>3, <2>4, <2>5
<1>2. /\ stats \in SenderStats /\ stats.enqueued = senderStats.enqueued
      /\ stats.gap_markers = senderStats.gap_markers
      /\ stats.gap_events_declared = senderStats.gap_events_declared
      /\ SignedDrops(stats) = SignedDrops(senderStats) + dropped
      /\ SignedDrops(senderStats) \in Nat
  <2>1. /\ senderStats.enqueued \in Nat /\ senderStats.gap_markers \in Nat
        /\ senderStats.gap_events_declared \in Nat
    BY <1>1, StatsAreNat
  <2>2. /\ stats \in SenderStats
        /\ stats.enqueued = senderStats.enqueued + 0
        /\ stats.gap_markers = senderStats.gap_markers + 0
        /\ stats.gap_events_declared = senderStats.gap_events_declared + 0
        /\ SignedDrops(stats) = SignedDrops(senderStats) + dropped
        /\ SignedDrops(senderStats) \in Nat
    BY <1>1, LedgerCounts
  <2> HIDE DEF stats
  <2> QED
    BY <2>1, <2>2
<1>3. marker \in Seq(Item) /\ EventsOf(marker) \subseteq
        IF DeclaresLoss(events, dropped) THEN {m} ELSE {}
  <2>1. marker \in Seq(Item)
    BY <1>1, MarkerShape
  <2>2. CASE DeclaresLoss(events, dropped)
    <3>1. marker = <<NewItem(m)>> /\ NewItem(m).event = m
      BY <2>2 DEF MarkerAfterLoss, NewItem
    <3> QED
      BY <2>1, <2>2, <3>1, EventsOfOne
  <2>3. CASE ~DeclaresLoss(events, dropped)
    <3>1. marker = <<>>
      BY <2>3 DEF MarkerAfterLoss
    <3>2. EventsOf(marker) = {}
      BY <3>1, EmptySeq DEF EventsOf
    <3> QED
      BY <2>1, <2>3, <3>2
  <2> QED
    BY <2>2, <2>3
<1>4. EverSigned' \subseteq EverSigned \cup EventsOf(marker)
  <2> DEFINE q == kept \o marker
  <2>1. q \in Seq(Item) /\ EventsOf(q) = EventsOf(kept) \cup EventsOf(marker)
    BY <1>3, ConcatProperties, ConcatEvents
  <2>2. Drain(q, backoff, <<>>)
    OBVIOUS
  <2> HIDE DEF q, marker
  <2>3. Held' = q
    BY <2>1, <2>2, EmptySeq, ConcatEmptySeq, DrainHeld
  <2>4. EventsOf(Held)' = EventsOf(q)
    BY <2>3 DEF EventsOf
  <2> QED
    BY <2>1, <2>4 DEF EverSigned
<1>5. Cardinality(lost') <= Cardinality(lost) + dropped
  <2>1. /\ Cardinality(lost \cup gone) = Cardinality(lost) + Cardinality(gone)
                                          - Cardinality(lost \cap gone)
        /\ IsFiniteSet(lost \cap gone)
    BY <1>1, FS_Union, FS_Subset
  <2>2. /\ Cardinality(lost) \in Nat /\ Cardinality(gone) \in Nat
        /\ Cardinality(lost \cap gone) \in Nat
    BY <1>1, <2>1, FS_CardinalityType
  <2> QED
    BY <2>1, <2>2
<1>6. Cardinality(lost') <= SignedDrops(stats)
  <2>1. Cardinality(lost) <= SignedDrops(senderStats) /\ Cardinality(lost) \in Nat
    BY <1>1, FS_CardinalityType DEF EvidenceInv
  <2>2. lost' = lost \cup gone /\ Cardinality(lost') \in Nat
    BY <1>1, FS_Union, FS_CardinalityType
  <2> HIDE DEF stats
  <2> QED
    BY <1>2, <1>5, <2>1, <2>2
<1>7. CASE DeclaresLoss(events, dropped)
  <2> DEFINE marked == [enqueued |-> 1, gap_markers |-> 1, gap_events_declared |-> dropped]
  <2>1. senderStats' = Count(stats, marked) /\ chain' = Advanced(FreshSession(chain))
    BY <1>7 DEF StatsAfterLoss, ChainAfterLoss
  <2>2. DOMAIN marked \subseteq Counters /\ \A k \in DOMAIN marked : marked[k] \in Nat
    BY DEF Counters
  <2>3. /\ Added(marked, "enqueued") = 1 /\ Added(marked, "gap_markers") = 1
        /\ Added(marked, "gap_events_declared") = dropped
        /\ Added(marked, "dropped_rejected") = 0
        /\ Added(marked, "dropped_permanent") = 0 /\ Added(marked, "dropped_retry_exhausted") = 0
    BY DEF Added
  <2> HIDE DEF marked, stats
  <2>4. /\ senderStats'.enqueued = senderStats.enqueued + 1
        /\ senderStats'.gap_markers = senderStats.gap_markers + 1
        /\ senderStats'.gap_events_declared = senderStats.gap_events_declared + dropped
        /\ SignedDrops(senderStats') = SignedDrops(stats)
    BY <1>2, <2>1, <2>2, <2>3, LedgerCounts
  <2>5. /\ senderStats.enqueued \in Nat /\ senderStats.gap_markers \in Nat
        /\ senderStats.gap_events_declared \in Nat
    BY <1>1, StatsAreNat
  <2>6. Ledger(EverSigned \cup {m}, chain', senderStats'.gap_markers,
               senderStats'.gap_events_declared)
    <3>1. Ledger(EverSigned \cup {m}, Advanced(FreshSession(chain)),
                 senderStats.gap_markers + 1, senderStats.gap_events_declared + dropped)
      BY <1>1, <2>5, LedgerSigned DEF EvidenceInv
    <3> QED
      BY <2>1, <2>4, <3>1
  <2>7. senderStats'.enqueued = chain'.signed
    BY <1>1, <2>1, <2>4 DEF EvidenceInv, Advanced
  <2>8. lost' # {}
    BY <1>7 DEF DeclaresLoss
  <2>9. EverSigned' \subseteq EverSigned \cup {m}
    BY <1>3, <1>4, <1>7
  <2>10. Cardinality(lost') <= SignedDrops(senderStats')
    BY <1>6, <2>4
  <2> HIDE DEF m
  <2> QED
    BY <1>1, <2>6, <2>7, <2>8, <2>9, <2>10, EvidenceStep
<1>8. CASE ~DeclaresLoss(events, dropped)
  <2>1. senderStats' = stats /\ chain' = chain
    BY <1>8 DEF StatsAfterLoss, ChainAfterLoss
  <2>2. EverSigned' \subseteq EverSigned
    BY <1>3, <1>4, <1>8
  <2>3. /\ Ledger(EverSigned, chain', senderStats'.gap_markers, senderStats'.gap_events_declared)
        /\ senderStats'.enqueued = chain'.signed
    BY <1>2, <2>1 DEF EvidenceInv
  <2>4. lost' = {} => OneSession(EverSigned, chain')
    BY <2>1 DEF EvidenceInv
  <2>5. Cardinality(lost') <= SignedDrops(senderStats')
    BY <1>6, <2>1
  <2> QED
    BY <1>1, <2>2, <2>3, <2>4, <2>5, EvidenceStep
<1> QED
  BY <1>7, <1>8

\* The request under way is part of what is held.
LEMMA InflightHeld ==
  ASSUME DeliveryInv
  PROVE  /\ inflight \in Seq(Item) /\ pendingQueue \in Seq(Item)
         /\ Len(inflight) \in Nat /\ DOMAIN inflight = 1..Len(inflight)
         /\ EventsOf(Held) = EventsOf(inflight) \cup EventsOf(pendingQueue)
         /\ IsFiniteSet(EventsOf(inflight))
         /\ Cardinality(EventsOf(inflight)) \in Nat
         /\ Cardinality(EventsOf(inflight)) <= Len(inflight)
<1> DEFINE E == EventsOf(inflight)
<1>1. /\ inflight \in Seq(Item) /\ pendingQueue \in Seq(Item)
      /\ Len(inflight) \in Nat /\ DOMAIN inflight = 1..Len(inflight)
  BY LenProperties DEF DeliveryInv, SenderInv, TypeOK
<1>2. EventsOf(Held) = E \cup EventsOf(pendingQueue)
  BY <1>1, ConcatEvents DEF Held
<1> DEFINE h == [i \in DOMAIN inflight |-> inflight[i].event]
<1>3. h \in Surjection(DOMAIN inflight, E)
  BY DEF EventsOf, Surjection
<1>4. IsFiniteSet(DOMAIN inflight) /\ Cardinality(DOMAIN inflight) = Len(inflight)
  <2> DEFINE n == Len(inflight)
  <2>1. n \in Nat /\ DOMAIN inflight = 1..n
    BY <1>1
  <2> HIDE DEF n
  <2>2. IsFiniteSet(1..n) /\ Cardinality(1..n) = n
    BY <2>1, FS_Interval
  <2> QED
    BY <2>1, <2>2 DEF n
<1> HIDE DEF h, E
<1>5. IsFiniteSet(E) /\ Cardinality(E) <= Cardinality(DOMAIN inflight)
  BY <1>3, <1>4, FS_Surjection
<1>6. Cardinality(E) \in Nat
  BY <1>5, FS_CardinalityType
<1> QED
  BY <1>1, <1>2, <1>4, <1>5, <1>6 DEF E

\* An accepted request: what is refused is lost, and counted one by one, if the
\* refusals can be read.
LEMMA DeliverEvidence ==
  ASSUME NEW status \in ReplyStatuses, DeliveryInv, DeliveryInv', EvidenceInv, DeliverOk(status)
  PROVE  EvidenceInv'
<1> DEFINE E == EventsOf(inflight)
           Reported(refused, body) == IF body.readable THEN refused ELSE {}
           Outcome(refused, body, rejected) ==
             /\ recorded' = recorded \cup (E \ refused)
             /\ lost' = lost \cup Reported(refused, body)
             /\ unread' = unread \cup (refused \ Reported(refused, body))
             /\ senderStats' = StatsAfterLoss(
                                 Count(senderStats, [sent |-> Len(inflight) - rejected,
                                                     dropped_rejected |-> rejected]),
                                 E, rejected)
             /\ chain' = ChainAfterLoss(E, rejected)
             /\ inBackoff' = FALSE
             /\ Drain(pendingQueue \o MarkerAfterLoss(E, rejected, "ingest_rejected"),
                      FALSE, <<>>)
           Bodies(refused) ==
             {Unreadable}
               \cup TruthfulBodies(Len(inflight), Cardinality(refused),
                                  Cardinality(E \cap recorded))
<1>1. \E refused \in Refusals(status) : \E body \in Bodies(refused) :
        Outcome(refused, body, CountRejects(Len(inflight), body))
  BY DEF DeliverOk
<1>2. PICK refused \in Refusals(status) :
        \E body \in Bodies(refused) : Outcome(refused, body, CountRejects(Len(inflight), body))
  BY <1>1
<1>3. PICK body \in Bodies(refused) : Outcome(refused, body, CountRejects(Len(inflight), body))
  BY <1>2
<1>4. /\ pendingQueue \in Seq(Item) /\ Len(inflight) \in Nat
      /\ E \subseteq EventsOf(Held) /\ EventsOf(pendingQueue) \subseteq EventsOf(Held)
      /\ IsFiniteSet(E) /\ Cardinality(E) \in Nat /\ Cardinality(E) <= Len(inflight)
  BY InflightHeld
<1>5. refused \subseteq E /\ refused \cap recorded = {}
  BY DEF Refusals
<1> HIDE DEF E
<1> DEFINE r == Cardinality(refused)
           d == Cardinality(E \cap recorded)
<1>6. /\ IsFiniteSet(refused) /\ r \in Nat /\ d \in Nat /\ r + d <= Len(inflight)
  <2>1. /\ refused \cup (E \cap recorded) \subseteq E /\ refused \cap (E \cap recorded) = {}
    BY <1>5
  <2>2. /\ IsFiniteSet(refused) /\ IsFiniteSet(E \cap recorded)
        /\ Cardinality(refused \cup (E \cap recorded)) <= Cardinality(E)
    BY <1>4, <1>5, <2>1, FS_Subset
  <2>3. r \in Nat /\ d \in Nat
    BY <2>2, FS_CardinalityType
  <2>4. Cardinality(refused \cup (E \cap recorded)) = r + d - 0
    BY <2>1, <2>2, FS_Union, FS_EmptySet
  <2> QED
    BY <1>4, <2>2, <2>3, <2>4
<1> DEFINE reported == Reported(refused, body)
           k == Cardinality(reported)
<1>7. /\ CountRejects(Len(inflight), body) = k /\ k \in Nat /\ k <= Len(inflight)
      /\ IsFiniteSet(reported)
      /\ k = 0 <=> reported = {}
  <2>1. CountRejects(Len(inflight), body) = IF body.readable THEN r ELSE 0
    BY <1>4, <1>6, CountRejectsExact
  <2>2. CASE body.readable
    <3>1. reported = refused /\ k = r
      BY <2>2
    <3>2. r = 0 <=> refused = {}
      BY <1>6, FS_EmptySet
    <3> QED
      BY <1>4, <1>6, <2>1, <2>2, <3>1, <3>2
  <2>3. CASE ~body.readable
    <3>1. reported = {} /\ k = 0 /\ IsFiniteSet(reported)
      BY <2>3, FS_EmptySet
    <3> QED
      BY <1>4, <2>1, <2>3, <3>1
  <2> QED
    BY <2>2, <2>3
<1>8. reported \subseteq refused
  OBVIOUS
<1>9. Outcome(refused, body, k)
  BY <1>3, <1>7
<1> DEFINE added == [sent |-> Len(inflight) - k, dropped_rejected |-> k]
<1>10. Len(inflight) - k \in Nat
  BY <1>4, <1>7
<1>17. unread' \subseteq unread \cup EventsOf(Held)
  BY <1>4, <1>5, <1>9
<1>18. lost' = lost \cup reported
  BY <1>9
<1> HIDE DEF r, d, k, reported
<1>11. DOMAIN added \subseteq Counters /\ \A c \in DOMAIN added : added[c] \in Nat
  BY <1>7, <1>10 DEF Counters
<1>12. /\ Added(added, "enqueued") = 0 /\ Added(added, "gap_markers") = 0
       /\ Added(added, "gap_events_declared") = 0 /\ Added(added, "dropped_rejected") = k
       /\ Added(added, "dropped_permanent") = 0 /\ Added(added, "dropped_retry_exhausted") = 0
  BY DEF Added
<1>13. senderStats' = StatsAfterLoss(Count(senderStats, added), E, k)
  BY <1>9
<1> HIDE DEF added
<1>14. Added(added, "dropped_rejected") + Added(added, "dropped_permanent")
         + Added(added, "dropped_retry_exhausted") = k
  BY <1>7, <1>12
<1>15. /\ recorded' \subseteq recorded \cup EventsOf(Held) /\ lost' = lost \cup reported
       /\ chain' = ChainAfterLoss(E, k) /\ reported \subseteq EventsOf(Held)
       /\ Drain(pendingQueue \o MarkerAfterLoss(E, k, "ingest_rejected"), FALSE, <<>>)
  BY <1>4, <1>5, <1>8, <1>9, <1>18
<1>16. "ingest_rejected" \in DeliveryReasons /\ Cardinality(reported) <= k
  BY <1>7 DEF DeliveryReasons, k
<1> QED
  BY <1>4, <1>7, <1>17, <1>11, <1>12, <1>13, <1>14, <1>15, <1>16, SettledEvidence

\* A request given up as a whole.
LEMMA AllLostEvidence ==
  ASSUME DeliveryInv, DeliveryInv', EvidenceInv, phase = "sending",
         NEW k \in {"dropped_rejected", "dropped_permanent"},
         NEW reason \in DeliveryReasons, NEW backoff,
         lost' = lost \cup EventsOf(inflight), unread' = unread, recorded' = recorded,
         senderStats' = StatsAfterLoss(Count(senderStats, [c \in {k} |-> Len(inflight)]),
                                       EventsOf(inflight), Len(inflight)),
         chain' = ChainAfterLoss(EventsOf(inflight), Len(inflight)),
         Drain(pendingQueue \o MarkerAfterLoss(EventsOf(inflight), Len(inflight), reason),
               backoff, <<>>)
  PROVE  EvidenceInv'
<1> DEFINE n == Len(inflight)
           added == [c \in {k} |-> n]
           gone == EventsOf(inflight)
<1>1. /\ pendingQueue \in Seq(Item) /\ n \in Nat
      /\ gone \subseteq EventsOf(Held) /\ EventsOf(pendingQueue) \subseteq EventsOf(Held)
      /\ IsFiniteSet(gone) /\ Cardinality(gone) <= n
  BY InflightHeld
<1>2. n # 0 /\ gone # {}
  <2>1. /\ inflight \in Seq(Item) /\ DOMAIN inflight = 1..n /\ inflight # <<>>
    BY InflightHeld DEF DeliveryInv, SenderInv, ProcessorAwake
  <2>2. n # 0
    BY <2>1, EmptySeq
  <2>3. inflight[1].event \in gone
    BY <1>1, <2>1, <2>2 DEF EventsOf
  <2> QED
    BY <2>2, <2>3
<1>3. DOMAIN added \subseteq Counters /\ \A c \in DOMAIN added : added[c] \in Nat
  BY <1>1 DEF Counters
<1>4. /\ Added(added, "enqueued") = 0 /\ Added(added, "gap_markers") = 0
      /\ Added(added, "gap_events_declared") = 0
      /\ Added(added, "dropped_rejected") + Added(added, "dropped_permanent")
           + Added(added, "dropped_retry_exhausted") = n
  <2>1. CASE k = "dropped_rejected"
    <3>1. /\ Added(added, "enqueued") = 0 /\ Added(added, "gap_markers") = 0
          /\ Added(added, "gap_events_declared") = 0 /\ Added(added, "dropped_rejected") = n
          /\ Added(added, "dropped_permanent") = 0 /\ Added(added, "dropped_retry_exhausted") = 0
      BY <2>1 DEF Added
    <3> HIDE DEF added
    <3> QED
      BY <1>1, <3>1
  <2>2. CASE k = "dropped_permanent"
    <3>1. /\ Added(added, "enqueued") = 0 /\ Added(added, "gap_markers") = 0
          /\ Added(added, "gap_events_declared") = 0 /\ Added(added, "dropped_rejected") = 0
          /\ Added(added, "dropped_permanent") = n /\ Added(added, "dropped_retry_exhausted") = 0
      BY <2>2 DEF Added
    <3> HIDE DEF added
    <3> QED
      BY <1>1, <3>1
  <2> QED
    BY <2>1, <2>2
<1>5. senderStats' = StatsAfterLoss(Count(senderStats, added), gone, n)
  OBVIOUS
<1>6. Drain(pendingQueue \o MarkerAfterLoss(gone, n, reason), backoff, <<>>)
      /\ chain' = ChainAfterLoss(gone, n) /\ lost' = lost \cup gone
      /\ recorded' \subseteq recorded \cup EventsOf(Held)
  OBVIOUS
<1>7. n = 0 <=> gone = {}
  BY <1>2
<1> HIDE DEF added, gone, n
<1> QED
  BY <1>1, <1>3, <1>4, <1>5, <1>6, <1>7, SettledEvidence

\* A request refused or discarded.
LEMMA RefuseEvidence ==
  ASSUME NEW status \in ReplyStatuses, DeliveryInv, DeliveryInv', EvidenceInv,
         RefuseRequest(status) \/ DiscardPermanent(status)
  PROVE  EvidenceInv'
<1>1. "ingest_rejected" \in DeliveryReasons /\ "permanent_failure" \in DeliveryReasons
  BY DEF DeliveryReasons
<1>2. CASE RefuseRequest(status)
  <2>1. [dropped_rejected |-> Len(inflight)] = [c \in {"dropped_rejected"} |-> Len(inflight)]
    OBVIOUS
  <2>2. /\ phase = "sending" /\ lost' = lost \cup EventsOf(inflight) /\ unread' = unread /\ recorded' = recorded
        /\ senderStats' = StatsAfterLoss(Count(senderStats, [dropped_rejected |-> Len(inflight)]),
                                         EventsOf(inflight), Len(inflight))
        /\ chain' = ChainAfterLoss(EventsOf(inflight), Len(inflight))
        /\ Drain(pendingQueue \o MarkerAfterLoss(EventsOf(inflight), Len(inflight),
                                                 "ingest_rejected"), FALSE, <<>>)
    BY <1>2 DEF RefuseRequest
  <2>3. senderStats' = StatsAfterLoss(Count(senderStats, [c \in {"dropped_rejected"} |-> Len(inflight)]),
                                      EventsOf(inflight), Len(inflight))
    BY <2>1, <2>2
  <2> QED
    BY <1>1, <2>2, <2>3, AllLostEvidence
<1>3. CASE DiscardPermanent(status)
  <2>1. [dropped_permanent |-> Len(inflight)] = [c \in {"dropped_permanent"} |-> Len(inflight)]
    OBVIOUS
  <2>2. /\ phase = "sending" /\ lost' = lost \cup EventsOf(inflight) /\ unread' = unread /\ recorded' = recorded
        /\ senderStats' = StatsAfterLoss(Count(senderStats, [dropped_permanent |-> Len(inflight)]),
                                         EventsOf(inflight), Len(inflight))
        /\ chain' = ChainAfterLoss(EventsOf(inflight), Len(inflight))
        /\ Drain(pendingQueue \o MarkerAfterLoss(EventsOf(inflight), Len(inflight),
                                                 "permanent_failure"), inBackoff, <<>>)
    BY <1>3 DEF DiscardPermanent
  <2>3. senderStats' = StatsAfterLoss(Count(senderStats, [c \in {"dropped_permanent"} |-> Len(inflight)]),
                                      EventsOf(inflight), Len(inflight))
    BY <2>1, <2>2
  <2> QED
    BY <1>1, <2>2, <2>3, AllLostEvidence
<1> QED
  BY <1>2, <1>3

\* The events put back are events of the request, those given up no more than the
\* items that are out of retries.
LEMMA RetriedEvents ==
  ASSUME DeliveryInv, NEW pos \in Selections(inflight)
  PROVE  /\ Retried(inflight, pos) \in Seq(Item)
         /\ EventsOf(Retried(inflight, pos)) \subseteq EventsOf(inflight)
         /\ Exhausted(inflight) \subseteq EventsOf(inflight)
         /\ IsFiniteSet(Exhausted(inflight))
         /\ Len(pos) \in Nat /\ Len(inflight) - Len(pos) \in Nat
         /\ Cardinality(Exhausted(inflight)) <= Len(inflight) - Len(pos)
         /\ Len(inflight) - Len(pos) = 0 <=> Exhausted(inflight) = {}
<1> DEFINE n == Len(inflight)
           R == Retriable(inflight)
           out == (1..n) \ R
           gone == Exhausted(inflight)
<1>1. /\ inflight \in Seq(Item) /\ n \in Nat /\ DOMAIN inflight = 1..n
  BY InflightHeld
<1>2. /\ Retried(inflight, pos) \in Seq(Item) /\ Len(pos) \in Nat /\ Len(pos) <= n
  BY <1>1, RetriedLemma
<1>3. /\ R \subseteq 1..n /\ out \subseteq 1..n /\ R \cup out = 1..n /\ R \cap out = {}
  BY <1>1 DEF Retriable
<1>4. IsFiniteSet(1..n) /\ Cardinality(1..n) = n
  <2> HIDE DEF n
  <2> QED
    BY <1>1, FS_Interval
<1>5. /\ IsFiniteSet(R) /\ IsFiniteSet(out) /\ Cardinality(R) \in Nat /\ Cardinality(out) \in Nat
  BY <1>3, <1>4, FS_Subset, FS_CardinalityType
<1>6. pos \in [1..Cardinality(R) -> R] /\ Len(pos) = Cardinality(R)
  <2>1. pos \in [1..Cardinality(R) -> R]
    BY DEF Selections
  <2> QED
    BY <1>5, <2>1
<1>7. Cardinality(out) = n - Len(pos)
  <2> HIDE DEF R, out, n
  <2>1. Cardinality(R \cup out) = Cardinality(R) + Cardinality(out) - Cardinality(R \cap out)
    BY <1>5, FS_Union
  <2>2. Cardinality(R \cap out) = 0
    BY <1>3, FS_EmptySet
  <2>3. n = Cardinality(R) + Cardinality(out) - 0
    BY <1>3, <1>4, <2>1, <2>2
  <2> QED
    BY <1>1, <1>5, <1>6, <2>3
<1>8. gone = {inflight[i].event : i \in out}
  BY <1>1 DEF Exhausted
<1>9. gone \subseteq EventsOf(inflight) /\ (gone = {} <=> out = {})
  BY <1>1, <1>8 DEF EventsOf
<1>10. IsFiniteSet(gone) /\ Cardinality(gone) <= Cardinality(out)
  <2> DEFINE h == [i \in out |-> inflight[i].event]
  <2>1. h \in Surjection(out, gone)
    BY <1>8 DEF Surjection
  <2> HIDE DEF h, gone, out
  <2> QED
    BY <1>5, <2>1, FS_Surjection
<1>11. EventsOf(Retried(inflight, pos)) \subseteq EventsOf(inflight)
  <2>1. DOMAIN Retried(inflight, pos) = DOMAIN pos
    BY DEF Retried
  <2> SUFFICES ASSUME NEW j \in DOMAIN pos
               PROVE  Retried(inflight, pos)[j].event \in EventsOf(inflight)
    BY <2>1 DEF EventsOf
  <2>2. pos[j] \in 1..n
    BY <1>3, <1>6
  <2>3. inflight[pos[j]] \in Item
    BY <1>1, <2>2, ElementOfSeq
  <2>4. Retried(inflight, pos)[j].event = inflight[pos[j]].event
    BY <2>3 DEF Retried, Item
  <2> QED
    BY <1>1, <2>2, <2>4 DEF EventsOf
<1>12. out = {} <=> Cardinality(out) = 0
  BY <1>5, FS_EmptySet
<1> HIDE DEF out, gone, R, n
<1>13. n - Len(pos) \in Nat /\ Cardinality(gone) <= n - Len(pos)
       /\ (n - Len(pos) = 0 <=> gone = {})
  BY <1>1, <1>5, <1>7, <1>9, <1>10, <1>12
<1> QED
  BY <1>2, <1>9, <1>10, <1>11, <1>13 DEF n, gone

\* A failed request put back.
LEMMA RequeueEvidence ==
  ASSUME DeliveryInv, DeliveryInv', EvidenceInv, RequeueFront,
         unread' = unread
  PROVE  EvidenceInv'
<1> DEFINE gone == Exhausted(inflight)
<1>1. PICK pos \in Selections(inflight) :
        LET dropped == Len(inflight) - Len(pos)
        IN /\ \E stored \in SUBSET (EventsOf(inflight) \ recorded) :
                recorded' = recorded \cup stored
           /\ lost' = lost \cup gone
           /\ senderStats' = StatsAfterLoss(
                               Count(senderStats, [retries |-> Len(pos),
                                                   dropped_retry_exhausted |-> dropped]),
                               gone, dropped)
           /\ chain' = ChainAfterLoss(gone, dropped)
           /\ inBackoff' = TRUE
           /\ Drain((Retried(inflight, pos) \o pendingQueue)
                      \o MarkerAfterLoss(gone, dropped, "retry_exhausted"), TRUE, <<>>)
  BY DEF RequeueFront
<1> DEFINE back == Retried(inflight, pos)
           kept == back \o pendingQueue
           dropped == Len(inflight) - Len(pos)
           added == [retries |-> Len(pos), dropped_retry_exhausted |-> dropped]
<1>2. /\ back \in Seq(Item) /\ EventsOf(back) \subseteq EventsOf(inflight)
      /\ gone \subseteq EventsOf(inflight) /\ IsFiniteSet(gone)
      /\ Len(pos) \in Nat /\ dropped \in Nat
      /\ Cardinality(gone) <= dropped /\ (dropped = 0 <=> gone = {})
  BY RetriedEvents
<1>3. /\ pendingQueue \in Seq(Item)
      /\ EventsOf(Held) = EventsOf(inflight) \cup EventsOf(pendingQueue)
  BY InflightHeld
<1>4. kept \in Seq(Item) /\ EventsOf(kept) \subseteq EventsOf(Held)
  <2> HIDE DEF back
  <2> QED
    BY <1>2, <1>3, ConcatProperties, ConcatEvents
<1>5. DOMAIN added \subseteq Counters /\ \A k \in DOMAIN added : added[k] \in Nat
  BY <1>2 DEF Counters
<1>6. /\ Added(added, "enqueued") = 0 /\ Added(added, "gap_markers") = 0
      /\ Added(added, "gap_events_declared") = 0 /\ Added(added, "dropped_rejected") = 0
      /\ Added(added, "dropped_permanent") = 0
      /\ Added(added, "dropped_retry_exhausted") = dropped
  BY DEF Added
<1>7. /\ recorded' \subseteq recorded \cup EventsOf(Held) /\ lost' = lost \cup gone
      /\ senderStats' = StatsAfterLoss(Count(senderStats, added), gone, dropped)
      /\ chain' = ChainAfterLoss(gone, dropped)
      /\ Drain(kept \o MarkerAfterLoss(gone, dropped, "retry_exhausted"), TRUE, <<>>)
  BY <1>1, <1>3
<1>8. gone \subseteq EventsOf(Held) /\ "retry_exhausted" \in DeliveryReasons
  BY <1>2, <1>3 DEF DeliveryReasons
<1> HIDE DEF gone, kept, back, dropped, added
<1>9. Added(added, "dropped_rejected") + Added(added, "dropped_permanent")
         + Added(added, "dropped_retry_exhausted") = dropped
  BY <1>2, <1>6
<1> QED
  BY <1>2, <1>4, <1>5, <1>6, <1>7, <1>8, <1>9, SettledEvidence

\* The sender starts with an empty ledger.
LEMMA EvidenceInit == Init => EvidenceInv
<1> SUFFICES ASSUME Init PROVE EvidenceInv
  OBVIOUS
<1>1. /\ inflight = <<>> /\ pendingQueue = <<>> /\ lost = {} /\ unread = {} /\ recorded = {}
      /\ chain = [sdkSessionId |-> 1, seqNo |-> 0, lastSig |-> 0, signed |-> 0]
      /\ senderStats = [k \in Counters |-> 0]
  BY DEF Init
<1>2. EverSigned = {}
  <2>1. <<>> \in Seq(Item) /\ DOMAIN <<>> = {}
    BY EmptySeq
  <2>2. Held = <<>>
    BY <1>1, <2>1, ConcatEmptySeq DEF Held
  <2> QED
    BY <1>1, <2>1, <2>2 DEF EverSigned, EventsOf
<1>3. /\ senderStats.enqueued = 0 /\ senderStats.gap_markers = 0
      /\ senderStats.gap_events_declared = 0 /\ SignedDrops(senderStats) = 0
  BY <1>1 DEF Counters, SignedDrops
<1>4. IsFiniteSet({}) /\ Cardinality({}) = 0 /\ Total(Claim, {}) = 0
  BY FS_EmptySet, TotalRemoves
<1>5. Ledger({}, chain, 0, 0)
  <2>1. Markers({}) = {} /\ SigsOf({}) = {}
    BY DEF Markers, SigsOf
  <2>2. 1..chain.signed = {}
    BY <1>1
  <2> QED
    BY <1>4, <2>1, <2>2 DEF Ledger
<1>6. OneSession({}, chain)
  BY <1>1 DEF OneSession
<1> QED
  BY <1>1, <1>2, <1>3, <1>4, <1>5, <1>6 DEF EvidenceInv

\* Every step of the sender keeps the ledger.
LEMMA EvidenceNext ==
  DeliveryInv /\ DeliveryInv' /\ EvidenceInv /\ [Next]_vars => EvidenceInv'
<1> SUFFICES ASSUME DeliveryInv, DeliveryInv', EvidenceInv, [Next]_vars PROVE EvidenceInv'
  OBVIOUS
<1>1. CASE DropOnOverflow
  BY <1>1, OverflowEvidence
<1>2. CASE Enqueue
  BY <1>2, EnqueueEvidence
<1>3. CASE EnqueueAfterGap
  BY <1>3, AfterGapEvidence
<1>4. CASE FlushQueue
  BY <1>4, FlushEvidence
<1>5. ASSUME NEW status \in ReplyStatuses, Reply(status) PROVE EvidenceInv'
  <2>1. CASE DeliverOk(status)
    BY <2>1, DeliverEvidence
  <2>2. CASE RefuseRequest(status) \/ DiscardPermanent(status)
    BY <2>2, RefuseEvidence
  <2>3. CASE RetryLater(status)
    BY <2>3, RequeueEvidence DEF RetryLater
  <2> QED
    BY <1>5, <2>1, <2>2, <2>3 DEF Reply
<1>6. CASE TimeOut
  BY <1>6, RequeueEvidence DEF TimeOut
<1>7. CASE BackoffElapses
  BY <1>7, BackoffEvidence
<1>8. CASE UNCHANGED vars
  <2>1. /\ inflight' = inflight /\ pendingQueue' = pendingQueue /\ chain' = chain
        /\ senderStats' = senderStats /\ lost' = lost /\ unread' = unread /\ recorded' = recorded
    BY <1>8 DEF vars, sender
  <2>2. EverSigned' = EverSigned /\ TypeOK' /\ NothingVanishes'
    BY <2>1 DEF EverSigned, Held, EventsOf, DeliveryInv, SenderInv
  <2> QED
    BY <2>1, <2>2, EvidenceSame
<1> QED
  BY <1>1, <1>2, <1>3, <1>4, <1>5, <1>6, <1>7, <1>8 DEF Next

\* The ledger is right in every reachable state: everything ever signed is one
\* event per signature, and the counters say how many there are, how many are
\* markers and what they declare.
THEOREM LedgerInvariant == Spec => []EvidenceInv
  BY DeliveryInvariant, EvidenceInit, EvidenceNext, PTL DEF Spec

----------------------------------------------------------------------------
(* What is missing from the record when everything has settled.            *)

\* The recorded events are finitely many and known by their signatures.
LEMMA RecordReadable == EvidenceInv => Readable
<1> SUFFICES ASSUME EvidenceInv PROVE Readable
  OBVIOUS
<1>1. /\ IsFiniteSet(EverSigned) /\ EverSigned \subseteq Event /\ recorded \subseteq EverSigned
      /\ \A e, f \in EverSigned : e.sdk_sig = f.sdk_sig => e = f
  BY DEF EvidenceInv, Ledger, EverSigned
<1>2. IsFiniteSet(recorded)
  BY <1>1, FS_Subset
<1> QED
  BY <1>1, <1>2 DEF Readable

\* At rest nothing is held.
LEMMA NothingHeld == DeliveryInv /\ AtRest => EverSigned = recorded \cup lost \cup unread
<1> SUFFICES ASSUME DeliveryInv, AtRest PROVE EverSigned = recorded \cup lost \cup unread
  OBVIOUS
<1>1. pendingQueue = <<>> /\ inflight = <<>>
  BY DEF DeliveryInv, SenderInv, ProcessorAwake, AtRest
<1>2. Held = <<>> /\ DOMAIN <<>> = {}
  BY <1>1, EmptySeq, ConcatEmptySeq DEF Held
<1> QED
  BY <1>2 DEF EverSigned, EventsOf

\* As many events as signatures.
LEMMA LedgerSize ==
  ASSUME NEW A, NEW c, c.signed \in Nat, NEW marks, NEW claims, Ledger(A, c, marks, claims)
  PROVE  Cardinality(A) = c.signed
<1> DEFINE n == c.signed
           sig == [e \in A |-> e.sdk_sig]
<1>1. sig \in Bijection(A, 1..n)
  BY DEF Ledger, SigsOf, Bijection, Injection, Surjection, IsInjective
<1>2. IsFiniteSet(A) /\ n \in Nat
  BY DEF Ledger
<1> HIDE DEF sig, n
<1>3. Cardinality(A) = Cardinality(1..n)
  BY <1>1, <1>2, FS_Bijection DEF ExistsBijection
<1>4. Cardinality(1..n) = n
  BY <1>2, FS_Interval
<1> QED
  BY <1>3, <1>4 DEF n

\* Unless a marker was lost, what the recorded markers claim covers what the
\* record lacks, up to what was refused unseen.
LEMMA WhatIsMissing ==
  ASSUME DeliveryInv, EvidenceInv, AtRest, ~MarkersLost
  PROVE  /\ RecordedAppEvents \in Nat /\ RefusedUnseen \in Nat /\ offered \in Nat
         /\ RecordedAppEvents + RefusedUnseen <= offered
         /\ Total(Claim, recorded) \in Nat
         /\ offered <= RecordedAppEvents + RefusedUnseen + Total(Claim, recorded)
<1> DEFINE M == Markers(recorded)
           P == {e \in recorded : ~IsGapMarker(e)}
           missing == lost \ recorded
           all == recorded \cup lost \cup unread
<1>1. /\ TypeOK /\ CountersBalance /\ LossesDeclared /\ gapPendingCount = 0
      /\ senderStats \in SenderStats /\ chain.signed \in Nat /\ offered \in Nat
      /\ IsFiniteSet(lost) /\ unread \cap (recorded \cup lost) = {}
  BY DEF NothingVanishes, DeliveryInv, SenderInv, TypeOK, ChainState, AtRest
<1>2. EverSigned = all
  BY NothingHeld
<1>3. /\ Ledger(all, chain, senderStats.gap_markers, senderStats.gap_events_declared)
      /\ senderStats.enqueued = chain.signed /\ Cardinality(lost) <= SignedDrops(senderStats)
  BY <1>2 DEF EvidenceInv
<1>4. /\ IsFiniteSet(all) /\ all \subseteq Event
      /\ Cardinality(Markers(all)) = senderStats.gap_markers
      /\ Total(Claim, all) = senderStats.gap_events_declared
      /\ Cardinality(all) = chain.signed
  BY <1>1, <1>3, LedgerSize DEF Ledger
<1>5. /\ \A e \in missing \cup unread : ~IsGapMarker(e)
      /\ RefusedUnseen = Cardinality(unread)
  <2>1. \A e \in missing \cup unread : ~IsGapMarker(e)
    BY <1>1 DEF MarkersLost
  <2>2. {e \in unread : ~IsGapMarker(e)} = unread
    BY <2>1
  <2> QED
    BY <2>1, <2>2 DEF RefusedUnseen
<1>6. /\ IsFiniteSet(recorded) /\ IsFiniteSet(M) /\ IsFiniteSet(P) /\ IsFiniteSet(missing)
      /\ Cardinality(M) \in Nat /\ Cardinality(P) \in Nat /\ Cardinality(missing) \in Nat
      /\ IsFiniteSet(LostMarkers) /\ Cardinality(LostMarkers) \in Nat
      /\ IsFiniteSet(unread) /\ Cardinality(unread) \in Nat
  <2>1. IsFiniteSet(recorded) /\ IsFiniteSet(unread)
    <3>1. recorded \subseteq all /\ unread \subseteq all
      OBVIOUS
    <3> QED
      BY <1>4, <3>1, FS_Subset
  <2>2. IsFiniteSet(M) /\ IsFiniteSet(P) /\ IsFiniteSet(missing) /\ IsFiniteSet(LostMarkers)
    BY <1>1, <2>1, FS_Subset DEF Markers, LostMarkers
  <2> QED
    BY <2>1, <2>2, FS_CardinalityType
<1>7. senderStats.gap_markers = Cardinality(M)
  <2>1. Markers(all) = M
    BY <1>5 DEF Markers
  <2> QED
    BY <1>4, <2>1
<1>8. senderStats.gap_events_declared = Total(Claim, recorded) /\ Total(Claim, recorded) \in Nat
  <2> DEFINE rest == missing \cup unread
  <2>1. Total(Claim, rest) = 0 /\ IsFiniteSet(rest)
    <3>1. \A e \in rest : Claim[e] = 0
      BY <1>4, <1>5 DEF Claim
    <3>2. IsFiniteSet(rest)
      BY <1>6, FS_Union
    <3> HIDE DEF rest
    <3> QED
      BY <3>1, <3>2, TotalZero
  <2>2. /\ all = recorded \cup rest /\ recorded \cap rest = {}
        /\ \A e \in recorded \cup rest : Claim[e] \in Nat
    BY <1>1, <1>4, ClaimType
  <2> HIDE DEF rest, all
  <2>3. Total(Claim, recorded \cup rest) = Total(Claim, recorded) + Total(Claim, rest)
    BY <1>6, <2>1, <2>2, TotalUnion
  <2>4. Total(Claim, recorded) \in Nat
    BY <1>6, <2>2, TotalRemoves
  <2> QED
    BY <1>4, <2>1, <2>2, <2>3, <2>4
<1>9. chain.signed = Cardinality(P) + Cardinality(M) + Cardinality(missing) + Cardinality(unread)
  <2>1. /\ P \cap M = {} /\ P \cup M = recorded /\ recorded \cap missing = {}
        /\ (recorded \cup missing) \cup unread = all
        /\ (recorded \cup missing) \cap unread = {}
    BY <1>1 DEF Markers
  <2> HIDE DEF P, M, missing
  <2>2. Cardinality(P \cup M) = Cardinality(P) + Cardinality(M) - 0
    BY <1>6, <2>1, FS_Union, FS_EmptySet
  <2>3. Cardinality(recorded \cup missing) = Cardinality(recorded) + Cardinality(missing) - 0
    BY <1>6, <2>1, FS_Union, FS_EmptySet
  <2>4. Cardinality((recorded \cup missing) \cup unread)
          = Cardinality(recorded \cup missing) + Cardinality(unread) - 0
    <3> DEFINE both == recorded \cup missing
    <3>1. IsFiniteSet(both) /\ IsFiniteSet(unread) /\ both \cap unread = {}
      BY <1>6, <2>1, FS_Union
    <3> HIDE DEF both
    <3>2. Cardinality(both \cup unread)
            = Cardinality(both) + Cardinality(unread) - Cardinality(both \cap unread)
      BY <3>1, FS_Union
    <3>3. Cardinality(both \cap unread) = 0
      BY <3>1, FS_EmptySet
    <3> QED
      BY <3>2, <3>3 DEF both
  <2>5. /\ Cardinality(recorded) = Cardinality(P) + Cardinality(M) - 0
        /\ chain.signed = Cardinality(recorded \cup missing) + Cardinality(unread) - 0
        /\ Cardinality(recorded \cup missing) = Cardinality(recorded) + Cardinality(missing) - 0
    BY <1>4, <2>1, <2>2, <2>3, <2>4
  <2> QED
    BY <1>6, <2>5
<1>10. Cardinality(missing) + Cardinality(LostMarkers) <= SignedDrops(senderStats)
  <2>1. missing \cap LostMarkers = {} /\ missing \cup LostMarkers \subseteq lost
    BY <1>5 DEF LostMarkers
  <2> HIDE DEF missing
  <2>2. Cardinality(missing \cup LostMarkers) = Cardinality(missing) + Cardinality(LostMarkers) - 0
    <3>1. Cardinality(missing \cup LostMarkers)
            = Cardinality(missing) + Cardinality(LostMarkers) - Cardinality(missing \cap LostMarkers)
      BY <1>6, FS_Union
    <3>2. Cardinality(missing \cap LostMarkers) = 0
      BY <2>1, FS_EmptySet
    <3> QED
      BY <3>1, <3>2
  <2>3. Cardinality(missing \cup LostMarkers) <= Cardinality(lost) /\ Cardinality(lost) \in Nat
    BY <1>1, <2>1, FS_Subset, FS_CardinalityType
  <2>4. SignedDrops(senderStats) \in Nat
    BY <1>1, StatsAreNat DEF SignedDrops
  <2> QED
    BY <1>3, <1>6, <2>2, <2>3, <2>4
<1>11. /\ offered + senderStats.gap_markers
            = senderStats.enqueued + senderStats.dropped_overflow
       /\ senderStats.dropped_overflow + SignedDrops(senderStats)
            = senderStats.gap_events_declared + Cardinality(LostMarkers)
       /\ senderStats.dropped_overflow \in Nat /\ SignedDrops(senderStats) \in Nat
  <2>1. /\ senderStats.dropped_overflow \in Nat /\ senderStats.dropped_rejected \in Nat
        /\ senderStats.dropped_permanent \in Nat /\ senderStats.dropped_retry_exhausted \in Nat
        /\ senderStats.gap_events_declared \in Nat
    BY <1>1, StatsAreNat
  <2>2. senderStats.dropped_overflow + SignedDrops(senderStats)
          = gapPendingCount + senderStats.gap_events_declared + Cardinality(LostMarkers)
    BY <1>1, <2>1 DEF LossesDeclared, SignedDrops, LostMarkers
  <2>3. offered + senderStats.gap_markers
          = senderStats.enqueued + senderStats.dropped_overflow
    BY <1>1 DEF CountersBalance
  <2>4. SignedDrops(senderStats) \in Nat
    BY <2>1 DEF SignedDrops
  <2>5. 0 + senderStats.gap_events_declared = senderStats.gap_events_declared
    BY <2>1
  <2> QED
    BY <1>1, <2>1, <2>2, <2>3, <2>4, <2>5
<1> DEFINE p == Cardinality(P)
           m == Cardinality(M)
           k == Cardinality(missing)
           u == Cardinality(unread)
           x == Cardinality(LostMarkers)
           s == SignedDrops(senderStats)
           v == senderStats.dropped_overflow
           t == Total(Claim, recorded)
<1>12. /\ offered + m = (p + m + k + u) + v /\ v + s = t + x /\ k + x <= s
       /\ p \in Nat /\ m \in Nat /\ k \in Nat /\ x \in Nat /\ s \in Nat /\ v \in Nat /\ t \in Nat
       /\ u \in Nat
  BY <1>3, <1>6, <1>7, <1>8, <1>9, <1>10, <1>11
<1> HIDE DEF p, m, k, x, s, v, t, u
<1>13. p + u <= offered /\ offered <= p + u + t
  BY <1>1, <1>12
<1>14. RecordedAppEvents = p /\ RefusedUnseen = u
  BY <1>5 DEF RecordedAppEvents, p, u
<1> QED
  BY <1>1, <1>12, <1>13, <1>14 DEF t

\* A clean exit of the keyed tier at rest means the record is complete: every
\* event the application offered is in it, unless a marker itself was lost, or the
\* event was refused in a response the sender could not read.
THEOREM CleanIsComplete == Spec => []CleanMeansComplete
<1>1. DeliveryInv /\ EvidenceInv => CleanMeansComplete
  <2> SUFFICES ASSUME DeliveryInv, EvidenceInv, AtRest, ~MarkersLost, Verdict.exitCode = 0
               PROVE  RecordedAppEvents + RefusedUnseen = offered
    BY DEF CleanMeansComplete
  <2>1. Readable
    BY RecordReadable
  <2>2. \A e \in recorded : ~IsGapMarker(e)
    BY <2>1, VerdictTallies
  <2>3. IsFiniteSet(recorded) /\ \A e \in recorded : Claim[e] = 0
    BY <2>1, <2>2 DEF Readable, Claim
  <2>4. Total(Claim, recorded) = 0
    BY <2>3, TotalZero
  <2> QED
    BY <2>4, WhatIsMissing
<1> QED
  BY <1>1, DeliveryInvariant, LedgerInvariant, PTL

\* A valid verdict never understates the loss: what is missing was declared, up
\* to the markers that were lost themselves and to the events refused in a response
\* the sender could not read.
THEOREM MissingIsDeclared == Spec => []IncompleteIsDeclared
<1>1. DeliveryInv /\ EvidenceInv => IncompleteIsDeclared
  <2> SUFFICES ASSUME DeliveryInv, EvidenceInv, AtRest, ~MarkersLost, Verdict.valid
               PROVE  RecordedAppEvents + Verdict.eventsDeclaredLost + RefusedUnseen >= offered
    BY DEF IncompleteIsDeclared
  <2>1. Readable
    BY RecordReadable
  <2>2. Verdict.eventsDeclaredLost = Total(Claim, recorded)
    BY <2>1, VerdictTallies
  <2> QED
    BY <2>2, WhatIsMissing
<1> QED
  BY <1>1, DeliveryInvariant, LedgerInvariant, PTL

----------------------------------------------------------------------------
(* The chain of a sender that lost nothing it signed.                      *)

\* Everything recorded belongs to one session, numbered from 1 without a hole.
Unbroken(n) ==
  /\ n \in Nat /\ Readable
  /\ SigsOf(recorded) = 1..n
  /\ \A e \in recorded : /\ e.sdk_session_id = 1 /\ e.seq_no = e.sdk_sig
                         /\ e.prev_sig = e.sdk_sig - 1

\* Where the elements of two sequences are in the one made of both.
LEMMA Joined ==
  ASSUME NEW S, NEW s \in Seq(S), NEW t \in Seq(S)
  PROVE  /\ s \o t \in Seq(S) /\ Len(s \o t) = Len(s) + Len(t)
         /\ \A i \in 1..Len(s) : (s \o t)[i] = s[i]
         /\ \A i \in 1..Len(t) : (s \o t)[Len(s) + i] = t[i]
<1>1. Len(s) \in Nat /\ Len(t) \in Nat
  BY LenProperties
<1>2. /\ s \o t \in Seq(S) /\ Len(s \o t) = Len(s) + Len(t)
      /\ \A i \in 1..Len(s) + Len(t) : (s \o t)[i] = IF i <= Len(s) THEN s[i] ELSE t[i - Len(s)]
  BY ConcatProperties
<1>3. ASSUME NEW i \in 1..Len(s) PROVE (s \o t)[i] = s[i]
  <2>1. i \in 1..Len(s) + Len(t) /\ i <= Len(s)
    BY <1>1
  <2> QED
    BY <1>2, <2>1
<1>4. ASSUME NEW i \in 1..Len(t) PROVE (s \o t)[Len(s) + i] = t[i]
  <2>1. Len(s) + i \in 1..Len(s) + Len(t) /\ ~(Len(s) + i <= Len(s)) /\ Len(s) + i - Len(s) = i
    BY <1>1
  <2> QED
    BY <1>2, <2>1
<1> QED
  BY <1>2, <1>3, <1>4

\* What the verifier recomputes for an exported event.
LEMMA ExportedPayload ==
  ASSUME NEW e \in Event
  PROVE  /\ Cli!Payload(5, Exported(e))[2] = <<"text", e.sdk_session_id>>
         /\ Cli!Payload(5, Exported(e))[3] = <<"numeral", e.seq_no>>
<1> DEFINE x == Exported(e)
<1>1. /\ x.timestamp_sdk = 0 /\ x.sdk_session_id = e.sdk_session_id /\ x.seq_no = e.seq_no
  BY DEF Exported
<1>2. PICK lead, sid, seq, time, c, d, prev :
        /\ lead = Cli!Numeral(5) /\ sid = <<"text", x.sdk_session_id>>
        /\ seq = <<"numeral", x.seq_no>> /\ time = Cli!Numeral(x.timestamp_sdk)
        /\ c = Cli!ContentDigest(Cli!ContentHash(5, x))
        /\ d = Cli!DecisionDigest(Cli!DecisionHash(5, x)) /\ prev = <<"text", x.prev_sig>>
  OBVIOUS
<1>3. Cli!Payload(5, x) = (((<<lead>> \o <<sid>>) \o <<seq, time, c>>) \o <<d>>) \o <<prev>>
  <2>1. x.timestamp_sdk # Cli!NoTime
    BY <1>1 DEF Cli!NoTime
  <2> QED
    BY <1>2, <2>1 DEF Cli!Payload, Cli!SignaturePayload, OnePart, Cli!Numeral
<1> HIDE DEF x
<1> DEFINE S == {lead, sid, seq, time, c, d, prev}
           a == <<lead>>
           b == <<sid>>
           m == <<seq, time, c>>
           dd == <<d>>
           last == <<prev>>
<1>4. /\ a \in Seq(S) /\ b \in Seq(S) /\ m \in Seq(S) /\ dd \in Seq(S) /\ last \in Seq(S)
      /\ Len(a) = 1 /\ Len(b) = 1 /\ Len(m) = 3 /\ Len(dd) = 1
      /\ b[1] = sid /\ m[1] = seq
  OBVIOUS
<1> HIDE DEF a, b, m, dd, last, S
<1> DEFINE ab == a \o b
           abm == ab \o m
           abmd == abm \o dd
<1>5. ab \in Seq(S) /\ Len(ab) = 2 /\ ab[2] = sid
  <2>1. /\ a \o b \in Seq(S) /\ Len(a \o b) = Len(a) + Len(b)
        /\ \A i \in 1..Len(b) : (a \o b)[Len(a) + i] = b[i]
    <3>1. a \in Seq(S) /\ b \in Seq(S)
      BY <1>4
    <3> QED
      BY <3>1, Joined
  <2>2. (a \o b)[1 + 1] = b[1]
    BY <1>4, <2>1
  <2> QED
    BY <1>4, <2>1, <2>2
<1> HIDE DEF ab
<1>6. abm \in Seq(S) /\ Len(abm) = 5 /\ abm[2] = ab[2] /\ abm[3] = seq
  <2>1. /\ ab \o m \in Seq(S) /\ Len(ab \o m) = Len(ab) + Len(m)
        /\ \A i \in 1..Len(ab) : (ab \o m)[i] = ab[i]
        /\ \A i \in 1..Len(m) : (ab \o m)[Len(ab) + i] = m[i]
    <3>1. ab \in Seq(S) /\ m \in Seq(S)
      BY <1>4, <1>5
    <3> QED
      BY <3>1, Joined
  <2>2. (ab \o m)[2 + 1] = m[1] /\ (ab \o m)[2] = ab[2]
    BY <1>4, <1>5, <2>1
  <2> QED
    BY <1>4, <1>5, <2>1, <2>2
<1> HIDE DEF abm
<1>7. abmd \in Seq(S) /\ Len(abmd) = 6 /\ abmd[2] = abm[2] /\ abmd[3] = abm[3]
  <2>1. /\ abm \o dd \in Seq(S) /\ Len(abm \o dd) = Len(abm) + Len(dd)
        /\ \A i \in 1..Len(abm) : (abm \o dd)[i] = abm[i]
    <3>1. abm \in Seq(S) /\ dd \in Seq(S)
      BY <1>4, <1>6
    <3> QED
      BY <3>1, Joined
  <2> QED
    BY <1>4, <1>6, <2>1
<1> HIDE DEF abmd
<1>8. (abmd \o last)[2] = abmd[2] /\ (abmd \o last)[3] = abmd[3]
  <2>1. \A i \in 1..Len(abmd) : (abmd \o last)[i] = abmd[i]
    BY <1>4, <1>7, Joined, Zenon
  <2>2. 2 \in 1..Len(abmd) /\ 3 \in 1..Len(abmd)
    BY <1>7
  <2> QED
    BY <2>1, <2>2, Zenon
<1>9. Cli!Payload(5, x) = abmd \o last
  BY <1>3 DEF a, b, m, ab, abm, abmd, dd, last
<1>10. Cli!Payload(5, x)[2] = sid /\ Cli!Payload(5, x)[3] = seq
  BY <1>5, <1>6, <1>7, <1>8, <1>9
<1> QED
  BY <1>1, <1>2, <1>10 DEF x

\* The signature it recomputes is the one the event carries.
LEMMA SignatureHolds ==
  ASSUME NEW n, Unbroken(n), NEW e \in recorded
  PROVE  SigOf(Cli!Payload(5, Exported(e))) = e.sdk_sig
<1> DEFINE payload == Cli!Payload(5, Exported(e))
           named(r) == [session |-> r.sdk_session_id, seq |-> r.seq_no]
                         = [session |-> payload[2][2], seq |-> payload[3][2]]
<1>1. e \in Event /\ payload[2][2] = e.sdk_session_id /\ payload[3][2] = e.seq_no
  <2>1. e \in Event
    BY DEF Unbroken, Readable
  <2>2. /\ payload[2] = <<"text", e.sdk_session_id>>
        /\ payload[3] = <<"numeral", e.seq_no>>
    BY <2>1, ExportedPayload
  <2> HIDE DEF payload
  <2> QED
    BY <2>1, <2>2
<1> HIDE DEF payload
<1>2. named(e)
  BY <1>1
<1>3. \A r \in recorded : named(r) => r.seq_no = e.seq_no
  BY <1>1
<1>4. \A r \in recorded : named(r) => r = e
  BY <1>3 DEF Unbroken, Readable
<1>5. SigOf(payload) = (CHOOSE r \in recorded : named(r)).sdk_sig
  BY DEF SigOf
<1> HIDE DEF named
<1>6. (CHOOSE r \in recorded : named(r)) = e
  BY <1>2, <1>4
<1> QED
  BY <1>5, <1>6 DEF payload

\* An event that follows its predecessor passes the scan.
LEMMA ScanPasses ==
  ASSUME NEW n, Unbroken(n), NEW e \in recorded, NEW first \in recorded, NEW i \in Nat \ {0},
         NEW st, st.breaks = {}, st.lastSeq = i - 1, st.lastTimestamp = 0,
         i > 1 => st.lastSig = i - 1, e.seq_no = i
  PROVE  LET after == Cli!Scan(st, i, Exported(e), Exported(first),
                               [keyed |-> TRUE, pinned |-> {}])
         IN /\ after.breaks = {} /\ after.lastSeq = i
            /\ after.lastTimestamp = 0 /\ after.lastSig = i
<1> DEFINE mode == [keyed |-> TRUE, pinned |-> {}]
           x == Exported(e)
           f == Exported(first)
<1>1. /\ x.sdk_session_id = 1 /\ f.sdk_session_id = 1 /\ x.seq_no = i /\ x.sdk_sig = i
      /\ x.prev_sig = i - 1 /\ x.timestamp_sdk = 0 /\ x.chain_format = 5 /\ f.chain_format = 5
  BY DEF Exported, Unbroken
<1>2. Cli!DeclaredFormat(f) = 5 /\ Cli!DeclaredFormat(x) = 5
  BY <1>1 DEF Cli!DeclaredFormat, Cli!NoFormat
<1>3. Cli!Continues(st, i, x)
  BY <1>1 DEF Cli!Continues, Cli!NoSeq, Cli!NoTime
<1>4. Cli!SignatureMatches(mode, 5, x)
  <2>1. SigOf(Cli!Payload(5, x)) = x.sdk_sig
    BY <1>1, SignatureHolds DEF Unbroken
  <2> HIDE DEF x
  <2> QED
    BY <2>1 DEF Cli!SignatureMatches
<1>5. Cli!SealMatches(mode, 5, x)
  BY DEF Cli!SealMatches
<1>6. x.timestamp_sdk # Cli!NoTime /\ x.sdk_session_id = f.sdk_session_id
  BY <1>1 DEF Cli!NoTime
<1> HIDE DEF mode, x, f
<1>7. /\ Cli!Scan(st, i, x, f, mode).breaks = {}
      /\ Cli!Scan(st, i, x, f, mode).lastSeq = x.seq_no
      /\ Cli!Scan(st, i, x, f, mode).lastSig = x.sdk_sig
      /\ Cli!Scan(st, i, x, f, mode).lastTimestamp = x.timestamp_sdk
  BY <1>2, <1>3, <1>4, <1>5, <1>6 DEF Cli!Scan
<1> QED
  BY <1>1, <1>7 DEF mode, x, f

\* The numbered events of one session pass the scan, one after the other.
LEMMA SessionPasses ==
  ASSUME NEW n, Unbroken(n), NEW m \in Nat \ {0}, NEW ev \in [1..m -> recorded],
         \A k \in 1..m : ev[k].seq_no = k,
         NEW events, events = [k \in 1..m |-> Exported(ev[k])]
  PROVE  Cli!VerifyAuditChain(events, [keyed |-> TRUE, pinned |-> {}]).valid
<1> DEFINE mode == [keyed |-> TRUE, pinned |-> {}]
           st == Cli!Scanned(events, mode)
<1>1. events \in Seq({Exported(ev[k]) : k \in 1..m}) /\ Len(events) = m /\ events # <<>>
      /\ \A k \in 1..m : events[k] = Exported(ev[k]) /\ ev[k] \in recorded
  OBVIOUS
<1>2. Cli!Supported(events[1])
  <2>1. events[1].chain_format = 5
    BY DEF Exported
  <2> QED
    BY <2>1 DEF Cli!Supported, Cli!DeclaredFormat, Cli!NoFormat, Cli!CHAIN_FORMATS_SUPPORTED
<1> HIDE DEF mode
<1>3. Cli!VerifyAuditChain(events, mode).valid <=> st.breaks = {}
  <2> HIDE DEF st
  <2>1. Cli!VerifyAuditChain(events, mode).valid
          = ((IF events = <<>> THEN Cli!Start
              ELSE IF ~Cli!Supported(events[1]) THEN [Cli!Start EXCEPT !.breaks = {1}]
              ELSE st).breaks = {})
    BY DEF Cli!VerifyAuditChain, st
  <2> QED
    BY <1>1, <1>2, <2>1
<1> HIDE DEF st
<1>4. PICK f : Scans(f, events, mode, m) /\ st = f[m]
  BY <1>1, ScannedIs DEF st
<1> DEFINE Right(i) == /\ f[i].breaks = {} /\ f[i].lastSeq = i /\ f[i].lastTimestamp = 0
                       /\ i > 0 => f[i].lastSig = i
           Bad == {i \in 0..m : ~Right(i)}
<1>5. Right(0)
  BY <1>4 DEF Scans, Cli!Start
<1>6. ASSUME NEW i \in 1..m, Right(i - 1) PROVE Right(i)
  <2>1. f[i] = Cli!Scan(f[i - 1], i, Exported(ev[i]), Exported(ev[1]), mode)
    <3>1. f[i] = Cli!Scan(f[i - 1], i, events[i], events[1], mode)
      BY <1>4 DEF Scans
    <3>2. events[i] = Exported(ev[i]) /\ events[1] = Exported(ev[1])
      OBVIOUS
    <3> QED
      BY <3>1, <3>2
  <2>2. /\ f[i - 1].breaks = {} /\ f[i - 1].lastSeq = i - 1 /\ f[i - 1].lastTimestamp = 0
        /\ i > 1 => f[i - 1].lastSig = i - 1
    BY <1>6
  <2>3. i \in Nat \ {0} /\ ev[i] \in recorded /\ ev[1] \in recorded /\ ev[i].seq_no = i
    OBVIOUS
  <2>4. PICK s : s = f[i - 1]
    OBVIOUS
  <2>5. /\ Cli!Scan(s, i, Exported(ev[i]), Exported(ev[1]), mode).breaks = {}
        /\ Cli!Scan(s, i, Exported(ev[i]), Exported(ev[1]), mode).lastSeq = i
        /\ Cli!Scan(s, i, Exported(ev[i]), Exported(ev[1]), mode).lastTimestamp = 0
        /\ Cli!Scan(s, i, Exported(ev[i]), Exported(ev[1]), mode).lastSig = i
    BY <2>2, <2>3, <2>4, ScanPasses DEF mode
  <2> QED
    BY <2>1, <2>4, <2>5
<1> HIDE DEF Right
<1>7. /\ Bad \subseteq Nat
      /\ \A i \in Bad : i \in 0..m /\ ~Right(i)
      /\ \A i \in 0..m : i \notin Bad => Right(i)
  OBVIOUS
<1> HIDE DEF Bad
<1>8. ASSUME Bad # {} PROVE FALSE
  <2>1. PICK i \in Bad : \A k \in Bad : ~(k < i)
    BY <1>7, <1>8, LeastOf
  <2>2. i \in 1..m /\ i - 1 \in 0..m /\ i - 1 \notin Bad
    BY <1>5, <1>7, <2>1
  <2> QED
    BY <1>6, <1>7, <2>1, <2>2
<1>9. Right(m)
  BY <1>7, <1>8
<1>10. Cli!VerifyAuditChain(events, mode).valid
  BY <1>3, <1>4, <1>9 DEF Right
<1> QED
  BY <1>10 DEF mode

\* An unbroken record passes.
LEMMA UnbrokenPasses ==
  ASSUME NEW n, Unbroken(n)
  PROVE  Verdict.valid
<1>1. n \in Nat /\ Readable
  BY DEF Unbroken
<1> SUFFICES ASSUME NEW sid \in Cli!SessionsOf(Bundle) PROVE SessionVerdict(sid).valid
  BY <1>1, VerdictIs
<1>2. \A e \in recorded : e.sdk_session_id = sid
  <2>1. PICK e \in recorded : e.sdk_session_id = sid
    BY <1>1, VerdictIs
  <2> QED
    BY <2>1 DEF Unbroken
<1>3. PICK m \in Nat \ {0} : \E ev \in [1..m -> Event] :
        /\ \A i, j \in 1..m : ev[i] = ev[j] => i = j
        /\ {ev[k] : k \in 1..m} = {e \in recorded : e.sdk_session_id = sid}
        /\ \A i, j \in 1..m : i < j => ev[i].seq_no <= ev[j].seq_no
        /\ Cli!SessionEvents(Bundle, sid) = [k \in 1..m |-> Exported(ev[k])]
  BY <1>1, SessionOfBundle
<1>4. PICK ev \in [1..m -> Event] :
        /\ \A i, j \in 1..m : ev[i] = ev[j] => i = j
        /\ {ev[k] : k \in 1..m} = {e \in recorded : e.sdk_session_id = sid}
        /\ \A i, j \in 1..m : i < j => ev[i].seq_no <= ev[j].seq_no
        /\ Cli!SessionEvents(Bundle, sid) = [k \in 1..m |-> Exported(ev[k])]
  BY <1>3
<1>5. {ev[k] : k \in 1..m} = recorded
  BY <1>2, <1>4
<1>6. ev \in [1..m -> recorded] /\ \A e \in recorded : \E k \in 1..m : ev[k] = e
  BY <1>5
<1> DEFINE s == [k \in 1..m |-> ev[k].seq_no]
<1>7. /\ \A k \in 1..m : s[k] = ev[k].seq_no /\ s[k] = ev[k].sdk_sig /\ s[k] \in 1..n
      /\ s \in [1..m -> 1..n]
  BY <1>6 DEF Unbroken, SigsOf
<1>8. \A k \in 1..n : \E i \in 1..m : s[i] = k
  <2> SUFFICES ASSUME NEW k \in 1..n PROVE \E i \in 1..m : s[i] = k
    OBVIOUS
  <2>1. PICK e \in recorded : e.sdk_sig = k
    BY DEF Unbroken, SigsOf
  <2>2. PICK i \in 1..m : ev[i] = e
    BY <1>6
  <2> QED
    BY <1>7, <2>1, <2>2
<1>9. \A i, j \in 1..m : s[i] = s[j] => i = j
  <2> SUFFICES ASSUME NEW i \in 1..m, NEW j \in 1..m, s[i] = s[j] PROVE i = j
    OBVIOUS
  <2>1. ev[i] \in recorded /\ ev[j] \in recorded /\ ev[i].sdk_sig = ev[j].sdk_sig
    BY <1>6, <1>7
  <2> QED
    BY <1>1, <1>4, <2>1 DEF Readable
<1>10. \A i, j \in 1..m : i < j => s[i] < s[j]
  <2> SUFFICES ASSUME NEW i \in 1..m, NEW j \in 1..m, i < j PROVE s[i] < s[j]
    OBVIOUS
  <2>1. s[i] <= s[j] /\ s[i] # s[j] /\ s[i] \in 1..n /\ s[j] \in 1..n
    BY <1>4, <1>7, <1>9
  <2> QED
    BY <1>1, <2>1
<1> HIDE DEF s
<1>11. m = n
  <2>1. s \in Bijection(1..m, 1..n)
    BY <1>7, <1>8, <1>9 DEF Bijection, Injection, Surjection, IsInjective
  <2>2. /\ IsFiniteSet(1..m) /\ Cardinality(1..m) = m /\ Cardinality(1..n) = n
    BY <1>1, FS_Interval
  <2> QED
    BY <2>1, <2>2, FS_Bijection DEF ExistsBijection
<1>12. \A k \in 1..m : s[k] = k
  <2>1. s \in [1..m -> 1..m] /\ \A k \in 1..m : \E i \in 1..m : s[i] = k
    BY <1>7, <1>8, <1>11
  <2> QED
    BY <1>10, <2>1, CountsUp
<1>13. \A k \in 1..m : ev[k].seq_no = k
  BY <1>7, <1>12
<1>14. Cli!VerifyAuditChain(Cli!SessionEvents(Bundle, sid), [keyed |-> TRUE, pinned |-> {}]).valid
  <2>1. PICK events : events = Cli!SessionEvents(Bundle, sid)
    OBVIOUS
  <2>2. events = [k \in 1..m |-> Exported(ev[k])]
    BY <1>4, <2>1
  <2>3. Cli!VerifyAuditChain(events, [keyed |-> TRUE, pinned |-> {}]).valid
    BY <1>6, <1>13, <2>2, SessionPasses
  <2> QED
    BY <2>1, <2>3
<1> QED
  BY <1>14 DEF SessionVerdict

\* While nothing signed was lost or refused unseen, the chain verifies at rest:
\* overflow alone, retries and re-deliveries leave no hole and no fork in it.
THEOREM OverflowIsNoBreak == Spec => []OverflowKeepsChain
<1>1. DeliveryInv /\ EvidenceInv => OverflowKeepsChain
  <2> SUFFICES ASSUME DeliveryInv, EvidenceInv, AtRest, lost \cup unread = {}
               PROVE  Verdict.valid
    BY DEF OverflowKeepsChain
  <2>1. EverSigned = recorded /\ Readable
    BY NothingHeld, RecordReadable
  <2>2. SigsOf(recorded) = 1..chain.signed /\ OneSession(recorded, chain)
    BY <2>1 DEF EvidenceInv, Ledger
  <2>3. chain.signed \in Nat
    BY DEF DeliveryInv, SenderInv, TypeOK, ChainState
  <2>4. Unbroken(chain.signed)
    BY <2>1, <2>2, <2>3 DEF Unbroken, OneSession
  <2> QED
    BY <2>4, UnbrokenPasses
<1> QED
  BY <1>1, DeliveryInvariant, LedgerInvariant, PTL
=============================================================================
