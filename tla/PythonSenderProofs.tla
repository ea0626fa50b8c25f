------------------------- MODULE PythonSenderProofs -------------------------
(***************************************************************************)
(* Theorems about PythonSender, for every queue, batch, retry budget and   *)
(* number of calls, flushes and signals: no flush returns while something  *)
(* is left to deliver, and every drop is declared or about to be, wherever *)
(* the signal handler interrupts the main thread.                          *)
(*                                                                         *)
(* The account of drops is the interesting one.  The handler may declare a *)
(* pending gap while the caller holds a marker that declares the same one; *)
(* the caller then declares it again and clears what is pending.  That     *)
(* loses nothing, because nothing can be added to what is pending between  *)
(* the drafting of a marker and its clearing: the worker waits for the     *)
(* lock, and the caller overflows only with an event that is not a marker. *)
(***************************************************************************)
EXTENDS PythonSender, FiniteSetTheorems, WellFoundedInduction, TLAPS

----------------------------------------------------------------------------
(* The inductive invariant.                                                *)

Ids == 1..Len(events)
Event == [session : Nat, seq : Nat, prev : Nat, gap : Nat, json : BOOLEAN, forced : BOOLEAN]
ChainHead == [session : Nat, seq : Nat, sig : Nat]
Item == [event : Ids, retries : Nat]
CallerPc ==
  {"idle", "flushing", "drafted", "numbered", "linked", "signed", "putting", "clearing"}
CallerState == [pc : CallerPc, draft : Event, event : Nat, saved : ChainHead]

\* How many items there are in the four places.
Total == Len(queue) + Len(worker_pending) + Len(worker_front) + Len(batch)

HistoryTyped ==
  /\ events \in Seq(Event)
  /\ entered \subseteq Ids /\ given_up \subseteq Ids
  /\ overflowed \in Nat

CallerTyped ==
  /\ head \in ChainHead
  /\ gap_pending \in Nat
  /\ caller \in CallerState

PlacesTyped ==
  /\ queue \in Seq(Item) /\ worker_pending \in Seq(Item)
  /\ worker_front \in Seq(Item) /\ batch \in Seq(Item)
  /\ unfinished \in Nat

\* A marker travels alone, and at most one item is carried over.
WorkerKept ==
  /\ Len(worker_front) <= 1
  /\ worker = "waiting" => batch = <<>>
  /\ \A i \in 1..Len(batch) : IsMarker(batch[i].event) => Len(batch) = 1 /\ worker = "sending"

\* Tasks are never fewer than items, and as many unless json refuses an event.
TasksCounted ==
  /\ Total <= unfinished
  /\ ~MayDefyJson => /\ unfinished = Total
                     /\ caller.draft.json = TRUE
                     /\ \A e \in Ids : events[e].json = TRUE

Dropped == overflowed + Cardinality({e \in given_up : ~IsMarker(e)})

\* What the caller holds: a marker for all that is pending or for what the
\* handler declared meanwhile, signed once and not in the queue yet.
DraftKept ==
  /\ caller.pc \in {"idle", "flushing"} => caller.draft.gap = 0
  /\ caller.draft.gap > 0 => gap_pending \in {0, caller.draft.gap}
  /\ caller.pc \notin {"idle", "flushing", "drafted"} => caller.draft.seq > 0
  /\ caller.pc \in {"signed", "putting"} =>
       /\ caller.event \in Ids \ entered
       /\ events[caller.event].gap = caller.draft.gap
  /\ caller.pc = "clearing" => Declared >= Dropped

PyInv ==
  /\ HistoryTyped /\ CallerTyped /\ PlacesTyped
  /\ WorkerKept /\ TasksCounted /\ DraftKept /\ DropsOnRecord

----------------------------------------------------------------------------
(* What the markers in the queue declare.                                  *)

\* The sums of the gaps of the first events, as far as they entered the queue.
Sums(f, evs, ent, n) ==
  f = [k \in 0..n |-> IF k = 0 THEN 0 ELSE f[k - 1] + (IF k \in ent THEN evs[k].gap ELSE 0)]

LessThan == {ss \in Nat \X Nat : ss[1] < ss[2]}

\* A set of naturals has a least element.
LEMMA LeastOf ==
  ASSUME NEW T, T \subseteq Nat, T # {}
  PROVE  \E x \in T : \A y \in T : ~(y < x)
<1>1. IsWellFoundedOn(LessThan, Nat)
  BY NatLessThanWellFounded DEF OpToRel, LessThan
<1>2. PICK x \in T : \A y \in T : ~(<<y, x>> \in LessThan)
  BY <1>1, WFMin, Zenon
<1> QED
  BY <1>2 DEF LessThan

\* There is a sum for every event.
LEMMA SumsExist ==
  ASSUME NEW evs, NEW ent, NEW n \in Nat
  PROVE  \E f : Sums(f, evs, ent, n)
<1>1. PICK T : T = {k \in Nat : ~\E f : Sums(f, evs, ent, k)}
  OBVIOUS
<1>2. SUFFICES ASSUME T # {} PROVE FALSE
  BY <1>1
<1>3. T \subseteq Nat
  BY <1>1
<1>4. PICK m \in T : \A k \in T : ~(k < m)
  BY <1>2, <1>3, LeastOf
<1>5. m \in Nat /\ ~\E f : Sums(f, evs, ent, m)
  BY <1>1, <1>4
<1>6. m # 0
  <2>1. PICK f : f = [k \in 0..0 |-> 0]
    OBVIOUS
  <2>2. Sums(f, evs, ent, 0)
    <3>1. \A k \in 0..0 : k = 0
      OBVIOUS
    <3> QED
      BY <2>1, <3>1 DEF Sums
  <2> QED
    BY <1>5, <2>2
<1>7. m - 1 \in Nat /\ m - 1 \notin T
  <2>1. m - 1 \in Nat /\ m - 1 < m
    BY <1>5, <1>6
  <2> QED
    BY <1>4, <2>1
<1>8. PICK f : Sums(f, evs, ent, m - 1)
  BY <1>1, <1>7
<1>9. PICK g : g = [k \in 0..m |-> IF k = m THEN f[m - 1] + (IF m \in ent THEN evs[m].gap ELSE 0)
                                            ELSE f[k]]
  OBVIOUS
<1>10. ASSUME NEW k \in 0..m
       PROVE  g[k] = IF k = 0 THEN 0 ELSE g[k - 1] + (IF k \in ent THEN evs[k].gap ELSE 0)
  <2>1. CASE k = m
    <3>1. m - 1 \in 0..m /\ m - 1 # m
      BY <1>5, <1>6
    <3> QED
      BY <1>6, <1>9, <2>1, <3>1
  <2>2. CASE k # m
    <3>1. k \in 0..m - 1
      BY <1>5, <2>2
    <3>2. f[k] = IF k = 0 THEN 0 ELSE f[k - 1] + (IF k \in ent THEN evs[k].gap ELSE 0)
      BY <1>8, <3>1 DEF Sums
    <3>3. k # 0 => k - 1 \in 0..m /\ k - 1 # m
      BY <1>5, <2>2
    <3> QED
      BY <1>9, <2>2, <3>2, <3>3
  <2> QED
    BY <2>1, <2>2
<1>11. Sums(g, evs, ent, m)
  BY <1>9, <1>10 DEF Sums
<1> QED
  BY <1>5, <1>11

\* And only one.
LEMMA SumsUnique ==
  ASSUME NEW evs, NEW ent, NEW n \in Nat, NEW f, NEW g, Sums(f, evs, ent, n), Sums(g, evs, ent, n)
  PROVE  f = g
<1>1. /\ f = [k \in 0..n |-> f[k]] /\ g = [k \in 0..n |-> g[k]]
      /\ \A k \in 0..n :
           /\ f[k] = IF k = 0 THEN 0 ELSE f[k - 1] + (IF k \in ent THEN evs[k].gap ELSE 0)
           /\ g[k] = IF k = 0 THEN 0 ELSE g[k - 1] + (IF k \in ent THEN evs[k].gap ELSE 0)
  BY DEF Sums
<1>2. PICK T : T = {k \in 0..n : f[k] # g[k]}
  OBVIOUS
<1>3. ASSUME T # {} PROVE FALSE
  <2>1. T \subseteq Nat
    BY <1>2
  <2>2. PICK m \in T : \A k \in T : ~(k < m)
    BY <1>3, <2>1, LeastOf
  <2>3. m \in 0..n /\ f[m] # g[m]
    BY <1>2, <2>2
  <2>4. m # 0
    BY <1>1, <2>3
  <2>5. m - 1 \in 0..n /\ m - 1 < m
    BY <2>3, <2>4
  <2>6. f[m - 1] = g[m - 1]
    BY <1>2, <2>2, <2>5
  <2> QED
    BY <1>1, <2>3, <2>4, <2>6
<1> QED
  BY <1>1, <1>2, <1>3

\* Sums of gaps are natural numbers.
LEMMA SumsNat ==
  ASSUME NEW evs, NEW ent, NEW n \in Nat, NEW f, Sums(f, evs, ent, n),
         \A e \in 1..n : evs[e].gap \in Nat
  PROVE  \A k \in 0..n : f[k] \in Nat
<1>1. \A k \in 0..n :
        f[k] = IF k = 0 THEN 0 ELSE f[k - 1] + (IF k \in ent THEN evs[k].gap ELSE 0)
  BY DEF Sums
<1>2. PICK T : T = {k \in 0..n : f[k] \notin Nat}
  OBVIOUS
<1>3. ASSUME T # {} PROVE FALSE
  <2>1. T \subseteq Nat
    BY <1>2
  <2>2. PICK m \in T : \A k \in T : ~(k < m)
    BY <1>3, <2>1, LeastOf
  <2>3. m \in 0..n /\ f[m] \notin Nat
    BY <1>2, <2>2
  <2>4. m # 0
    BY <1>1, <2>3
  <2>5. m - 1 \in 0..n /\ m - 1 < m /\ m \in 1..n
    BY <2>3, <2>4
  <2>6. f[m - 1] \in Nat
    BY <1>2, <2>2, <2>5
  <2> QED
    BY <1>1, <2>3, <2>4, <2>5, <2>6
<1> QED
  BY <1>2, <1>3

\* Declared, of any events and any that entered.
DeclaredOf(evs, ent) ==
  LET total[n \in 0..Len(evs)] ==
        IF n = 0 THEN 0 ELSE total[n - 1] + (IF n \in ent THEN evs[n].gap ELSE 0)
  IN  total[Len(evs)]

\* It is the last of the sums.
LEMMA DeclaredIsSum ==
  ASSUME NEW evs, NEW ent, Len(evs) \in Nat, NEW f, Sums(f, evs, ent, Len(evs))
  PROVE  DeclaredOf(evs, ent) = f[Len(evs)]
<1>1. PICK n : n = Len(evs) /\ n \in Nat
  OBVIOUS
<1> DEFINE step(g) == [k \in 0..n |-> IF k = 0 THEN 0
                          ELSE g[k - 1] + (IF k \in ent THEN evs[k].gap ELSE 0)]
           total == CHOOSE g : g = step(g)
<1>2. total = step(total)
  BY <1>1 DEF Sums
<1>3. DeclaredOf(evs, ent) = total[n]
  BY <1>1 DEF DeclaredOf
<1>4. total = f
  <2>1. Sums(total, evs, ent, n)
    BY <1>2 DEF Sums
  <2> HIDE DEF total
  <2> QED
    BY <1>1, <2>1, SumsUnique
<1> QED
  BY <1>1, <1>3, <1>4

\* It is a natural number.
LEMMA DeclaredNat ==
  ASSUME NEW evs, NEW ent, Len(evs) \in Nat, \A e \in 1..Len(evs) : evs[e].gap \in Nat
  PROVE  DeclaredOf(evs, ent) \in Nat
<1>1. PICK n : n = Len(evs) /\ n \in Nat
  OBVIOUS
<1>2. PICK f : Sums(f, evs, ent, n)
  BY <1>1, SumsExist
<1>3. \A k \in 0..n : f[k] \in Nat
  BY <1>1, <1>2, SumsNat
<1>4. n \in 0..n
  BY <1>1
<1> QED
  BY <1>1, <1>2, <1>3, <1>4, DeclaredIsSum

\* An event that is signed and not in the queue declares nothing.
LEMMA SignedDeclaresNothing ==
  ASSUME NEW S, NEW evs \in Seq(S), NEW x \in S, NEW ent, ent \subseteq 1..Len(evs),
         \A e \in 1..Len(evs) : evs[e].gap \in Nat
  PROVE  DeclaredOf(Append(evs, x), ent) = DeclaredOf(evs, ent)
<1>1. PICK n : n = Len(evs) /\ n \in Nat
  OBVIOUS
<1>2. PICK more : more = Append(evs, x)
  OBVIOUS
<1>3. Len(more) = n + 1 /\ \A k \in 1..n : more[k] = evs[k]
  BY <1>1, <1>2
<1>4. PICK f : Sums(f, evs, ent, n)
  BY <1>1, SumsExist
<1>5. \A k \in 0..n : f[k] = IF k = 0 THEN 0 ELSE f[k - 1] + (IF k \in ent THEN evs[k].gap ELSE 0)
  BY <1>4 DEF Sums
<1>6. f[n] \in Nat
  <2>1. \A k \in 0..n : f[k] \in Nat
    BY <1>1, <1>4, SumsNat
  <2> QED
    BY <1>1, <2>1
<1>7. PICK g : g = [k \in 0..n + 1 |-> IF k = n + 1 THEN f[n] ELSE f[k]]
  OBVIOUS
<1>8. ASSUME NEW k \in 0..n + 1
      PROVE  g[k] = IF k = 0 THEN 0 ELSE g[k - 1] + (IF k \in ent THEN more[k].gap ELSE 0)
  <2>1. CASE k = n + 1
    <3>1. k \notin ent /\ k # 0 /\ k - 1 = n /\ n \in 0..n + 1 /\ n # n + 1
      BY <1>1, <2>1
    <3>2. g[k] = f[n] /\ g[k - 1] = f[n]
      BY <1>7, <2>1, <3>1
    <3> QED
      BY <1>6, <3>1, <3>2
  <2>2. CASE k # n + 1
    <3>1. k \in 0..n /\ (k # 0 => k \in 1..n /\ k - 1 \in 0..n + 1 /\ k - 1 # n + 1)
      BY <1>1, <2>2
    <3>2. g[k] = f[k] /\ (k # 0 => g[k - 1] = f[k - 1] /\ more[k] = evs[k])
      BY <1>3, <1>7, <2>2, <3>1
    <3>3. f[k] = IF k = 0 THEN 0 ELSE f[k - 1] + (IF k \in ent THEN evs[k].gap ELSE 0)
      BY <1>5, <3>1
    <3> QED
      BY <3>2, <3>3
  <2> QED
    BY <2>1, <2>2
<1>9. Sums(g, more, ent, n + 1)
  BY <1>7, <1>8 DEF Sums
<1>10. DeclaredOf(evs, ent) = f[n]
  BY <1>1, <1>4, DeclaredIsSum
<1>11. DeclaredOf(more, ent) = g[n + 1]
  <2>1. Len(more) \in Nat /\ Sums(g, more, ent, Len(more))
    BY <1>1, <1>3, <1>9
  <2> QED
    BY <1>3, <2>1, DeclaredIsSum
<1>12. g[n + 1] = f[n]
  BY <1>1, <1>7
<1> QED
  BY <1>2, <1>10, <1>11, <1>12

\* An event that enters the queue declares its gap.
LEMMA Enters ==
  ASSUME NEW evs, NEW ent, Len(evs) \in Nat, \A e \in 1..Len(evs) : evs[e].gap \in Nat,
         NEW m \in 1..Len(evs), m \notin ent
  PROVE  DeclaredOf(evs, ent \cup {m}) = DeclaredOf(evs, ent) + evs[m].gap
<1>1. PICK n : n = Len(evs) /\ n \in Nat
  OBVIOUS
<1>2. PICK gap : gap = evs[m].gap /\ gap \in Nat
  OBVIOUS
<1>3. PICK f : Sums(f, evs, ent, n)
  BY <1>1, SumsExist
<1>4. \A k \in 0..n : f[k] \in Nat
  BY <1>1, <1>3, SumsNat
<1>5. \A k \in 0..n : f[k] = IF k = 0 THEN 0 ELSE f[k - 1] + (IF k \in ent THEN evs[k].gap ELSE 0)
  BY <1>3 DEF Sums
<1>6. PICK g : g = [k \in 0..n |-> IF m <= k THEN f[k] + gap ELSE f[k]]
  OBVIOUS
<1>7. m \in 1..n
  BY <1>1
<1>8. ASSUME NEW k \in 0..n
      PROVE  g[k] = IF k = 0 THEN 0
                    ELSE g[k - 1] + (IF k \in ent \cup {m} THEN evs[k].gap ELSE 0)
  <2>1. CASE k = 0
    BY <1>1, <1>5, <1>6, <1>7, <2>1
  <2>2. CASE k \in 1..n
    <3>1. k - 1 \in 0..n /\ k # 0
      BY <1>1, <2>2
    <3>2. /\ g[k] = IF m <= k THEN f[k] + gap ELSE f[k]
          /\ g[k - 1] = IF m <= k - 1 THEN f[k - 1] + gap ELSE f[k - 1]
      BY <1>6, <3>1
    <3>3. f[k] = f[k - 1] + (IF k \in ent THEN evs[k].gap ELSE 0)
      BY <1>5, <3>1
    <3>4. f[k] \in Nat /\ f[k - 1] \in Nat /\ evs[k].gap \in Nat
      BY <1>1, <1>4, <2>2, <3>1
    <3>5. CASE k = m
      <4>1. m <= k /\ ~(m <= k - 1)
        BY <1>7, <3>5
      <4>2. g[k] = f[k] + gap /\ g[k - 1] = f[k - 1] /\ f[k] = f[k - 1]
        BY <3>2, <3>3, <3>4, <3>5, <4>1
      <4> QED
        BY <1>2, <3>1, <3>5, <4>2
    <3>6. CASE k # m
      <4>1. (m <= k) <=> (m <= k - 1)
        BY <1>7, <2>2, <3>6
      <4>2. k \in ent \cup {m} <=> k \in ent
        BY <3>6
      <4>3. PICK d : d = (IF k \in ent THEN evs[k].gap ELSE 0) /\ d \in Nat
        BY <3>4
      <4>4. f[k] = f[k - 1] + d
        BY <3>3, <4>3
      <4>5. g[k] = g[k - 1] + d
        <5>1. PICK a, b : a = f[k] /\ b = f[k - 1] /\ a \in Nat /\ b \in Nat
          BY <3>4
        <5>2. a = b + d
          BY <4>4, <5>1
        <5>3. CASE m <= k
          <6>1. g[k] = a + gap /\ g[k - 1] = b + gap
            BY <3>2, <4>1, <5>1, <5>3
          <6> QED
            BY <1>2, <4>3, <5>1, <5>2, <6>1
        <5>4. CASE ~(m <= k)
          <6>1. g[k] = a /\ g[k - 1] = b
            BY <3>2, <4>1, <5>1, <5>4
          <6> QED
            BY <5>2, <6>1
        <5> QED
          BY <5>3, <5>4
      <4> QED
        BY <3>1, <4>2, <4>3, <4>5
    <3> QED
      BY <3>5, <3>6
  <2> QED
    BY <1>1, <2>1, <2>2
<1>9. Sums(g, evs, ent \cup {m}, n)
  BY <1>6, <1>8 DEF Sums
<1>10. DeclaredOf(evs, ent) = f[n] /\ DeclaredOf(evs, ent \cup {m}) = g[n]
  BY <1>1, <1>3, <1>9, DeclaredIsSum
<1>11. g[n] = f[n] + gap
  BY <1>1, <1>6, <1>7
<1> QED
  BY <1>2, <1>10, <1>11

\* Declared is DeclaredOf the history, before a step and after it.
LEMMA DeclaredNow ==
  /\ Declared = DeclaredOf(events, entered)
  /\ Declared' = DeclaredOf(events', entered')
BY DEF Declared, DeclaredOf

----------------------------------------------------------------------------
(* What a step that keeps the history, or adds an event to it, leaves.     *)

\* The history is only ever added to.
Extends ==
  /\ events' \in Seq(Event) /\ Len(events') \in Nat /\ Ids \subseteq Ids'
  /\ \A e \in Ids : events'[e] = events[e]

\* Events and their gaps are typed.
LEMMA EventsTyped ==
  ASSUME HistoryTyped
  PROVE  /\ Len(events) \in Nat
         /\ \A e \in Ids : events[e] \in Event /\ events[e].gap \in Nat
<1>1. Len(events) \in Nat /\ \A e \in 1..Len(events) : events[e] \in Event
  BY DEF HistoryTyped
<1>2. \A x \in Event : x.gap \in Nat
  BY DEF Event
<1> QED
  BY <1>1, <1>2 DEF Ids

\* A step that signs nothing, or one event, extends the history.
LEMMA SigningExtends ==
  ASSUME HistoryTyped,
         events' = events \/ \E x \in Event : events' = Append(events, x)
  PROVE  Extends
<1>1. events \in Seq(Event) /\ Len(events) \in Nat
  BY DEF HistoryTyped
<1>2. CASE events' = events
  BY <1>1, <1>2 DEF Extends, Ids
<1>3. ASSUME NEW x \in Event, events' = Append(events, x)
      PROVE  Extends
  <2>1. events' \in Seq(Event) /\ Len(events') = Len(events) + 1
    BY <1>1, <1>3
  <2>2. \A e \in 1..Len(events) : events'[e] = events[e]
    BY <1>1, <1>3
  <2> QED
    BY <1>1, <2>1, <2>2 DEF Extends, Ids
<1> QED
  BY <1>2, <1>3

\* Items and markers stay what they are.
LEMMA ItemsStay ==
  ASSUME Extends
  PROVE  /\ Item \subseteq Item' /\ Seq(Item) \subseteq Seq(Item')
         /\ \A e \in Ids : IsMarker(e)' <=> IsMarker(e)
<1>1. Item \subseteq Item'
  BY DEF Extends, Item
<1>2. Seq(Item) \subseteq Seq(Item')
  <2>1. PICK S, T : S = Item /\ T = Item'
    OBVIOUS
  <2>2. S \subseteq T
    BY <1>1, <2>1
  <2>3. Seq(S) \subseteq Seq(T)
    BY <2>2
  <2> QED
    BY <2>1, <2>3
<1>3. \A e \in Ids : IsMarker(e)' <=> IsMarker(e)
  BY DEF Extends, IsMarker
<1> QED
  BY <1>1, <1>2, <1>3

\* What was given up is finite, so what was dropped is a number.
LEMMA DroppedNat ==
  ASSUME HistoryTyped
  PROVE  Dropped \in Nat /\ IsFiniteSet(given_up) /\ IsFiniteSet({e \in given_up : ~IsMarker(e)})
<1>1. Len(events) \in Nat /\ overflowed \in Nat /\ given_up \subseteq 1..Len(events)
  BY DEF HistoryTyped, Ids
<1>2. IsFiniteSet(1..Len(events))
  BY <1>1, FS_Interval
<1>3. PICK T : T = {e \in given_up : ~IsMarker(e)}
  OBVIOUS
<1>4. T \subseteq given_up
  BY <1>3
<1>5. IsFiniteSet(given_up) /\ IsFiniteSet(T)
  BY <1>1, <1>2, <1>4, FS_Subset
<1>6. Cardinality(T) \in Nat
  BY <1>5, FS_CardinalityType
<1> QED
  BY <1>1, <1>3, <1>5, <1>6 DEF Dropped

\* A step that gives nothing up drops what overflows.
LEMMA NothingGivenUp ==
  ASSUME HistoryTyped, Extends, given_up' = given_up
  PROVE  Dropped' = overflowed' + (Dropped - overflowed)
<1>1. PICK T, U : T = {e \in given_up : ~IsMarker(e)} /\ U = {e \in given_up : ~IsMarker(e)}'
  OBVIOUS
<1>2. T = U
  <2>1. given_up \subseteq Ids
    BY DEF HistoryTyped
  <2> QED
    BY <1>1, <2>1, ItemsStay
<1>3. Dropped = overflowed + Cardinality(T) /\ Dropped' = overflowed' + Cardinality(T)
  BY <1>1, <1>2 DEF Dropped
<1>4. Cardinality(T) \in Nat /\ overflowed \in Nat
  <2>1. IsFiniteSet(T)
    BY <1>1, DroppedNat
  <2> QED
    BY <2>1, FS_CardinalityType DEF HistoryTyped
<1> QED
  BY <1>3, <1>4

\* A step that keeps the whole history changes neither side of the account.
LEMMA HistorySame ==
  ASSUME HistoryTyped, UNCHANGED history
  PROVE  /\ HistoryTyped' /\ Extends
         /\ Ids' = Ids /\ Item' = Item
         /\ Declared' = Declared /\ Dropped' = Dropped
<1>1. UNCHANGED <<events, entered, given_up, overflowed>>
  BY DEF history
<1> QED
  BY <1>1, SigningExtends DEF HistoryTyped, Ids, Item, Declared, Dropped, IsMarker

\* Signing declares nothing yet.
LEMMA SigningDeclaresNothing ==
  ASSUME HistoryTyped, NEW x \in Event, events' = Append(events, x), entered' = entered
  PROVE  Declared' = Declared
<1>1. /\ events \in Seq(Event) /\ entered \subseteq 1..Len(events)
      /\ \A e \in 1..Len(events) : events[e].gap \in Nat
  BY EventsTyped DEF HistoryTyped, Ids
<1>2. DeclaredOf(Append(events, x), entered) = DeclaredOf(events, entered)
  BY <1>1, SignedDeclaresNothing
<1> QED
  BY <1>2, DeclaredNow

\* A marker that is signed and queued in one step declares its gap.
LEMMA MarkerDeclares ==
  ASSUME HistoryTyped, NEW x \in Event, events' = Append(events, x),
         entered' = entered \cup {Len(events) + 1}
  PROVE  Declared' = Declared + x.gap
<1>1. PICK n : n = Len(events) + 1
  OBVIOUS
<1>2. /\ events \in Seq(Event) /\ entered \subseteq 1..Len(events) /\ Len(events) \in Nat
      /\ \A e \in 1..Len(events) : events[e].gap \in Nat
  BY EventsTyped DEF HistoryTyped, Ids
<1>3. DeclaredOf(Append(events, x), entered) = DeclaredOf(events, entered)
  BY <1>2, SignedDeclaresNothing
<1>4. PICK more : more = Append(events, x)
  OBVIOUS
<1>5. more \in Seq(Event) /\ Len(more) = n /\ more[n] = x /\ n \in 1..Len(more)
  BY <1>1, <1>2, <1>4
<1>6. n \notin entered
  BY <1>1, <1>2
<1>7. Len(more) \in Nat /\ \A e \in 1..Len(more) : more[e].gap \in Nat
  <2>1. Len(more) \in Nat /\ \A e \in 1..Len(more) : more[e] \in Event
    BY <1>5
  <2>2. \A y \in Event : y.gap \in Nat
    BY DEF Event
  <2> QED
    BY <2>1, <2>2
<1>8. DeclaredOf(more, entered \cup {n}) = DeclaredOf(more, entered) + more[n].gap
  BY <1>5, <1>6, <1>7, Enters
<1> QED
  BY <1>1, <1>3, <1>4, <1>5, <1>8, DeclaredNow

\* The worker's places are as they were, whatever the caller signs.
LEMMA WorkerSame ==
  ASSUME PlacesTyped, WorkerKept, Extends, UNCHANGED workers
  PROVE  /\ worker_pending' \in Seq(Item') /\ worker_front' \in Seq(Item') /\ batch' \in Seq(Item')
         /\ WorkerKept'
<1>1. UNCHANGED <<worker_pending, worker_front, batch, worker>>
  BY DEF workers
<1>2. Seq(Item) \subseteq Seq(Item')
  BY ItemsStay
<1>3. worker_pending' \in Seq(Item') /\ worker_front' \in Seq(Item') /\ batch' \in Seq(Item')
  BY <1>1, <1>2 DEF PlacesTyped
<1>4. \A i \in 1..Len(batch) : batch[i].event \in Ids
  <2>1. \A i \in 1..Len(batch) : batch[i] \in Item
    BY DEF PlacesTyped
  <2>2. \A item \in Item : item.event \in Ids
    BY DEF Item
  <2> QED
    BY <2>1, <2>2
<1>5. \A i \in 1..Len(batch) : IsMarker(batch[i].event)' => Len(batch) = 1 /\ worker = "sending"
  <2> TAKE i \in 1..Len(batch)
  <2>1. PICK e : e = batch[i].event /\ e \in Ids
    BY <1>4
  <2>2. IsMarker(e)' <=> IsMarker(e)
    BY <2>1, ItemsStay
  <2>3. IsMarker(batch[i].event)' <=> IsMarker(e)'
    BY <1>1, <2>1 DEF IsMarker
  <2> QED
    BY <2>1, <2>2, <2>3 DEF WorkerKept
<1> QED
  BY <1>1, <1>3, <1>5 DEF WorkerKept, IsMarker

----------------------------------------------------------------------------
(* The caller's steps.                                                     *)

\* What json makes of an event: nothing is refused unless it may be.
JsonKept ==
  ~MayDefyJson => caller.draft.json = TRUE /\ \A e \in Ids : events[e].json = TRUE

\* A step that leaves the worker alone and counts a task for every item it
\* queues keeps the invariant when it keeps the caller's part of it.
LEMMA CallerStep ==
  ASSUME PyInv, Extends, UNCHANGED workers,
         HistoryTyped', CallerTyped', queue' \in Seq(Item'), unfinished' \in Nat,
         unfinished' + Len(queue) = unfinished + Len(queue'),
         JsonKept', DraftKept', DropsOnRecord'
  PROVE  PyInv'
<1>1. UNCHANGED <<worker_pending, worker_front, batch, worker>>
  BY DEF workers
<1>2. PlacesTyped' /\ WorkerKept'
  BY WorkerSame DEF PyInv, PlacesTyped
<1>3. TasksCounted'
  <2>1. /\ Len(queue) \in Nat /\ Len(worker_pending) \in Nat /\ Len(worker_front) \in Nat
        /\ Len(batch) \in Nat /\ unfinished \in Nat
    BY DEF PyInv, PlacesTyped
  <2>2. Len(queue') \in Nat /\ unfinished' \in Nat
    BY <1>2 DEF PlacesTyped
  <2>3. Total <= unfinished /\ (~MayDefyJson => unfinished = Total)
    BY DEF PyInv, TasksCounted
  <2>4. Total' <= unfinished' /\ (~MayDefyJson => unfinished' = Total')
    BY <1>1, <2>1, <2>2, <2>3 DEF Total
  <2> QED
    BY <2>4 DEF TasksCounted, JsonKept
<1> QED
  BY <1>2, <1>3 DEF PyInv

\* A step of the caller that signs and queues nothing.
LEMMA QuietStep ==
  ASSUME PyInv, UNCHANGED <<history, queue, unfinished, workers>>,
         CallerTyped', JsonKept', DraftKept',
         Declared + gap_pending' >= Dropped
  PROVE  PyInv'
<1>1. /\ HistoryTyped' /\ Extends /\ Item' = Item
      /\ Declared' = Declared /\ Dropped' = Dropped
  BY HistorySame DEF PyInv
<1>2. DropsOnRecord'
  BY <1>1 DEF DropsOnRecord, Dropped
<1>3. /\ queue' \in Seq(Item') /\ unfinished' \in Nat
      /\ unfinished' + Len(queue) = unfinished + Len(queue')
  BY <1>1 DEF PyInv, PlacesTyped
<1> QED
  BY <1>1, <1>2, <1>3, CallerStep

\* The account, as numbers.
LEMMA AccountNat ==
  ASSUME PyInv
  PROVE  /\ Declared \in Nat /\ Dropped \in Nat /\ gap_pending \in Nat
         /\ Declared + gap_pending >= Dropped
<1>1. Declared \in Nat
  <2>1. Len(events) \in Nat /\ \A e \in 1..Len(events) : events[e].gap \in Nat
    BY EventsTyped DEF PyInv, Ids
  <2> QED
    BY <2>1, DeclaredNat, DeclaredNow
<1>2. Dropped \in Nat /\ gap_pending \in Nat
  BY DroppedNat DEF PyInv, CallerTyped
<1> QED
  BY <1>1, <1>2 DEF PyInv, DropsOnRecord, Dropped

\* Where a caller waits, and what it drafts.
LEMMA AtTyped ==
  ASSUME head \in ChainHead, NEW pc \in CallerPc
  PROVE  At(pc) \in CallerState /\ At(pc).pc = pc /\ At(pc).draft = NoDraft
BY DEF At, CallerState, NoDraft, Event

\* A draft is typed and holds the gap it declares.
LEMMA DraftingTyped ==
  ASSUME head \in ChainHead, NEW gap \in Nat, NEW json \in BOOLEAN, NEW forced \in BOOLEAN
  PROVE  /\ Drafting(gap, json, forced) \in CallerState
         /\ Drafting(gap, json, forced).pc = "drafted"
         /\ Drafting(gap, json, forced).draft.gap = gap
         /\ Drafting(gap, json, forced).draft.json = json
<1>1. PICK d : d = [session |-> 0, seq |-> 0, prev |-> 0, gap |-> gap, json |-> json,
                    forced |-> forced]
  OBVIOUS
<1>2. d \in Event /\ d.gap = gap /\ d.json = json
  BY <1>1 DEF Event
<1>3. Drafting(gap, json, forced) = [pc |-> "drafted", draft |-> d, event |-> 0, saved |-> head]
  <2>1. PICK a : a = At("drafted")
    OBVIOUS
  <2>2. a = [pc |-> "drafted", draft |-> NoDraft, event |-> 0, saved |-> head]
    BY <2>1 DEF At
  <2>3. a.draft = NoDraft /\ a.pc = "drafted" /\ a.event = 0 /\ a.saved = head
    BY <2>2
  <2>4. PICK b : b = [a EXCEPT !.draft.gap = gap, !.draft.json = json, !.draft.forced = forced]
    OBVIOUS
  <2>5. b = [a EXCEPT !.draft = [NoDraft EXCEPT !.gap = gap, !.json = json, !.forced = forced]]
    BY <2>2, <2>3, <2>4 DEF NoDraft
  <2>6. [NoDraft EXCEPT !.gap = gap, !.json = json, !.forced = forced] = d
    <3>1. PICK d1 : d1 = [NoDraft EXCEPT !.gap = gap]
      OBVIOUS
    <3>2. d1 = [session |-> 0, seq |-> 0, prev |-> 0, gap |-> gap, json |-> TRUE, forced |-> FALSE]
      BY <3>1 DEF NoDraft
    <3>3. PICK d2 : d2 = [d1 EXCEPT !.json = json]
      OBVIOUS
    <3>4. d2 = [session |-> 0, seq |-> 0, prev |-> 0, gap |-> gap, json |-> json, forced |-> FALSE]
      BY <3>2, <3>3
    <3>5. [d2 EXCEPT !.forced = forced] = d
      BY <1>1, <3>4
    <3> QED
      BY <3>1, <3>3, <3>5
  <2>7. b = [pc |-> "drafted", draft |-> d, event |-> 0, saved |-> head]
    BY <2>2, <2>5, <2>6
  <2> QED
    BY <2>1, <2>4, <2>7 DEF Drafting
<1> QED
  BY <1>2, <1>3 DEF CallerState, CallerPc

\* No draft declares anything, and json accepts it.
LEMMA NoDraftPlain ==
  NoDraft \in Event /\ NoDraft.gap = 0 /\ NoDraft.json = TRUE
BY DEF NoDraft, Event

\* A caller that waits somewhere holds nothing.
LEMMA Waits ==
  ASSUME PyInv, UNCHANGED <<history, head, queue, unfinished, workers>>,
         NEW pc \in {"idle", "flushing"}, caller' = At(pc),
         gap_pending' \in Nat, Declared + gap_pending' >= Dropped
  PROVE  PyInv'
<1>1. head \in ChainHead /\ pc \in CallerPc
  BY DEF PyInv, CallerTyped, CallerPc
<1>2. caller' \in CallerState /\ caller'.pc = pc /\ caller'.draft = NoDraft
  BY <1>1, AtTyped
<1>3. CallerTyped'
  BY <1>1, <1>2 DEF CallerTyped, CallerState, CallerPc
<1>4. JsonKept'
  <2>1. ~MayDefyJson => \A e \in Ids : events[e].json = TRUE
    BY DEF PyInv, TasksCounted
  <2> QED
    BY <1>2, <2>1, NoDraftPlain DEF JsonKept, history, Ids
<1>5. DraftKept'
  BY <1>2, NoDraftPlain DEF DraftKept
<1> QED
  BY <1>3, <1>4, <1>5, QuietStep

\* A caller that drafts an event, or a marker for all that is pending.
LEMMA Drafts ==
  ASSUME PyInv, UNCHANGED <<history, head, queue, unfinished, workers>>,
         NEW gap \in Nat, NEW json \in BOOLEAN, NEW forced \in BOOLEAN,
         caller' = Drafting(gap, json, forced), ~MayDefyJson => json = TRUE,
         gap_pending' \in Nat, Declared + gap_pending' >= Dropped, gap > 0 => gap_pending' = gap
  PROVE  PyInv'
<1>1. head \in ChainHead
  BY DEF PyInv, CallerTyped
<1>2. /\ caller' \in CallerState /\ caller'.pc = "drafted"
      /\ caller'.draft.gap = gap /\ caller'.draft.json = json
  BY <1>1, DraftingTyped
<1>3. CallerTyped'
  BY <1>1, <1>2 DEF CallerTyped, CallerState, CallerPc
<1>4. JsonKept'
  <2>1. ~MayDefyJson => \A e \in Ids : events[e].json = TRUE
    BY DEF PyInv, TasksCounted
  <2> QED
    BY <1>2, <2>1 DEF JsonKept, history, Ids
<1>5. DraftKept'
  BY <1>2 DEF DraftKept
<1> QED
  BY <1>3, <1>4, <1>5, QuietStep

\* Whatever json makes of an event, it accepts all of them unless one may defy it.
LEMMA JsonTyped == \A json \in Json : json \in BOOLEAN /\ (~MayDefyJson => json = TRUE)
BY DEF Json

\* send_audit_async: an overflow is pending, or the event or a marker is drafted.
LEMMA SendAuditKeeps ==
  ASSUME PyInv, SendAudit
  PROVE  PyInv'
<1>1. /\ Declared \in Nat /\ Dropped \in Nat /\ gap_pending \in Nat
      /\ Declared + gap_pending >= Dropped
  BY AccountNat
<1>2. CASE Full
  <2>1. /\ UNCHANGED <<events, entered, given_up, head, queue, unfinished, workers, caller>>
        /\ overflowed' = overflowed + 1 /\ gap_pending' = gap_pending + 1 /\ caller.pc = "idle"
    BY <1>2 DEF SendAudit, Overflow
  <2>2. HistoryTyped /\ CallerTyped
    BY DEF PyInv
  <2>3. Extends /\ HistoryTyped' /\ CallerTyped'
    <3>1. Extends
      BY <2>1, <2>2, SigningExtends
    <3>2. overflowed' \in Nat /\ gap_pending' \in Nat
      BY <2>1, <2>2 DEF HistoryTyped, CallerTyped
    <3> QED
      BY <2>1, <2>2, <3>1, <3>2 DEF HistoryTyped, CallerTyped, Ids
  <2>4. Declared' = Declared
    BY <2>1 DEF Declared
  <2>5. Dropped' = Dropped + 1
    <3>1. Dropped' = overflowed' + (Dropped - overflowed)
      BY <2>1, <2>2, <2>3, NothingGivenUp
    <3> QED
      BY <1>1, <2>1, <2>2, <3>1 DEF HistoryTyped
  <2>6. DropsOnRecord'
    BY <1>1, <2>1, <2>4, <2>5 DEF DropsOnRecord, Dropped
  <2>7. caller.draft.gap = 0
    BY <2>1 DEF PyInv, DraftKept
  <2>8. DraftKept' /\ JsonKept'
    BY <2>1, <2>7 DEF PyInv, DraftKept, TasksCounted, JsonKept, Ids
  <2>9. /\ queue' \in Seq(Item') /\ unfinished' \in Nat
        /\ unfinished' + Len(queue) = unfinished + Len(queue')
    BY <2>1 DEF PyInv, PlacesTyped, Item, Ids
  <2> QED
    BY <2>1, <2>3, <2>6, <2>8, <2>9, CallerStep
<1>3. CASE ~Full
  <2>1. /\ UNCHANGED <<history, head, queue, unfinished, workers, gap_pending>>
        /\ \/ gap_pending > 0 /\ caller' = Drafting(gap_pending, TRUE, FALSE)
           \/ \E json \in Json : caller' = Drafting(0, json, FALSE)
    BY <1>3 DEF SendAudit, history
  <2>2. CASE gap_pending > 0 /\ caller' = Drafting(gap_pending, TRUE, FALSE)
    BY <1>1, <2>1, <2>2, Drafts
  <2>3. ASSUME NEW json \in Json, caller' = Drafting(0, json, FALSE)
        PROVE  PyInv'
    <3>1. json \in BOOLEAN /\ (~MayDefyJson => json = TRUE)
      BY JsonTyped
    <3>2. gap_pending' \in Nat /\ Declared + gap_pending' >= Dropped
      BY <1>1, <2>1
    <3>3. UNCHANGED <<history, head, queue, unfinished, workers>>
      BY <2>1
    <3>4. PICK gap : gap = 0
      OBVIOUS
    <3>5. caller' = Drafting(gap, json, FALSE)
      BY <2>3, <3>4
    <3>6. gap \in Nat /\ ~(gap > 0)
      BY <3>4
    <3> QED
      BY <3>1, <3>2, <3>3, <3>5, <3>6, Drafts
  <2> QED
    BY <2>1, <2>2, <2>3
<1> QED
  BY <1>2, <1>3

\* flush: a marker for what is pending is drafted, or the wait begins.
LEMMA CallFlushKeeps ==
  ASSUME PyInv, CallFlush
  PROVE  PyInv'
<1>1. /\ Declared \in Nat /\ Dropped \in Nat /\ gap_pending \in Nat
      /\ Declared + gap_pending >= Dropped
  BY AccountNat
<1>2. /\ UNCHANGED <<history, head, queue, unfinished, workers, gap_pending>>
      /\ caller' = IF gap_pending > 0 THEN Drafting(gap_pending, TRUE, TRUE) ELSE At("flushing")
  BY DEF CallFlush
<1>3. CASE gap_pending > 0
  BY <1>1, <1>2, <1>3, Drafts
<1>4. CASE ~(gap_pending > 0)
  BY <1>1, <1>2, <1>4, Waits
<1> QED
  BY <1>3, <1>4

\* The wait of flush ends.
LEMMA FlushReturnsKeeps ==
  ASSUME PyInv, FlushReturns
  PROVE  PyInv'
<1>1. Declared + gap_pending >= Dropped /\ gap_pending \in Nat
  BY AccountNat
<1>2. UNCHANGED <<history, head, queue, unfinished, workers, gap_pending>> /\ caller' = At("idle")
  BY DEF FlushReturns
<1> QED
  BY <1>1, <1>2, Waits

\* The drops a marker declares stop being pending.
LEMMA ClearKeeps ==
  ASSUME PyInv, Clear
  PROVE  PyInv'
<1>1. Declared \in Nat /\ Dropped \in Nat
  BY AccountNat
<1>2. Declared >= Dropped
  BY DEF PyInv, DraftKept, Clear
<1>3. /\ UNCHANGED <<history, head, queue, unfinished, workers>> /\ gap_pending' = 0
      /\ \/ caller' = At("flushing")
         \/ \E json \in Json : caller' = Drafting(0, json, FALSE)
  BY DEF Clear
<1>4. Declared + gap_pending' >= Dropped /\ gap_pending' \in Nat
  BY <1>1, <1>2, <1>3
<1>5. CASE caller' = At("flushing")
  BY <1>3, <1>4, <1>5, Waits
<1>6. ASSUME NEW json \in Json, caller' = Drafting(0, json, FALSE)
      PROVE  PyInv'
  BY <1>3, <1>4, <1>6, JsonTyped, Drafts
<1> QED
  BY <1>3, <1>5, <1>6

\* Numbering an event moves the counter and the draft.
LEMMA NumberKeeps ==
  ASSUME PyInv, Number
  PROVE  PyInv'
<1>1. head \in ChainHead /\ caller \in CallerState /\ caller.pc = "drafted" /\ caller.draft \in Event
  BY DEF PyInv, CallerTyped, CallerState, Number
<1>2. Declared + gap_pending >= Dropped /\ gap_pending \in Nat
  BY AccountNat
<1>3. /\ UNCHANGED <<history, queue, unfinished, workers, gap_pending>>
      /\ head' = [head EXCEPT !.seq = @ + 1]
      /\ caller' = [caller EXCEPT !.pc = "numbered", !.draft.session = head.session,
                                  !.draft.seq = head.seq + 1]
  BY DEF Number
<1>4. PICK d : d = [caller.draft EXCEPT !.session = head.session, !.seq = head.seq + 1]
  OBVIOUS
<1>5. /\ d \in Event /\ d.gap = caller.draft.gap /\ d.json = caller.draft.json
      /\ d.seq = head.seq + 1 /\ head.seq \in Nat
  <2>1. head.seq \in Nat /\ head.session \in Nat
    BY <1>1 DEF ChainHead
  <2> QED
    <3>1. PICK m, n : m = head.session /\ n = head.seq + 1 /\ m \in Nat /\ n \in Nat
      BY <2>1
    <3>2. PICK d1 : d1 = [caller.draft EXCEPT !.session = m]
      OBVIOUS
    <3>3. /\ d1 \in Event /\ d1.gap = caller.draft.gap /\ d1.json = caller.draft.json
      BY <1>1, <3>1, <3>2 DEF Event
    <3>4. d = [d1 EXCEPT !.seq = n]
      BY <1>1, <1>4, <3>1, <3>2 DEF Event
    <3>5. d \in Event /\ d.gap = d1.gap /\ d.json = d1.json /\ d.seq = n
      BY <3>1, <3>3, <3>4 DEF Event
    <3> QED
      BY <2>1, <3>1, <3>3, <3>5
<1>6. caller' = [caller EXCEPT !.pc = "numbered", !.draft = d]
  BY <1>1, <1>3, <1>4 DEF CallerState, Event
<1>7. caller' \in CallerState /\ caller'.pc = "numbered" /\ caller'.draft = d
  BY <1>1, <1>5, <1>6 DEF CallerState, CallerPc
<1>8. CallerTyped'
  <2>1. head' \in ChainHead
    BY <1>1, <1>3 DEF ChainHead
  <2> QED
    BY <1>2, <1>3, <1>7, <2>1 DEF CallerTyped, CallerState, CallerPc
<1>9. JsonKept'
  BY <1>3, <1>5, <1>7 DEF PyInv, TasksCounted, JsonKept, history, Ids
<1>10. DraftKept'
  <2>1. caller.draft.gap > 0 => gap_pending \in {0, caller.draft.gap}
    BY DEF PyInv, DraftKept
  <2>2. d.seq > 0
    BY <1>5
  <2> QED
    BY <1>3, <1>5, <1>7, <2>1, <2>2 DEF DraftKept
<1> QED
  BY <1>2, <1>3, <1>8, <1>9, <1>10, QuietStep

\* Linking an event puts the head's signature into the draft.
LEMMA LinkKeeps ==
  ASSUME PyInv, Link
  PROVE  PyInv'
<1>1. head \in ChainHead /\ caller \in CallerState /\ caller.pc = "numbered" /\ caller.draft \in Event
  BY DEF PyInv, CallerTyped, CallerState, Link
<1>2. Declared + gap_pending >= Dropped /\ gap_pending \in Nat
  BY AccountNat
<1>3. /\ UNCHANGED <<history, queue, unfinished, workers, gap_pending, head>>
      /\ caller' = [caller EXCEPT !.pc = "linked", !.draft.prev = head.sig]
  BY DEF Link
<1>4. PICK d : d = [caller.draft EXCEPT !.prev = head.sig]
  OBVIOUS
<1>5. /\ d \in Event /\ d.gap = caller.draft.gap /\ d.json = caller.draft.json
      /\ d.seq = caller.draft.seq
  <2>1. head.sig \in Nat
    BY <1>1 DEF ChainHead
  <2> QED
    BY <1>1, <1>4, <2>1 DEF Event
<1>6. caller' = [caller EXCEPT !.pc = "linked", !.draft = d]
  BY <1>1, <1>3, <1>4 DEF CallerState, Event
<1>7. caller' \in CallerState /\ caller'.pc = "linked" /\ caller'.draft = d
  BY <1>1, <1>5, <1>6 DEF CallerState, CallerPc
<1>8. CallerTyped'
  BY <1>1, <1>2, <1>3, <1>7 DEF CallerTyped, CallerState, CallerPc
<1>9. JsonKept'
  BY <1>3, <1>5, <1>7 DEF PyInv, TasksCounted, JsonKept, history, Ids
<1>10. DraftKept'
  <2>1. /\ caller.draft.gap > 0 => gap_pending \in {0, caller.draft.gap}
        /\ caller.draft.seq > 0
    BY <1>1 DEF PyInv, DraftKept
  <2> QED
    BY <1>3, <1>5, <1>7, <2>1 DEF DraftKept
<1> QED
  BY <1>2, <1>3, <1>8, <1>9, <1>10, QuietStep

\* The caller enters put_nowait.
LEMMA EnterPutKeeps ==
  ASSUME PyInv, EnterPut
  PROVE  PyInv'
<1>1. head \in ChainHead /\ caller \in CallerState /\ caller.pc = "signed"
  BY DEF PyInv, CallerTyped, EnterPut
<1>2. Declared + gap_pending >= Dropped /\ gap_pending \in Nat
  BY AccountNat
<1>3. /\ UNCHANGED <<history, queue, unfinished, workers, gap_pending, head>>
      /\ caller' = [caller EXCEPT !.pc = "putting"]
  BY DEF EnterPut
<1>4. /\ caller' \in CallerState /\ caller'.pc = "putting"
      /\ caller'.draft = caller.draft /\ caller'.event = caller.event
  BY <1>1, <1>3 DEF CallerState, CallerPc
<1>5. CallerTyped'
  BY <1>1, <1>2, <1>3, <1>4 DEF CallerTyped, CallerState, CallerPc
<1>6. JsonKept'
  BY <1>3, <1>4 DEF PyInv, TasksCounted, JsonKept, history, Ids
<1>7. DraftKept'
  <2>1. UNCHANGED <<events, entered>>
    BY <1>3 DEF history
  <2> QED
    BY <1>1, <1>3, <1>4, <2>1 DEF PyInv, DraftKept, Ids
<1> QED
  BY <1>2, <1>3, <1>5, <1>6, <1>7, QuietStep

\* Signing adds the draft to the history; it declares nothing yet.
LEMMA SignKeeps ==
  ASSUME PyInv, Sign
  PROVE  PyInv'
<1>1. /\ HistoryTyped /\ head \in ChainHead /\ caller \in CallerState /\ caller.pc = "linked"
      /\ caller.draft \in Event
  BY DEF PyInv, CallerTyped, CallerState, Sign
<1>2. /\ Declared + gap_pending >= Dropped /\ gap_pending \in Nat
      /\ Declared \in Nat /\ Dropped \in Nat
  BY AccountNat
<1>3. /\ events' = Append(events, caller.draft)
      /\ head' = [head EXCEPT !.sig = Len(events) + 1]
      /\ caller' = [caller EXCEPT !.pc = "signed", !.event = Len(events) + 1]
      /\ UNCHANGED <<entered, given_up, overflowed, gap_pending, queue, unfinished, workers>>
  BY DEF Sign
<1>4. events \in Seq(Event) /\ Len(events) \in Nat /\ entered \subseteq 1..Len(events)
  BY <1>1 DEF HistoryTyped, Ids
<1>5. Len(events') = Len(events) + 1 /\ events'[Len(events) + 1] = caller.draft
  BY <1>1, <1>3, <1>4
<1>6. Extends
  BY <1>1, <1>3, SigningExtends
<1>7. HistoryTyped'
  <2>1. entered' \subseteq Ids' /\ given_up' \subseteq Ids' /\ events' \in Seq(Event)
    BY <1>1, <1>3, <1>6 DEF HistoryTyped, Extends
  <2> QED
    BY <1>1, <1>3, <2>1 DEF HistoryTyped
<1>8. /\ caller' \in CallerState /\ caller'.pc = "signed" /\ caller'.draft = caller.draft
      /\ caller'.event = Len(events) + 1
  <2>1. PICK n : n = Len(events) + 1 /\ n \in Nat
    BY <1>4
  <2>2. caller' = [caller EXCEPT !.pc = "signed", !.event = n]
    BY <1>3, <2>1
  <2>3. /\ caller' \in CallerState /\ caller'.pc = "signed" /\ caller'.draft = caller.draft
        /\ caller'.event = n
    BY <1>1, <2>1, <2>2 DEF CallerState, CallerPc
  <2> QED
    BY <2>1, <2>3
<1>9. CallerTyped'
  <2>1. head' \in ChainHead
    BY <1>1, <1>3, <1>4 DEF ChainHead
  <2> QED
    BY <1>2, <1>3, <1>8, <2>1 DEF CallerTyped, CallerState, CallerPc
<1>10. JsonKept'
  <2>1. ~MayDefyJson => caller.draft.json = TRUE /\ \A e \in 1..Len(events) : events[e].json = TRUE
    BY DEF PyInv, TasksCounted, Ids
  <2>2. \A e \in 1..Len(events) : events'[e] = events[e]
    BY <1>6 DEF Extends, Ids
  <2>3. ~MayDefyJson => \A e \in 1..Len(events) + 1 : events'[e].json = TRUE
    BY <1>4, <1>5, <2>1, <2>2
  <2> QED
    BY <1>5, <1>8, <2>1, <2>3 DEF JsonKept, Ids
<1>11. DraftKept'
  <2>1. /\ caller.draft.gap > 0 => gap_pending \in {0, caller.draft.gap}
        /\ caller.draft.seq > 0
    BY <1>1 DEF PyInv, DraftKept
  <2>2. caller'.event \in Ids' \ entered'
    BY <1>3, <1>4, <1>5, <1>8 DEF Ids
  <2>3. events'[caller'.event].gap = caller'.draft.gap
    BY <1>5, <1>8
  <2> QED
    BY <1>3, <1>8, <2>1, <2>2, <2>3 DEF DraftKept
<1>12. DropsOnRecord'
  <2>1. Declared' = Declared
    BY <1>1, <1>3, SigningDeclaresNothing
  <2>2. Dropped' = Dropped
    <3>1. Dropped' = overflowed' + (Dropped - overflowed)
      BY <1>1, <1>3, <1>6, NothingGivenUp
    <3> QED
      BY <1>1, <1>2, <1>3, <3>1 DEF HistoryTyped
  <2> QED
    BY <1>2, <1>3, <2>1, <2>2 DEF DropsOnRecord, Dropped
<1>13. /\ queue' \in Seq(Item') /\ unfinished' \in Nat
       /\ unfinished' + Len(queue) = unfinished + Len(queue')
  BY <1>3, <1>6, ItemsStay DEF PyInv, PlacesTyped
<1> QED
  BY <1>3, <1>6, <1>7, <1>9, <1>10, <1>11, <1>12, <1>13, CallerStep

\* An item that is queued is typed.
LEMMA QueuedTyped ==
  ASSUME NEW T, T = Item, NEW e \in Ids, NEW items \in Seq(T)
  PROVE  Append(items, Queued(e)) \in Seq(T) /\ Len(Append(items, Queued(e))) = Len(items) + 1
<1>1. Queued(e) \in T
  BY DEF Queued, Item
<1> QED
  BY <1>1

\* The caller's event enters the queue: what it holds is declared.
LEMMA PutEnters ==
  ASSUME PyInv, Put, ~Full \/ caller.draft.forced
  PROVE  PyInv'
<1>1. /\ HistoryTyped /\ CallerTyped /\ head \in ChainHead /\ caller \in CallerState
      /\ caller.pc = "putting" /\ caller.draft \in Event /\ caller.draft.gap \in Nat
  BY DEF PyInv, CallerTyped, CallerState, Event, Put
<1>2. /\ Declared + gap_pending >= Dropped /\ gap_pending \in Nat
      /\ Declared \in Nat /\ Dropped \in Nat
  BY AccountNat
<1>3. /\ queue' = Append(queue, Queued(caller.event))
      /\ unfinished' = unfinished + 1
      /\ entered' = entered \cup {caller.event}
      /\ caller' = IF caller.draft.gap > 0 THEN [caller EXCEPT !.pc = "clearing"] ELSE At("idle")
      /\ UNCHANGED <<events, given_up, head, gap_pending, overflowed, workers>>
  BY DEF Put
<1>4. caller.event \in Ids \ entered /\ events[caller.event].gap = caller.draft.gap
  BY <1>1 DEF PyInv, DraftKept
<1>5. Extends /\ Ids' = Ids /\ Item' = Item
  BY <1>1, <1>3, SigningExtends DEF Ids, Item
<1>6. HistoryTyped'
  BY <1>1, <1>3, <1>4, <1>5 DEF HistoryTyped
<1>7. Declared' = Declared + caller.draft.gap
  <2>1. PICK m : m = caller.event
    OBVIOUS
  <2>2. /\ Len(events) \in Nat /\ \A e \in 1..Len(events) : events[e].gap \in Nat
        /\ m \in 1..Len(events) /\ m \notin entered
    BY <1>1, <1>4, <2>1, EventsTyped DEF Ids
  <2>3. DeclaredOf(events, entered \cup {m}) = DeclaredOf(events, entered) + events[m].gap
    BY <2>2, Enters
  <2> QED
    BY <1>3, <1>4, <2>1, <2>3, DeclaredNow
<1>8. Dropped' = Dropped
  <2>1. Dropped' = overflowed' + (Dropped - overflowed)
    BY <1>1, <1>3, <1>5, NothingGivenUp
  <2> QED
    BY <1>1, <1>2, <1>3, <2>1 DEF HistoryTyped
<1>9. DropsOnRecord'
  BY <1>1, <1>2, <1>3, <1>7, <1>8 DEF DropsOnRecord, Dropped
<1>10. /\ queue' \in Seq(Item') /\ unfinished' \in Nat
       /\ unfinished' + Len(queue) = unfinished + Len(queue')
  <2>1. PICK T : T = Item
    OBVIOUS
  <2>2. queue \in Seq(T) /\ Len(queue) \in Nat /\ unfinished \in Nat
    BY <2>1 DEF PyInv, PlacesTyped
  <2>3. queue' \in Seq(T) /\ Len(queue') = Len(queue) + 1
    BY <1>3, <1>4, <2>1, <2>2, QueuedTyped
  <2> QED
    BY <1>3, <1>5, <2>1, <2>2, <2>3
<1>11. CASE caller.draft.gap > 0
  <2>1. /\ caller' \in CallerState /\ caller'.pc = "clearing"
        /\ caller'.draft = caller.draft
    BY <1>1, <1>3, <1>11 DEF CallerState, CallerPc
  <2>2. CallerTyped'
    BY <1>1, <1>2, <1>3, <2>1 DEF CallerTyped, CallerState, CallerPc
  <2>3. gap_pending \in {0, caller.draft.gap} /\ caller.draft.seq > 0
    BY <1>1, <1>11 DEF PyInv, DraftKept
  <2>4. Declared' >= Dropped'
    BY <1>1, <1>2, <1>7, <1>8, <2>3
  <2>5. DraftKept'
    BY <1>3, <2>1, <2>3, <2>4 DEF DraftKept
  <2>6. JsonKept'
    BY <1>3, <2>1 DEF PyInv, TasksCounted, JsonKept, Ids
  <2> QED
    BY <1>3, <1>5, <1>6, <1>9, <1>10, <2>2, <2>5, <2>6, CallerStep
<1>12. CASE ~(caller.draft.gap > 0)
  <2>1. PICK pc : pc = "idle" /\ pc \in CallerPc
    BY DEF CallerPc
  <2>2. caller' = At(pc)
    BY <1>3, <1>12, <2>1
  <2>3. caller' \in CallerState /\ caller'.pc = "idle" /\ caller'.draft = NoDraft
    BY <1>1, <2>1, <2>2, AtTyped
  <2>4. CallerTyped'
    BY <1>1, <1>2, <1>3, <2>3 DEF CallerTyped, CallerState, CallerPc
  <2>5. DraftKept'
    BY <2>3, NoDraftPlain DEF DraftKept
  <2>6. JsonKept'
    BY <1>3, <2>3, NoDraftPlain DEF PyInv, TasksCounted, JsonKept, Ids
  <2> QED
    BY <1>3, <1>5, <1>6, <1>9, <1>10, <2>4, <2>5, <2>6, CallerStep
<1> QED
  BY <1>11, <1>12

\* The queue is full: the marker waits for the next call, the event is an overflow.
LEMMA PutOverflows ==
  ASSUME PyInv, Put, ~(~Full \/ caller.draft.forced)
  PROVE  PyInv'
<1>1. /\ HistoryTyped /\ CallerTyped /\ head \in ChainHead /\ caller \in CallerState
      /\ caller.pc = "putting" /\ caller.draft \in Event /\ caller.saved \in ChainHead
  BY DEF PyInv, CallerTyped, CallerState, Put
<1>2. caller.draft.seq \in Nat /\ caller.draft.prev \in Nat /\ caller.draft.gap \in Nat
  BY <1>1 DEF Event
<1>3. /\ Declared + gap_pending >= Dropped /\ gap_pending \in Nat
      /\ Declared \in Nat /\ Dropped \in Nat
  BY AccountNat
<1>4. UNCHANGED <<events, entered, given_up, queue, unfinished, workers>>
  BY DEF Put
<1>5. Extends /\ Ids' = Ids /\ Item' = Item /\ Declared' = Declared
  BY <1>1, <1>4, SigningExtends DEF Ids, Item, Declared
<1>6. Dropped' = overflowed' + (Dropped - overflowed)
  BY <1>1, <1>4, <1>5, NothingGivenUp
<1>7. /\ queue' \in Seq(Item') /\ unfinished' \in Nat
      /\ unfinished' + Len(queue) = unfinished + Len(queue')
  BY <1>4, <1>5 DEF PyInv, PlacesTyped
<1>8. ~MayDefyJson => \A e \in Ids' : events'[e].json = TRUE
  BY <1>4, <1>5 DEF PyInv, TasksCounted
<1>9. CASE caller.draft.gap > 0
  <2>1. /\ UNCHANGED <<gap_pending, overflowed>>
        /\ head' = [head EXCEPT !.seq = caller.draft.seq - 1, !.sig = caller.draft.prev]
        /\ \E json \in Json : caller' = [Drafting(0, json, FALSE) EXCEPT !.saved = head']
    BY <1>9 DEF Put
  <2>2. head' \in ChainHead
    <3>1. PICK n, p : n = caller.draft.seq - 1 /\ p = caller.draft.prev
      OBVIOUS
    <3>2. caller.draft.seq > 0
      BY <1>1 DEF PyInv, DraftKept
    <3>3. n \in Nat /\ p \in Nat
      BY <1>2, <3>1, <3>2
    <3>4. head' = [head EXCEPT !.seq = n, !.sig = p]
      BY <2>1, <3>1
    <3> QED
      BY <1>1, <3>3, <3>4 DEF ChainHead
  <2>3. PICK json \in Json : caller' = [Drafting(0, json, FALSE) EXCEPT !.saved = head']
    BY <2>1
  <2>4. json \in BOOLEAN /\ (~MayDefyJson => json = TRUE)
    BY JsonTyped
  <2>5. PICK c : c = Drafting(0, json, FALSE)
    OBVIOUS
  <2>6. c \in CallerState /\ c.pc = "drafted" /\ c.draft.gap = 0 /\ c.draft.json = json
    BY <1>1, <2>4, <2>5, DraftingTyped
  <2>7. /\ caller' \in CallerState /\ caller'.pc = "drafted" /\ caller'.draft.gap = 0
        /\ caller'.draft.json = json
    BY <2>2, <2>3, <2>5, <2>6 DEF CallerState, CallerPc
  <2>8. CallerTyped' /\ HistoryTyped'
    BY <1>1, <1>3, <1>4, <1>5, <2>1, <2>2, <2>7 DEF CallerTyped, CallerState, CallerPc, HistoryTyped
  <2>9. DraftKept' /\ JsonKept'
    BY <1>8, <2>4, <2>7 DEF DraftKept, JsonKept
  <2>10. DropsOnRecord'
    <3>1. Dropped' = Dropped
      BY <1>1, <1>3, <1>6, <2>1 DEF HistoryTyped
    <3> QED
      BY <1>3, <1>5, <2>1, <3>1 DEF DropsOnRecord, Dropped
  <2> QED
    BY <1>4, <1>5, <1>7, <2>8, <2>9, <2>10, CallerStep
<1>10. CASE ~(caller.draft.gap > 0)
  <2>1. /\ overflowed' = overflowed + 1 /\ gap_pending' = gap_pending + 1
        /\ head' = [head EXCEPT !.seq = caller.saved.seq, !.sig = caller.saved.sig]
        /\ caller' = At("idle")
    BY <1>10 DEF Put, Overflow
  <2>2. head' \in ChainHead
    <3>1. PICK n, p : n = caller.saved.seq /\ p = caller.saved.sig
      OBVIOUS
    <3>2. n \in Nat /\ p \in Nat
      BY <1>1, <3>1 DEF ChainHead
    <3> QED
      BY <1>1, <2>1, <3>1, <3>2 DEF ChainHead
  <2>3. PICK pc : pc = "idle" /\ pc \in CallerPc
    BY DEF CallerPc
  <2>4. caller' = At(pc)
    BY <2>1, <2>3
  <2>5. caller' \in CallerState /\ caller'.pc = "idle" /\ caller'.draft = NoDraft
    BY <1>1, <2>3, <2>4, AtTyped
  <2>6. overflowed' \in Nat /\ gap_pending' \in Nat
    BY <1>1, <1>3, <2>1 DEF HistoryTyped
  <2>7. CallerTyped' /\ HistoryTyped'
    BY <1>1, <1>4, <1>5, <2>2, <2>5, <2>6 DEF CallerTyped, CallerState, CallerPc, HistoryTyped
  <2>8. DraftKept' /\ JsonKept'
    BY <1>8, <2>5, NoDraftPlain DEF DraftKept, JsonKept
  <2>9. DropsOnRecord'
    <3>1. Dropped' = Dropped + 1
      BY <1>1, <1>3, <1>6, <2>1 DEF HistoryTyped
    <3> QED
      BY <1>3, <1>5, <2>1, <3>1 DEF DropsOnRecord, Dropped
  <2> QED
    BY <1>4, <1>5, <1>7, <2>7, <2>8, <2>9, CallerStep
<1> QED
  BY <1>9, <1>10

\* The handler declares what is pending, in the middle of whatever the caller does.
LEMMA HandleSignalKeeps ==
  ASSUME PyInv, HandleSignal
  PROVE  PyInv'
<1>1. /\ HistoryTyped /\ CallerTyped /\ head \in ChainHead /\ caller \in CallerState
      /\ caller.draft \in Event
  BY DEF PyInv, CallerTyped, CallerState
<1>2. /\ Declared + gap_pending >= Dropped /\ gap_pending \in Nat
      /\ Declared \in Nat /\ Dropped \in Nat
  BY AccountNat
<1>3. UNCHANGED <<given_up, overflowed, workers, caller>>
  BY DEF HandleSignal
<1>4. CASE gap_pending = 0
  <2>1. UNCHANGED <<history, head, gap_pending, queue, unfinished, workers, caller>>
    BY <1>4 DEF HandleSignal, history
  <2>2. CallerTyped' /\ JsonKept'
    BY <1>1, <2>1 DEF CallerTyped, JsonKept, PyInv, TasksCounted, Ids, history
  <2>3. Declared' = Declared /\ Dropped' = Dropped /\ UNCHANGED <<events, entered>>
    BY <1>1, <2>1, HistorySame DEF history
  <2>4. DraftKept'
    BY <2>1, <2>3 DEF PyInv, DraftKept, Ids
  <2> QED
    BY <1>2, <2>1, <2>2, <2>4, QuietStep
<1>5. CASE gap_pending # 0
  <2>1. PICK x : x = [NoDraft EXCEPT !.session = head.session, !.seq = head.seq + 1,
                                     !.prev = head.sig, !.gap = gap_pending]
    OBVIOUS
  <2>2. /\ events' = Append(events, x)
        /\ head' = [head EXCEPT !.seq = @ + 1, !.sig = Len(events) + 1]
        /\ \/ /\ queue' = Append(queue, Queued(Len(events) + 1))
              /\ unfinished' = unfinished + 1
              /\ entered' = entered \cup {Len(events) + 1}
              /\ gap_pending' = 0
           \/ UNCHANGED <<entered, gap_pending, queue, unfinished>>
    BY <1>5, <2>1 DEF HandleSignal
  <2>3. x \in Event /\ x.gap = gap_pending /\ x.json = TRUE
    <3>1. head.session \in Nat /\ head.seq + 1 \in Nat /\ head.sig \in Nat
      BY <1>1 DEF ChainHead
    <3>2. PICK a, b, c : a = head.session /\ b = head.seq + 1 /\ c = head.sig
      OBVIOUS
    <3>3. x = [session |-> a, seq |-> b, prev |-> c, gap |-> gap_pending, json |-> TRUE,
               forced |-> FALSE]
      BY <2>1, <3>2 DEF NoDraft
    <3> QED
      BY <1>2, <3>1, <3>2, <3>3 DEF Event
  <2>4. Extends
    BY <1>1, <2>2, <2>3, SigningExtends
  <2>5. events \in Seq(Event) /\ Len(events) \in Nat /\ entered \subseteq 1..Len(events)
    BY <1>1 DEF HistoryTyped, Ids
  <2>6. /\ Len(events') = Len(events) + 1 /\ events'[Len(events) + 1] = x
        /\ Len(events) + 1 \in Ids'
    BY <2>2, <2>3, <2>5 DEF Ids
  <2>7. gap_pending' \in Nat
    BY <1>2, <2>2
  <2>8. HistoryTyped'
    <3>1. entered \subseteq Ids' /\ given_up' \subseteq Ids' /\ events' \in Seq(Event)
      BY <1>1, <1>3, <2>4 DEF HistoryTyped, Extends
    <3>2. entered' \subseteq Ids'
      BY <2>2, <2>6, <3>1
    <3> QED
      BY <1>1, <1>3, <3>1, <3>2 DEF HistoryTyped
  <2>9. CallerTyped'
    <3>1. head' \in ChainHead
      <4>1. PICK n, p : n = head.seq + 1 /\ p = Len(events) + 1
        OBVIOUS
      <4>2. n \in Nat /\ p \in Nat
        BY <1>1, <2>5, <4>1 DEF ChainHead
      <4>3. head' = [head EXCEPT !.seq = n, !.sig = p]
        BY <2>2, <4>1
      <4> QED
        BY <1>1, <4>2, <4>3 DEF ChainHead
    <3> QED
      BY <1>1, <1>3, <2>7, <3>1 DEF CallerTyped, CallerState, CallerPc
  <2>10. JsonKept'
    <3>1. ~MayDefyJson => caller.draft.json = TRUE /\ \A e \in 1..Len(events) : events[e].json = TRUE
      BY DEF PyInv, TasksCounted, Ids
    <3>2. \A e \in 1..Len(events) : events'[e] = events[e]
      BY <2>4 DEF Extends, Ids
    <3>3. ~MayDefyJson => \A e \in 1..Len(events) + 1 : events'[e].json = TRUE
      BY <2>3, <2>5, <2>6, <3>1, <3>2
    <3> QED
      BY <1>3, <2>6, <3>1, <3>3 DEF JsonKept, Ids
  <2>11. Dropped' = Dropped
    <3>1. Dropped' = overflowed' + (Dropped - overflowed)
      BY <1>1, <1>3, <2>4, NothingGivenUp
    <3> QED
      BY <1>1, <1>2, <1>3, <3>1 DEF HistoryTyped
  <2>12. CASE /\ queue' = Append(queue, Queued(Len(events) + 1))
              /\ unfinished' = unfinished + 1
              /\ entered' = entered \cup {Len(events) + 1}
              /\ gap_pending' = 0
    <3>1. Declared' = Declared + gap_pending
      BY <1>1, <2>2, <2>3, <2>12, MarkerDeclares
    <3>2. DropsOnRecord' /\ Declared' >= Dropped'
      BY <1>2, <2>11, <2>12, <3>1 DEF DropsOnRecord, Dropped
    <3>3. DraftKept'
      <4>1. caller.pc \in {"signed", "putting"} =>
              caller.event \in Ids' \ entered' /\ events'[caller.event].gap = caller.draft.gap
        <5>1. caller.pc \in {"signed", "putting"} =>
                caller.event \in Ids \ entered /\ events[caller.event].gap = caller.draft.gap
          BY DEF PyInv, DraftKept
        <5>2. \A e \in Ids : e # Len(events) + 1
          BY <2>5 DEF Ids
        <5> QED
          BY <2>4, <2>12, <5>1, <5>2 DEF Extends
      <4> QED
        BY <1>3, <2>12, <3>2, <4>1 DEF PyInv, DraftKept
    <3>4. /\ queue' \in Seq(Item') /\ unfinished' \in Nat
          /\ unfinished' + Len(queue) = unfinished + Len(queue')
      <4>1. PICK T : T = Item'
        OBVIOUS
      <4>2. queue \in Seq(T) /\ Len(queue) \in Nat /\ unfinished \in Nat
        BY <2>4, <4>1, ItemsStay DEF PyInv, PlacesTyped
      <4>3. Queued(Len(events) + 1) \in T
        BY <2>6, <4>1 DEF Queued, Item
      <4>4. queue' \in Seq(T) /\ Len(queue') = Len(queue) + 1
        BY <2>12, <4>2, <4>3
      <4> QED
        BY <2>12, <4>1, <4>2, <4>4
    <3> QED
      BY <1>3, <2>4, <2>8, <2>9, <2>10, <3>2, <3>3, <3>4, CallerStep
  <2>13. CASE UNCHANGED <<entered, gap_pending, queue, unfinished>>
    <3>1. Declared' = Declared
      BY <1>1, <2>2, <2>3, <2>13, SigningDeclaresNothing
    <3>2. DropsOnRecord'
      BY <1>2, <2>11, <2>13, <3>1 DEF DropsOnRecord, Dropped
    <3>3. DraftKept'
      <4>1. caller.pc \in {"signed", "putting"} =>
              caller.event \in Ids' \ entered' /\ events'[caller.event].gap = caller.draft.gap
        BY <2>4, <2>13 DEF PyInv, DraftKept, Extends
      <4> QED
        BY <1>3, <2>11, <2>13, <3>1, <4>1 DEF PyInv, DraftKept
    <3>4. /\ queue' \in Seq(Item') /\ unfinished' \in Nat
          /\ unfinished' + Len(queue) = unfinished + Len(queue')
      BY <2>4, <2>13, ItemsStay DEF PyInv, PlacesTyped
    <3> QED
      BY <1>3, <2>4, <2>8, <2>9, <2>10, <3>2, <3>3, <3>4, CallerStep
  <2> QED
    BY <2>2, <2>12, <2>13
<1> QED
  BY <1>4, <1>5

\* put_nowait: both outcomes.
LEMMA PutKeeps ==
  ASSUME PyInv, Put
  PROVE  PyInv'
BY PutEnters, PutOverflows

----------------------------------------------------------------------------
(* The worker's steps.                                                     *)

\* A step that settles nothing keeps the account; the places and the tasks
\* are what is left to show.
LEMMA CarryStep ==
  ASSUME PyInv, UNCHANGED <<history, head, gap_pending, caller>>,
         PlacesTyped', WorkerKept', Total' <= unfinished', ~MayDefyJson => unfinished' = Total'
  PROVE  PyInv'
<1>1. HistoryTyped' /\ Declared' = Declared /\ Dropped' = Dropped /\ UNCHANGED <<events, entered>>
  BY HistorySame DEF PyInv, history
<1>2. CallerTyped'
  BY DEF PyInv, CallerTyped, CallerState, CallerPc
<1>3. TasksCounted'
  BY <1>1 DEF PyInv, TasksCounted, Ids
<1>4. DraftKept'
  BY <1>1 DEF PyInv, DraftKept, Ids
<1>5. DropsOnRecord'
  BY <1>1 DEF PyInv, DropsOnRecord, Dropped
<1> QED
  BY <1>1, <1>2, <1>3, <1>4, <1>5 DEF PyInv

\* What the worker has left in front once it took the next item.
Rest == IF Sources = "front" THEN <<>> ELSE worker_front

\* Taking the next item removes exactly that one, and nothing stays in front.
LEMMA TakesOne ==
  ASSUME PyInv, TakeNext, Sources # "none"
  PROVE  /\ NextItem \in Item /\ Rest = <<>>
         /\ worker_pending' \in Seq(Item) /\ queue' \in Seq(Item)
         /\ Len(queue') + Len(worker_pending') + 1
              = Len(queue) + Len(worker_pending) + Len(worker_front)
<1>1. /\ queue \in Seq(Item) /\ worker_pending \in Seq(Item) /\ worker_front \in Seq(Item)
      /\ Len(worker_front) <= 1
  BY DEF PyInv, PlacesTyped, WorkerKept
<1>2. PICK T : T = Item
  OBVIOUS
<1>3. /\ queue \in Seq(T) /\ worker_pending \in Seq(T) /\ worker_front \in Seq(T)
  BY <1>1, <1>2
<1>4. CASE worker_front # <<>>
  <2>1. Sources = "front"
    BY <1>4 DEF Sources
  <2>2. UNCHANGED <<queue, worker_pending>> /\ NextItem = Head(worker_front) /\ Rest = <<>>
    BY <2>1 DEF TakeNext, NextItem, Rest
  <2>3. Head(worker_front) \in T /\ Len(worker_front) = 1
    <3>1. PICK s : s = worker_front /\ s \in Seq(T) /\ s # <<>>
      BY <1>3, <1>4
    <3>2. PICK n : n = Len(s) /\ n \in Nat
      BY <3>1
    <3>3. n # 0 /\ n <= 1
      BY <1>1, <3>1, <3>2
    <3>4. Len(s) = 1
      BY <3>2, <3>3
    <3>5. Head(s) \in T
      BY <3>1
    <3> QED
      BY <3>1, <3>4, <3>5
  <2> QED
    BY <1>2, <1>3, <2>2, <2>3
<1>5. CASE worker_front = <<>> /\ worker_pending # <<>>
  <2>1. Sources = "pending"
    BY <1>5 DEF Sources
  <2>2. /\ queue' = queue /\ worker_pending' = Tail(worker_pending)
        /\ NextItem = Head(worker_pending) /\ Rest = <<>>
    BY <1>5, <2>1 DEF TakeNext, NextItem, Rest
  <2>3. /\ Head(worker_pending) \in T /\ Tail(worker_pending) \in Seq(T)
        /\ Len(Tail(worker_pending)) = Len(worker_pending) - 1 /\ Len(worker_front) = 0
    BY <1>3, <1>5
  <2> QED
    BY <1>2, <1>3, <2>2, <2>3
<1>6. CASE worker_front = <<>> /\ worker_pending = <<>>
  <2>1. Sources = "queue" /\ queue # <<>>
    BY <1>6 DEF Sources
  <2>2. /\ worker_pending' = worker_pending /\ queue' = Tail(queue)
        /\ NextItem = Head(queue) /\ Rest = <<>>
    BY <1>6, <2>1 DEF TakeNext, NextItem, Rest
  <2>3. /\ Head(queue) \in T /\ Tail(queue) \in Seq(T)
        /\ Len(Tail(queue)) = Len(queue) - 1 /\ Len(worker_front) = 0
    BY <1>3, <1>6, <2>1
  <2> QED
    BY <1>2, <1>3, <2>2, <2>3
<1> QED
  BY <1>4, <1>5, <1>6

\* How many items and tasks there are, as numbers.
LEMMA CountsNat ==
  ASSUME PyInv
  PROVE  /\ Len(queue) \in Nat /\ Len(worker_pending) \in Nat /\ Len(worker_front) \in Nat
         /\ Len(batch) \in Nat /\ unfinished \in Nat
         /\ Len(queue) + Len(worker_pending) + Len(worker_front) + Len(batch) <= unfinished
         /\ ~MayDefyJson =>
              unfinished = Len(queue) + Len(worker_pending) + Len(worker_front) + Len(batch)
BY DEF PyInv, PlacesTyped, TasksCounted, Total

\* The first item of a batch: a marker is sent alone.
LEMMA GetFirstKeeps ==
  ASSUME PyInv, GetFirst
  PROVE  PyInv'
<1>1. /\ worker = "waiting" /\ Sources # "none" /\ TakeNext
      /\ worker_front' = Rest
      /\ UNCHANGED <<history, head, gap_pending, caller>>
  <2>1. /\ worker = "waiting" /\ Sources # "none" /\ TakeNext
        /\ worker_front' = IF Sources = "front" THEN <<>> ELSE worker_front
        /\ UNCHANGED <<history, head, gap_pending, caller>>
    BY DEF GetFirst
  <2> QED
    BY <2>1 DEF Rest
<1>2. /\ NextItem \in Item /\ worker_front' = <<>>
      /\ worker_pending' \in Seq(Item) /\ queue' \in Seq(Item)
      /\ Len(queue') + Len(worker_pending') + 1
           = Len(queue) + Len(worker_pending) + Len(worker_front)
  BY <1>1, TakesOne
<1>3. batch = <<>>
  BY <1>1 DEF PyInv, WorkerKept
<1>4. PICK item : item = NextItem
  OBVIOUS
<1>5. /\ item \in Item
      /\ \/ ~events[item.event].json /\ batch' = <<>> /\ worker' = "waiting" /\ unfinished' = unfinished - 1
         \/ /\ batch' = <<item>> /\ unfinished' = unfinished
            /\ worker' = IF IsMarker(item.event) THEN "sending" ELSE "collecting"
  BY <1>2, <1>4 DEF GetFirst, Swallow
<1>6. Item' = Item /\ events' = events
  BY <1>1 DEF Item, Ids, history
<1>7. /\ Len(queue') \in Nat /\ Len(worker_pending') \in Nat /\ Len(batch) = 0 /\ Len(worker_front') = 0
      /\ worker_front' \in Seq(Item)
  BY <1>2, <1>3
<1>8. CASE ~events[item.event].json /\ batch' = <<>> /\ worker' = "waiting" /\ unfinished' = unfinished - 1
  <2>1. MayDefyJson
    <3>1. item.event \in Ids
      BY <1>5 DEF Item
    <3> QED
      BY <1>8, <3>1 DEF PyInv, TasksCounted
  <2>2. Len(batch') = 0 /\ batch' \in Seq(Item)
    BY <1>8
  <2>3. unfinished' \in Nat /\ Total' <= unfinished'
    BY <1>2, <1>7, <1>8, <2>2, CountsNat DEF Total
  <2>4. PlacesTyped'
    BY <1>2, <1>6, <1>7, <2>2, <2>3 DEF PlacesTyped
  <2>5. WorkerKept'
    BY <1>7, <1>8, <2>2 DEF WorkerKept
  <2> QED
    BY <1>1, <2>1, <2>3, <2>4, <2>5, CarryStep
<1>9. CASE /\ batch' = <<item>> /\ unfinished' = unfinished
           /\ worker' = IF IsMarker(item.event) THEN "sending" ELSE "collecting"
  <2>1. batch' \in Seq(Item) /\ Len(batch') = 1 /\ batch'[1] = item
    BY <1>5, <1>9
  <2>2. /\ unfinished' \in Nat /\ Total' <= unfinished'
        /\ ~MayDefyJson => unfinished' = Total'
    BY <1>2, <1>7, <1>9, <2>1, CountsNat DEF Total
  <2>3. PlacesTyped'
    BY <1>2, <1>6, <1>7, <2>1, <2>2 DEF PlacesTyped
  <2>4. \A i \in 1..Len(batch') : IsMarker(batch[i].event)' => Len(batch') = 1 /\ worker' = "sending"
    <3>1. \A i \in 1..Len(batch') : batch'[i] = item
      BY <2>1
    <3> QED
      BY <1>6, <1>9, <2>1, <3>1 DEF IsMarker
  <2>5. WorkerKept'
    BY <1>7, <1>9, <2>4 DEF WorkerKept
  <2> QED
    BY <1>1, <2>2, <2>3, <2>5, CarryStep
<1> QED
  BY <1>5, <1>8, <1>9

\* A batch that is being collected holds no marker.
LEMMA CollectsNoMarker ==
  ASSUME PyInv, worker = "collecting"
  PROVE  \A i \in 1..Len(batch) : ~IsMarker(batch[i].event)
BY DEF PyInv, WorkerKept

\* Another item: it joins the batch, or is carried to the next one.
LEMMA CollectKeeps ==
  ASSUME PyInv, Collect
  PROVE  PyInv'
<1>1. /\ worker = "collecting" /\ Sources # "none" /\ TakeNext
      /\ UNCHANGED <<history, head, gap_pending, caller>>
  BY DEF Collect
<1>2. /\ NextItem \in Item /\ Rest = <<>>
      /\ worker_pending' \in Seq(Item) /\ queue' \in Seq(Item)
      /\ Len(queue') + Len(worker_pending') + 1
           = Len(queue) + Len(worker_pending) + Len(worker_front)
  BY <1>1, TakesOne
<1>3. PICK item : item = NextItem
  OBVIOUS
<1>4. /\ item \in Item
      /\ \/ /\ ~events[item.event].json /\ worker_front' = Rest
            /\ batch' = <<>> /\ worker' = "waiting" /\ unfinished' = unfinished - Len(batch)
         \/ /\ ~IsMarker(item.event) /\ batch' = Append(batch, item) /\ worker_front' = Rest
            /\ UNCHANGED <<worker, unfinished>>
         \/ /\ worker_front' = <<item>> /\ worker' = "sending" /\ UNCHANGED <<batch, unfinished>>
  BY <1>2, <1>3 DEF Collect, Swallow, Rest
<1>5. Item' = Item /\ events' = events
  BY <1>1 DEF Item, Ids, history
<1>6. /\ Len(queue') \in Nat /\ Len(worker_pending') \in Nat /\ batch \in Seq(Item)
      /\ Len(batch) \in Nat
  BY <1>2 DEF PyInv, PlacesTyped
<1>7. \A i \in 1..Len(batch) : ~IsMarker(batch[i].event)
  BY <1>1, CollectsNoMarker
<1>8. CASE /\ ~events[item.event].json /\ worker_front' = Rest
           /\ batch' = <<>> /\ worker' = "waiting" /\ unfinished' = unfinished - Len(batch)
  <2>1. MayDefyJson
    <3>1. item.event \in Ids
      BY <1>4 DEF Item
    <3> QED
      BY <1>8, <3>1 DEF PyInv, TasksCounted
  <2>2. /\ Len(batch') = 0 /\ batch' \in Seq(Item)
        /\ Len(worker_front') = 0 /\ worker_front' \in Seq(Item)
    BY <1>2, <1>8
  <2>3. unfinished' \in Nat /\ Total' <= unfinished'
    BY <1>2, <1>6, <1>8, <2>2, CountsNat DEF Total
  <2>4. PlacesTyped'
    BY <1>2, <1>5, <2>2, <2>3 DEF PlacesTyped
  <2>5. WorkerKept'
    BY <1>8, <2>2 DEF WorkerKept
  <2> QED
    BY <1>1, <2>1, <2>3, <2>4, <2>5, CarryStep
<1>9. CASE /\ ~IsMarker(item.event) /\ batch' = Append(batch, item) /\ worker_front' = Rest
           /\ UNCHANGED <<worker, unfinished>>
  <2>1. PICK T : T = Item
    OBVIOUS
  <2>2. /\ batch' \in Seq(T) /\ Len(batch') = Len(batch) + 1
        /\ batch'[Len(batch) + 1] = item /\ \A i \in 1..Len(batch) : batch'[i] = batch[i]
    BY <1>4, <1>6, <1>9, <2>1
  <2>3. Len(worker_front') = 0 /\ worker_front' \in Seq(Item)
    BY <1>2, <1>9
  <2>4. /\ unfinished' \in Nat /\ Total' <= unfinished'
        /\ ~MayDefyJson => unfinished' = Total'
    <3>1. unfinished' = unfinished /\ Len(batch') = Len(batch) + 1 /\ Len(worker_front') = 0
      BY <1>9, <2>2, <2>3
    <3>2. PICK q, w, f, b, n : /\ q = Len(queue) /\ w = Len(worker_pending) /\ f = Len(worker_front)
                               /\ b = Len(batch) /\ n = unfinished
      OBVIOUS
    <3>3. /\ q \in Nat /\ w \in Nat /\ f \in Nat /\ b \in Nat /\ n \in Nat
          /\ q + w + f + b <= n /\ (~MayDefyJson => n = q + w + f + b)
      BY <3>2, CountsNat
    <3>4. PICK q1, w1 : q1 = Len(queue') /\ w1 = Len(worker_pending') /\ q1 \in Nat /\ w1 \in Nat
      BY <1>6
    <3>5. q1 + w1 + 1 = q + w + f
      BY <1>2, <3>2, <3>4
    <3>6. q1 + w1 + 0 + (b + 1) <= n /\ (~MayDefyJson => n = q1 + w1 + 0 + (b + 1))
      BY <3>3, <3>4, <3>5
    <3>7. Total' = q1 + w1 + 0 + (b + 1) /\ unfinished' = n
      BY <3>1, <3>2, <3>4 DEF Total
    <3> QED
      BY <3>3, <3>6, <3>7
  <2>5. PlacesTyped'
    BY <1>2, <1>5, <2>1, <2>2, <2>3, <2>4 DEF PlacesTyped
  <2>6. \A i \in 1..Len(batch') : ~IsMarker(batch[i].event)'
    <3> TAKE i \in 1..Len(batch')
    <3>1. CASE i \in 1..Len(batch)
      <4>1. batch'[i] = batch[i] /\ ~(events[batch[i].event].gap > 0)
        BY <1>7, <2>2, <3>1 DEF IsMarker
      <4> QED
        BY <1>5, <4>1 DEF IsMarker
    <3>2. CASE i = Len(batch) + 1
      <4>1. batch'[i] = item /\ ~(events[item.event].gap > 0)
        BY <1>9, <2>2, <3>2 DEF IsMarker
      <4> QED
        BY <1>5, <4>1 DEF IsMarker
    <3> QED
      BY <1>6, <2>2, <3>1, <3>2
  <2>7. WorkerKept'
    BY <1>1, <1>9, <2>3, <2>6 DEF WorkerKept
  <2> QED
    BY <1>1, <2>4, <2>5, <2>7, CarryStep
<1>10. CASE worker_front' = <<item>> /\ worker' = "sending" /\ UNCHANGED <<batch, unfinished>>
  <2>1. Len(worker_front') = 1 /\ worker_front' \in Seq(Item)
    BY <1>4, <1>10
  <2>2. /\ unfinished' \in Nat /\ Total' <= unfinished'
        /\ ~MayDefyJson => unfinished' = Total'
    BY <1>2, <1>6, <1>10, <2>1, CountsNat DEF Total
  <2>3. PlacesTyped'
    BY <1>2, <1>5, <1>6, <1>10, <2>1, <2>2 DEF PlacesTyped
  <2>4. \A i \in 1..Len(batch') : ~IsMarker(batch[i].event)'
    BY <1>5, <1>7, <1>10 DEF IsMarker
  <2>5. WorkerKept'
    BY <1>10, <2>1, <2>4 DEF WorkerKept
  <2> QED
    BY <1>1, <2>2, <2>3, <2>5, CarryStep
<1> QED
  BY <1>4, <1>8, <1>9, <1>10

\* The batch is closed.
LEMMA StopCollectingKeeps ==
  ASSUME PyInv, StopCollecting
  PROVE  PyInv'
<1>1. /\ worker = "collecting" /\ worker' = "sending"
      /\ UNCHANGED <<history, head, gap_pending, caller, queue, unfinished, worker_pending,
                     worker_front, batch>>
  BY DEF StopCollecting
<1>2. PlacesTyped' /\ Total' = Total
  BY <1>1 DEF PyInv, PlacesTyped, Item, Ids, Total, history
<1>3. WorkerKept'
  <2>1. \A i \in 1..Len(batch) : ~IsMarker(batch[i].event)
    BY <1>1, CollectsNoMarker
  <2>2. \A i \in 1..Len(batch') : ~IsMarker(batch[i].event)'
    BY <1>1, <2>1 DEF IsMarker, history
  <2> QED
    BY <1>1, <2>2 DEF PyInv, WorkerKept
<1>4. Total' <= unfinished' /\ (~MayDefyJson => unfinished' = Total')
  BY <1>1, <1>2 DEF PyInv, TasksCounted
<1> QED
  BY <1>1, <1>2, <1>3, <1>4, CarryStep

\* Lost events come from the batch: they are finitely many events of the history.
LEMMA LostTyped ==
  ASSUME PyInv, NEW lost \in SUBSET BatchEvents
  PROVE  lost \subseteq Ids /\ IsFiniteSet(lost) /\ Cardinality(lost) \in Nat
<1>1. lost \subseteq Ids
  <2>1. \A i \in DOMAIN batch : batch[i] \in Item
    BY DEF PyInv, PlacesTyped
  <2>2. \A item \in Item : item.event \in Ids
    BY DEF Item
  <2> QED
    BY <2>1, <2>2 DEF BatchEvents
<1>2. IsFiniteSet(1..Len(events))
  <2>1. Len(events) \in Nat
    BY EventsTyped DEF PyInv
  <2> QED
    BY <2>1, FS_Interval
<1>3. IsFiniteSet(lost)
  BY <1>1, <1>2, FS_Subset DEF Ids
<1> QED
  BY <1>1, <1>3, FS_CardinalityType

\* Losing events adds at most as many to what was dropped.
LEMMA LosingDrops ==
  ASSUME PyInv, Extends, NEW lost \in SUBSET BatchEvents,
         given_up' = given_up \cup lost, overflowed' = overflowed
  PROVE  Dropped' \in Nat /\ Dropped' <= Dropped + Cardinality(lost)
<1>1. HistoryTyped /\ overflowed \in Nat
  BY DEF PyInv, HistoryTyped
<1>2. PICK T, U : T = {e \in given_up : ~IsMarker(e)} /\ U = {e \in given_up : ~IsMarker(e)}'
  OBVIOUS
<1>3. lost \subseteq Ids /\ IsFiniteSet(lost) /\ Cardinality(lost) \in Nat
  BY LostTyped
<1>4. U \subseteq T \cup lost
  <2>1. given_up \subseteq Ids
    BY <1>1 DEF HistoryTyped
  <2> QED
    BY <1>2, <1>3, <2>1, ItemsStay
<1>5. IsFiniteSet(T)
  BY <1>1, <1>2, DroppedNat
<1>6. /\ IsFiniteSet(T \cup lost) /\ Cardinality(T) \in Nat /\ Cardinality(T \cup lost) \in Nat
      /\ Cardinality(T \cup lost) <= Cardinality(T) + Cardinality(lost)
  <2>1. IsFiniteSet(T \cup lost) /\ IsFiniteSet(T \cap lost)
    BY <1>3, <1>5, FS_Union, FS_Intersection
  <2>2. Cardinality(T \cup lost) = Cardinality(T) + Cardinality(lost) - Cardinality(T \cap lost)
    BY <1>3, <1>5, FS_Union
  <2>3. Cardinality(T) \in Nat /\ Cardinality(T \cup lost) \in Nat /\ Cardinality(T \cap lost) \in Nat
    BY <1>5, <2>1, FS_CardinalityType
  <2> QED
    BY <1>3, <2>1, <2>2, <2>3
<1>7. IsFiniteSet(U) /\ Cardinality(U) <= Cardinality(T \cup lost)
  BY <1>4, <1>6, FS_Subset
<1>8. Cardinality(U) \in Nat
  BY <1>7, FS_CardinalityType
<1>9. Dropped = overflowed + Cardinality(T) /\ Dropped' = overflowed + Cardinality(U)
  BY <1>2 DEF Dropped
<1> QED
  BY <1>1, <1>3, <1>6, <1>7, <1>8, <1>9

\* A batch whose loss is not declared lost nothing, or a marker.
LEMMA UndeclaredLoss ==
  ASSUME PyInv, NEW lost \in SUBSET BatchEvents, ~(lost # {} /\ \A e \in lost : ~IsMarker(e)),
         given_up' = given_up \cup lost, UNCHANGED <<events, overflowed>>
  PROVE  Dropped' = Dropped
<1>1. PICK T, U : T = {e \in given_up : ~IsMarker(e)} /\ U = {e \in given_up : ~IsMarker(e)}'
  OBVIOUS
<1>2. \A e \in lost : IsMarker(e)
  <2>1. SUFFICES ASSUME NEW e \in lost PROVE IsMarker(e)
    OBVIOUS
  <2>2. PICK m \in lost : IsMarker(m)
    BY <2>1
  <2>3. PICK i \in DOMAIN batch, j \in DOMAIN batch : e = batch[i].event /\ m = batch[j].event
    BY <2>1, <2>2 DEF BatchEvents
  <2>4. DOMAIN batch = 1..Len(batch) /\ Len(batch) \in Nat
    BY DEF PyInv, PlacesTyped
  <2>5. Len(batch) = 1
    BY <2>2, <2>3, <2>4 DEF PyInv, WorkerKept
  <2>6. i = j
    BY <2>3, <2>4, <2>5
  <2> QED
    BY <2>2, <2>3, <2>6
<1>3. \A e : IsMarker(e)' <=> IsMarker(e)
  BY DEF IsMarker
<1>4. T = U
  BY <1>1, <1>2, <1>3
<1> QED
  BY <1>1, <1>4 DEF Dropped

\* The batch is settled: items that are retried keep their tasks, and what is
\* lost is declared in the same step.
LEMMA Settles ==
  ASSUME PyInv, NEW lost \in SUBSET BatchEvents, NEW requeued \in Seq(Item),
         SettleBatch(lost, requeued), UNCHANGED <<overflowed, gap_pending, worker_front, caller>>
  PROVE  PyInv'
<1>1. /\ HistoryTyped /\ head \in ChainHead /\ caller \in CallerState
  BY DEF PyInv, CallerTyped
<1>2. /\ Declared + gap_pending >= Dropped /\ gap_pending \in Nat
      /\ Declared \in Nat /\ Dropped \in Nat
  BY AccountNat
<1>3. /\ given_up' = given_up \cup lost
      /\ worker_pending' = worker_pending \o requeued
      /\ batch' = <<>> /\ worker' = "waiting"
  BY DEF SettleBatch
<1>4. lost \subseteq Ids /\ Cardinality(lost) \in Nat
  BY LostTyped
<1>5. /\ worker_pending' \in Seq(Item) /\ Len(worker_pending') = Len(worker_pending) + Len(requeued)
      /\ Len(requeued) \in Nat
  <2>1. PICK T : T = Item
    OBVIOUS
  <2>2. worker_pending \in Seq(T) /\ requeued \in Seq(T)
    BY <2>1 DEF PyInv, PlacesTyped
  <2> QED
    BY <1>3, <2>1, <2>2
<1>6. batch' \in Seq(Item) /\ Len(batch') = 0
  BY <1>3
<1>7. WorkerKept'
  BY <1>3, <1>6 DEF PyInv, WorkerKept
<1>8. CASE lost # {} /\ \A e \in lost : ~IsMarker(e)
  <2>1. PICK x : x = [NoDraft EXCEPT !.session = head.session + 1, !.seq = 1, !.gap = Cardinality(lost)]
    OBVIOUS
  <2>2. /\ SignLockFree
        /\ events' = Append(events, x)
        /\ head' = [session |-> head.session + 1, seq |-> 1, sig |-> Len(events) + 1]
        /\ queue' = Append(queue, Queued(Len(events) + 1))
        /\ entered' = entered \cup {Len(events) + 1}
        /\ unfinished' = unfinished + 1 + Len(requeued) - Len(batch)
    BY <1>8, <2>1 DEF SettleBatch
  <2>3. x \in Event /\ x.gap = Cardinality(lost) /\ x.json = TRUE
    <3>1. PICK a, n : a = head.session + 1 /\ n = Cardinality(lost)
      OBVIOUS
    <3>2. a \in Nat /\ n \in Nat
      BY <1>1, <1>4, <3>1 DEF ChainHead
    <3>3. x = [session |-> a, seq |-> 1, prev |-> 0, gap |-> n, json |-> TRUE, forced |-> FALSE]
      BY <2>1, <3>1 DEF NoDraft
    <3> QED
      BY <3>1, <3>2, <3>3 DEF Event
  <2>4. Extends
    BY <1>1, <2>2, <2>3, SigningExtends
  <2>5. events \in Seq(Event) /\ Len(events) \in Nat
    BY <1>1 DEF HistoryTyped
  <2>6. /\ Len(events') = Len(events) + 1 /\ events'[Len(events) + 1] = x
        /\ Len(events) + 1 \in Ids'
    BY <2>2, <2>3, <2>5 DEF Ids
  <2>7. HistoryTyped'
    <3>1. entered \subseteq Ids' /\ given_up \subseteq Ids' /\ lost \subseteq Ids'
          /\ events' \in Seq(Event)
      BY <1>1, <1>4, <2>4 DEF HistoryTyped, Extends
    <3>2. entered' \subseteq Ids' /\ given_up' \subseteq Ids'
      BY <1>3, <2>2, <2>6, <3>1
    <3>3. overflowed' \in Nat
      BY <1>1 DEF HistoryTyped
    <3> QED
      BY <3>1, <3>2, <3>3 DEF HistoryTyped
  <2>8. CallerTyped'
    <3>1. head' \in ChainHead
      BY <1>1, <2>2, <2>5 DEF ChainHead
    <3> QED
      BY <1>1, <1>2, <3>1 DEF CallerTyped, CallerState, CallerPc
  <2>9. PlacesTyped' /\ Len(queue') = Len(queue) + 1
    <3>1. PICK T : T = Item'
      OBVIOUS
    <3>2. /\ queue \in Seq(T) /\ worker_pending' \in Seq(T) /\ worker_front \in Seq(T)
          /\ batch' \in Seq(T)
      BY <1>5, <1>6, <2>4, <3>1, ItemsStay DEF PyInv, PlacesTyped
    <3>3. Queued(Len(events) + 1) \in T
      BY <2>6, <3>1 DEF Queued, Item
    <3>4. queue' \in Seq(T) /\ Len(queue') = Len(queue) + 1
      BY <2>2, <3>2, <3>3
    <3>5. unfinished' \in Nat
      BY <1>5, <2>2, CountsNat
    <3> QED
      BY <3>1, <3>2, <3>4, <3>5 DEF PlacesTyped
  <2>10. Total' <= unfinished' /\ (~MayDefyJson => unfinished' = Total')
    <3>1. unfinished' = unfinished + 1 + Len(requeued) - Len(batch)
      BY <2>2
    <3> QED
      BY <1>5, <1>6, <2>9, <3>1, CountsNat DEF Total
  <2>11. JsonKept'
    <3>1. ~MayDefyJson => caller.draft.json = TRUE /\ \A e \in 1..Len(events) : events[e].json = TRUE
      BY DEF PyInv, TasksCounted, Ids
    <3>2. \A e \in 1..Len(events) : events'[e] = events[e]
      BY <2>4 DEF Extends, Ids
    <3>3. ~MayDefyJson => \A e \in 1..Len(events) + 1 : events'[e].json = TRUE
      BY <2>3, <2>5, <2>6, <3>1, <3>2
    <3> QED
      BY <2>6, <3>1, <3>3 DEF JsonKept, Ids
  <2>12. DraftKept'
    <3>1. caller.pc \in {"idle", "flushing"}
      BY <2>2 DEF SignLockFree
    <3>2. caller.draft.gap = 0
      BY <3>1 DEF PyInv, DraftKept
    <3> QED
      BY <3>1, <3>2 DEF DraftKept
  <2>13. DropsOnRecord'
    <3>1. Declared' = Declared + Cardinality(lost)
      BY <1>1, <2>2, <2>3, MarkerDeclares
    <3>2. Dropped' \in Nat /\ Dropped' <= Dropped + Cardinality(lost)
      BY <1>3, <2>4, LosingDrops
    <3>3. Declared' + gap_pending >= Dropped'
      BY <1>2, <1>4, <3>1, <3>2
    <3> QED
      BY <3>3 DEF DropsOnRecord, Dropped
  <2> QED
    BY <1>7, <2>7, <2>8, <2>9, <2>10, <2>11, <2>12, <2>13 DEF PyInv, TasksCounted, JsonKept
<1>9. CASE ~(lost # {} /\ \A e \in lost : ~IsMarker(e))
  <2>1. /\ unfinished' = unfinished + Len(requeued) - Len(batch)
        /\ UNCHANGED <<events, head, queue, entered>>
    BY <1>9 DEF SettleBatch
  <2>2. Ids' = Ids /\ Item' = Item /\ Declared' = Declared
    BY <2>1 DEF Ids, Item, Declared
  <2>3. Dropped' = Dropped
    BY <1>3, <1>9, <2>1, UndeclaredLoss
  <2>4. HistoryTyped' /\ CallerTyped'
    BY <1>1, <1>2, <1>3, <1>4, <2>1, <2>2 DEF HistoryTyped, CallerTyped, CallerState, CallerPc
  <2>5. PlacesTyped'
    <3>1. unfinished' \in Nat
      BY <1>5, <2>1, CountsNat
    <3> QED
      BY <1>5, <1>6, <2>1, <2>2, <3>1 DEF PyInv, PlacesTyped
  <2>6. Total' <= unfinished' /\ (~MayDefyJson => unfinished' = Total')
    BY <1>5, <1>6, <2>1, CountsNat DEF Total
  <2>7. TasksCounted'
    BY <2>1, <2>2, <2>6 DEF PyInv, TasksCounted
  <2>8. DraftKept'
    BY <2>1, <2>2, <2>3 DEF PyInv, DraftKept
  <2>9. DropsOnRecord'
    BY <1>2, <2>2, <2>3 DEF DropsOnRecord, Dropped
  <2> QED
    BY <1>7, <2>4, <2>5, <2>7, <2>8, <2>9 DEF PyInv
<1> QED
  BY <1>8, <1>9

\* No item is requeued by an answer.
LEMMA NothingRequeued == <<>> \in Seq(Item)
OBVIOUS

\* Accepted, all of it or all but the events refused in a body that can be read.
LEMMA DeliverBatchKeeps ==
  ASSUME PyInv, DeliverBatch
  PROVE  PyInv'
<1>1. PICK reported \in SUBSET BatchEvents : SettleBatch(reported, <<>>)
  BY DEF DeliverBatch
<1>2. UNCHANGED <<overflowed, gap_pending, worker_front, caller>>
  BY DEF DeliverBatch
<1> QED
  BY <1>1, <1>2, NothingRequeued, Settles

\* Refused as a whole.
LEMMA DiscardBatchKeeps ==
  ASSUME PyInv, DiscardBatch
  PROVE  PyInv'
<1>1. SettleBatch(BatchEvents, <<>>) /\ UNCHANGED <<overflowed, gap_pending, worker_front, caller>>
  BY DEF DiscardBatch
<1> QED
  BY <1>1, NothingRequeued, Settles

\* Retried: what has retries left is requeued, the rest is lost.
LEMMA RetryBatchKeeps ==
  ASSUME PyInv, RetryBatch
  PROVE  PyInv'
<1>1. UNCHANGED <<overflowed, gap_pending, worker_front, caller>>
  BY DEF RetryBatch
<1>2. PICK lost : lost = {batch[i].event : i \in {j \in DOMAIN batch : ~MayRetry(batch[j])}}
  OBVIOUS
<1>3. PICK places \in KeptPlaces(batch) :
        SettleBatch(lost, RetriedItems([j \in DOMAIN places |-> batch[places[j]]]))
  BY <1>2 DEF RetryBatch
<1>4. lost \in SUBSET BatchEvents
  BY <1>2 DEF BatchEvents
<1>5. PICK requeued : requeued = RetriedItems([j \in DOMAIN places |-> batch[places[j]]])
  OBVIOUS
<1>6. requeued \in Seq(Item)
  <2>1. PICK kept : kept = {i \in DOMAIN batch : MayRetry(batch[i])}
    OBVIOUS
  <2>2. places \in [1..Cardinality(kept) -> kept]
    BY <2>1 DEF KeptPlaces
  <2>3. DOMAIN batch = 1..Len(batch) /\ Len(batch) \in Nat /\ \A i \in DOMAIN batch : batch[i] \in Item
    BY DEF PyInv, PlacesTyped
  <2>4. Cardinality(kept) \in Nat
    <3>1. IsFiniteSet(1..Len(batch))
      BY <2>3, FS_Interval
    <3>2. kept \subseteq 1..Len(batch)
      BY <2>1, <2>3
    <3> QED
      BY <3>1, <3>2, FS_Subset, FS_CardinalityType
  <2>5. PICK n : n = Cardinality(kept) /\ n \in Nat
    BY <2>4
  <2>6. requeued = [j \in 1..n |-> [batch[places[j]] EXCEPT !.retries = @ + 1]]
    BY <1>5, <2>2, <2>5 DEF RetriedItems
  <2>7. \A j \in 1..n : [batch[places[j]] EXCEPT !.retries = @ + 1] \in Item
    <3> TAKE j \in 1..n
    <3>1. PICK item : item = batch[places[j]]
      OBVIOUS
    <3>2. item \in Item
      BY <2>1, <2>2, <2>3, <2>5, <3>1
    <3>3. [item EXCEPT !.retries = @ + 1] \in Item
      BY <3>2 DEF Item
    <3> QED
      BY <3>1, <3>3
  <2>8. requeued \in [1..n -> Item]
    BY <2>6, <2>7
  <2> QED
    BY <2>5, <2>8
<1>7. SettleBatch(lost, requeued)
  BY <1>3, <1>5
<1> QED
  BY <1>1, <1>4, <1>6, <1>7, Settles

----------------------------------------------------------------------------
(* The theorems.                                                           *)

\* Nothing is queued and nothing dropped at the start.
LEMMA PyInitKeeps ==
  ASSUME PyInit
  PROVE  PyInv
<1>1. /\ events = <<>> /\ entered = {} /\ given_up = {} /\ overflowed = 0
      /\ head = [session |-> 1, seq |-> 0, sig |-> 0] /\ gap_pending = 0
      /\ queue = <<>> /\ unfinished = 0 /\ worker_pending = <<>> /\ worker_front = <<>>
      /\ batch = <<>> /\ worker = "waiting" /\ caller = At("idle")
  BY DEF PyInit
<1>2. HistoryTyped /\ Len(events) = 0
  BY <1>1 DEF HistoryTyped, Ids
<1>3. PlacesTyped /\ WorkerKept
  BY <1>1 DEF PlacesTyped, WorkerKept
<1>4. head \in ChainHead
  BY <1>1 DEF ChainHead
<1>5. caller \in CallerState /\ caller.pc = "idle" /\ caller.draft = NoDraft
  <2>1. PICK pc : pc = "idle" /\ pc \in CallerPc
    BY DEF CallerPc
  <2> QED
    BY <1>1, <1>4, <2>1, AtTyped
<1>6. CallerTyped
  BY <1>1, <1>4, <1>5 DEF CallerTyped
<1>7. TasksCounted
  BY <1>1, <1>2, <1>5, NoDraftPlain DEF TasksCounted, Total, Ids
<1>8. DraftKept
  BY <1>5, NoDraftPlain DEF DraftKept
<1>9. DropsOnRecord
  <2>1. Declared \in Nat
    <3>1. Len(events) \in Nat /\ \A e \in 1..Len(events) : events[e].gap \in Nat
      BY <1>2
    <3> QED
      BY <3>1, DeclaredNat, DeclaredNow
  <2>2. PICK T : T = {e \in given_up : ~IsMarker(e)}
    OBVIOUS
  <2>3. T = {}
    BY <1>1, <2>2
  <2>4. Cardinality(T) = 0
    BY <2>3, FS_EmptySet
  <2> QED
    BY <1>1, <2>1, <2>2, <2>4 DEF DropsOnRecord
<1> QED
  BY <1>2, <1>3, <1>6, <1>7, <1>8, <1>9 DEF PyInv

\* A step that changes none of this.
LEMMA PyStutterKeeps ==
  ASSUME PyInv, UNCHANGED <<history, head, gap_pending, queue, unfinished, workers, caller>>
  PROVE  PyInv'
<1>1. Declared + gap_pending >= Dropped
  BY AccountNat
<1>2. /\ Declared' = Declared /\ Dropped' = Dropped /\ UNCHANGED <<events, entered>>
  BY HistorySame DEF PyInv, history
<1>3. CallerTyped' /\ JsonKept'
  BY <1>2 DEF PyInv, CallerTyped, CallerState, CallerPc, TasksCounted, JsonKept, Ids
<1>4. DraftKept'
  BY <1>2 DEF PyInv, DraftKept, Ids
<1> QED
  BY <1>1, <1>3, <1>4, QuietStep

\* PyInv is an invariant of the sender, for any interleaving of the main
\* thread, the signal handler and the worker.
THEOREM PythonInvariant == PySpec => []PyInv
<1>1. PyInit => PyInv
  BY PyInitKeeps
<1>2. PyInv /\ [PyNext]_pyVars => PyInv'
  <2>1. SUFFICES ASSUME PyInv, [PyNext]_pyVars PROVE PyInv'
    OBVIOUS
  <2>2. CASE Caller
    BY <2>1, <2>2, SendAuditKeeps, CallFlushKeeps, FlushReturnsKeeps, NumberKeeps, LinkKeeps,
       SignKeeps, EnterPutKeeps, PutKeeps, ClearKeeps DEF Caller
  <2>3. CASE Worker
    BY <2>1, <2>3, GetFirstKeeps, CollectKeeps, StopCollectingKeeps, DeliverBatchKeeps,
       DiscardBatchKeeps, RetryBatchKeeps DEF Worker
  <2>4. CASE HandleSignal
    BY <2>1, <2>4, HandleSignalKeeps
  <2>5. CASE HandlerReturns
    BY <2>1, <2>5, PyStutterKeeps DEF HandlerReturns
  <2>6. CASE UNCHANGED pyVars
    BY <2>1, <2>6, PyStutterKeeps DEF pyVars
  <2> QED
    BY <2>1, <2>2, <2>3, <2>4, <2>5, <2>6 DEF PyNext
<1> QED
  BY <1>1, <1>2, PTL DEF PySpec

\* sender.py: every overflow and every lost event is declared by a marker that
\* entered the queue, or still pending, wherever a handler interrupts the main
\* thread and however the worker interleaves with it.
THEOREM DropsAccounted == PySpec => []DropsOnRecord
<1>1. PyInv => DropsOnRecord
  BY DEF PyInv
<1> QED
  BY <1>1, PythonInvariant, PTL

\* flush() waits until unfinished_tasks is zero: the four places are then empty.
\* No flush takes the sender for drained while an event is still to be
\* delivered, whatever json makes of the events.
THEOREM NoFlushReturnsEarly == PySpec => [](Total <= unfinished)
<1>1. PyInv => Total <= unfinished
  BY DEF PyInv, TasksCounted
<1> QED
  BY <1>1, PythonInvariant, PTL

\* And while json accepts every event, a flush waits for nothing else either:
\* the tasks are exactly the items.
THEOREM FlushExact == ASSUME ~MayDefyJson PROVE PySpec => []FlushSeesAll
<1>1. PyInv => FlushSeesAll
  BY DEF PyInv, TasksCounted, Total, FlushSeesAll
<1> QED
  BY <1>1, PythonInvariant, PTL

=============================================================================
