--------------------------- MODULE RecoveryProofs ---------------------------
(***************************************************************************)
(* What the recovery modules guarantee, for every number of actions,       *)
(* receipts, events and crashes: a persisted event is never lost, no       *)
(* action is invoked twice or without an admitted receipt that authorizes  *)
(* it, what a session committed is what the store admitted, and what       *)
(* survives a crash tells the truth, under any of the three strict         *)
(* profiles.                                                               *)
(*                                                                         *)
(* The first part is about StrictReceipt, profile 2.1.  The argument turns *)
(* on what was true when a receipt was signed.  It names its place and its *)
(* predecessor in the remote chain, and the chain up to that place, which  *)
(* never changes again, holds no decision of the same action and no        *)
(* resolution of the same suspension (Grounded).  So of all the receipts   *)
(* signed by processes restored from stale checkpoints, the chain admits   *)
(* at most one that authorizes an action.                                  *)
(*                                                                         *)
(* The second is about StrictSession, profiles 1.0 and 2.0.  Profile 1.0   *)
(* keeps the actions it invoked among the runtime's results, which outlive *)
(* a change of session.  Profile 2.0 forgets its results with the process, *)
(* and what saves it is the order of its writes: an action is invoked only *)
(* when the checkpoint that a restart reads holds it as decided and, if it *)
(* had been suspended, as resolved.  A session remembers what it needs of  *)
(* its receipts; the auditor has only the receipts.  The two agree: the    *)
(* receipts of a session are one path of links from its start to its head  *)
(* (Path), what the session remembers is what that path says (Reads),      *)
(* every receipt may stand where it does on it (Stands), and the path is   *)
(* the start of what the store admitted (Backed).                          *)
(*                                                                         *)
(* The third composes them.                                                *)
(***************************************************************************)
EXTENDS Recovery, Counting, SequenceTheorems

----------------------------------------------------------------------------
(* The inductive invariant of profile 2.1.                                 *)

HeadAt(n) == IF n = 0 THEN 0 ELSE log[n]
ActionsAt(n) == {issued[log[i]].action : i \in {j \in 1..n : issued[log[j]].resolves = 0}}
SuspendedAt(n) == {log[i] : i \in {j \in 1..n : issued[log[j]].outcome = "STEP_UP"}}
ResolvedAt(n) == {issued[log[i]].resolves : i \in {j \in 1..n : issued[log[j]].resolves # 0}}

\* What the coordinator checked when it signed a receipt, of the chain up to
\* the receipt's place.
Grounded(r) ==
  /\ issued[r].seq <= r
  /\ issued[r].seq - 1 <= Len(log)
  /\ issued[r].prev = HeadAt(issued[r].seq - 1)
  /\ issued[r].resolves = 0 => issued[r].action \notin ActionsAt(issued[r].seq - 1)
  /\ issued[r].resolves # 0 =>
       /\ issued[r].resolves \in SuspendedAt(issued[r].seq - 1)
       /\ issued[r].resolves \notin ResolvedAt(issued[r].seq - 1)
       /\ issued[r].action = issued[issued[r].resolves].action
       /\ issued[r].outcome # "STEP_UP"

\* A committed state is a prefix of the remote chain, and the receipt that is
\* to be recovered would continue it.
Held(chain) ==
  /\ Follows(chain)
  /\ chain.recovery # 0 =>
       /\ chain.recovery \in Issued
       /\ issued[chain.recovery].seq = chain.seq + 1

ChainInv ==
  /\ \A r \in Issued : Grounded(r)
  /\ \A i \in DOMAIN log : issued[log[i]].seq = i
  /\ Held(coord.chain)
  /\ Held(checkpoint)

BusySteps == {"preparing", "sending", "accepting", "committing", "closing"}

\* The operation that holds the runtime also holds the coordinator.
Holding(r) ==
  /\ pc[r] = "none" <=> r \notin Issued
  /\ pc[r] \in {"preparing", "sending", "accepting"} =>
       coord.prepared = r /\ coord.chain.recovery = r /\ ~coord.frozen
  /\ pc[r] = "committing" => coord.chain.head = r /\ coord.chain.recovery = 0
  /\ pc[r] \in {"accepting", "committing", "starting", "started", "invoking"} => r \in Admitted
  /\ pc[r] \in {"starting", "started", "invoking"} =>
       Authorized(r) /\ issued[r].seq <= coord.chain.seq

WorkInv ==
  /\ \A r, q \in Ids : pc[r] \in BusySteps /\ pc[q] \in BusySteps => r = q
  /\ \A r \in Ids : Holding(r)

\* The head a journal may name once the action ran.
LaterHead(r, head) == head = r \/ (head \in Issued /\ issued[head].seq > issued[r].seq)

\* What a journal entry says, whatever its operation does now.
Truthful(r) ==
  /\ journal[r].phase = "none" => journal[r] = NoJournal
  /\ journal[r].phase \in {"prepared", "remote_accepted"} =>
       journal[r].status = "none" /\ r \in Issued /\ journal[r].head = issued[r].prev
  /\ journal[r].phase \in {"committed", "invocation_started"} =>
       journal[r].status = "none" /\ r \in Issued /\ journal[r].head = r
  /\ journal[r].phase = "terminal" =>
       /\ r \in Issued
       /\ journal[r].status # "none"
       /\ journal[r].status = "nonexecuted" => journal[r].head \in {r, issued[r].prev}
       /\ journal[r].status \in Ended => LaterHead(r, journal[r].head)
  /\ r \in Started => r \in Admitted /\ Authorized(r)
  /\ fate[r] # "none" => r \in Started
  /\ journal[r].status \in {"executed", "invocation_failed"} => fate[r] = journal[r].status

\* What an operation has in the journal at each of its steps.
AtStep(r) ==
  /\ pc[r] \in {"none", "preparing"} => journal[r].phase = "none"
  /\ pc[r] \in {"sending", "accepting"} => journal[r].phase = "prepared"
  /\ pc[r] = "committing" => journal[r].phase = "remote_accepted"
  /\ pc[r] = "closing" => journal[r].phase \in {"prepared", "committed"}
  /\ pc[r] = "starting" => journal[r].phase = "committed"
  /\ pc[r] \in {"started", "invoking", "ending"} => journal[r].phase = "invocation_started"
  /\ pc[r] \in {"preparing", "accepting"} => snap[r] = issued[r].prev
  /\ pc[r] \in {"committing", "starting", "started"} => snap[r] = r
  /\ pc[r] = "closing" => snap[r] \in {r, issued[r].prev}
  /\ pc[r] = "started" => fate[r] = "none"
  /\ pc[r] = "invoking" => fate[r] = "entered"
  /\ pc[r] = "ending" => fate[r] \in Ended /\ LaterHead(r, snap[r])

JournalInv == \A r \in Ids : Truthful(r) /\ AtStep(r)

ReceiptInv == TypeOK /\ ChainInv /\ WorkInv /\ JournalInv

----------------------------------------------------------------------------
(* The chain up to a place.                                                *)

\* To follow the remote chain, field by field.
LEMMA FollowsFields ==
  ASSUME NEW chain \in Committed
  PROVE  Follows(chain) <=> /\ chain.seq <= Len(log)
                            /\ chain.head = HeadAt(chain.seq)
                            /\ chain.actions = ActionsAt(chain.seq)
                            /\ chain.suspended = SuspendedAt(chain.seq)
                            /\ chain.resolved = ResolvedAt(chain.seq)
<1>1. /\ ChainUpTo(chain.seq)["seq"] = chain.seq
      /\ ChainUpTo(chain.seq)["head"] = HeadAt(chain.seq)
      /\ ChainUpTo(chain.seq)["actions"] = ActionsAt(chain.seq)
      /\ ChainUpTo(chain.seq)["suspended"] = SuspendedAt(chain.seq)
      /\ ChainUpTo(chain.seq)["resolved"] = ResolvedAt(chain.seq)
  BY DEF ChainUpTo, HeadAt, ActionsAt, SuspendedAt, ResolvedAt
<1>2. Follows(chain) <=>
        /\ chain.seq <= Len(log)
        /\ chain["seq"] = ChainUpTo(chain.seq)["seq"]
        /\ chain["head"] = ChainUpTo(chain.seq)["head"]
        /\ chain["actions"] = ChainUpTo(chain.seq)["actions"]
        /\ chain["suspended"] = ChainUpTo(chain.seq)["suspended"]
        /\ chain["resolved"] = ChainUpTo(chain.seq)["resolved"]
  BY DEF Follows
<1> QED
  BY <1>1, <1>2

\* The entries of the remote chain are receipts, and the chain is a prefix of
\* every later one.
LEMMA LogEntries ==
  ASSUME TypeOK, NEW i \in 1..Len(log)
  PROVE  log[i] \in 1..Len(issued) /\ log[i] \in Nat \ {0} /\ issued[log[i]] \in Receipt
<1>1. log[i] \in Issued
  BY DEF TypeOK
<1>2. Issued = 1..Len(issued)
  BY DEF TypeOK, Issued
<1> QED
  BY <1>1, <1>2 DEF TypeOK

\* Signing a receipt or admitting one changes no earlier part of the chain.
Grows ==
  /\ Len(issued) <= Len(issued') /\ Len(log) <= Len(log')
  /\ \A r \in 1..Len(issued) : issued'[r] = issued[r]
  /\ \A i \in 1..Len(log) : log'[i] = log[i]

\* What a prefix of the log commits does not change when the log grows.
LEMMA PrefixKept ==
  ASSUME TypeOK, Grows, NEW n \in 0..Len(log)
  PROVE  /\ HeadAt(n)' = HeadAt(n)
         /\ ActionsAt(n)' = ActionsAt(n)
         /\ SuspendedAt(n)' = SuspendedAt(n)
         /\ ResolvedAt(n)' = ResolvedAt(n)
<1>1. \A i \in 1..n : log'[i] = log[i] /\ issued'[log'[i]] = issued[log[i]]
  BY LogEntries DEF Grows, TypeOK
<1>2. HeadAt(n)' = HeadAt(n)
  BY <1>1 DEF HeadAt
<1>3. ActionsAt(n)' = ActionsAt(n)
  BY <1>1 DEF ActionsAt
<1>4. SuspendedAt(n)' = SuspendedAt(n)
  BY <1>1 DEF SuspendedAt
<1>5. ResolvedAt(n)' = ResolvedAt(n)
  BY <1>1 DEF ResolvedAt
<1> QED
  BY <1>2, <1>3, <1>4, <1>5

\* The chain up to the next place is what a commit makes of the last.
LEMMA PrefixExtended ==
  ASSUME TypeOK, NEW n \in Nat, n + 1 <= Len(log)
  PROVE  LET r == log[n + 1]
         IN  /\ HeadAt(n + 1) = r
             /\ ActionsAt(n + 1) = IF issued[r].resolves = 0
                                     THEN ActionsAt(n) \cup {issued[r].action} ELSE ActionsAt(n)
             /\ SuspendedAt(n + 1) = IF issued[r].outcome = "STEP_UP"
                                       THEN SuspendedAt(n) \cup {r} ELSE SuspendedAt(n)
             /\ ResolvedAt(n + 1) = IF issued[r].resolves = 0
                                      THEN ResolvedAt(n) ELSE ResolvedAt(n) \cup {issued[r].resolves}
<1> DEFINE r == log[n + 1]
<1>1. 1..(n + 1) = (1..n) \cup {n + 1}
  OBVIOUS
<1>2. HeadAt(n + 1) = r
  BY DEF HeadAt
<1>3. ActionsAt(n + 1) = IF issued[r].resolves = 0
                           THEN ActionsAt(n) \cup {issued[r].action} ELSE ActionsAt(n)
  BY <1>1 DEF ActionsAt
<1>4. SuspendedAt(n + 1) = IF issued[r].outcome = "STEP_UP"
                             THEN SuspendedAt(n) \cup {r} ELSE SuspendedAt(n)
  BY <1>1 DEF SuspendedAt
<1>5. ResolvedAt(n + 1) = IF issued[r].resolves = 0
                            THEN ResolvedAt(n) ELSE ResolvedAt(n) \cup {issued[r].resolves}
  BY <1>1 DEF ResolvedAt
<1> QED
  BY <1>2, <1>3, <1>4, <1>5

\* A committed state that follows the chain, and commits the receipt that is
\* next in it, follows it still.
LEMMA ExtendedHeld ==
  ASSUME TypeOK, NEW chain \in Committed, Held(chain), NEW r \in Admitted,
         issued[r].seq = chain.seq + 1,
         \A i \in DOMAIN log : issued[log[i]].seq = i
  PROVE  /\ Extended(chain, r) \in Committed
         /\ Held(Extended(chain, r))
         /\ Extended(chain, r).seq = issued[r].seq
         /\ Extended(chain, r).head = r
         /\ Extended(chain, r).recovery = 0
<1> DEFINE new == Extended(chain, r)
<1>1. PICK i \in 1..Len(log) : r = log[i]
  <2>1. DOMAIN log = 1..Len(log)
    BY DEF TypeOK
  <2> QED
    BY <2>1 DEF Admitted
<1>2. i = chain.seq + 1 /\ chain.seq \in Nat
  BY <1>1 DEF TypeOK, Committed
<1>3. r \in 1..Len(issued) /\ issued[r] \in Receipt /\ Len(issued) <= MaxReceipts
  BY <1>1, LogEntries DEF TypeOK
<1>4. r \in Ids /\ r \in 0..MaxReceipts
  BY <1>3, StrictReceiptAssumption DEF Ids, TypeOK
<1>5. /\ new.seq = issued[r].seq
      /\ new.head = r
      /\ new.actions = IF issued[r].resolves = 0
                         THEN chain.actions \cup {issued[r].action} ELSE chain.actions
      /\ new.suspended = IF issued[r].outcome = "STEP_UP"
                           THEN chain.suspended \cup {r} ELSE chain.suspended
      /\ new.resolved = IF issued[r].resolves = 0
                          THEN chain.resolved ELSE chain.resolved \cup {issued[r].resolves}
      /\ new.recovery = 0
  BY DEF Extended, Committed
<1>6. new \in Committed
  <2>1. issued[r].seq \in 0..MaxReceipts /\ issued[r].action \in Actions
        /\ issued[r].resolves \in 0..MaxReceipts
    BY <1>3, StrictReceiptAssumption DEF Receipt
  <2>2. issued[r].resolves # 0 => issued[r].resolves \in Ids
    BY <2>1, StrictReceiptAssumption DEF Ids
  <2>3. 0 \in 0..MaxReceipts
    BY StrictReceiptAssumption
  <2>4. /\ chain.actions \in SUBSET Actions
        /\ chain.suspended \in SUBSET Ids
        /\ chain.resolved \in SUBSET Ids
    BY DEF Committed
  <2>5. /\ new.actions \in SUBSET Actions
        /\ new.suspended \in SUBSET Ids
        /\ new.resolved \in SUBSET Ids
    BY <1>4, <1>5, <2>1, <2>2, <2>4
  <2>6. new = [chain EXCEPT !.seq = issued[r].seq, !.head = r, !.actions = new.actions,
                 !.suspended = new.suspended, !.resolved = new.resolved, !.recovery = 0]
    BY DEF Extended, Committed
  <2> HIDE DEF new
  <2> QED
    BY <1>4, <2>1, <2>3, <2>5, <2>6 DEF Committed
<1>7. Follows(new)
  <2>1. /\ chain.actions = ActionsAt(chain.seq)
        /\ chain.suspended = SuspendedAt(chain.seq)
        /\ chain.resolved = ResolvedAt(chain.seq)
    BY FollowsFields DEF Held
  <2>2. /\ HeadAt(chain.seq + 1) = r
        /\ ActionsAt(chain.seq + 1) = new.actions
        /\ SuspendedAt(chain.seq + 1) = new.suspended
        /\ ResolvedAt(chain.seq + 1) = new.resolved
    <3> DEFINE n == chain.seq
    <3>1. n \in Nat /\ n + 1 <= Len(log) /\ r = log[n + 1]
      BY <1>1, <1>2
    <3> HIDE DEF n
    <3>2. /\ HeadAt(n + 1) = r
          /\ ActionsAt(n + 1) = IF issued[r].resolves = 0
                                  THEN ActionsAt(n) \cup {issued[r].action} ELSE ActionsAt(n)
          /\ SuspendedAt(n + 1) = IF issued[r].outcome = "STEP_UP"
                                    THEN SuspendedAt(n) \cup {r} ELSE SuspendedAt(n)
          /\ ResolvedAt(n + 1) = IF issued[r].resolves = 0
                                   THEN ResolvedAt(n) ELSE ResolvedAt(n) \cup {issued[r].resolves}
      BY <3>1, PrefixExtended
    <3> HIDE DEF new
    <3> QED
      BY <1>5, <2>1, <3>2 DEF n
  <2> QED
    BY <1>1, <1>2, <1>5, <1>6, <2>2, FollowsFields
<1> QED
  BY <1>5, <1>6, <1>7 DEF Held

\* To be held survives the growth of the chain.
LEMMA GrowthHeld ==
  ASSUME TypeOK, Grows, NEW chain \in Committed, Held(chain), Len(log') \in Nat,
         Issued \subseteq Issued'
  PROVE  /\ chain.seq <= Len(log')
         /\ chain.head = HeadAt(chain.seq)'
         /\ chain.actions = ActionsAt(chain.seq)'
         /\ chain.suspended = SuspendedAt(chain.seq)'
         /\ chain.resolved = ResolvedAt(chain.seq)'
         /\ chain.recovery # 0 => /\ chain.recovery \in Issued'
                                  /\ issued'[chain.recovery].seq = chain.seq + 1
<1>1. chain.seq \in 0..Len(log)
  <2>1. chain.seq \in Nat
    BY DEF Committed
  <2>2. Len(log) \in Nat
    BY DEF TypeOK
  <2> QED
    BY <2>1, <2>2 DEF Held, Follows
<1>2. /\ HeadAt(chain.seq)' = HeadAt(chain.seq)
      /\ ActionsAt(chain.seq)' = ActionsAt(chain.seq)
      /\ SuspendedAt(chain.seq)' = SuspendedAt(chain.seq)
      /\ ResolvedAt(chain.seq)' = ResolvedAt(chain.seq)
  <2> DEFINE n == chain.seq
  <2>1. n \in 0..Len(log)
    BY <1>1
  <2> QED
    BY <2>1, PrefixKept
<1>3. /\ chain.head = HeadAt(chain.seq)
      /\ chain.actions = ActionsAt(chain.seq)
      /\ chain.suspended = SuspendedAt(chain.seq)
      /\ chain.resolved = ResolvedAt(chain.seq)
  BY FollowsFields DEF Held
<1>4. chain.seq <= Len(log')
  BY <1>1 DEF Grows, TypeOK
<1>5. chain.recovery # 0 => /\ chain.recovery \in Issued'
                            /\ issued'[chain.recovery].seq = chain.seq + 1
  <2>1. Issued = 1..Len(issued)
    BY DEF TypeOK, Issued
  <2> QED
    BY <2>1 DEF Held, Grows
<1> QED
  BY <1>2, <1>3, <1>4, <1>5

----------------------------------------------------------------------------
(* Type correctness.                                                       *)

\* A committed state has room for the receipt that is signed next.
LEMMA SeqBound ==
  ASSUME TypeOK, ChainInv, NEW chain \in Committed, Held(chain)
  PROVE  chain.seq <= Len(issued)
<1>1. CASE chain.seq = 0
  BY <1>1 DEF TypeOK
<1>2. CASE chain.seq # 0
  <2>1. chain.seq \in 1..Len(log) /\ DOMAIN log = 1..Len(log)
    BY <1>2 DEF Held, Follows, Committed, TypeOK
  <2>2. issued[log[chain.seq]].seq = chain.seq
    BY <2>1 DEF ChainInv
  <2>3. log[chain.seq] \in 1..Len(issued)
    BY <2>1, LogEntries
  <2>4. issued[log[chain.seq]].seq <= log[chain.seq]
    BY <2>3 DEF ChainInv, Grounded, Issued, TypeOK
  <2> QED
    BY <2>2, <2>3, <2>4 DEF Committed, TypeOK
<1> QED
  BY <1>1, <1>2

\* The receipts are the first so many ids.
LEMMA IssuedIds ==
  ASSUME TypeOK
  PROVE  /\ Issued = 1..Len(issued) /\ Len(issued) \in 0..MaxReceipts
         /\ Issued \subseteq Ids /\ Issued \subseteq 0..MaxReceipts
         /\ \A r \in Issued : issued[r] \in Receipt
         /\ DOMAIN log = 1..Len(log) /\ Len(log) \in Nat
         /\ Admitted \subseteq Issued
  BY StrictReceiptAssumption DEF TypeOK, Issued, Ids, Admitted

\* Preparing appends one receipt, of the types, and holds it in the coordinator.
LEMMA PrepareType ==
  ASSUME TypeOK, ChainInv, NEW action \in Actions, NEW resolves \in 0..MaxReceipts,
         NEW outcome \in Outcomes, Prepare(action, resolves, outcome)
  PROVE  /\ TypeOK'
         /\ Len(issued') = Len(issued) + 1
         /\ Len(issued) + 1 \in Ids \ Issued
         /\ Issued' = Issued \cup {Len(issued) + 1}
         /\ issued'[Len(issued) + 1] =
              [action |-> action, resolves |-> resolves, outcome |-> outcome,
               seq |-> coord.chain.seq + 1, prev |-> ChainHead]
         /\ \A r \in Issued : issued'[r] = issued[r]
<1> DEFINE r == Len(issued) + 1
           receipt == [action |-> action, resolves |-> resolves, outcome |-> outcome,
                       seq |-> coord.chain.seq + 1, prev |-> ChainHead]
<1>1. r \in 1..MaxReceipts /\ Len(issued) \in Nat /\ issued' = Append(issued, receipt)
  BY StrictReceiptAssumption DEF Prepare, TypeOK
<1>2. coord.chain.seq <= Len(issued) /\ coord.chain.seq \in Nat
  <2>1. coord.chain \in Committed /\ Held(coord.chain)
    BY DEF TypeOK, ChainInv
  <2>2. coord.chain.seq \in Nat
    BY <2>1 DEF Committed
  <2> QED
    BY <2>1, <2>2, SeqBound
<1>3. receipt \in Receipt
  <2>1. coord.chain.seq + 1 \in 1..MaxReceipts
    BY <1>1, <1>2, StrictReceiptAssumption
  <2>2. ChainHead \in 0..MaxReceipts
    BY DEF TypeOK, Committed, ChainHead
  <2>3. outcome \in {"ALLOW", "DENY", "STEP_UP"}
    BY DEF Outcomes
  <2> QED
    BY <2>1, <2>2, <2>3 DEF Receipt, Outcomes
<1>4. /\ issued' \in Seq(Receipt)
      /\ Len(issued') = r
      /\ issued'[r] = receipt
      /\ \A q \in 1..Len(issued) : issued'[q] = issued[q]
  <2> HIDE DEF receipt
  <2> QED
    BY <1>1, <1>3 DEF TypeOK
<1>5. Issued = 1..Len(issued) /\ Issued' = 1..r
  BY <1>4 DEF TypeOK, Issued
<1>6. Issued' = Issued \cup {r} /\ r \notin Issued /\ r \in Ids
  BY <1>1, <1>5 DEF Ids
<1>7. coord' \in [chain : Committed, prepared : 0..MaxReceipts, frozen : BOOLEAN]
  <2>1. r \in 0..MaxReceipts
    BY <1>1, StrictReceiptAssumption
  <2>2. coord' = [coord EXCEPT !.prepared = r, !.chain = [coord.chain EXCEPT !.recovery = r]]
    BY DEF Prepare, TypeOK
  <2>3. [coord.chain EXCEPT !.recovery = r] \in Committed
    BY <2>1 DEF TypeOK, Committed
  <2> QED
    BY <2>1, <2>2, <2>3 DEF TypeOK
<1>8. pc' \in [Ids -> Steps] /\ snap' \in [Ids -> 0..MaxReceipts]
  <2>1. ChainHead \in 0..MaxReceipts
    BY DEF TypeOK, Committed, ChainHead
  <2> QED
    BY <2>1 DEF TypeOK, Prepare, Steps
<1>9. log' \in Seq(Issued') /\ sent' \subseteq Issued'
  <2>1. log \in Seq(Issued) /\ Issued \subseteq Issued' /\ sent \subseteq Issued
    BY <1>6 DEF TypeOK
  <2>2. log \in Seq(Issued')
    BY <2>1
  <2> QED
    BY <2>1, <2>2 DEF Prepare
<1>10. TypeOK'
  <2>1. Len(issued') <= MaxReceipts
    BY <1>1, <1>4
  <2> QED
    BY <1>4, <1>7, <1>8, <1>9, <2>1 DEF TypeOK, Prepare
<1> QED
  BY <1>4, <1>5, <1>6, <1>10

\* The coordinator's own changes keep its type.
LEMMA AbortHeld ==
  ASSUME TypeOK, ChainInv, AbortPrepared, UNCHANGED <<issued, log>>
  PROVE  /\ coord' \in [chain : Committed, prepared : 0..MaxReceipts, frozen : BOOLEAN]
         /\ Held(coord'.chain)
         /\ coord'.chain.seq = coord.chain.seq /\ coord'.chain.head = coord.chain.head
<1> DEFINE chain == [coord.chain EXCEPT !.recovery = 0]
<1>1. coord.chain \in Committed /\ Held(coord.chain)
  BY DEF TypeOK, ChainInv
<1>2. chain \in Committed
  BY <1>1, StrictReceiptAssumption DEF Committed
<1>3. /\ chain.seq = coord.chain.seq /\ chain.head = coord.chain.head
      /\ chain.actions = coord.chain.actions /\ chain.suspended = coord.chain.suspended
      /\ chain.resolved = coord.chain.resolved /\ chain.recovery = 0
  BY <1>1 DEF Committed
<1>4. coord' = [chain |-> chain, prepared |-> 0, frozen |-> FALSE]
  BY DEF AbortPrepared, Restored
<1> HIDE DEF chain
<1>5. Follows(chain)
  BY <1>1, <1>2, <1>3, FollowsFields DEF Held
<1>6. Held(chain)
  BY <1>3, <1>5 DEF Held
<1> QED
  BY <1>2, <1>3, <1>4, <1>6, StrictReceiptAssumption

\* Committing an admitted receipt moves the session one place along the log.
LEMMA CommitHeld ==
  ASSUME TypeOK, ChainInv, NEW r \in Admitted, coord.chain.recovery = r, CommitPrepared(r),
         UNCHANGED <<issued, log>>
  PROVE  /\ coord' \in [chain : Committed, prepared : 0..MaxReceipts, frozen : BOOLEAN]
         /\ Held(coord'.chain)
         /\ coord'.chain.seq = coord.chain.seq + 1 /\ coord'.chain.seq = issued[r].seq
         /\ coord'.chain.head = r /\ coord'.chain.recovery = 0
<1>1. coord.chain \in Committed /\ Held(coord.chain)
  BY DEF TypeOK, ChainInv
<1>2. r # 0
  BY IssuedIds
<1>3. issued[r].seq = coord.chain.seq + 1
  BY <1>1, <1>2 DEF Held
<1>4. coord' = [chain |-> Extended(coord.chain, r), prepared |-> 0, frozen |-> FALSE]
  BY DEF CommitPrepared, Restored
<1>5. /\ Extended(coord.chain, r) \in Committed
      /\ Held(Extended(coord.chain, r))
      /\ Extended(coord.chain, r).seq = issued[r].seq
      /\ Extended(coord.chain, r).head = r
      /\ Extended(coord.chain, r).recovery = 0
  BY <1>1, <1>3, ExtendedHeld DEF ChainInv
<1> QED
  BY <1>3, <1>4, <1>5, StrictReceiptAssumption

\* Freezing leaves the committed chain alone.
LEMMA FreezeHeld ==
  ASSUME TypeOK, ChainInv, FreezePrepared
  PROVE  /\ coord' \in [chain : Committed, prepared : 0..MaxReceipts, frozen : BOOLEAN]
         /\ Held(coord'.chain) /\ coord'.chain = coord.chain
  BY DEF TypeOK, ChainInv, FreezePrepared

\* Reconciling commits the recovered receipt, one place further along the log.
LEMMA ReconcileHeld ==
  ASSUME TypeOK, ChainInv, ReconcileAccepted
  PROVE  /\ coord' \in [chain : Committed, prepared : 0..MaxReceipts, frozen : BOOLEAN]
         /\ Held(coord'.chain)
         /\ coord'.chain.seq = coord.chain.seq + 1
<1> DEFINE r == coord.chain.recovery
<1>1. coord.chain \in Committed /\ Held(coord.chain) /\ r \in Admitted /\ r # 0
  BY DEF TypeOK, ChainInv, ReconcileAccepted
<1>2. issued[r].seq = coord.chain.seq + 1
  BY <1>1 DEF Held
<1>3. coord' = [coord EXCEPT !.chain = Extended(coord.chain, r)]
  BY DEF ReconcileAccepted
<1>4. /\ Extended(coord.chain, r) \in Committed
      /\ Held(Extended(coord.chain, r))
      /\ Extended(coord.chain, r).seq = issued[r].seq
  <2> HIDE DEF r
  <2> QED
    BY <1>1, <1>2, ExtendedHeld DEF ChainInv
<1> QED
  BY <1>2, <1>3, <1>4 DEF TypeOK

\* Journals keep their type, whichever entry is written.
LEMMA WrittenType ==
  ASSUME TypeOK, NEW r \in Ids, NEW phase \in Phases, NEW status \in {"none", "nonexecuted"} \cup Ended,
         MaybeWritten(r, phase, status)
  PROVE  journal' \in [Ids -> Journal]
<1>1. Entry(r, phase, status) \in Journal
  BY DEF Entry, Journal, TypeOK
<1> QED
  BY <1>1 DEF MaybeWritten, Written, TypeOK

\* And so does the runtime, frozen or not.
LEMMA FinishedType ==
  ASSUME TypeOK, NEW r \in Issued
  PROVE  /\ Finished(r) \in [frozen : BOOLEAN, decided : SUBSET Actions, resolved : SUBSET Ids]
         /\ Frozen(r) \in [frozen : BOOLEAN, decided : SUBSET Actions, resolved : SUBSET Ids]
<1>1. issued[r].action \in Actions /\ issued[r].resolves \in 0..MaxReceipts
  BY IssuedIds DEF Receipt
<1>2. issued[r].resolves # 0 => issued[r].resolves \in Ids
  BY <1>1, StrictReceiptAssumption DEF Ids
<1>3. Finished(r) \in [frozen : BOOLEAN, decided : SUBSET Actions, resolved : SUBSET Ids]
  BY <1>1, <1>2 DEF Finished, TypeOK
<1> QED
  BY <1>3 DEF Frozen

\* What a decision and a resolution ask to be signed.
LEMMA DecisionAsks ==
  ASSUME TypeOK, ChainInv, RunDecision
  PROVE  \E a \in Actions, outcome \in Outcomes :
           /\ a \notin ActionsAt(coord.chain.seq)
           /\ Prepare(a, 0, outcome)
<1>1. PICK a \in Actions, outcome \in Verdicts : NewDecision(a) /\ Prepare(a, 0, outcome)
  BY DEF RunDecision
<1>2. outcome \in Outcomes
  BY StrictReceiptAssumption DEF Outcomes
<1>3. coord.chain \in Committed /\ Held(coord.chain)
  BY DEF TypeOK, ChainInv
<1>4. coord.chain.actions = ActionsAt(coord.chain.seq)
  BY <1>3, FollowsFields DEF Held
<1> QED
  BY <1>1, <1>2, <1>4 DEF NewDecision

\* An approval is about a suspension of the committed session that no receipt
\* resolved.
LEMMA ApprovalAsks ==
  ASSUME TypeOK, ChainInv, RunApproval
  PROVE  \E s \in SuspendedAt(coord.chain.seq), outcome \in Outcomes \ {"STEP_UP"} :
           /\ s \notin ResolvedAt(coord.chain.seq)
           /\ s \in Issued /\ s # 0
           /\ Prepare(issued[s].action, s, outcome)
<1>1. PICK s \in coord.chain.suspended, outcome \in Verdicts \ {"STEP_UP"} :
        NewResolution(s) /\ Prepare(issued[s].action, s, outcome)
  BY DEF RunApproval
<1>2. outcome \in Outcomes \ {"STEP_UP"}
  BY StrictReceiptAssumption DEF Outcomes
<1>3. coord.chain \in Committed /\ Held(coord.chain)
  BY DEF TypeOK, ChainInv
<1>4. /\ coord.chain.suspended = SuspendedAt(coord.chain.seq)
      /\ coord.chain.resolved = ResolvedAt(coord.chain.seq)
      /\ coord.chain.seq <= Len(log)
  BY <1>3, FollowsFields DEF Held
<1>5. s \in Issued
  <2>1. PICK i \in 1..coord.chain.seq : s = log[i]
    BY <1>4 DEF SuspendedAt
  <2>2. i \in 1..Len(log)
    BY <1>3, <1>4, <2>1 DEF Committed, TypeOK
  <2> QED
    BY <2>1, <2>2, LogEntries, IssuedIds
<1>6. s # 0
  BY <1>5, IssuedIds
<1> QED
  BY <1>1, <1>2, <1>4, <1>5, <1>6 DEF NewResolution

\* Every step keeps the types.
LEMMA TypeStep ==
  ASSUME ReceiptInv, Next
  PROVE  TypeOK'
<1> USE DEF ReceiptInv
<1>t. /\ Issued \subseteq Ids /\ DOMAIN log = 1..Len(log) /\ Len(log) \in Nat
      /\ Admitted \subseteq Issued
  BY IssuedIds
<1>h. ChainHead \in 0..MaxReceipts
  BY DEF TypeOK, Committed, ChainHead
<1>1. CASE RunDecision
  <2>1. PICK a \in Actions, outcome \in Outcomes : Prepare(a, 0, outcome)
    BY <1>1, DecisionAsks
  <2>2. 0 \in 0..MaxReceipts
    BY StrictReceiptAssumption
  <2> QED
    BY <2>1, <2>2, PrepareType
<1>2. CASE RunApproval
  <2>1. PICK s \in SuspendedAt(coord.chain.seq), outcome \in Outcomes \ {"STEP_UP"} :
          s \in Issued /\ Prepare(issued[s].action, s, outcome)
    BY <1>2, ApprovalAsks
  <2>2. issued[s].action \in Actions /\ s \in 0..MaxReceipts /\ outcome \in Outcomes
    BY <2>1, IssuedIds DEF Receipt
  <2> QED
    BY <2>1, <2>2, PrepareType
<1>3. CASE BindingUnavailable
  <2>1. runtime' \in [frozen : BOOLEAN, decided : SUBSET Actions, resolved : SUBSET Ids]
    <3>1. coord.chain.suspended \subseteq Ids
      BY DEF TypeOK, Committed
    <3>2. CASE \E a \in Actions : runtime' = [runtime EXCEPT !.decided = @ \cup {a}]
      <4>1. PICK a \in Actions : runtime' = [runtime EXCEPT !.decided = @ \cup {a}]
        BY <3>2
      <4>2. runtime.decided \cup {a} \in SUBSET Actions
        BY DEF TypeOK
      <4> QED
        BY <4>1, <4>2 DEF TypeOK
    <3>3. CASE \E s \in coord.chain.suspended : runtime' = [runtime EXCEPT !.resolved = @ \cup {s}]
      <4>1. PICK s \in Ids : runtime' = [runtime EXCEPT !.resolved = @ \cup {s}]
        BY <3>1, <3>3
      <4>2. runtime.resolved \cup {s} \in SUBSET Ids
        BY DEF TypeOK
      <4> QED
        BY <4>1, <4>2 DEF TypeOK
    <3> QED
      BY <1>3, <3>2, <3>3 DEF BindingUnavailable
  <2> QED
    BY <1>3, <2>1 DEF BindingUnavailable, TypeOK, Issued
<1>4. ASSUME NEW r \in Issued, SavePrepared(r)
      PROVE  TypeOK'
  <2>1. journal' \in [Ids -> Journal]
    BY <1>t, <1>4, WrittenType DEF SavePrepared, MaybeWritten, Phases
  <2>2. coord' \in [chain : Committed, prepared : 0..MaxReceipts, frozen : BOOLEAN]
    BY <1>4, AbortHeld DEF SavePrepared, TypeOK
  <2>3. runtime' \in [frozen : BOOLEAN, decided : SUBSET Actions, resolved : SUBSET Ids]
    BY <1>4, FinishedType DEF SavePrepared, TypeOK
  <2>4. pc' \in [Ids -> Steps] /\ sent' \subseteq Issued
    BY <1>4 DEF SavePrepared, Goes, TypeOK, Steps
  <2> QED
    BY <1>4, <2>1, <2>2, <2>3, <2>4 DEF SavePrepared, TypeOK, Issued
<1>5. ASSUME NEW r \in Issued, AdmissionAccepted(r)
      PROVE  TypeOK'
  <2>1. pc' \in [Ids -> Steps] /\ snap' \in [Ids -> 0..MaxReceipts]
    BY <1>h, <1>5 DEF AdmissionAccepted, Persists, Goes, TypeOK, Steps
  <2> QED
    BY <1>5, <2>1 DEF AdmissionAccepted, TypeOK, Issued
<1>6. ASSUME NEW r \in Issued, AdmissionRefused(r)
      PROVE  TypeOK'
  <2>1. coord' \in [chain : Committed, prepared : 0..MaxReceipts, frozen : BOOLEAN]
    BY <1>6, AbortHeld DEF AdmissionRefused
  <2>2. pc' \in [Ids -> Steps] /\ snap' \in [Ids -> 0..MaxReceipts]
    BY <1>h, <1>6 DEF AdmissionRefused, Persists, Goes, TypeOK, Steps
  <2> QED
    BY <1>6, <2>1, <2>2 DEF AdmissionRefused, TypeOK, Issued
<1>7. ASSUME NEW r \in Issued, AdmissionUncertain(r)
      PROVE  TypeOK'
  <2>1. coord' \in [chain : Committed, prepared : 0..MaxReceipts, frozen : BOOLEAN]
    BY <1>7, FreezeHeld DEF AdmissionUncertain
  <2>2. runtime' \in [frozen : BOOLEAN, decided : SUBSET Actions, resolved : SUBSET Ids]
    BY <1>7, FinishedType DEF AdmissionUncertain
  <2>3. pc' \in [Ids -> Steps]
    BY <1>7 DEF AdmissionUncertain, Goes, TypeOK, Steps
  <2> QED
    BY <1>7, <2>1, <2>2, <2>3 DEF AdmissionUncertain, TypeOK, Issued
<1>8. ASSUME NEW r \in Issued, SaveAccepted(r)
      PROVE  TypeOK'
  <2>1. journal' \in [Ids -> Journal]
    BY <1>t, <1>8, WrittenType DEF SaveAccepted, MaybeWritten, Phases
  <2>2. coord' \in [chain : Committed, prepared : 0..MaxReceipts, frozen : BOOLEAN]
    <3>1. r \in Admitted /\ coord.chain.recovery = r
      BY <1>t, <1>8 DEF SaveAccepted, WorkInv, Holding
    <3> QED
      BY <1>8, <3>1, CommitHeld, FreezeHeld DEF SaveAccepted
  <2>3. runtime' \in [frozen : BOOLEAN, decided : SUBSET Actions, resolved : SUBSET Ids]
    BY <1>8, FinishedType DEF SaveAccepted, TypeOK
  <2>4. pc' \in [Ids -> Steps] /\ snap' \in [Ids -> 0..MaxReceipts]
    <3>1. r \in 0..MaxReceipts
      BY IssuedIds
    <3>2. CASE Persists(r, "committing", r)
      BY <3>1, <3>2 DEF Goes, Persists, TypeOK, Steps
    <3>3. CASE Goes(r, "over") /\ UNCHANGED snap
      BY <3>3 DEF Goes, TypeOK, Steps
    <3> QED
      BY <1>8, <3>2, <3>3 DEF SaveAccepted
  <2> QED
    BY <1>8, <2>1, <2>2, <2>3, <2>4 DEF SaveAccepted, TypeOK, Issued
<1>9. ASSUME NEW r \in Issued, SaveCommitted(r)
      PROVE  TypeOK'
  <2>1. journal' \in [Ids -> Journal]
    BY <1>t, <1>9, WrittenType DEF SaveCommitted, MaybeWritten, Phases
  <2>2. runtime' \in [frozen : BOOLEAN, decided : SUBSET Actions, resolved : SUBSET Ids]
    BY <1>9, FinishedType DEF SaveCommitted, TypeOK
  <2>3. pc' \in [Ids -> Steps] /\ snap' \in [Ids -> 0..MaxReceipts]
    <3>1. CASE Persists(r, IF Authorized(r) THEN "starting" ELSE "closing", ChainHead)
      BY <1>h, <3>1 DEF Goes, Persists, TypeOK, Steps
    <3>2. CASE Goes(r, "over") /\ UNCHANGED snap
      BY <3>2 DEF Goes, TypeOK, Steps
    <3> QED
      BY <1>9, <3>1, <3>2 DEF SaveCommitted
  <2> QED
    BY <1>9, <2>1, <2>2, <2>3 DEF SaveCommitted, TypeOK, Issued
<1>10. ASSUME NEW r \in Issued, SaveNonexecuted(r)
       PROVE  TypeOK'
  <2>1. journal' \in [Ids -> Journal]
    BY <1>t, <1>10, WrittenType DEF SaveNonexecuted, MaybeWritten, Phases
  <2>2. runtime' \in [frozen : BOOLEAN, decided : SUBSET Actions, resolved : SUBSET Ids]
    BY <1>10, FinishedType DEF SaveNonexecuted, TypeOK
  <2>3. pc' \in [Ids -> Steps]
    BY <1>10 DEF SaveNonexecuted, Goes, TypeOK, Steps
  <2> QED
    BY <1>10, <2>1, <2>2, <2>3 DEF SaveNonexecuted, TypeOK, Issued
<1>11. ASSUME NEW r \in Issued, SaveStarted(r)
       PROVE  TypeOK'
  <2>1. journal' \in [Ids -> Journal]
    BY <1>t, <1>11, WrittenType DEF SaveStarted, MaybeWritten, Phases
  <2>2. runtime' \in [frozen : BOOLEAN, decided : SUBSET Actions, resolved : SUBSET Ids]
    BY <1>11, FinishedType DEF SaveStarted, TypeOK
  <2>3. pc' \in [Ids -> Steps]
    BY <1>11 DEF SaveStarted, Goes, TypeOK, Steps
  <2> QED
    BY <1>11, <2>1, <2>2, <2>3 DEF SaveStarted, TypeOK, Issued
<1>12. ASSUME NEW r \in Issued, Invoke(r)
       PROVE  TypeOK'
  <2>1. runtime' \in [frozen : BOOLEAN, decided : SUBSET Actions, resolved : SUBSET Ids]
    BY <1>12, FinishedType DEF Invoke
  <2>2. pc' \in [Ids -> Steps] /\ fate' \in [Ids -> {"none", "entered"} \cup Ended]
    BY <1>12 DEF Invoke, Goes, TypeOK, Steps
  <2> QED
    BY <1>12, <2>1, <2>2 DEF Invoke, TypeOK, Issued
<1>13. ASSUME NEW r \in Issued, InvocationEnds(r)
       PROVE  TypeOK'
  <2>1. runtime' \in [frozen : BOOLEAN, decided : SUBSET Actions, resolved : SUBSET Ids]
    BY <1>13, FinishedType DEF InvocationEnds, TypeOK
  <2>2. pc' \in [Ids -> Steps] /\ snap' \in [Ids -> 0..MaxReceipts]
    <3>1. CASE Persists(r, "ending", ChainHead)
      BY <1>h, <3>1 DEF Goes, Persists, TypeOK, Steps
    <3>2. CASE Goes(r, "over") /\ UNCHANGED snap
      BY <3>2 DEF Goes, TypeOK, Steps
    <3> QED
      BY <1>13, <3>1, <3>2 DEF InvocationEnds
  <2>3. fate' \in [Ids -> {"none", "entered"} \cup Ended]
    <3>1. PICK outcome \in Ended : fate' = [fate EXCEPT ![r] = outcome]
      BY <1>13, StrictReceiptAssumption DEF InvocationEnds, Ended
    <3> QED
      BY <3>1 DEF TypeOK
  <2> QED
    BY <1>13, <2>1, <2>2, <2>3 DEF InvocationEnds, TypeOK, Issued
<1>14. ASSUME NEW r \in Issued, SaveOutcome(r)
       PROVE  TypeOK'
  <2>1. journal' \in [Ids -> Journal]
    <3>1. fate[r] \in Ended
      BY <1>t, <1>14 DEF SaveOutcome, JournalInv, AtStep
    <3> QED
      BY <1>t, <1>14, <3>1, WrittenType DEF SaveOutcome, MaybeWritten, Phases
  <2>2. runtime' \in [frozen : BOOLEAN, decided : SUBSET Actions, resolved : SUBSET Ids]
    BY <1>14, FinishedType DEF SaveOutcome, TypeOK
  <2>3. pc' \in [Ids -> Steps]
    BY <1>14 DEF SaveOutcome, Goes, TypeOK, Steps
  <2> QED
    BY <1>14, <2>1, <2>2, <2>3 DEF SaveOutcome, TypeOK, Issued
<1>15. ASSUME NEW r \in Issued, StoreReceipt(r)
       PROVE  TypeOK'
  <2>1. log' \in Seq(Issued)
    BY <1>15 DEF StoreReceipt, TypeOK
  <2>2. Issued' = Issued /\ UNCHANGED <<issued, sent, coord, runtime, pc, snap, journal, checkpoint, fate, crashes>>
    BY <1>15 DEF StoreReceipt, Issued
  <2> QED
    BY <2>1, <2>2 DEF TypeOK
<1>16. ASSUME NEW r \in Issued, FinalizeInterrupted(r)
       PROVE  TypeOK'
  <2>1. journal' \in [Ids -> Journal]
    <3>1. journal' = [journal EXCEPT ![r] = [journal[r] EXCEPT !.phase = "terminal",
                                                             !.status = "invocation_uncertain"]]
      BY <1>t, <1>16 DEF FinalizeInterrupted, TypeOK, Journal
    <3>2. [journal[r] EXCEPT !.phase = "terminal", !.status = "invocation_uncertain"] \in Journal
      <4>1. journal[r] \in Journal
        BY <1>t DEF TypeOK
      <4>2. "terminal" \in Phases /\ "invocation_uncertain" \in {"none", "nonexecuted"} \cup Ended
        BY DEF Phases, Ended
      <4> QED
        BY <4>1, <4>2 DEF Journal
    <3> QED
      BY <3>1, <3>2 DEF TypeOK
  <2> QED
    BY <1>16, <2>1 DEF FinalizeInterrupted, TypeOK, Issued
<1>17. CASE ExportCheckpoint
  BY <1>17 DEF ExportCheckpoint, TypeOK, Issued
<1>18. CASE CrashAndRestore
  <2>1. coord' \in [chain : Committed, prepared : 0..MaxReceipts, frozen : BOOLEAN]
    BY <1>18, StrictReceiptAssumption DEF CrashAndRestore, Restored, TypeOK
  <2>2. runtime' \in [frozen : BOOLEAN, decided : SUBSET Actions, resolved : SUBSET Ids]
    BY <1>18 DEF CrashAndRestore, FreshRuntime
  <2>3. pc' \in [Ids -> Steps] /\ crashes' \in 0..MaxCrashes
    BY <1>18, StrictReceiptAssumption DEF CrashAndRestore, TypeOK, Steps
  <2> QED
    BY <1>18, <2>1, <2>2, <2>3 DEF CrashAndRestore, TypeOK, Issued
<1>19. CASE ReconcileAccepted
  <2>1. coord' \in [chain : Committed, prepared : 0..MaxReceipts, frozen : BOOLEAN]
    BY <1>19, ReconcileHeld
  <2> QED
    BY <1>19, <2>1 DEF ReconcileAccepted, TypeOK, Issued
<1> QED
  BY <1>1, <1>2, <1>3, <1>4, <1>5, <1>6, <1>7, <1>8, <1>9, <1>10, <1>11, <1>12, <1>13, <1>14,
     <1>15, <1>16, <1>17, <1>18, <1>19 DEF Next, Runs

----------------------------------------------------------------------------
(* The coordinator follows the remote chain.                               *)

\* What was checked when a receipt was signed stays true.
LEMMA GroundedKept ==
  ASSUME TypeOK, Grows, NEW r \in Issued, Grounded(r)
  PROVE  Grounded(r)'
<1> DEFINE n == issued[r].seq - 1
           s == issued[r].resolves
<1>1. r \in 1..Len(issued) /\ issued[r] \in Receipt /\ Len(log) \in Nat
  BY IssuedIds
<1>2. issued'[r] = issued[r]
  BY <1>1 DEF Grows
<1>3. n \in 0..Len(log)
  BY <1>1 DEF Grounded, Receipt
<1>4. n <= Len(log')
  BY <1>1, <1>3 DEF Grows
<1>5. /\ HeadAt(n)' = HeadAt(n)
      /\ ActionsAt(n)' = ActionsAt(n)
      /\ SuspendedAt(n)' = SuspendedAt(n)
      /\ ResolvedAt(n)' = ResolvedAt(n)
  <2>1. n' = n
    BY <1>2
  <2>2. \A i \in 1..n : log'[i] = log[i] /\ issued'[log'[i]] = issued[log[i]]
    <3>1. \A i \in 1..n : i \in 1..Len(log)
      BY <1>1, <1>3
    <3> HIDE DEF n
    <3>2. QED
      BY <3>1, LogEntries DEF Grows, TypeOK
  <2> HIDE DEF n
  <2>3. HeadAt(n)' = HeadAt(n)
    BY <1>3, <2>1, <2>2 DEF HeadAt
  <2>4. ActionsAt(n)' = ActionsAt(n)
    BY <2>1, <2>2 DEF ActionsAt
  <2>5. SuspendedAt(n)' = SuspendedAt(n)
    BY <2>1, <2>2 DEF SuspendedAt
  <2>6. ResolvedAt(n)' = ResolvedAt(n)
    BY <2>1, <2>2 DEF ResolvedAt
  <2> QED
    BY <2>3, <2>4, <2>5, <2>6
<1>6. s # 0 => issued'[s] = issued[s]
  <2>1. SUFFICES ASSUME s # 0 PROVE s \in 1..Len(issued)
    BY DEF Grows
  <2>2. PICK i \in 1..n : s = log[i]
    BY <2>1 DEF Grounded, SuspendedAt
  <2>3. i \in 1..Len(log)
    BY <1>1, <1>3, <2>2
  <2> QED
    BY <2>2, <2>3, LogEntries
<1> QED
  BY <1>2, <1>4, <1>5, <1>6 DEF Grounded

\* Nothing signed and nothing admitted: the chain of a coordinator is all that
\* may have changed.
LEMMA ChainOfCoordinator ==
  ASSUME TypeOK, ChainInv, UNCHANGED <<issued, log>>,
         Held(coord'.chain), Held(checkpoint')
  PROVE  ChainInv'
<1>1. \A r \in Issued' : Grounded(r)'
  BY DEF ChainInv, Grounded, Issued, HeadAt, ActionsAt, SuspendedAt, ResolvedAt
<1>2. \A i \in DOMAIN log' : issued'[log'[i]].seq = i
  BY DEF ChainInv
<1>3. Held(coord.chain)' /\ Held(checkpoint)'
  BY DEF Held, Follows, ChainUpTo, Issued
<1> QED
  BY <1>1, <1>2, <1>3 DEF ChainInv

\* A committed state that was held, in a state where the chain has grown.
LEMMA HeldAfterGrowth ==
  ASSUME TypeOK, Grows, TypeOK', NEW chain \in Committed, Held(chain), Issued \subseteq Issued'
  PROVE  Held(chain)'
<1>1. Len(log') \in Nat
  BY DEF TypeOK
<1>2. /\ chain.seq <= Len(log')
      /\ chain.head = HeadAt(chain.seq)'
      /\ chain.actions = ActionsAt(chain.seq)'
      /\ chain.suspended = SuspendedAt(chain.seq)'
      /\ chain.resolved = ResolvedAt(chain.seq)'
      /\ chain.recovery # 0 => /\ chain.recovery \in Issued'
                               /\ issued'[chain.recovery].seq = chain.seq + 1
  BY <1>1, GrowthHeld
<1>3. Follows(chain)'
  <2>1. /\ ChainUpTo(chain.seq)'["seq"] = chain.seq
        /\ ChainUpTo(chain.seq)'["head"] = HeadAt(chain.seq)'
        /\ ChainUpTo(chain.seq)'["actions"] = ActionsAt(chain.seq)'
        /\ ChainUpTo(chain.seq)'["suspended"] = SuspendedAt(chain.seq)'
        /\ ChainUpTo(chain.seq)'["resolved"] = ResolvedAt(chain.seq)'
    BY DEF ChainUpTo, HeadAt, ActionsAt, SuspendedAt, ResolvedAt
  <2> QED
    BY <1>2, <2>1 DEF Follows
<1> QED
  BY <1>2, <1>3 DEF Held

\* A committed state with another receipt to recover follows the same chain.
LEMMA RecoveryField ==
  ASSUME NEW old, NEW new, old \in Committed, NEW r, new = [old EXCEPT !.recovery = r],
         Follows(old)'
  PROVE  Follows(new)'
<1>1. /\ new.seq = old.seq /\ new.head = old.head /\ new.actions = old.actions
      /\ new.suspended = old.suspended /\ new.resolved = old.resolved
  BY DEF Committed
<1> QED
  BY <1>1 DEF Follows, ChainUpTo

\* Signing a receipt that is grounded in the coordinator's chain.
LEMMA PrepareChain ==
  ASSUME TypeOK, ChainInv, NEW action \in Actions, NEW resolves \in 0..MaxReceipts,
         NEW outcome \in Outcomes, Prepare(action, resolves, outcome),
         resolves = 0 => action \notin ActionsAt(coord.chain.seq),
         resolves # 0 => /\ resolves \in SuspendedAt(coord.chain.seq) \ ResolvedAt(coord.chain.seq)
                         /\ resolves \in Issued
                         /\ action = issued[resolves].action
                         /\ outcome # "STEP_UP"
  PROVE  ChainInv'
<1>0. PICK r : r = Len(issued) + 1
  OBVIOUS
<1>1. /\ TypeOK'
      /\ Len(issued') = r
      /\ r \in Ids \ Issued
      /\ Issued' = Issued \cup {r}
      /\ issued'[r] = [action |-> action, resolves |-> resolves, outcome |-> outcome,
                       seq |-> coord.chain.seq + 1, prev |-> ChainHead]
      /\ \A q \in Issued : issued'[q] = issued[q]
  BY <1>0, PrepareType
<1>2. /\ Issued = 1..Len(issued) /\ Len(issued) \in Nat /\ Len(log) \in Nat
      /\ DOMAIN log = 1..Len(log)
  BY IssuedIds, StrictReceiptAssumption
<1>3. log' = log /\ checkpoint' = checkpoint
  BY DEF Prepare
<1>4. Grows
  BY <1>0, <1>1, <1>2, <1>3 DEF Grows
<1>5. PICK old : old = coord.chain
  OBVIOUS
<1>6. old \in Committed /\ Held(old) /\ Follows(old) /\ old.seq \in 0..Len(log) /\ old.head = HeadAt(old.seq)
  <2>1. old \in Committed /\ Held(old)
    BY <1>5 DEF TypeOK, ChainInv
  <2>2. Follows(old) /\ old.head = HeadAt(old.seq)
    BY <2>1, FollowsFields DEF Held
  <2> QED
    BY <1>2, <2>1, <2>2 DEF Follows, Committed
<1>7. PICK kept : kept = checkpoint /\ kept \in Committed /\ Held(kept)
  BY DEF TypeOK, ChainInv
<1>8. ASSUME NEW q \in Issued
      PROVE  Grounded(q)'
  BY <1>4, GroundedKept DEF ChainInv
<1>9. Grounded(r)'
  <2> DEFINE n == old.seq
  <2>1. old.seq <= Len(issued)
    BY <1>6, SeqBound
  <2>2. /\ HeadAt(n)' = HeadAt(n)
        /\ ActionsAt(n)' = ActionsAt(n)
        /\ SuspendedAt(n)' = SuspendedAt(n)
        /\ ResolvedAt(n)' = ResolvedAt(n)
    BY <1>4, <1>6, PrefixKept
  <2>3. /\ issued'[r].seq = n + 1 /\ issued'[r].prev = old.head /\ issued'[r].resolves = resolves
        /\ issued'[r].action = action /\ issued'[r].outcome = outcome
    BY <1>1, <1>5 DEF ChainHead
  <2>4. issued'[r].seq - 1 = n /\ n <= Len(log')
    BY <1>3, <1>6, <2>3
  <2>5. resolves # 0 => issued'[resolves].action = issued[resolves].action
    BY <1>1
  <2>6. /\ resolves = 0 => action \notin ActionsAt(n)
        /\ resolves # 0 => /\ resolves \in SuspendedAt(n) /\ resolves \notin ResolvedAt(n)
                           /\ action = issued[resolves].action /\ outcome # "STEP_UP"
    BY <1>5
  <2>7. issued'[r].seq <= r
    BY <1>0, <1>2, <1>6, <2>1, <2>3
  <2> HIDE DEF n
  <2>8. /\ HeadAt(issued[r].seq - 1)' = HeadAt(n)
        /\ ActionsAt(issued[r].seq - 1)' = ActionsAt(n)
        /\ SuspendedAt(issued[r].seq - 1)' = SuspendedAt(n)
        /\ ResolvedAt(issued[r].seq - 1)' = ResolvedAt(n)
    BY <2>2, <2>4 DEF n, HeadAt, ActionsAt, SuspendedAt, ResolvedAt
  <2> QED
    BY <2>2, <2>3, <2>4, <2>5, <2>6, <2>7, <2>8, <1>6 DEF Grounded, n
<1>10. \A i \in DOMAIN log' : issued'[log'[i]].seq = i
  BY <1>1, <1>2, <1>3, LogEntries DEF ChainInv
<1>11. Held(coord.chain)'
  <2>1. PICK new : new = [old EXCEPT !.recovery = r]
    OBVIOUS
  <2>2. coord'.chain = new
    BY <1>0, <1>5, <2>1 DEF Prepare, TypeOK
  <2>3. Held(old)'
    BY <1>1, <1>4, <1>6, HeldAfterGrowth
  <2>4. Follows(new)'
    BY <1>6, <2>1, <2>3, RecoveryField DEF Held
  <2>5. new.recovery = r /\ new.seq = old.seq
    BY <1>6, <2>1 DEF Committed
  <2>6. r \in Issued' /\ issued'[r].seq = old.seq + 1
    BY <1>1, <1>5
  <2> QED
    BY <2>2, <2>4, <2>5, <2>6 DEF Held
<1>12. Held(checkpoint)'
  BY <1>1, <1>3, <1>4, <1>7, HeldAfterGrowth
<1> QED
  BY <1>1, <1>8, <1>9, <1>10, <1>11, <1>12 DEF ChainInv

\* The remote store admits the receipt that continues its chain.
LEMMA StoreChain ==
  ASSUME TypeOK, ChainInv, TypeOK', NEW r \in Issued, StoreReceipt(r)
  PROVE  ChainInv' /\ r \notin Admitted
<1>1. /\ issued' = issued /\ log' = Append(log, r) /\ coord' = coord /\ checkpoint' = checkpoint
      /\ issued[r].seq = Len(log) + 1
  BY DEF StoreReceipt
<1>2. /\ Issued = 1..Len(issued) /\ Len(issued) \in Nat /\ Len(log) \in Nat
      /\ DOMAIN log = 1..Len(log)
  BY IssuedIds, StrictReceiptAssumption
<1>3. /\ Len(log') = Len(log) + 1 /\ log'[Len(log) + 1] = r
      /\ \A i \in 1..Len(log) : log'[i] = log[i]
      /\ DOMAIN log' = 1..Len(log) + 1
  BY <1>1 DEF TypeOK
<1>4. Grows /\ Issued' = Issued
  BY <1>1, <1>2, <1>3 DEF Grows, Issued
<1>5. ASSUME NEW q \in Issued
      PROVE  Grounded(q)'
  BY <1>4, GroundedKept DEF ChainInv
<1>6. \A i \in DOMAIN log' : issued'[log'[i]].seq = i
  <2>1. \A i \in 1..Len(log) : issued'[log'[i]].seq = i
    BY <1>1, <1>2, <1>3 DEF ChainInv
  <2> QED
    BY <1>1, <1>2, <1>3, <2>1
<1>7. PICK old, kept : /\ old = coord.chain /\ old \in Committed /\ Held(old)
                       /\ kept = checkpoint /\ kept \in Committed /\ Held(kept)
  BY DEF TypeOK, ChainInv
<1>8. Held(old)' /\ Held(kept)'
  BY <1>4, <1>7, HeldAfterGrowth
<1>9. Held(coord.chain)' /\ Held(checkpoint)'
  BY <1>1, <1>7, <1>8
<1>10. r \notin Admitted
  BY <1>1, <1>2 DEF Admitted, ChainInv
<1> QED
  BY <1>4, <1>5, <1>6, <1>9, <1>10 DEF ChainInv

\* Every step keeps the chain.
LEMMA ChainStep ==
  ASSUME ReceiptInv, Next
  PROVE  ChainInv'
<1> USE DEF ReceiptInv
<1>t. TypeOK'
  BY TypeStep
<1>1. CASE RunDecision
  <2>1. PICK a \in Actions, outcome \in Outcomes :
          a \notin ActionsAt(coord.chain.seq) /\ Prepare(a, 0, outcome)
    BY <1>1, DecisionAsks
  <2>2. 0 \in 0..MaxReceipts
    BY StrictReceiptAssumption
  <2> QED
    BY <2>1, <2>2, PrepareChain
<1>2. CASE RunApproval
  <2>1. PICK s \in SuspendedAt(coord.chain.seq), outcome \in Outcomes \ {"STEP_UP"} :
          /\ s \notin ResolvedAt(coord.chain.seq)
          /\ s \in Issued /\ s # 0
          /\ Prepare(issued[s].action, s, outcome)
    BY <1>2, ApprovalAsks
  <2>2. issued[s].action \in Actions /\ s \in 0..MaxReceipts /\ outcome \in Outcomes
    BY <2>1, IssuedIds DEF Receipt
  <2> QED
    BY <2>1, <2>2, PrepareChain
<1>3. ASSUME NEW r \in Issued, StoreReceipt(r)
      PROVE  ChainInv'
  BY <1>t, <1>3, StoreChain
<1>4. CASE /\ UNCHANGED <<issued, log>>
           /\ Held(coord'.chain) /\ Held(checkpoint')
  BY <1>4, ChainOfCoordinator
<1>5. Held(coord.chain) /\ Held(checkpoint)
  BY DEF ChainInv
<1>6. CASE UNCHANGED <<issued, log, coord, checkpoint>>
  BY <1>4, <1>5, <1>6
<1>7. CASE CrashAndRestore
  BY <1>4, <1>5, <1>7 DEF CrashAndRestore, Restored
<1>8. CASE ReconcileAccepted
  BY <1>4, <1>5, <1>8, ReconcileHeld DEF ReconcileAccepted
<1>9. CASE ExportCheckpoint
  BY <1>4, <1>5, <1>9 DEF ExportCheckpoint
<1>10. ASSUME NEW r \in Issued, SavePrepared(r)
       PROVE  ChainInv'
  BY <1>4, <1>5, <1>6, <1>10, AbortHeld DEF SavePrepared
<1>11. ASSUME NEW r \in Issued, AdmissionRefused(r)
       PROVE  ChainInv'
  BY <1>4, <1>5, <1>11, AbortHeld DEF AdmissionRefused
<1>12. ASSUME NEW r \in Issued, AdmissionUncertain(r)
       PROVE  ChainInv'
  BY <1>4, <1>5, <1>12, FreezeHeld DEF AdmissionUncertain
<1>13. ASSUME NEW r \in Issued, SaveAccepted(r)
       PROVE  ChainInv'
  <2>1. r \in Admitted /\ coord.chain.recovery = r
    BY <1>13, IssuedIds DEF SaveAccepted, WorkInv, Holding
  <2> QED
    BY <1>4, <1>5, <1>13, <2>1, CommitHeld, FreezeHeld DEF SaveAccepted
<1>14. ASSUME NEW r \in Issued,
              \/ AdmissionAccepted(r) \/ SaveCommitted(r) \/ SaveNonexecuted(r) \/ SaveStarted(r)
              \/ Invoke(r) \/ InvocationEnds(r) \/ SaveOutcome(r) \/ FinalizeInterrupted(r)
       PROVE  ChainInv'
  BY <1>6, <1>14 DEF AdmissionAccepted, SaveCommitted, SaveNonexecuted, SaveStarted, Invoke,
                     InvocationEnds, SaveOutcome, FinalizeInterrupted
<1>15. CASE BindingUnavailable
  BY <1>6, <1>15 DEF BindingUnavailable
<1> QED
  BY <1>1, <1>2, <1>3, <1>7, <1>8, <1>9, <1>10, <1>11, <1>12, <1>13, <1>14, <1>15 DEF Next, Runs

----------------------------------------------------------------------------
(* One operation at a time holds the coordinator.                          *)

\* A step of one operation, with what it is to hold afterwards.  Unless it
\* holds the runtime, it leaves the coordinator to the one that does.
LEMMA WorkByOne ==
  ASSUME ReceiptInv, NEW r \in Issued, NEW step \in Steps, Goes(r, step),
         UNCHANGED <<issued, log>>,
         coord'.chain.seq \in Nat, coord.chain.seq <= coord'.chain.seq,
         \/ pc[r] \in BusySteps
         \/ coord' = coord /\ step \notin BusySteps,
         Holding(r)'
  PROVE  WorkInv'
<1> USE DEF ReceiptInv
<1>1. /\ Issued \subseteq Ids /\ Issued' = Issued /\ Admitted' = Admitted
      /\ \A q \in Issued : issued[q].seq \in Nat
  BY IssuedIds DEF Issued, Admitted, Receipt
<1>2. r \in Ids /\ coord.chain.seq \in Nat
  BY <1>1 DEF TypeOK, Committed
<1>3. pc'[r] = step /\ \A q \in Ids \ {r} : pc'[q] = pc[q]
  BY <1>2 DEF Goes, TypeOK
<1>4. ASSUME NEW p \in Ids, NEW q \in Ids, pc'[p] \in BusySteps, pc'[q] \in BusySteps
      PROVE  p = q
  BY <1>2, <1>3, <1>4 DEF WorkInv
<1>5. ASSUME NEW q \in Ids \ {r}
      PROVE  Holding(q)'
  <2>1. Holding(q)
    BY DEF WorkInv
  <2>2. pc'[q] = pc[q]
    BY <1>3
  <2>3. CASE coord' = coord
    BY <1>1, <2>1, <2>2, <2>3 DEF Holding, Authorized
  <2>4. CASE pc[r] \in BusySteps
    <3>1. pc[q] \notin BusySteps
      BY <1>2, <2>4 DEF WorkInv
    <3>2. pc[q] \in {"starting", "started", "invoking"} => issued[q].seq <= coord'.chain.seq
      <4>1. SUFFICES ASSUME pc[q] \in {"starting", "started", "invoking"}
                     PROVE  issued[q].seq <= coord'.chain.seq
        OBVIOUS
      <4>2. q \in Issued /\ issued[q].seq <= coord.chain.seq
        BY <2>1, <4>1 DEF Holding
      <4>3. issued[q].seq \in Nat
        BY <1>1, <4>2
      <4> QED
        BY <1>2, <4>2, <4>3
    <3> QED
      BY <1>1, <2>1, <2>2, <3>1, <3>2 DEF Holding, BusySteps, Authorized
  <2> QED
    BY <2>3, <2>4
<1> QED
  BY <1>4, <1>5 DEF WorkInv

\* A step that touches neither the coordinator nor the operations.
LEMMA WorkUntouched ==
  ASSUME ReceiptInv, UNCHANGED <<issued, coord, pc>>, Admitted \subseteq Admitted'
  PROVE  WorkInv'
BY DEF ReceiptInv, WorkInv, Holding, Issued, Authorized

\* An operation begins: no other holds the runtime.
LEMMA PrepareWork ==
  ASSUME ReceiptInv, MayPrepare,
         NEW action \in Actions, NEW resolves \in 0..MaxReceipts,
         NEW outcome \in Outcomes, Prepare(action, resolves, outcome)
  PROVE  WorkInv'
<1> USE DEF ReceiptInv
<1>0. PICK r : r = Len(issued) + 1
  OBVIOUS
<1>1. r \in Ids \ Issued /\ Issued' = Issued \cup {r} /\ \A q \in Issued : issued'[q] = issued[q]
  BY <1>0, PrepareType
<1>2. /\ pc' = [pc EXCEPT ![r] = "preparing"]
      /\ coord' = [coord EXCEPT !.prepared = r, !.chain = [coord.chain EXCEPT !.recovery = r]]
      /\ log' = log
  BY <1>0 DEF Prepare, TypeOK
<1>3. /\ coord'.prepared = r /\ coord'.chain.recovery = r /\ ~coord'.frozen
      /\ coord'.chain.seq = coord.chain.seq
  BY <1>2 DEF TypeOK, Committed, MayPrepare
<1>4. pc'[r] = "preparing" /\ \A q \in Ids \ {r} : pc'[q] = pc[q]
  BY <1>1, <1>2 DEF TypeOK
<1>5. \A q \in Ids : pc[q] \notin BusySteps
  BY DEF MayPrepare, Busy, BusySteps
<1>6. Admitted' = Admitted
  BY <1>2 DEF Admitted
<1>7. ASSUME NEW q \in Ids \ {r}
      PROVE  Holding(q)'
  <2>1. Holding(q) /\ pc[q] \notin BusySteps
    BY <1>5 DEF WorkInv
  <2>2. q \in Issued <=> q \in Issued'
    BY <1>1
  <2>3. pc[q] \in {"starting", "started", "invoking"} => issued'[q] = issued[q]
    BY <1>1, <2>1 DEF Holding
  <2> QED
    BY <1>3, <1>4, <1>6, <2>1, <2>2, <2>3 DEF Holding, BusySteps, Authorized
<1>8. Holding(r)'
  BY <1>1, <1>3, <1>4 DEF Holding
<1> QED
  BY <1>4, <1>5, <1>7, <1>8 DEF WorkInv

\* Every step keeps the operations apart.
LEMMA WorkStep ==
  ASSUME ReceiptInv, Next
  PROVE  WorkInv'
<1> USE DEF ReceiptInv
<1>a. ChainInv' /\ TypeOK'
  BY ChainStep, TypeStep
<1>t. /\ Issued \subseteq Ids /\ Admitted \subseteq Issued
      /\ coord.chain \in Committed /\ coord.chain.seq \in Nat /\ coord.chain.seq <= coord.chain.seq
      /\ coord'.chain.seq \in Nat
      /\ \A r \in Issued : issued[r].seq \in Nat
  <2>1. coord.chain \in Committed /\ coord'.chain \in Committed
    BY <1>a DEF TypeOK
  <2>2. coord.chain.seq \in Nat /\ coord'.chain.seq \in Nat
    BY <2>1, StrictReceiptAssumption DEF Committed
  <2> QED
    BY <2>1, <2>2, IssuedIds DEF Receipt
<1>p. ASSUME NEW r \in Issued
      PROVE  pc \in [Ids -> Steps] /\ r \in Ids /\ (\A s \in Steps : Goes(r, s) => pc'[r] = s) /\ Holding(r)
  BY <1>t DEF TypeOK, Goes, WorkInv
<1>1. CASE RunDecision
  <2>1. PICK a \in Actions, outcome \in Outcomes : Prepare(a, 0, outcome)
    BY <1>1, DecisionAsks
  <2>2. 0 \in 0..MaxReceipts
    BY StrictReceiptAssumption
  <2> QED
    BY <1>1, <2>1, <2>2, PrepareWork DEF RunDecision
<1>2. CASE RunApproval
  <2>1. PICK s \in SuspendedAt(coord.chain.seq), outcome \in Outcomes \ {"STEP_UP"} :
          s \in Issued /\ Prepare(issued[s].action, s, outcome)
    BY <1>2, ApprovalAsks
  <2>2. issued[s].action \in Actions /\ s \in 0..MaxReceipts /\ outcome \in Outcomes
    BY <2>1, IssuedIds DEF Receipt
  <2> QED
    BY <1>2, <2>1, <2>2, PrepareWork DEF RunApproval
<1>3. CASE BindingUnavailable
  BY <1>3, WorkUntouched DEF BindingUnavailable, Admitted
<1>4. ASSUME NEW r \in Issued, SavePrepared(r)
      PROVE  WorkInv'
  <2>1. pc[r] = "preparing" /\ UNCHANGED <<issued, log>> /\ Issued' = Issued
    BY <1>4 DEF SavePrepared, Issued
  <2>2. CASE Goes(r, "sending") /\ coord' = coord
    <3>1. Holding(r)'
      BY <1>p, <2>1, <2>2 DEF Holding, Steps
    <3> QED
      BY <1>t, <2>1, <2>2, <3>1, WorkByOne DEF Steps, BusySteps
  <2>3. CASE Goes(r, "over") /\ AbortPrepared
    <3>1. Holding(r)'
      BY <1>p, <2>1, <2>3 DEF Holding, Steps
    <3>2. coord'.chain.seq = coord.chain.seq
      BY <2>1, <2>3, AbortHeld
    <3> QED
      BY <1>t, <2>1, <2>3, <3>1, <3>2, WorkByOne DEF Steps, BusySteps
  <2> QED
    BY <1>4, <2>2, <2>3 DEF SavePrepared
<1>5. ASSUME NEW r \in Issued, AdmissionAccepted(r)
      PROVE  WorkInv'
  <2>1. /\ pc[r] = "sending" /\ UNCHANGED <<issued, log, coord>> /\ Issued' = Issued
        /\ Goes(r, "accepting") /\ r \in Admitted /\ Admitted' = Admitted
    BY <1>5 DEF AdmissionAccepted, Issued, Persists, Admitted
  <2>2. Holding(r)'
    BY <1>p, <2>1 DEF Holding, Steps
  <2> QED
    BY <1>t, <2>1, <2>2, WorkByOne DEF Steps, BusySteps
<1>6. ASSUME NEW r \in Issued, AdmissionRefused(r)
      PROVE  WorkInv'
  <2>1. /\ pc[r] = "sending" /\ UNCHANGED <<issued, log>> /\ Issued' = Issued
        /\ Goes(r, "closing") /\ AbortPrepared
    BY <1>6 DEF AdmissionRefused, Issued, Persists
  <2>2. Holding(r)'
    BY <1>p, <2>1 DEF Holding, Steps
  <2>3. coord'.chain.seq = coord.chain.seq
    BY <2>1, AbortHeld
  <2> QED
    BY <1>t, <2>1, <2>2, <2>3, WorkByOne DEF Steps, BusySteps
<1>7. ASSUME NEW r \in Issued, AdmissionUncertain(r)
      PROVE  WorkInv'
  <2>1. /\ pc[r] = "sending" /\ UNCHANGED <<issued, log>> /\ Issued' = Issued
        /\ Goes(r, "over") /\ FreezePrepared
    BY <1>7 DEF AdmissionUncertain, Issued
  <2>2. Holding(r)'
    BY <1>p, <2>1 DEF Holding, Steps
  <2>3. coord'.chain.seq = coord.chain.seq
    BY <2>1, FreezeHeld
  <2> QED
    BY <1>t, <2>1, <2>2, <2>3, WorkByOne DEF Steps, BusySteps
<1>8. ASSUME NEW r \in Issued, SaveAccepted(r)
      PROVE  WorkInv'
  <2>1. /\ pc[r] = "accepting" /\ UNCHANGED <<issued, log>> /\ Issued' = Issued
        /\ r \in Admitted /\ Admitted' = Admitted /\ coord.chain.recovery = r
    BY <1>p, <1>8 DEF SaveAccepted, Issued, Admitted, Holding
  <2>2. CASE Goes(r, "committing") /\ CommitPrepared(r)
    <3>1. /\ coord'.chain.seq = coord.chain.seq + 1 /\ coord'.chain.head = r
          /\ coord'.chain.recovery = 0
      BY <2>1, <2>2, CommitHeld
    <3>2. Holding(r)'
      BY <1>p, <2>1, <2>2, <3>1 DEF Holding, Steps
    <3>3. coord.chain.seq <= coord'.chain.seq
      BY <1>t, <3>1
    <3> QED
      BY <1>t, <2>1, <2>2, <3>2, <3>3, WorkByOne DEF Steps, BusySteps
  <2>3. CASE Goes(r, "over") /\ FreezePrepared
    <3>1. Holding(r)'
      BY <1>p, <2>1, <2>3 DEF Holding, Steps
    <3>2. coord'.chain.seq = coord.chain.seq
      BY <2>3, FreezeHeld
    <3> QED
      BY <1>t, <2>1, <2>3, <3>1, <3>2, WorkByOne DEF Steps, BusySteps
  <2> QED
    BY <1>8, <2>2, <2>3 DEF SaveAccepted, Persists
<1>9. ASSUME NEW r \in Issued, SaveCommitted(r)
      PROVE  WorkInv'
  <2>1. /\ pc[r] = "committing" /\ UNCHANGED <<issued, log, coord>> /\ Issued' = Issued
        /\ r \in Admitted /\ Admitted' = Admitted /\ coord.chain.head = r
    BY <1>p, <1>9 DEF SaveCommitted, Issued, Admitted, Holding
  <2>2. issued[r].seq = coord.chain.seq
    <3>1. Held(coord.chain) /\ DOMAIN log = 1..Len(log) /\ r # 0 /\ Len(log) \in Nat
      BY <2>1, IssuedIds DEF ChainInv
    <3>2. coord.chain.seq # 0 /\ coord.chain.seq <= Len(log) /\ r = log[coord.chain.seq]
      BY <1>t, <2>1, <3>1, FollowsFields DEF Held, HeadAt
    <3>3. coord.chain.seq \in DOMAIN log
      BY <1>t, <3>1, <3>2
    <3> QED
      BY <3>2, <3>3 DEF ChainInv
  <2>3. CASE Goes(r, "over")
    <3>1. Holding(r)'
      BY <1>p, <2>1, <2>3 DEF Holding, Steps
    <3> QED
      BY <1>t, <2>1, <2>3, <3>1, WorkByOne DEF Steps, BusySteps
  <2>4. CASE Goes(r, "closing")
    <3>1. Holding(r)'
      BY <1>p, <2>1, <2>4 DEF Holding, Steps
    <3> QED
      BY <1>t, <2>1, <2>4, <3>1, WorkByOne DEF Steps, BusySteps
  <2>5. CASE Goes(r, "starting") /\ Authorized(r)
    <3>1. Holding(r)'
      BY <1>p, <1>t, <2>1, <2>2, <2>5 DEF Holding, Steps, Authorized
    <3> QED
      BY <1>t, <2>1, <2>5, <3>1, WorkByOne DEF Steps, BusySteps
  <2> QED
    BY <1>9, <2>3, <2>4, <2>5 DEF SaveCommitted, Persists
<1>10. ASSUME NEW r \in Issued, NEW step \in {"over", "started", "invoking", "ending"}, Goes(r, step),
              UNCHANGED <<issued, log, coord>>,
              \/ step \in {"over", "ending"}
              \/ step = "started" /\ pc[r] = "starting"
              \/ step = "invoking" /\ pc[r] = "started",
              pc[r] # "none"
       PROVE  WorkInv'
  <2>1. step \in Steps /\ step \notin BusySteps /\ Issued' = Issued /\ Admitted' = Admitted
    BY <1>10 DEF Steps, BusySteps, Issued, Admitted
  <2>2. pc'[r] = step
    BY <1>p, <1>10, <2>1
  <2>3. Holding(r)'
    BY <1>p, <1>10, <2>1, <2>2 DEF Holding, Authorized
  <2> QED
    BY <1>t, <1>10, <2>1, <2>3, WorkByOne
<1>11. ASSUME NEW r \in Issued,
              SaveNonexecuted(r) \/ SaveStarted(r) \/ Invoke(r) \/ InvocationEnds(r) \/ SaveOutcome(r)
       PROVE  WorkInv'
  BY <1>10, <1>11 DEF SaveNonexecuted, SaveStarted, Invoke, InvocationEnds, SaveOutcome, Persists
<1>12. ASSUME NEW r \in Issued, StoreReceipt(r)
       PROVE  WorkInv'
  <2>1. Admitted \subseteq Admitted'
    <3>1. log' = Append(log, r) /\ log \in Seq(Issued)
      BY <1>12 DEF StoreReceipt, TypeOK
    <3>2. \A i \in DOMAIN log : i \in DOMAIN log' /\ log'[i] = log[i]
      BY <3>1
    <3> QED
      BY <3>2 DEF Admitted
  <2> QED
    BY <1>12, <2>1, WorkUntouched DEF StoreReceipt
<1>13. ASSUME NEW r \in Issued, FinalizeInterrupted(r)
       PROVE  WorkInv'
  BY <1>13, WorkUntouched DEF FinalizeInterrupted, Admitted
<1>14. CASE ExportCheckpoint
  BY <1>14, WorkUntouched DEF ExportCheckpoint, Admitted
<1>15. CASE CrashAndRestore
  <2>1. \A q \in Ids : pc'[q] \in {"none", "over"} /\ (pc'[q] = "none" <=> pc[q] = "none")
    BY <1>15 DEF CrashAndRestore
  <2>2. Issued' = Issued
    BY <1>15 DEF CrashAndRestore, Issued
  <2>3. \A q \in Ids : Holding(q)'
    BY <2>1, <2>2 DEF Holding, WorkInv
  <2> QED
    BY <2>1, <2>3 DEF WorkInv, BusySteps
<1>16. CASE ReconcileAccepted
  <2>1. /\ coord.chain.recovery # 0
        /\ UNCHANGED <<issued, log, pc>> /\ coord'.chain.seq = coord.chain.seq + 1
        /\ Issued' = Issued /\ Admitted' = Admitted
    BY <1>16, ReconcileHeld DEF ReconcileAccepted, Issued, Admitted
  <2>2. ASSUME NEW q \in Ids
        PROVE  Holding(q)'
    <3>1. Holding(q)
      BY DEF WorkInv
    <3>2. pc[q] \notin {"preparing", "sending", "accepting", "committing"}
      <4>1. q # 0
        BY StrictReceiptAssumption DEF Ids
      <4> QED
        BY <1>16, <3>1, <4>1 DEF Holding, ReconcileAccepted
    <3>3. pc[q] \in {"starting", "started", "invoking"} => issued[q].seq <= coord'.chain.seq
      <4>1. SUFFICES ASSUME pc[q] \in {"starting", "started", "invoking"}
                     PROVE  issued[q].seq <= coord'.chain.seq
        OBVIOUS
      <4>2. q \in Issued /\ issued[q].seq <= coord.chain.seq
        BY <3>1, <4>1 DEF Holding
      <4>3. issued[q].seq \in Nat
        BY <1>t, <4>2
      <4> QED
        BY <1>t, <2>1, <4>2, <4>3
    <3> QED
      BY <2>1, <3>1, <3>2, <3>3 DEF Holding, Authorized
  <2> QED
    BY <2>1, <2>2 DEF WorkInv
<1> QED
  BY <1>1, <1>2, <1>3, <1>4, <1>5, <1>6, <1>7, <1>8, <1>9, <1>11, <1>12, <1>13, <1>14, <1>15, <1>16
  DEF Next, Runs

----------------------------------------------------------------------------
(* The journal tells the truth.                                            *)

\* A step that changes what is known of one receipt at most.
LEMMA JournalByOne ==
  ASSUME ReceiptInv, NEW r \in Ids, UNCHANGED <<issued, log>>,
         \A q \in Ids \ {r} : /\ journal'[q] = journal[q] /\ snap'[q] = snap[q]
                              /\ fate'[q] = fate[q] /\ pc'[q] = pc[q],
         Truthful(r)', AtStep(r)'
  PROVE  JournalInv'
<1>1. Issued' = Issued /\ Admitted' = Admitted
  BY DEF Issued, Admitted
<1>2. ASSUME NEW q \in Ids \ {r}
      PROVE  Truthful(q)' /\ AtStep(q)'
  <2>1. Truthful(q) /\ AtStep(q)
    BY DEF ReceiptInv, JournalInv
  <2>2. q \in Started <=> q \in Started'
    BY <1>1 DEF Started
  <2>3. \A head : LaterHead(q, head)' <=> LaterHead(q, head)
    BY <1>1 DEF LaterHead
  <2>4. Truthful(q)'
    BY <1>1, <2>1, <2>2 DEF Truthful, LaterHead, Authorized
  <2>5. AtStep(q)'
    BY <1>1, <2>1 DEF AtStep, LaterHead
  <2> QED
    BY <2>4, <2>5
<1> QED
  BY <1>2 DEF JournalInv

\* The record an operation writes, or fails to write.
LEMMA EntryWritten ==
  ASSUME TypeOK, NEW r \in Issued, NEW phase, NEW status, MaybeWritten(r, phase, status)
  PROVE  /\ \/ journal'[r] = journal[r]
            \/ journal'[r] = [phase |-> phase, status |-> status, head |-> snap[r]]
         /\ Written(r, phase, status) =>
              journal'[r] = [phase |-> phase, status |-> status, head |-> snap[r]]
         /\ \A q \in Ids \ {r} : journal'[q] = journal[q]
<1>1. r \in Ids
  BY IssuedIds
<1> QED
  BY <1>1 DEF MaybeWritten, Written, Entry, TypeOK

\* Admitting a receipt takes nothing from what the journals say.
LEMMA JournalAdmits ==
  ASSUME ReceiptInv, UNCHANGED <<issued, pc, snap, journal, fate>>, Admitted \subseteq Admitted'
  PROVE  JournalInv'
<1>1. Issued' = Issued /\ Started' = Started
  BY DEF Issued, Started
<1>2. ASSUME NEW q \in Ids
      PROVE  Truthful(q)' /\ AtStep(q)'
  <2>1. Truthful(q) /\ AtStep(q)
    BY DEF ReceiptInv, JournalInv
  <2>2. Truthful(q)'
    BY <1>1, <2>1 DEF Truthful, LaterHead, Authorized
  <2>3. AtStep(q)'
    BY <1>1, <2>1 DEF AtStep, LaterHead
  <2> QED
    BY <2>2, <2>3
<1> QED
  BY <1>2 DEF JournalInv

\* A receipt just signed has no journal yet.
LEMMA PrepareJournal ==
  ASSUME ReceiptInv, NEW action \in Actions, NEW resolves \in 0..MaxReceipts,
         NEW outcome \in Outcomes, Prepare(action, resolves, outcome)
  PROVE  JournalInv'
<1> USE DEF ReceiptInv
<1>0. PICK r : r = Len(issued) + 1
  OBVIOUS
<1>1. /\ r \in Ids \ Issued /\ Issued' = Issued \cup {r} /\ \A q \in Issued : issued'[q] = issued[q]
      /\ issued'[r].prev = ChainHead
  <2>1. /\ r \in Ids \ Issued /\ Issued' = Issued \cup {r} /\ \A q \in Issued : issued'[q] = issued[q]
        /\ issued'[r] = [action |-> action, resolves |-> resolves, outcome |-> outcome,
                         seq |-> coord.chain.seq + 1, prev |-> ChainHead]
    BY <1>0, PrepareType
  <2> QED
    BY <2>1
<1>2. /\ pc' = [pc EXCEPT ![r] = "preparing"] /\ snap' = [snap EXCEPT ![r] = ChainHead]
      /\ log' = log /\ journal' = journal /\ fate' = fate
  BY <1>0 DEF Prepare
<1>3. /\ pc'[r] = "preparing" /\ snap'[r] = ChainHead
      /\ \A q \in Ids \ {r} : pc'[q] = pc[q] /\ snap'[q] = snap[q]
  BY <1>1, <1>2 DEF TypeOK
<1>4. Admitted' = Admitted
  BY <1>2 DEF Admitted
<1>5. \A q \in Ids \ {r} : q \in Started' <=> q \in Started
  BY <1>1, <1>2 DEF Started
<1>6. ASSUME NEW q \in Ids \ {r}
      PROVE  Truthful(q)' /\ AtStep(q)'
  <2>1. Truthful(q) /\ AtStep(q) /\ Holding(q)
    BY DEF JournalInv, WorkInv
  <2>2. q \in Issued' <=> q \in Issued
    BY <1>1
  <2>3. q \in Issued => issued'[q] = issued[q]
    BY <1>1
  <2>4. \A head \in Issued : head \in Issued' /\ issued'[head] = issued[head]
    BY <1>1
  <2>5. q \in Started => q \in Issued
    BY DEF Started
  <2>6. Truthful(q)'
    BY <1>2, <1>4, <1>5, <2>1, <2>2, <2>3, <2>4, <2>5 DEF Truthful, LaterHead, Authorized
  <2>7. AtStep(q)'
    BY <1>2, <1>3, <2>1, <2>2, <2>3, <2>4 DEF AtStep, LaterHead, Holding
  <2> QED
    BY <2>6, <2>7
<1>7. pc[r] = "none" /\ Truthful(r) /\ AtStep(r)
  BY <1>1 DEF WorkInv, Holding, JournalInv
<1>8. journal[r] = NoJournal /\ fate[r] = "none"
  BY <1>1, <1>7 DEF Truthful, AtStep, Started
<1>9. Truthful(r)' /\ AtStep(r)'
  <2>1. r \notin Started'
    BY <1>2, <1>8 DEF Started, NoJournal, Ended
  <2> QED
    BY <1>1, <1>2, <1>3, <1>8, <2>1 DEF Truthful, AtStep, NoJournal, Ended
<1> QED
  BY <1>6, <1>9 DEF JournalInv

\* The head of a coordinator that executes an action is the action's receipt
\* or a later one.
LEMMA HeadIsLater ==
  ASSUME TypeOK, ChainInv, NEW r \in Issued, r \in Admitted, issued[r].seq <= coord.chain.seq
  PROVE  LaterHead(r, ChainHead)
<1>1. PICK i \in 1..Len(log) : r = log[i]
  BY IssuedIds DEF Admitted
<1>2. issued[r].seq = i
  BY <1>1, IssuedIds DEF ChainInv
<1>3. coord.chain \in Committed /\ Held(coord.chain)
  BY DEF TypeOK, ChainInv
<1>4. coord.chain.seq \in Nat /\ coord.chain.seq <= Len(log) /\ ChainHead = HeadAt(coord.chain.seq)
  BY <1>3, FollowsFields DEF Held, Committed, ChainHead
<1>5. coord.chain.seq \in 1..Len(log) /\ i <= coord.chain.seq
  BY <1>1, <1>2, <1>4, IssuedIds
<1>6. ChainHead = log[coord.chain.seq] /\ issued[ChainHead].seq = coord.chain.seq /\ ChainHead \in Issued
  <2>1. ChainHead = log[coord.chain.seq]
    BY <1>4, <1>5 DEF HeadAt
  <2>2. log[coord.chain.seq] \in Issued
    BY <1>5, LogEntries, IssuedIds
  <2> QED
    BY <1>5, <2>1, <2>2, IssuedIds DEF ChainInv
<1>7. CASE i = coord.chain.seq
  BY <1>1, <1>6, <1>7 DEF LaterHead
<1>8. CASE i < coord.chain.seq
  BY <1>2, <1>6, <1>8 DEF LaterHead
<1> QED
  BY <1>5, <1>7, <1>8

\* Every step keeps the journals truthful.
LEMMA JournalStep ==
  ASSUME ReceiptInv, Next
  PROVE  JournalInv'
<1> USE DEF ReceiptInv
<1>p. ASSUME NEW r \in Issued
      PROVE  /\ r \in Ids /\ r # 0 /\ Holding(r) /\ Truthful(r) /\ AtStep(r)
             /\ \A s \in Steps : Goes(r, s) => pc'[r] = s /\ \A q \in Ids \ {r} : pc'[q] = pc[q]
             /\ \A s \in Steps : \A head : Persists(r, s, head) =>
                  /\ snap'[r] = head /\ \A q \in Ids \ {r} : snap'[q] = snap[q]
                  /\ pc'[r] = s /\ \A q \in Ids \ {r} : pc'[q] = pc[q]
  <2>1. r \in Ids /\ r # 0
    BY IssuedIds
  <2>2. Holding(r) /\ Truthful(r) /\ AtStep(r)
    BY <2>1 DEF WorkInv, JournalInv
  <2>3. \A s \in Steps : Goes(r, s) => pc'[r] = s /\ \A q \in Ids \ {r} : pc'[q] = pc[q]
    BY <2>1 DEF TypeOK, Goes
  <2>4. \A s \in Steps : \A head : Persists(r, s, head) =>
          snap'[r] = head /\ \A q \in Ids \ {r} : snap'[q] = snap[q]
    BY <2>1 DEF TypeOK, Persists
  <2>5. \A s \in Steps : \A head : Persists(r, s, head) => Goes(r, s)
    BY DEF Persists
  <2> QED
    BY <2>1, <2>2, <2>3, <2>4, <2>5
\* The head of a coordinator that holds a receipt is the receipt's predecessor.
<1>h. ASSUME NEW r \in Issued, pc[r] \in {"preparing", "sending", "accepting"}
      PROVE  ChainHead = issued[r].prev
  <2>1. coord.chain.recovery = r /\ Held(coord.chain) /\ coord.chain \in Committed
    BY <1>p, <1>h DEF Holding, ChainInv, TypeOK
  <2>2. issued[r].seq = coord.chain.seq + 1 /\ coord.chain.head = HeadAt(coord.chain.seq)
    BY <1>p, <2>1, FollowsFields DEF Held
  <2>3. issued[r].prev = HeadAt(issued[r].seq - 1)
    BY DEF ChainInv, Grounded
  <2>4. coord.chain.seq \in Nat
    BY <2>1 DEF Committed
  <2>5. issued[r].seq - 1 = coord.chain.seq
    BY <2>2, <2>4
  <2> QED
    BY <2>2, <2>3, <2>5 DEF ChainHead
<1>1. CASE RunDecision
  <2>1. PICK a \in Actions, outcome \in Outcomes : Prepare(a, 0, outcome)
    BY <1>1, DecisionAsks
  <2>2. 0 \in 0..MaxReceipts
    BY StrictReceiptAssumption
  <2> QED
    BY <2>1, <2>2, PrepareJournal
<1>2. CASE RunApproval
  <2>1. PICK s \in SuspendedAt(coord.chain.seq), outcome \in Outcomes \ {"STEP_UP"} :
          s \in Issued /\ Prepare(issued[s].action, s, outcome)
    BY <1>2, ApprovalAsks
  <2>2. issued[s].action \in Actions /\ s \in 0..MaxReceipts /\ outcome \in Outcomes
    BY <2>1, IssuedIds DEF Receipt
  <2> QED
    BY <2>1, <2>2, PrepareJournal
<1>3. CASE UNCHANGED <<issued, log, pc, snap, journal, fate>>
  BY <1>3, JournalAdmits DEF Admitted
<1>4. ASSUME NEW r \in Issued, SavePrepared(r)
      PROVE  JournalInv'
  <2>1. /\ pc[r] = "preparing" /\ UNCHANGED <<issued, log, snap, fate>> /\ Issued' = Issued
        /\ Admitted' = Admitted
    BY <1>4 DEF SavePrepared, Issued, Admitted
  <2>2. journal[r] = NoJournal /\ snap[r] = issued[r].prev /\ fate[r] = "none"
    BY <1>p, <2>1 DEF Truthful, AtStep, Started, NoJournal, Ended
  <2>3. /\ \/ journal'[r] = journal[r] /\ pc'[r] = "over"
           \/ /\ journal'[r] = [phase |-> "prepared", status |-> "none", head |-> snap[r]]
              /\ pc'[r] \in {"sending", "over"}
        /\ \A q \in Ids \ {r} : journal'[q] = journal[q] /\ pc'[q] = pc[q]
    BY <1>p, <1>4, EntryWritten DEF SavePrepared, MaybeWritten, Steps
  <2>4. Truthful(r)'
    BY <2>1, <2>2, <2>3 DEF Truthful, Started, NoJournal, Ended
  <2>5. AtStep(r)'
    BY <2>1, <2>2, <2>3 DEF AtStep
  <2> QED
    BY <1>p, <2>1, <2>3, <2>4, <2>5, JournalByOne
<1>5. ASSUME NEW r \in Issued, AdmissionAccepted(r) \/ AdmissionRefused(r)
      PROVE  JournalInv'
  <2>1. /\ pc[r] = "sending" /\ UNCHANGED <<issued, log, journal, fate>> /\ Issued' = Issued
        /\ Admitted' = Admitted
        /\ Persists(r, "accepting", ChainHead) \/ Persists(r, "closing", ChainHead)
    BY <1>5 DEF AdmissionAccepted, AdmissionRefused, Issued, Admitted
  <2>2. /\ snap'[r] = issued[r].prev /\ pc'[r] \in {"accepting", "closing"}
        /\ \A q \in Ids \ {r} : snap'[q] = snap[q] /\ pc'[q] = pc[q]
    BY <1>p, <1>h, <2>1 DEF Steps
  <2>3. Truthful(r)'
    BY <1>p, <2>1 DEF Truthful, Started, LaterHead, Authorized
  <2>4. AtStep(r)'
    BY <1>p, <2>1, <2>2 DEF AtStep
  <2> QED
    BY <1>p, <2>1, <2>2, <2>3, <2>4, JournalByOne
<1>6. ASSUME NEW r \in Issued, AdmissionUncertain(r)
      PROVE  JournalInv'
  <2>1. /\ UNCHANGED <<issued, log, journal, snap, fate>> /\ Issued' = Issued
        /\ Admitted' = Admitted /\ pc'[r] = "over" /\ \A q \in Ids \ {r} : pc'[q] = pc[q]
    BY <1>p, <1>6 DEF AdmissionUncertain, Issued, Admitted, Steps
  <2>2. Truthful(r)'
    BY <1>p, <2>1 DEF Truthful, Started, LaterHead, Authorized
  <2>3. AtStep(r)'
    BY <1>p, <2>1 DEF AtStep
  <2> QED
    BY <1>p, <2>1, <2>2, <2>3, JournalByOne
<1>7. ASSUME NEW r \in Issued, SaveAccepted(r)
      PROVE  JournalInv'
  <2>1. /\ pc[r] = "accepting" /\ UNCHANGED <<issued, log, fate>> /\ Issued' = Issued
        /\ Admitted' = Admitted
    BY <1>7 DEF SaveAccepted, Issued, Admitted
  <2>2. journal[r].phase = "prepared" /\ snap[r] = issued[r].prev /\ fate[r] = "none"
        /\ journal[r].status = "none"
    BY <1>p, <2>1 DEF Truthful, AtStep, Started, Ended
  <2>3. /\ \/ /\ journal'[r] = journal[r] \/
                 journal'[r] = [phase |-> "remote_accepted", status |-> "none", head |-> snap[r]]
              /\ pc'[r] = "over"
           \/ /\ journal'[r] = [phase |-> "remote_accepted", status |-> "none", head |-> snap[r]]
              /\ pc'[r] = "committing" /\ snap'[r] = r
        /\ \A q \in Ids \ {r} : journal'[q] = journal[q] /\ pc'[q] = pc[q] /\ snap'[q] = snap[q]
    BY <1>p, <1>7, EntryWritten DEF SaveAccepted, MaybeWritten, Steps
  <2>4. Truthful(r)'
    BY <1>p, <2>1, <2>2, <2>3 DEF Truthful, Started, Ended
  <2>5. AtStep(r)'
    BY <2>1, <2>2, <2>3 DEF AtStep
  <2> QED
    BY <1>p, <2>1, <2>3, <2>4, <2>5, JournalByOne
<1>8. ASSUME NEW r \in Issued, SaveCommitted(r)
      PROVE  JournalInv'
  <2>1. /\ pc[r] = "committing" /\ UNCHANGED <<issued, log, fate, coord>> /\ Issued' = Issued
        /\ Admitted' = Admitted
    BY <1>8 DEF SaveCommitted, Issued, Admitted
  <2>2. journal[r].phase = "remote_accepted" /\ snap[r] = r /\ fate[r] = "none"
        /\ journal[r].status = "none" /\ ChainHead = r
    BY <1>p, <2>1 DEF Truthful, AtStep, Started, Ended, Holding, ChainHead
  <2>3. /\ \/ /\ journal'[r] = journal[r] \/
                 journal'[r] = [phase |-> "committed", status |-> "none", head |-> snap[r]]
              /\ pc'[r] = "over"
           \/ /\ journal'[r] = [phase |-> "committed", status |-> "none", head |-> snap[r]]
              /\ pc'[r] \in {"starting", "closing"} /\ snap'[r] = ChainHead
        /\ \A q \in Ids \ {r} : journal'[q] = journal[q] /\ pc'[q] = pc[q] /\ snap'[q] = snap[q]
    BY <1>p, <1>8, EntryWritten DEF SaveCommitted, MaybeWritten, Steps
  <2>4. Truthful(r)'
    BY <1>p, <2>1, <2>2, <2>3 DEF Truthful, Started, Ended
  <2>5. AtStep(r)'
    BY <2>1, <2>2, <2>3 DEF AtStep
  <2> QED
    BY <1>p, <2>1, <2>3, <2>4, <2>5, JournalByOne
<1>9. ASSUME NEW r \in Issued, SaveNonexecuted(r)
      PROVE  JournalInv'
  <2>1. /\ pc[r] = "closing" /\ UNCHANGED <<issued, log, fate, snap>> /\ Issued' = Issued
        /\ Admitted' = Admitted
    BY <1>9 DEF SaveNonexecuted, Issued, Admitted
  <2>2. /\ journal[r].phase \in {"prepared", "committed"} /\ snap[r] \in {r, issued[r].prev}
        /\ fate[r] = "none" /\ journal[r].status = "none"
    BY <1>p, <2>1 DEF Truthful, AtStep, Started, Ended
  <2>3. /\ \/ journal'[r] = journal[r]
           \/ journal'[r] = [phase |-> "terminal", status |-> "nonexecuted", head |-> snap[r]]
        /\ pc'[r] = "over"
        /\ \A q \in Ids \ {r} : journal'[q] = journal[q] /\ pc'[q] = pc[q]
    BY <1>p, <1>9, EntryWritten DEF SaveNonexecuted, MaybeWritten, Steps
  <2>4. Truthful(r)'
    BY <1>p, <2>1, <2>2, <2>3 DEF Truthful, Started, Ended
  <2>5. AtStep(r)'
    BY <2>1, <2>2, <2>3 DEF AtStep
  <2> QED
    BY <1>p, <2>1, <2>3, <2>4, <2>5, JournalByOne
<1>10. ASSUME NEW r \in Issued, SaveStarted(r)
       PROVE  JournalInv'
  <2>1. /\ pc[r] = "starting" /\ UNCHANGED <<issued, log, fate, snap>> /\ Issued' = Issued
        /\ Admitted' = Admitted
    BY <1>10 DEF SaveStarted, Issued, Admitted
  <2>2. /\ journal[r].phase = "committed" /\ snap[r] = r /\ fate[r] = "none"
        /\ journal[r].status = "none" /\ r \in Admitted /\ Authorized(r)
    BY <1>p, <2>1 DEF Truthful, AtStep, Started, Ended, Holding
  <2>3. /\ \/ journal'[r] = journal[r] /\ pc'[r] = "over"
           \/ /\ journal'[r] = [phase |-> "invocation_started", status |-> "none", head |-> snap[r]]
              /\ pc'[r] \in {"started", "over"}
        /\ \A q \in Ids \ {r} : journal'[q] = journal[q] /\ pc'[q] = pc[q]
    BY <1>p, <1>10, EntryWritten DEF SaveStarted, MaybeWritten, Steps
  <2>4. Truthful(r)'
    BY <1>p, <2>1, <2>2, <2>3 DEF Truthful, Started, Ended, Authorized
  <2>5. AtStep(r)'
    BY <2>1, <2>2, <2>3 DEF AtStep
  <2> QED
    BY <1>p, <2>1, <2>3, <2>4, <2>5, JournalByOne
<1>11. ASSUME NEW r \in Issued, Invoke(r)
       PROVE  JournalInv'
  <2>1. /\ pc[r] = "started" /\ UNCHANGED <<issued, log, journal, snap>> /\ Issued' = Issued
        /\ Admitted' = Admitted /\ pc'[r] = "invoking"
        /\ \A q \in Ids \ {r} : pc'[q] = pc[q]
    BY <1>p, <1>11 DEF Invoke, Issued, Admitted, Steps
  <2>2. fate'[r] = "entered" /\ \A q \in Ids \ {r} : fate'[q] = fate[q]
    BY <1>p, <1>11 DEF Invoke, TypeOK
  <2>3. journal[r].phase = "invocation_started" /\ journal[r].status = "none" /\ r \in Started
    BY <1>p, <2>1 DEF Truthful, AtStep, Started
  <2>4. Truthful(r)'
    BY <1>p, <2>1, <2>2, <2>3 DEF Truthful, Started, Ended, Authorized
  <2>5. AtStep(r)'
    BY <2>1, <2>2, <2>3 DEF AtStep
  <2> QED
    BY <1>p, <2>1, <2>2, <2>4, <2>5, JournalByOne
<1>12. ASSUME NEW r \in Issued, InvocationEnds(r)
       PROVE  JournalInv'
  <2>1. /\ pc[r] = "invoking" /\ UNCHANGED <<issued, log, journal>> /\ Issued' = Issued
        /\ Admitted' = Admitted
    BY <1>p, <1>12 DEF InvocationEnds, Issued, Admitted
  <2>2. fate'[r] \in Ended /\ \A q \in Ids \ {r} : fate'[q] = fate[q]
    <3>1. PICK outcome \in Endings : fate' = [fate EXCEPT ![r] = outcome]
      BY <1>12 DEF InvocationEnds
    <3> QED
      BY <1>p, <3>1, StrictReceiptAssumption DEF TypeOK, Ended
  <2>3. /\ \/ pc'[r] = "ending" /\ snap'[r] = ChainHead
           \/ pc'[r] = "over"
        /\ \A q \in Ids \ {r} : pc'[q] = pc[q] /\ snap'[q] = snap[q]
    BY <1>p, <1>12 DEF InvocationEnds, Steps
  <2>4. journal[r].phase = "invocation_started" /\ journal[r].status = "none" /\ r \in Started
    BY <1>p, <2>1 DEF Truthful, AtStep, Started
  <2>5. LaterHead(r, ChainHead)
    BY <1>p, <2>1, HeadIsLater DEF Holding
  <2>6. Truthful(r)'
    BY <1>p, <2>1, <2>2, <2>4 DEF Truthful, Started, Ended, Authorized
  <2>7. AtStep(r)'
    BY <2>1, <2>2, <2>3, <2>4, <2>5 DEF AtStep, LaterHead
  <2> QED
    BY <1>p, <2>1, <2>2, <2>3, <2>6, <2>7, JournalByOne
<1>13. ASSUME NEW r \in Issued, SaveOutcome(r)
       PROVE  JournalInv'
  <2>1. /\ pc[r] = "ending" /\ UNCHANGED <<issued, log, fate, snap>> /\ Issued' = Issued
        /\ Admitted' = Admitted
    BY <1>13 DEF SaveOutcome, Issued, Admitted
  <2>2. /\ journal[r].phase = "invocation_started" /\ journal[r].status = "none" /\ r \in Started
        /\ fate[r] \in Ended /\ LaterHead(r, snap[r])
    BY <1>p, <2>1 DEF Truthful, AtStep, Started
  <2>3. /\ \/ journal'[r] = journal[r]
           \/ journal'[r] = [phase |-> "terminal", status |-> fate[r], head |-> snap[r]]
        /\ pc'[r] = "over"
        /\ \A q \in Ids \ {r} : journal'[q] = journal[q] /\ pc'[q] = pc[q]
    BY <1>p, <1>13, EntryWritten DEF SaveOutcome, MaybeWritten, Steps
  <2>4. Truthful(r)'
    BY <1>p, <2>1, <2>2, <2>3 DEF Truthful, Started, Ended, Authorized, LaterHead
  <2>5. AtStep(r)'
    BY <2>1, <2>2, <2>3 DEF AtStep
  <2> QED
    BY <1>p, <2>1, <2>3, <2>4, <2>5, JournalByOne
<1>14. ASSUME NEW r \in Issued, FinalizeInterrupted(r)
       PROVE  JournalInv'
  <2>1. /\ pc[r] = "over" /\ UNCHANGED <<issued, log, fate, snap, pc>> /\ Issued' = Issued
        /\ Admitted' = Admitted
    BY <1>14 DEF FinalizeInterrupted, Issued, Admitted
  <2>2. journal[r].phase = "invocation_started"
    <3>1. Recovered(r) = "outcome_unresolved" /\ journal[r] \in Journal
      BY <1>p, <1>14 DEF FinalizeInterrupted, TypeOK
    <3> QED
      BY <3>1 DEF Recovered, Journal, Ended
  <2>3. journal[r].status = "none" /\ r \in Started /\ journal[r].head = r
    BY <1>p, <2>2 DEF Truthful, Started
  <2>4. /\ journal'[r] = [journal[r] EXCEPT !.phase = "terminal", !.status = "invocation_uncertain"]
        /\ \A q \in Ids \ {r} : journal'[q] = journal[q]
        /\ journal[r] \in Journal
    BY <1>p, <1>14 DEF FinalizeInterrupted, TypeOK
  <2>5. /\ journal'[r].phase = "terminal" /\ journal'[r].status = "invocation_uncertain"
        /\ journal'[r].head = r
    BY <2>3, <2>4 DEF Journal
  <2>6. Truthful(r)'
    BY <1>p, <2>1, <2>3, <2>5 DEF Truthful, Started, Ended, Authorized, LaterHead
  <2>7. AtStep(r)'
    BY <2>1 DEF AtStep
  <2> QED
    BY <1>p, <2>1, <2>4, <2>6, <2>7, JournalByOne
<1>15. ASSUME NEW r \in Issued, StoreReceipt(r)
       PROVE  JournalInv'
  <2>1. Admitted \subseteq Admitted'
    <3>1. log' = Append(log, r) /\ log \in Seq(Issued)
      BY <1>15 DEF StoreReceipt, TypeOK
    <3>2. \A i \in DOMAIN log : i \in DOMAIN log' /\ log'[i] = log[i]
      BY <3>1
    <3> QED
      BY <3>2 DEF Admitted
  <2> QED
    BY <1>15, <2>1, JournalAdmits DEF StoreReceipt
<1>16. CASE CrashAndRestore
  <2>1. /\ UNCHANGED <<issued, log, snap, journal, fate>> /\ Issued' = Issued /\ Admitted' = Admitted
        /\ \A q \in Ids : pc'[q] = "over" \/ (pc'[q] = "none" /\ pc[q] = "none")
    BY <1>16 DEF CrashAndRestore, Issued, Admitted
  <2>2. ASSUME NEW q \in Ids
        PROVE  Truthful(q)' /\ AtStep(q)'
    <3>1. Truthful(q) /\ AtStep(q)
      BY DEF JournalInv
    <3>2. Truthful(q)'
      BY <2>1, <3>1 DEF Truthful, Started, LaterHead, Authorized
    <3>3. AtStep(q)'
      BY <2>1, <3>1 DEF AtStep
    <3> QED
      BY <3>2, <3>3
  <2> QED
    BY <2>2 DEF JournalInv
<1>17. CASE BindingUnavailable \/ ExportCheckpoint \/ ReconcileAccepted
  BY <1>3, <1>17 DEF BindingUnavailable, ExportCheckpoint, ReconcileAccepted
<1> QED
  BY <1>1, <1>2, <1>4, <1>5, <1>6, <1>7, <1>8, <1>9, <1>10, <1>11, <1>12, <1>13, <1>14, <1>15,
     <1>16, <1>17 DEF Next, Runs

----------------------------------------------------------------------------
(* The theorems.                                                           *)

\* A new process with an empty store.
LEMMA ReceiptInit ==
  ASSUME Init
  PROVE  ReceiptInv
<1>1. Issued = {} /\ Len(log) = 0 /\ Len(issued) = 0 /\ DOMAIN log = {} /\ Admitted = {}
  BY DEF Init, Issued, Admitted
<1>2. EmptyChain \in Committed /\ 0 \in 0..MaxReceipts
  BY StrictReceiptAssumption DEF EmptyChain, Committed, Ids
<1>3. TypeOK
  <2>1. coord \in [chain : Committed, prepared : 0..MaxReceipts, frozen : BOOLEAN]
        /\ checkpoint \in Committed
    BY <1>2 DEF Init, Restored
  <2>2. issued \in Seq(Receipt) /\ log \in Seq(Issued) /\ sent \subseteq Issued
        /\ Len(issued) <= MaxReceipts
    BY <1>1, StrictReceiptAssumption DEF Init
  <2>3. /\ pc \in [Ids -> Steps] /\ snap \in [Ids -> 0..MaxReceipts]
        /\ journal \in [Ids -> Journal] /\ fate \in [Ids -> {"none", "entered"} \cup Ended]
    BY <1>2 DEF Init, Steps, Journal, Phases, NoJournal
  <2>4. /\ runtime \in [frozen : BOOLEAN, decided : SUBSET Actions, resolved : SUBSET Ids]
        /\ crashes \in 0..MaxCrashes
    BY StrictReceiptAssumption DEF Init, FreshRuntime
  <2> QED
    BY <2>1, <2>2, <2>3, <2>4 DEF TypeOK
<1>4. ChainInv
  <2>1. Follows(EmptyChain)
    <3>1. /\ EmptyChain.seq = 0 /\ EmptyChain.head = 0 /\ EmptyChain.actions = {}
          /\ EmptyChain.suspended = {} /\ EmptyChain.resolved = {}
      BY DEF EmptyChain
    <3>2. HeadAt(0) = 0 /\ ActionsAt(0) = {} /\ SuspendedAt(0) = {} /\ ResolvedAt(0) = {}
      <4>1. 1..0 = {}
        OBVIOUS
      <4> QED
        BY <4>1 DEF HeadAt, ActionsAt, SuspendedAt, ResolvedAt
    <3>3. Follows(EmptyChain) <=> /\ EmptyChain.seq <= Len(log)
                                  /\ EmptyChain.head = HeadAt(EmptyChain.seq)
                                  /\ EmptyChain.actions = ActionsAt(EmptyChain.seq)
                                  /\ EmptyChain.suspended = SuspendedAt(EmptyChain.seq)
                                  /\ EmptyChain.resolved = ResolvedAt(EmptyChain.seq)
      BY <1>2, FollowsFields
    <3> QED
      BY <1>1, <3>1, <3>2, <3>3
  <2>2. Held(EmptyChain)
    BY <2>1 DEF Held, EmptyChain
  <2> QED
    BY <1>1, <2>2 DEF ChainInv, Init, Restored
<1>5. WorkInv
  BY <1>1 DEF Init, WorkInv, Holding, BusySteps
<1>6. JournalInv
  BY <1>1 DEF Init, JournalInv, Truthful, AtStep, Started, NoJournal, Ended
<1> QED
  BY <1>3, <1>4, <1>5, <1>6 DEF ReceiptInv

\* Every step keeps every part of the invariant.
LEMMA ReceiptStep ==
  ASSUME ReceiptInv, [Next]_vars
  PROVE  ReceiptInv'
<1>1. CASE Next
  BY <1>1, TypeStep, ChainStep, WorkStep, JournalStep DEF ReceiptInv
<1>2. CASE UNCHANGED vars
  <2> USE <1>2 DEF vars
  <2>1. TypeOK'
    BY DEF ReceiptInv, TypeOK, Issued
  <2>2. ChainInv'
    BY ChainOfCoordinator DEF ReceiptInv, ChainInv
  <2>3. WorkInv' /\ JournalInv'
    BY WorkUntouched, JournalAdmits DEF Admitted
  <2> QED
    BY <2>1, <2>2, <2>3 DEF ReceiptInv
<1> QED
  BY <1>1, <1>2

\* The types, the chain of every coordinator and checkpoint, the operations
\* and the journals, in every state of every run of the profile.
THEOREM ReceiptInvariant == Spec => []ReceiptInv
<1>1. Init => ReceiptInv
  BY ReceiptInit
<1>2. ReceiptInv /\ [Next]_vars => ReceiptInv'
  BY ReceiptStep
<1> QED
  BY <1>1, <1>2, PTL DEF Spec

\* What a coordinator or a checkpoint holds as committed is a prefix of the
\* remote chain.
THEOREM CommittedFollows == Spec => []ChainIsAdmitted
<1>1. ReceiptInv => ChainIsAdmitted
  BY DEF ReceiptInv, ChainInv, Held, ChainIsAdmitted
<1> QED
  BY <1>1, ReceiptInvariant, PTL

\* Recovery tells the truth about what was invoked.
THEOREM JournalsTruthful == Spec => []JournalTruthful
<1>1. ASSUME ReceiptInv
      PROVE  JournalTruthful
  <2>1. SUFFICES ASSUME NEW r \in Issued
                 PROVE  /\ Recovered(r) \in {"none", "pre_invocation", "nonexecuted"} => fate[r] = "none"
                        /\ Recovered(r) \in {"executed", "invocation_failed"} => fate[r] = Recovered(r)
                        /\ Recovered(r) = "refused" =>
                             journal[r].status \in Ended /\ issued[journal[r].head].seq > issued[r].seq
    BY DEF JournalTruthful
  <2>2. r \in Ids /\ Truthful(r) /\ journal[r] \in Journal
    BY <1>1, IssuedIds DEF ReceiptInv, TypeOK, JournalInv
  <2>3. CASE journal[r].phase = "none"
    BY <2>2, <2>3 DEF Recovered, Truthful, Started, NoJournal, Ended
  <2>4. CASE journal[r].phase \in {"prepared", "remote_accepted", "committed"}
    BY <2>2, <2>4 DEF Recovered, Readable, Truthful, Started, Ended
  <2>5. CASE journal[r].phase = "invocation_started"
    BY <2>2, <2>5 DEF Recovered, Readable, Truthful
  <2>6. CASE journal[r].phase = "terminal"
    <3>1. CASE journal[r].status = "nonexecuted"
      BY <2>2, <2>6, <3>1 DEF Recovered, Readable, Truthful, Started, Ended
    <3>2. CASE journal[r].status \in Ended
      BY <2>2, <2>6, <3>2 DEF Recovered, Readable, Truthful, LaterHead, Ended
    <3> QED
      BY <2>2, <2>6, <3>1, <3>2 DEF Truthful, Journal
  <2> QED
    BY <2>2, <2>3, <2>4, <2>5, <2>6 DEF Journal, Phases
<1> QED
  BY <1>1, ReceiptInvariant, PTL

\* Of all the receipts ever signed for an action, in all lives of the process,
\* the remote chain admits at most one that authorizes it.
LEMMA OneAuthorized ==
  ASSUME ReceiptInv, NEW p \in Admitted, NEW q \in Admitted,
         Authorized(p), Authorized(q), issued[p].action = issued[q].action
  PROVE  p = q
<1>1. SUFFICES ASSUME NEW i \in 1..Len(log), NEW j \in 1..Len(log), i < j,
                      Authorized(log[i]), Authorized(log[j]),
                      issued[log[i]].action = issued[log[j]].action
               PROVE  FALSE
  <2>1. PICK i \in 1..Len(log), j \in 1..Len(log) : p = log[i] /\ q = log[j]
    BY IssuedIds DEF ReceiptInv, Admitted
  <2>2. i < j \/ j < i \/ i = j
    BY <2>1 DEF ReceiptInv, TypeOK
  <2> QED
    BY <1>1, <2>1, <2>2
<1> DEFINE a(k) == issued[log[k]].action
           res(k) == issued[log[k]].resolves
<1>2. ASSUME NEW k \in 1..Len(log)
      PROVE  /\ issued[log[k]].seq - 1 = k - 1
             /\ res(k) = 0 => \A l \in 1..(k - 1) : res(l) = 0 => a(l) # a(k)
             /\ res(k) # 0 => /\ \E l \in 1..(k - 1) : /\ res(k) = log[l] /\ a(l) = a(k)
                                                       /\ issued[log[l]].outcome = "STEP_UP"
                              /\ \A l \in 1..(k - 1) : res(l) # 0 => res(l) # res(k)
                              /\ issued[log[k]].outcome # "STEP_UP"
  <2>1. log[k] \in Issued /\ Grounded(log[k]) /\ issued[log[k]].seq = k
    BY LogEntries, IssuedIds DEF ReceiptInv, ChainInv
  <2>2. issued[log[k]].seq - 1 = k - 1
    BY <2>1
  <2>3. res(k) = 0 => a(k) \notin ActionsAt(k - 1)
    BY <2>1, <2>2 DEF Grounded
  <2>4. res(k) # 0 => /\ res(k) \in SuspendedAt(k - 1) /\ res(k) \notin ResolvedAt(k - 1)
                      /\ a(k) = issued[res(k)].action /\ issued[log[k]].outcome # "STEP_UP"
    BY <2>1, <2>2 DEF Grounded
  <2>5. res(k) = 0 => \A l \in 1..(k - 1) : res(l) = 0 => a(l) # a(k)
    BY <2>3 DEF ActionsAt
  <2>6. res(k) # 0 => \E l \in 1..(k - 1) : /\ res(k) = log[l] /\ a(l) = a(k)
                                            /\ issued[log[l]].outcome = "STEP_UP"
    BY <2>4 DEF SuspendedAt
  <2>7. res(k) # 0 => \A l \in 1..(k - 1) : res(l) # 0 => res(l) # res(k)
    BY <2>4 DEF ResolvedAt
  <2> QED
    BY <2>2, <2>4, <2>5, <2>6, <2>7
\* Two decisions of one action are the same entry.
<1>3. ASSUME NEW k \in 1..Len(log), NEW l \in 1..Len(log), res(k) = 0, res(l) = 0, a(k) = a(l)
      PROVE  k = l
  <2>1. k < l \/ l < k \/ k = l
    BY DEF ReceiptInv, TypeOK
  <2>2. CASE k < l
    <3>1. k \in 1..(l - 1)
      BY <2>2
    <3> QED
      BY <1>2, <1>3, <3>1
  <2>3. CASE l < k
    <3>1. l \in 1..(k - 1)
      BY <2>3
    <3> QED
      BY <1>2, <1>3, <3>1
  <2> QED
    BY <2>1, <2>2, <2>3
\* What authorizes an action comes from the entry that decided it.
<1>4. ASSUME NEW k \in 1..Len(log)
      PROVE  \E d \in 1..Len(log) : /\ res(d) = 0 /\ a(d) = a(k)
                                    /\ d = k \/ (res(k) = log[d] /\ res(k) # 0
                                                 /\ issued[log[d]].outcome = "STEP_UP")
  <2>1. CASE res(k) = 0
    BY <2>1
  <2>2. CASE res(k) # 0
    <3>1. PICK l \in 1..(k - 1) : /\ res(k) = log[l] /\ a(l) = a(k)
                                  /\ issued[log[l]].outcome = "STEP_UP"
      BY <1>2, <2>2
    <3>2. l \in 1..Len(log)
      BY <3>1, IssuedIds DEF ReceiptInv
    <3>3. res(l) = 0
      BY <1>2, <3>1, <3>2
    <3> QED
      BY <2>2, <3>1, <3>2, <3>3
  <2> QED
    BY <2>1, <2>2
<1>5. PICK d \in 1..Len(log) : /\ res(d) = 0 /\ a(d) = a(i)
                               /\ d = i \/ (res(i) = log[d] /\ res(i) # 0
                                            /\ issued[log[d]].outcome = "STEP_UP")
  BY <1>4
<1>6. PICK e \in 1..Len(log) : /\ res(e) = 0 /\ a(e) = a(j)
                               /\ e = j \/ (res(j) = log[e] /\ res(j) # 0
                                            /\ issued[log[e]].outcome = "STEP_UP")
  BY <1>4
<1>7. d = e
  BY <1>1, <1>3, <1>5, <1>6
<1>8. CASE d = i
  BY <1>1, <1>5, <1>6, <1>7, <1>8 DEF Authorized
<1>9. CASE e = j
  BY <1>1, <1>5, <1>6, <1>7, <1>9 DEF Authorized
<1>10. CASE res(i) # 0 /\ res(j) # 0 /\ res(i) = res(j)
  <2>1. i \in 1..(j - 1)
    BY <1>1
  <2> QED
    BY <1>2, <1>10, <2>1
<1> QED
  BY <1>5, <1>6, <1>7, <1>8, <1>9, <1>10

----------------------------------------------------------------------------
(* The profile implements the execution ledger.                            *)

\* The ledger's names, as the profile has them.
LEMMA LedgerNames ==
  /\ Ledger!Admitted = Admitted
  /\ \A r : Ledger!Authorizes(r) <=> Authorized(r)
BY DEF Ledger!Admitted, Admitted, Ledger!Authorizes, Authorized

\* Which receipts are started and entered is read off the journal and the fate.
LEMMA LedgerUntouched ==
  ASSUME ReceiptInv, UNCHANGED <<issued, log>>, NEW r \in Issued,
         \A q \in Ids \ {r} : journal'[q] = journal[q] /\ fate'[q] = fate[q],
         r \in Started' <=> r \in Started,
         fate'[r] # "none" <=> fate[r] # "none"
  PROVE  UNCHANGED Ledger!ledger
<1>1. Issued' = Issued /\ Issued \subseteq Ids
  BY IssuedIds DEF Issued, ReceiptInv
<1>2. Started' = Started
  BY <1>1 DEF Started
<1>3. Entered' = Entered
  BY <1>1 DEF Entered
<1> QED
  BY <1>2, <1>3 DEF Ledger!ledger

\* Every step is a step of the ledger, or none.
LEMMA LedgerStep ==
  ASSUME ReceiptInv, [Next]_vars
  PROVE  [Ledger!Next]_(Ledger!ledger)
<1> USE DEF ReceiptInv
<1>i. ReceiptInv'
  BY ReceiptStep
<1>p. ASSUME NEW r \in Issued
      PROVE  r \in Ids /\ Holding(r) /\ Truthful(r) /\ AtStep(r) /\ fate[r] \in {"none", "entered"} \cup Ended
  <2>1. r \in Ids
    BY IssuedIds
  <2> QED
    BY <2>1 DEF WorkInv, JournalInv, TypeOK
<1>1. ASSUME NEW action \in Actions, NEW resolves \in 0..MaxReceipts, NEW outcome \in Outcomes,
             Prepare(action, resolves, outcome)
      PROVE  Ledger!Issue
  <2>0. PICK r : r = Len(issued) + 1
    OBVIOUS
  <2>1. /\ r \in Ids \ Issued /\ Issued' = Issued \cup {r}
        /\ \A q \in Issued : issued'[q] = issued[q]
        /\ issued'[r] = [action |-> action, resolves |-> resolves, outcome |-> outcome,
                         seq |-> coord.chain.seq + 1, prev |-> ChainHead]
    BY <1>1, <2>0, PrepareType
  <2>2. issued' = Append(issued, issued'[r]) /\ log' = log /\ journal' = journal /\ fate' = fate
    BY <1>1, <2>0, <2>1 DEF Prepare
  <2>3. issued'[r] \in Receipt
    <3>1. issued' \in Seq(Receipt) /\ r \in DOMAIN issued'
      BY <1>i, <2>1 DEF TypeOK, Issued
    <3> QED
      BY <3>1
  <2>4. Truthful(r) /\ AtStep(r) /\ pc[r] = "none"
    BY <2>1 DEF JournalInv, WorkInv, Holding
  <2>5. journal[r] = NoJournal /\ r \notin Started /\ fate[r] = "none"
    BY <2>1, <2>4 DEF Truthful, AtStep, Started
  <2>6. Started' = Started
    BY <2>1, <2>2, <2>5 DEF Started, NoJournal, Ended
  <2>7. Entered' = Entered
    BY <2>1, <2>2, <2>5 DEF Entered
  <2> QED
    BY <2>2, <2>3, <2>6, <2>7 DEF Ledger!Issue
<1>2. CASE RunDecision
  <2>1. PICK a \in Actions, outcome \in Outcomes : Prepare(a, 0, outcome)
    BY <1>2, DecisionAsks
  <2>2. 0 \in 0..MaxReceipts
    BY StrictReceiptAssumption
  <2> QED
    BY <1>1, <2>1, <2>2 DEF Ledger!Next
<1>3. CASE RunApproval
  <2>1. PICK s \in SuspendedAt(coord.chain.seq), outcome \in Outcomes \ {"STEP_UP"} :
          s \in Issued /\ Prepare(issued[s].action, s, outcome)
    BY <1>3, ApprovalAsks
  <2>2. issued[s].action \in Actions /\ s \in 0..MaxReceipts /\ outcome \in Outcomes
    BY <2>1, IssuedIds DEF Receipt
  <2> QED
    BY <1>1, <2>1, <2>2 DEF Ledger!Next
<1>4. CASE UNCHANGED <<issued, log, journal, fate>>
  <2>1. Issued' = Issued
    BY <1>4 DEF Issued
  <2>2. Started' = Started
    BY <1>4, <2>1 DEF Started
  <2>3. Entered' = Entered
    BY <1>4, <2>1 DEF Entered
  <2> QED
    BY <1>4, <2>2, <2>3 DEF Ledger!ledger
<1>5. ASSUME NEW r \in Issued, SavePrepared(r) \/ SaveAccepted(r) \/ SaveCommitted(r) \/ SaveNonexecuted(r)
      PROVE  UNCHANGED Ledger!ledger
  <2>1. pc[r] \in BusySteps /\ UNCHANGED <<issued, log, fate>> /\ Issued' = Issued
    BY <1>5 DEF SavePrepared, SaveAccepted, SaveCommitted, SaveNonexecuted, BusySteps, Issued
  <2>2. r \notin Started
    BY <1>p, <2>1 DEF Truthful, AtStep, Started, BusySteps, NoJournal, Ended
  <2>3. PICK phase \in {"prepared", "remote_accepted", "committed", "terminal"},
             status \in {"none", "nonexecuted"} : MaybeWritten(r, phase, status)
    BY <1>5 DEF SavePrepared, SaveAccepted, SaveCommitted, SaveNonexecuted, MaybeWritten
  <2>4. /\ \/ journal'[r] = journal[r]
           \/ journal'[r] = [phase |-> phase, status |-> status, head |-> snap[r]]
        /\ \A q \in Ids \ {r} : journal'[q] = journal[q]
    BY <2>3, EntryWritten
  <2>5. r \notin Started'
    BY <2>2, <2>4 DEF Started, Ended
  <2> QED
    BY <2>1, <2>2, <2>4, <2>5, LedgerUntouched
<1>6. ASSUME NEW r \in Issued, SaveStarted(r)
      PROVE  [Ledger!Next]_(Ledger!ledger)
  <2>1. /\ pc[r] = "starting" /\ UNCHANGED <<issued, log, fate>> /\ Issued' = Issued
        /\ MaybeWritten(r, "invocation_started", "none")
    BY <1>6 DEF SaveStarted, Issued, MaybeWritten
  <2>2. r \notin Started /\ r \in Admitted /\ Authorized(r)
    BY <1>p, <2>1 DEF Truthful, AtStep, Started, Holding, Ended
  <2>3. /\ \/ journal'[r] = journal[r]
           \/ journal'[r] = [phase |-> "invocation_started", status |-> "none", head |-> snap[r]]
        /\ \A q \in Ids \ {r} : journal'[q] = journal[q]
    BY <2>1, EntryWritten
  <2>4. CASE journal'[r] = journal[r]
    <3>1. r \in Started' <=> r \in Started
      BY <2>1, <2>4 DEF Started
    <3> QED
      BY <2>1, <2>3, <3>1, LedgerUntouched
  <2>5. CASE journal'[r] = [phase |-> "invocation_started", status |-> "none", head |-> snap[r]]
    <3>1. Started' = Started \cup {r}
      <4>1. r \in Started'
        BY <2>1, <2>5 DEF Started
      <4>2. \A q \in Issued \ {r} : q \in Started' <=> q \in Started
        BY <1>p, <2>1, <2>3 DEF Started
      <4>3. Started \subseteq Issued /\ Started' \subseteq Issued
        BY <2>1 DEF Started
      <4> QED
        BY <4>1, <4>2, <4>3
    <3>2. Entered' = Entered
      BY <2>1 DEF Entered
    <3>3. \A s \in Started : issued[s].action # issued[r].action
      <4>1. SUFFICES ASSUME NEW s \in Started, issued[s].action = issued[r].action
                     PROVE  FALSE
        OBVIOUS
      <4>2. s \in Admitted /\ Authorized(s)
        <5>1. s \in Issued
          BY DEF Started
        <5> QED
          BY <1>p, <5>1 DEF Truthful
      <4> QED
        BY <2>2, <4>1, <4>2, OneAuthorized
    <3>4. Ledger!Start(r)
      BY <2>1, <2>2, <3>1, <3>2, <3>3, LedgerNames DEF Ledger!Start
    <3> QED
      BY <3>4 DEF Ledger!Next, Issued
  <2> QED
    BY <2>3, <2>4, <2>5
<1>7. ASSUME NEW r \in Issued, Invoke(r)
      PROVE  Ledger!Next
  <2>1. /\ pc[r] = "started" /\ UNCHANGED <<issued, log, journal>> /\ Issued' = Issued
        /\ fate' = [fate EXCEPT ![r] = "entered"]
    BY <1>7 DEF Invoke, Issued
  <2>2. r \in Started /\ r \notin Entered
    BY <1>p, <2>1 DEF Truthful, AtStep, Started, Entered
  <2>3. Entered' = Entered \cup {r}
    <3>1. fate'[r] = "entered" /\ \A q \in Ids \ {r} : fate'[q] = fate[q]
      BY <1>p, <2>1 DEF TypeOK
    <3>2. r \in Entered'
      BY <2>1, <3>1 DEF Entered
    <3>3. \A q \in Issued \ {r} : q \in Entered' <=> q \in Entered
      BY <1>p, <2>1, <3>1 DEF Entered
    <3>4. Entered \subseteq Issued /\ Entered' \subseteq Issued
      BY <2>1 DEF Entered
    <3> QED
      BY <3>2, <3>3, <3>4
  <2>4. Started' = Started
    BY <2>1 DEF Started
  <2> QED
    BY <2>1, <2>2, <2>3, <2>4 DEF Ledger!Enter, Ledger!Next, Issued
<1>8. ASSUME NEW r \in Issued, InvocationEnds(r)
      PROVE  UNCHANGED Ledger!ledger
  <2>1. pc[r] = "invoking" /\ UNCHANGED <<issued, log, journal>> /\ Issued' = Issued
    BY <1>8 DEF InvocationEnds, Issued
  <2>2. fate'[r] # "none" /\ \A q \in Ids \ {r} : fate'[q] = fate[q]
    <3>1. PICK outcome \in Endings : fate' = [fate EXCEPT ![r] = outcome]
      BY <1>8 DEF InvocationEnds
    <3> QED
      BY <1>p, <3>1, StrictReceiptAssumption DEF TypeOK
  <2>3. r \in Started' <=> r \in Started
    BY <2>1 DEF Started
  <2>4. fate[r] # "none"
    BY <1>p, <2>1 DEF AtStep
  <2> QED
    BY <2>1, <2>2, <2>3, <2>4, LedgerUntouched
<1>9. ASSUME NEW r \in Issued, SaveOutcome(r)
      PROVE  UNCHANGED Ledger!ledger
  <2>1. /\ pc[r] = "ending" /\ UNCHANGED <<issued, log, fate>> /\ Issued' = Issued
        /\ MaybeWritten(r, "terminal", fate[r])
    BY <1>9 DEF SaveOutcome, Issued, MaybeWritten
  <2>2. r \in Started /\ fate[r] \in Ended
    BY <1>p, <2>1 DEF AtStep, Started
  <2>3. /\ \/ journal'[r] = journal[r]
           \/ journal'[r] = [phase |-> "terminal", status |-> fate[r], head |-> snap[r]]
        /\ \A q \in Ids \ {r} : journal'[q] = journal[q]
    BY <2>1, EntryWritten
  <2>4. r \in Started'
    BY <2>1, <2>2, <2>3 DEF Started
  <2> QED
    BY <2>1, <2>2, <2>3, <2>4, LedgerUntouched
<1>10. ASSUME NEW r \in Issued, FinalizeInterrupted(r)
       PROVE  UNCHANGED Ledger!ledger
  <2>1. UNCHANGED <<issued, log, fate>> /\ Issued' = Issued
    BY <1>10 DEF FinalizeInterrupted, Issued
  <2>2. journal[r] \in Journal /\ journal[r].phase = "invocation_started"
    <3>1. Recovered(r) = "outcome_unresolved" /\ journal[r] \in Journal
      BY <1>p, <1>10 DEF FinalizeInterrupted, TypeOK
    <3> QED
      BY <3>1 DEF Recovered, Journal, Ended
  <2>3. /\ journal'[r].status = "invocation_uncertain"
        /\ \A q \in Ids \ {r} : journal'[q] = journal[q]
    BY <1>p, <1>10, <2>2 DEF FinalizeInterrupted, TypeOK, Journal
  <2>4. r \in Started /\ r \in Started'
    BY <2>1, <2>2, <2>3 DEF Started, Ended
  <2> QED
    BY <2>1, <2>3, <2>4, LedgerUntouched
<1>11. ASSUME NEW r \in Issued, StoreReceipt(r)
       PROVE  Ledger!Next
  <2>1. r \notin Admitted
    BY <1>i, <1>11, StoreChain
  <2>2. log' = Append(log, r) /\ UNCHANGED <<issued, journal, fate>> /\ Issued' = Issued
    BY <1>11 DEF StoreReceipt, Issued
  <2>3. Started' = Started
    BY <2>2 DEF Started
  <2>4. Entered' = Entered
    BY <2>2 DEF Entered
  <2> QED
    BY <2>1, <2>2, <2>3, <2>4, LedgerNames DEF Ledger!Admit, Ledger!Next, Issued
<1>12. ASSUME NEW r \in Issued, AdmissionAccepted(r) \/ AdmissionRefused(r) \/ AdmissionUncertain(r)
       PROVE  [Ledger!Next]_(Ledger!ledger)
  BY <1>4, <1>12 DEF AdmissionAccepted, AdmissionRefused, AdmissionUncertain
<1>13. CASE BindingUnavailable \/ ExportCheckpoint \/ CrashAndRestore \/ ReconcileAccepted
  BY <1>4, <1>13 DEF BindingUnavailable, ExportCheckpoint, CrashAndRestore, ReconcileAccepted
<1>14. CASE UNCHANGED vars
  BY <1>4, <1>14 DEF vars
<1> QED
  BY <1>2, <1>3, <1>5, <1>6, <1>7, <1>8, <1>9, <1>10, <1>11, <1>12, <1>13, <1>14 DEF Next, Runs

\* The profile implements the ledger: an action is invoked only under an
\* admitted receipt that authorizes it and after its start is durable, and
\* never under two receipts.
THEOREM ProfileImplementsLedger == Spec => LedgerRefined
<1>1. Init => Ledger!Init
  <2> SUFFICES ASSUME Init PROVE Ledger!Init
    OBVIOUS
  <2>1. Issued = {}
    BY DEF Init, Issued
  <2>2. Started = {} /\ Entered = {}
    BY <2>1 DEF Started, Entered
  <2> QED
    BY <2>2 DEF Init, Ledger!Init
<1>2. ReceiptInv /\ [Next]_vars => [Ledger!Next]_(Ledger!ledger)
  BY LedgerStep
<1> QED
  BY <1>1, <1>2, ReceiptInvariant, PTL DEF Spec, LedgerRefined, Ledger!Spec

----------------------------------------------------------------------------
(* The inductive invariant of profiles 1.0 and 2.0.                        *)

IsSession(state) ==
  state = [id |-> state.id, seq |-> state.seq, head |-> state.head, last |-> state.last,
           prior |-> state.prior, suspended |-> state.suspended, resolved |-> state.resolved,
           decided |-> state.decided, requests |-> state.requests]

SignedIds == 1..Len(signed)

\* The shape of what the coordinator, the runtime and the stores hold.
SessionShape ==
  /\ setup \in Setups
  /\ Len(signed) \in Nat /\ signed \in Seq({signed[i] : i \in SignedIds})
  /\ IsSession(session) /\ IsSession(saved.chain)
  /\ saved = [chain |-> saved.chain, recovering |-> saved.recovering]
  /\ slot = [receipt |-> slot.receipt, frozen |-> slot.frozen, recovering |-> slot.recovering]
  /\ slot.recovering \in SignedIds \cup {0} /\ saved.recovering \in SignedIds \cup {0}
  /\ \/ op = NoOp
     \/ /\ op = [at |-> op.at, receipt |-> op.receipt]
        /\ op.at \in {"saving", "sending", "closing", "recording", "invoking"}
        /\ op.receipt \in SignedIds
  /\ posted \subseteq SignedIds
  /\ stored \in [0..MaxLives -> Seq(Nat)]
  /\ invoked \in Seq(SignedIds)

ActionOf(r) == signed[r].action
InvokedActions == {ActionOf(invoked[i]) : i \in DOMAIN invoked}

\* A receipt that may still be committed to a session is about an action it
\* has not decided, or about a suspension it has not resolved.
Fresh(r, state) ==
  IF Resolves(signed[r])
    THEN /\ signed[r].resolves \in state.suspended \ state.resolved
         /\ ActionOf(r) = ActionOf(signed[r].resolves)
    ELSE ActionOf(r) \notin state.decided

\* Profile 2.0: a session suspends an action once, and no action it may still
\* resolve was invoked.
OncePerAction(state) ==
  /\ state.suspended \subseteq SignedIds
  /\ \A s \in state.suspended : ActionOf(s) \in state.decided
  /\ \A s, t \in state.suspended : ActionOf(s) = ActionOf(t) => s = t
  /\ \A s \in state.suspended \ state.resolved : ActionOf(s) \notin InvokedActions

FirstProfile ==
  ~V2 =>
    /\ InvokedActions \subseteq results
    /\ op.at \in {"idle", "sending", "invoking"}
    /\ op.at = "sending" /\ Grants(signed[op.receipt].outcome) => ActionOf(op.receipt) \notin results

SecondProfile ==
  V2 =>
    /\ OncePerAction(session) /\ OncePerAction(saved.chain)
    /\ InvokedActions \subseteq saved.chain.decided
    /\ saved.chain.decided \subseteq session.decided
    /\ slot.recovering # 0 => Fresh(slot.recovering, session)
    /\ saved.recovering # 0 => Fresh(saved.recovering, saved.chain)
    /\ op.at \in {"saving", "sending"} => op.receipt = slot.recovering
    /\ op.at = "recording" =>
         /\ IsStored(op.receipt)
         /\ ActionOf(op.receipt) \in session.decided \ InvokedActions
         /\ Grants(signed[op.receipt].outcome) =>
              \A s \in session.suspended \ session.resolved : ActionOf(s) # ActionOf(op.receipt)

StrictInv == SessionShape /\ FirstProfile /\ SecondProfile /\ InvokedOnce

----------------------------------------------------------------------------
(* Signing, committing and invoking.                                       *)

\* A sequence takes any further element.
LEMMA AppendAny ==
  ASSUME NEW S, NEW s \in Seq(S), NEW e
  PROVE  /\ Append(s, e) \in Seq(S \cup {e})
         /\ Len(Append(s, e)) = Len(s) + 1 /\ Append(s, e)[Len(s) + 1] = e
         /\ \A i \in 1..Len(s) : Append(s, e)[i] = s[i]
         /\ DOMAIN s = 1..Len(s) /\ Len(s) \in Nat
<1>1. s \in Seq(S \cup {e})
  OBVIOUS
<1> QED
  BY <1>1

\* A sequence over one set of elements is a sequence over any larger one.
LEMMA SeqWidens ==
  ASSUME NEW S, NEW T, S \subseteq T, NEW s \in Seq(S)
  PROVE  s \in Seq(T)
OBVIOUS

\* A receipt signed now or before has a place among the signed ones, and the
\* others keep theirs.
LEMMA ProposeSigned ==
  ASSUME SessionShape, NEW receipt, Propose(receipt)
  PROVE  \E r \in SignedIds' :
           /\ signed'[r] = receipt
           /\ Len(signed') \in Nat /\ signed' \in Seq({signed'[i] : i \in SignedIds'})
           /\ SignedIds \subseteq SignedIds' /\ SignedIds' = SignedIds \cup {r}
           /\ \A i \in SignedIds : signed'[i] = signed[i]
           /\ WellFormed(receipt)
           /\ UNCHANGED <<setup, results, stored, refused, invoked, saved, lives>>
           /\ IF Runtime
                THEN /\ slot' = [receipt |-> r, frozen |-> FALSE, recovering |-> IF V2 THEN r ELSE 0]
                     /\ op' = [at |-> IF V2 THEN "saving" ELSE "sending", receipt |-> r]
                     /\ posted' \subseteq posted \cup {r}
                     /\ session' = session
                ELSE session' = WithReceipt(session, signed', r) /\ UNCHANGED <<slot, op, posted>>
<1> DEFINE r == HashOf(receipt)
           S == {signed[i] : i \in SignedIds}
<1>0. signed \in Seq(S) /\ Len(signed) \in Nat /\ DOMAIN signed = SignedIds /\ SignedIds = 1..Len(signed)
  BY DEF SessionShape, SignedIds
<1>1. /\ signed' = (IF r \in DOMAIN signed THEN signed ELSE Append(signed, receipt))
      /\ WellFormed(receipt)
      /\ UNCHANGED <<setup, results, stored, refused, invoked, saved, lives>>
      /\ IF Runtime
           THEN /\ slot' = [receipt |-> r, frozen |-> FALSE, recovering |-> IF V2 THEN r ELSE 0]
                /\ op' = [at |-> IF V2 THEN "saving" ELSE "sending", receipt |-> r]
                /\ posted' \subseteq posted \cup {r}
                /\ session' = session
           ELSE session' = WithReceipt(session, signed', r) /\ UNCHANGED <<slot, op, posted>>
  BY DEF Propose
<1>2. \/ r \in SignedIds /\ signed[r] = receipt
      \/ r = Len(signed) + 1
  BY <1>0 DEF HashOf
<1> HIDE DEF r, S
<1>3. CASE r \in SignedIds /\ signed[r] = receipt
  BY <1>0, <1>1, <1>3 DEF SignedIds, S
<1>4. CASE r = Len(signed) + 1
  <2>1. r \notin DOMAIN signed
    BY <1>0, <1>4
  <2>2. signed' = Append(signed, receipt)
    BY <1>1, <2>1
  <2>3. /\ signed' \in Seq(S \cup {receipt})
        /\ Len(signed') = r /\ signed'[r] = receipt
        /\ \A i \in SignedIds : signed'[i] = signed[i]
    BY <1>0, <1>4, <2>2, AppendAny
  <2>4. SignedIds' = 1..r /\ 1..r = SignedIds \cup {r} /\ r \in 1..r /\ r \in Nat
    BY <1>0, <1>4, <2>3 DEF SignedIds
  <2>5. S \cup {receipt} \subseteq {signed'[i] : i \in SignedIds'}
    BY <2>3, <2>4 DEF S
  <2>6. signed' \in Seq({signed'[i] : i \in SignedIds'})
    BY <2>3, <2>5, SeqWidens
  <2> QED
    BY <1>1, <2>3, <2>4, <2>6
<1> QED
  BY <1>2, <1>3, <1>4

\* Committing a fresh receipt of profile 2.0.
LEMMA CommitFresh ==
  ASSUME NEW state, IsSession(state), OncePerAction(state), NEW r \in SignedIds, Fresh(r, state),
         InvokedActions \subseteq state.decided,
         NEW new, new = WithReceipt(state, signed, r)
  PROVE  /\ IsSession(new) /\ OncePerAction(new)
         /\ state.decided \subseteq new.decided
         /\ ActionOf(r) \in new.decided \ InvokedActions
         /\ Grants(signed[r].outcome) =>
              \A s \in new.suspended \ new.resolved : ActionOf(s) # ActionOf(r)
<1>1. /\ IsSession(new)
      /\ Resolves(signed[r]) =>
           /\ new.decided = state.decided /\ new.suspended = state.suspended
           /\ new.resolved = state.resolved \cup {signed[r].resolves}
      /\ ~Resolves(signed[r]) =>
           /\ new.decided = state.decided \cup {ActionOf(r)}
           /\ new.suspended = IF Suspends(signed[r]) THEN state.suspended \cup {r}
                                                     ELSE state.suspended
           /\ new.resolved = state.resolved
  <2> DEFINE prior == Resummarized(state.prior, signed, r)
             added == Append(state.prior, Summary(signed, r))
             requests == IF signed[r].outcome = "STEP_UP"
                           THEN state.requests \cup {[request |-> signed[r].request, receipt |-> r]}
                           ELSE state.requests
  <2>1. CASE Resolves(signed[r])
    <3>1. new = [id |-> state.id, seq |-> signed[r].seq, head |-> r, last |-> signed[r].time,
                 prior |-> prior, suspended |-> state.suspended,
                 resolved |-> state.resolved \cup {signed[r].resolves},
                 decided |-> state.decided, requests |-> state.requests]
      <4> HIDE DEF prior
      <4> QED
        BY <2>1 DEF WithReceipt, IsSession, prior
    <3> HIDE DEF prior
    <3> QED
      BY <2>1, <3>1 DEF IsSession
  <2>2. CASE ~Resolves(signed[r])
    <3>1. new = [id |-> state.id, seq |-> signed[r].seq, head |-> r, last |-> signed[r].time,
                 prior |-> added,
                 suspended |-> IF Suspends(signed[r]) THEN state.suspended \cup {r}
                                                      ELSE state.suspended,
                 resolved |-> state.resolved,
                 decided |-> state.decided \cup {ActionOf(r)}, requests |-> requests]
      BY <2>2 DEF WithReceipt, IsSession, ActionOf
    <3> HIDE DEF added, requests
    <3> QED
      BY <2>2, <3>1 DEF IsSession
  <2> QED
    BY <2>1, <2>2
<1>2. CASE Resolves(signed[r])
  <2> DEFINE s0 == signed[r].resolves
  <2>1. s0 \in state.suspended \ state.resolved /\ ActionOf(r) = ActionOf(s0)
    BY <1>2 DEF Fresh
  <2>2. ActionOf(r) \in state.decided /\ ActionOf(r) \notin InvokedActions
    BY <2>1 DEF OncePerAction
  <2>3. \A s \in new.suspended \ new.resolved : ActionOf(s) # ActionOf(r)
    BY <1>1, <1>2, <2>1 DEF OncePerAction
  <2>4. OncePerAction(new)
    BY <1>1, <1>2 DEF OncePerAction
  <2> QED
    BY <1>1, <1>2, <2>2, <2>3, <2>4
<1>3. CASE ~Resolves(signed[r])
  <2>1. ActionOf(r) \notin state.decided /\ ActionOf(r) \notin InvokedActions
    BY <1>3 DEF Fresh
  <2>2. \A s \in state.suspended : ActionOf(s) # ActionOf(r)
    BY <2>1 DEF OncePerAction
  <2>3. OncePerAction(new)
    BY <1>1, <1>3, <2>1, <2>2 DEF OncePerAction
  <2>4. Grants(signed[r].outcome) => new.suspended = state.suspended
    BY <1>1, <1>3 DEF Grants, Suspends
  <2> QED
    BY <1>1, <1>3, <2>1, <2>2, <2>3, <2>4
<1> QED
  BY <1>2, <1>3

\* An action is invoked under a receipt that is stored and authorizes it, and
\* was not invoked before.
LEMMA Invoking ==
  ASSUME SessionShape, InvokedOnce, NEW r \in SignedIds, invoked' = Append(invoked, r),
         UNCHANGED <<signed, stored>>,
         ActionOf(r) \notin InvokedActions, Grants(signed[r].outcome), IsStored(r)
  PROVE  /\ InvokedOnce' /\ InvokedActions' = InvokedActions \cup {ActionOf(r)}
         /\ invoked' \in Seq(SignedIds)
<1>1. /\ invoked \in Seq(SignedIds) /\ DOMAIN invoked = 1..Len(invoked) /\ Len(invoked) \in Nat
  BY DEF SessionShape
<1>2. /\ invoked' \in Seq(SignedIds) /\ Len(invoked') = Len(invoked) + 1
      /\ invoked'[Len(invoked) + 1] = r
      /\ \A i \in 1..Len(invoked) : invoked'[i] = invoked[i]
      /\ DOMAIN invoked' = 1..Len(invoked) + 1
  BY <1>1
<1>3. \A i \in DOMAIN invoked' : i \in DOMAIN invoked \/ i = Len(invoked) + 1
  BY <1>1, <1>2
<1>4. \A i \in DOMAIN invoked : i \in DOMAIN invoked'
  BY <1>1, <1>2
<1>5. InvokedActions' = InvokedActions \cup {ActionOf(r)}
  <2>1. Len(invoked) + 1 \in DOMAIN invoked'
    BY <1>1, <1>2
  <2> QED
    BY <1>1, <1>2, <1>3, <1>4, <2>1 DEF InvokedActions, ActionOf
<1>6. \A i, j \in DOMAIN invoked' :
        signed'[invoked'[i]].action = signed'[invoked'[j]].action => i = j
  <2>1. \A i \in DOMAIN invoked : signed[invoked[i]].action # signed[r].action
    BY DEF InvokedActions, ActionOf
  <2> QED
    BY <1>1, <1>2, <1>3, <2>1 DEF InvokedOnce
<1>7. \A i \in DOMAIN invoked' : Grants(signed'[invoked'[i]].outcome) /\ IsStored(invoked'[i])
  BY <1>1, <1>2, <1>3 DEF InvokedOnce
<1>8. \A i \in DOMAIN invoked' : IsStored(invoked[i])'
  BY <1>7 DEF IsStored
<1> QED
  BY <1>2, <1>5, <1>6, <1>7, <1>8 DEF InvokedOnce

----------------------------------------------------------------------------
(* Every step keeps the invariant.                                         *)

\* Committing any receipt leaves a session in shape.
LEMMA CommittedShape ==
  ASSUME NEW state, IsSession(state), NEW receipts, NEW r
  PROVE  IsSession(WithReceipt(state, receipts, r))
<1> DEFINE prior == Resummarized(state.prior, receipts, r)
           added == Append(state.prior, Summary(receipts, r))
<1>1. CASE Resolves(receipts[r])
  <2>1. WithReceipt(state, receipts, r) =
          [id |-> state.id, seq |-> receipts[r].seq, head |-> r, last |-> receipts[r].time,
           prior |-> prior, suspended |-> state.suspended,
           resolved |-> state.resolved \cup {receipts[r].resolves},
           decided |-> state.decided, requests |-> state.requests]
    <3> HIDE DEF prior
    <3> QED
      BY <1>1 DEF WithReceipt, IsSession, prior
  <2> HIDE DEF prior
  <2> QED
    BY <2>1 DEF IsSession
<1>2. CASE ~Resolves(receipts[r])
  <2>1. WithReceipt(state, receipts, r) =
          [id |-> state.id, seq |-> receipts[r].seq, head |-> r, last |-> receipts[r].time,
           prior |-> added,
           suspended |-> IF Suspends(receipts[r]) THEN state.suspended \cup {r}
                                                  ELSE state.suspended,
           resolved |-> state.resolved,
           decided |-> state.decided \cup {receipts[r].action},
           requests |-> IF receipts[r].outcome = "STEP_UP"
                          THEN state.requests \cup {[request |-> receipts[r].request, receipt |-> r]}
                          ELSE state.requests]
    BY <1>2 DEF WithReceipt, IsSession
  <2> HIDE DEF added
  <2> QED
    BY <2>1 DEF IsSession
<1> QED
  BY <1>1, <1>2

\* Receipts signed before stay what they are, so what is said of them holds on.
LEMMA HeldAsSignedGrows ==
  ASSUME SessionShape, SignedIds \subseteq SignedIds', signed' \in Seq({signed'[i] : i \in SignedIds'}),
         \A i \in SignedIds : signed'[i] = signed[i], UNCHANGED <<invoked, stored>>
  PROVE  /\ InvokedActions' = InvokedActions
         /\ invoked' \in Seq(SignedIds')
         /\ InvokedOnce => InvokedOnce'
         /\ \A state : OncePerAction(state) => OncePerAction(state)'
         /\ \A state, r : r \in SignedIds /\ OncePerAction(state) /\ Fresh(r, state) =>
                            Fresh(r, state)'
<1>1. /\ invoked \in Seq(SignedIds) /\ \A i \in DOMAIN invoked : invoked[i] \in SignedIds
  BY DEF SessionShape
<1>2. InvokedActions' = InvokedActions
  BY <1>1 DEF InvokedActions, ActionOf
<1>3. invoked' \in Seq(SignedIds')
  BY <1>1, SeqWidens
<1>4. ASSUME InvokedOnce PROVE InvokedOnce'
  <2>1. \A i \in DOMAIN invoked : signed'[invoked'[i]] = signed[invoked[i]]
    BY <1>1
  <2>2. \A i, j \in DOMAIN invoked' :
          signed'[invoked'[i]].action = signed'[invoked'[j]].action => i = j
    BY <1>4, <2>1 DEF InvokedOnce
  <2>3. \A i \in DOMAIN invoked' : Grants(signed'[invoked'[i]].outcome)
    BY <1>4, <2>1 DEF InvokedOnce
  <2>4. ASSUME NEW i \in DOMAIN invoked PROVE IsStored(invoked[i])'
    <3>1. IsStored(invoked[i])
      BY <1>4 DEF InvokedOnce
    <3>2. signed'[invoked'[i]] = signed[invoked[i]]
      BY <2>1
    <3> QED
      BY <3>1, <3>2 DEF IsStored
  <2> QED
    BY <2>2, <2>3, <2>4 DEF InvokedOnce
<1>5. ASSUME NEW state, OncePerAction(state) PROVE OncePerAction(state)'
  BY <1>2, <1>5 DEF OncePerAction, ActionOf
<1>6. ASSUME NEW state, NEW r \in SignedIds, OncePerAction(state), Fresh(r, state)
      PROVE  Fresh(r, state)'
  BY <1>6 DEF Fresh, OncePerAction, ActionOf
<1> QED
  BY <1>2, <1>3, <1>4, <1>5, <1>6

\* A receipt may be proposed that authorizes only an action with no result and
\* that is fresh for the session.
LEMMA ProposalHeld ==
  ASSUME StrictInv, MayPropose, NEW receipt, Propose(receipt),
         Grants(receipt.outcome) => receipt.action \notin results,
         IF Resolves(receipt)
           THEN /\ receipt.resolves \in session.suspended \ session.resolved
                /\ receipt.action = signed[receipt.resolves].action
           ELSE receipt.action \notin session.decided
  PROVE  StrictInv'
<1>0. SessionShape /\ InvokedOnce /\ slot = EmptySlot /\ op = NoOp
  BY DEF StrictInv, MayPropose
<1>1. PICK r \in SignedIds' :
        /\ signed'[r] = receipt
        /\ Len(signed') \in Nat /\ signed' \in Seq({signed'[i] : i \in SignedIds'})
        /\ SignedIds \subseteq SignedIds'
        /\ \A i \in SignedIds : signed'[i] = signed[i]
        /\ WellFormed(receipt)
        /\ UNCHANGED <<setup, results, stored, refused, invoked, saved, lives>>
        /\ IF Runtime
             THEN /\ slot' = [receipt |-> r, frozen |-> FALSE, recovering |-> IF V2 THEN r ELSE 0]
                  /\ op' = [at |-> IF V2 THEN "saving" ELSE "sending", receipt |-> r]
                  /\ posted' \subseteq posted \cup {r}
                  /\ session' = session
             ELSE session' = WithReceipt(session, signed', r) /\ UNCHANGED <<slot, op, posted>>
  BY <1>0, ProposeSigned
<1>2. /\ InvokedActions' = InvokedActions
      /\ invoked' \in Seq(SignedIds')
      /\ InvokedOnce'
      /\ \A state : OncePerAction(state) => OncePerAction(state)'
      /\ \A state, q : q \in SignedIds /\ OncePerAction(state) /\ Fresh(q, state) => Fresh(q, state)'
  <2>1. UNCHANGED <<invoked, stored>>
    BY <1>1
  <2> QED
    BY <1>0, <1>1, <2>1, HeldAsSignedGrows
<1>3. IsSession(session')
  <2>1. IsSession(session)
    BY <1>0 DEF SessionShape
  <2>2. CASE Runtime
    BY <1>1, <2>1, <2>2
  <2>3. CASE ~Runtime
    BY <1>1, <2>1, <2>3, CommittedShape, Zenon
  <2> QED
    BY <2>2, <2>3
<1>4. 0 \notin SignedIds /\ SignedIds \subseteq SignedIds' /\ 0 \notin SignedIds'
  BY <1>1 DEF SignedIds
<1>5. SessionShape'
  <2>1. /\ setup' \in Setups /\ IsSession(session)' /\ IsSession(saved.chain)'
        /\ (saved = [chain |-> saved.chain, recovering |-> saved.recovering])'
        /\ (saved.recovering \in SignedIds \cup {0})'
        /\ (stored \in [0..MaxLives -> Seq(Nat)])'
    BY <1>0, <1>1, <1>3 DEF SessionShape
  <2>2. CASE Runtime
    <3>1. (slot = [receipt |-> slot.receipt, frozen |-> slot.frozen, recovering |-> slot.recovering])'
          /\ (slot.recovering \in SignedIds \cup {0})'
      BY <1>1, <2>2
    <3>2. (/\ op = [at |-> op.at, receipt |-> op.receipt]
           /\ op.at \in {"saving", "sending", "closing", "recording", "invoking"}
           /\ op.receipt \in SignedIds)'
      BY <1>1, <2>2
    <3>3. posted' \subseteq SignedIds'
      BY <1>0, <1>1, <2>2 DEF SessionShape
    <3> QED
      BY <1>1, <1>2, <2>1, <3>1, <3>2, <3>3 DEF SessionShape
  <2>3. CASE ~Runtime
    <3>1. UNCHANGED <<slot, op, posted>>
      BY <1>1, <2>3
    <3> QED
      BY <1>0, <1>1, <1>2, <2>1, <3>1 DEF SessionShape
  <2> QED
    BY <2>2, <2>3
<1>6. FirstProfile'
  <2> SUFFICES ASSUME ~V2'
               PROVE  /\ (InvokedActions \subseteq results)'
                      /\ (op.at \in {"idle", "sending", "invoking"})'
                      /\ (op.at = "sending" /\ Grants(signed[op.receipt].outcome) =>
                           ActionOf(op.receipt) \notin results)'
    BY DEF FirstProfile
  <2>1. ~V2 /\ UNCHANGED results
    BY <1>1 DEF V2
  <2>2. InvokedActions \subseteq results
    BY <2>1 DEF StrictInv, FirstProfile
  <2>3. CASE Runtime
    BY <1>1, <1>2, <2>1, <2>2, <2>3 DEF ActionOf
  <2>4. CASE ~Runtime
    BY <1>0, <1>1, <1>2, <2>1, <2>2, <2>4 DEF NoOp
  <2> QED
    BY <2>3, <2>4
<1>7. SecondProfile'
  <2> SUFFICES ASSUME V2' PROVE SecondProfile'
    BY DEF SecondProfile
  <2>1. V2 /\ Runtime
    <3>1. V2
      BY <1>1 DEF V2
    <3> QED
      BY <1>0, <3>1, StrictSessionAssumption DEF V2, Runtime, SessionShape
  <2>2. /\ slot'.recovering = r /\ op'.at = "saving" /\ op'.receipt = r
        /\ session' = session /\ saved' = saved
    BY <1>1, <2>1
  <2>3. /\ OncePerAction(session) /\ OncePerAction(saved.chain)
        /\ InvokedActions \subseteq saved.chain.decided
        /\ saved.chain.decided \subseteq session.decided
        /\ saved.recovering # 0 => Fresh(saved.recovering, saved.chain)
    BY <2>1 DEF StrictInv, SecondProfile
  <2>4. OncePerAction(session)' /\ OncePerAction(saved.chain)'
    <3>1. PICK now, kept : now = session /\ kept = saved.chain
      OBVIOUS
    <3>2. OncePerAction(now)' /\ OncePerAction(kept)'
      BY <1>2, <2>3, <3>1
    <3> QED
      BY <2>2, <3>1, <3>2 DEF OncePerAction, ActionOf, SignedIds, InvokedActions
  <2>5. (saved.recovering # 0 => Fresh(saved.recovering, saved.chain))'
    <3>1. PICK q, kept : q = saved.recovering /\ kept = saved.chain
      OBVIOUS
    <3>2. ASSUME q # 0 PROVE Fresh(q, kept)'
      <4>1. q \in SignedIds
        BY <1>0, <3>1, <3>2 DEF SessionShape
      <4> QED
        BY <1>2, <2>3, <3>1, <3>2, <4>1
    <3> QED
      BY <2>2, <3>1, <3>2 DEF Fresh, ActionOf
  <2>6. Fresh(slot.recovering, session)'
    <3>1. receipt.resolves \in SignedIds \/ ~Resolves(receipt)
      BY <2>3 DEF OncePerAction
    <3> QED
      BY <1>1, <2>2, <3>1 DEF Fresh, ActionOf
  <2> QED
    BY <1>2, <2>2, <2>3, <2>4, <2>5, <2>6 DEF SecondProfile
<1> QED
  BY <1>2, <1>5, <1>6, <1>7 DEF StrictInv

\* What is proposed is fresh, and authorizes only what has no result.
LEMMA ProposingHeld ==
  ASSUME StrictInv, Decide \/ Resolve \/ ExpireSuspension
  PROVE  StrictInv'
<1>1. CASE Decide
  <2>1. PICK a \in ActionIds, input \in Proposals[setup.channel], time \in Allocated :
          NewAction(a) /\ Propose(DecisionDraft(time, a, input))
    BY <1>1 DEF Decide
  <2> DEFINE draft == DecisionDraft(time, a, input)
  <2>2. draft.action = a /\ draft.record = "decision"
    BY DEF DecisionDraft, Draft
  <2>3. /\ Grants(draft.outcome) => draft.action \notin results
        /\ ~Resolves(draft) /\ draft.action \notin session.decided
    BY <2>1, <2>2 DEF NewAction, Resolves
  <2>4. MayPropose /\ Propose(draft)
    BY <1>1, <2>1 DEF Decide
  <2> HIDE DEF draft
  <2> QED
    BY <2>3, <2>4, ProposalHeld
<1>2. CASE Resolve
  <2>1. PICK s \in session.suspended, input \in Proposals[setup.channel], time \in Allocated,
             method \in {"approval_granted", "approval_denied", "context_supplied", "cancelled"} :
          /\ Unresolved(s) /\ signed[s].action \notin results
          /\ Propose(ResolutionDraft(time, s, input, method))
    BY <1>2 DEF Resolve
  <2> DEFINE draft == ResolutionDraft(time, s, input, method)
  <2>2. draft.action = signed[s].action /\ draft.record = "resolution" /\ draft.resolves = s
    BY DEF ResolutionDraft, Draft
  <2>3. /\ Grants(draft.outcome) => draft.action \notin results
        /\ Resolves(draft) /\ draft.resolves \in session.suspended \ session.resolved
        /\ draft.action = signed[draft.resolves].action
    BY <2>1, <2>2 DEF Unresolved, Resolves
  <2>4. MayPropose /\ Propose(draft)
    BY <1>2, <2>1 DEF Resolve
  <2> HIDE DEF draft
  <2> QED
    BY <2>3, <2>4, ProposalHeld
<1>3. CASE ExpireSuspension
  <2>1. PICK s \in session.suspended, time \in Allocated :
          LET input == [context |-> signed[s].input.context, base |-> Blocked]
          IN  Unresolved(s) /\ Propose(ResolutionDraft(time, s, input, "expired"))
    BY <1>3 DEF ExpireSuspension
  <2> DEFINE input == [context |-> signed[s].input.context, base |-> Blocked]
             draft == ResolutionDraft(time, s, input, "expired")
  <2>2. /\ draft.action = signed[s].action /\ draft.record = "resolution" /\ draft.resolves = s
        /\ draft.method = "expired"
    BY DEF ResolutionDraft, Draft
  <2>3. WellFormed(draft)
    BY <2>1 DEF Propose
  <2> HIDE DEF draft
  <2>4. ~Grants(draft.outcome)
    BY <2>2, <2>3 DEF WellFormed, ResolutionFits, Resolves, Grants
  <2>5. /\ Resolves(draft) /\ draft.resolves \in session.suspended \ session.resolved
        /\ draft.action = signed[draft.resolves].action
    BY <2>1, <2>2 DEF Unresolved, Resolves
  <2>6. MayPropose /\ Propose(draft)
    BY <1>3, <2>1 DEF ExpireSuspension, draft
  <2> QED
    BY <2>4, <2>5, <2>6, ProposalHeld
<1> QED
  BY <1>1, <1>2, <1>3

\* What of the invariant a step keeps that signs nothing and invokes nothing.
LEMMA HeldWithoutSigning ==
  ASSUME UNCHANGED <<setup, signed, invoked>>
  PROVE  /\ InvokedActions' = InvokedActions /\ SignedIds' = SignedIds /\ V2' = V2
         /\ Runtime' = Runtime
         /\ \A state : OncePerAction(state)' <=> OncePerAction(state)
         /\ \A r, state : Fresh(r, state)' <=> Fresh(r, state)
         /\ \A r : ActionOf(r)' = ActionOf(r)
         /\ stored' = stored /\ InvokedOnce => InvokedOnce'
<1>1. InvokedActions' = InvokedActions /\ SignedIds' = SignedIds /\ V2' = V2 /\ Runtime' = Runtime
      /\ \A r : ActionOf(r)' = ActionOf(r)
  BY DEF InvokedActions, SignedIds, V2, Runtime, ActionOf
<1>2. ASSUME NEW state PROVE OncePerAction(state)' <=> OncePerAction(state)
  BY <1>1 DEF OncePerAction
<1>3. ASSUME NEW r, NEW state PROVE Fresh(r, state)' <=> Fresh(r, state)
  BY DEF Fresh, ActionOf
<1>4. stored' = stored /\ InvokedOnce => InvokedOnce'
  BY DEF InvokedOnce, IsStored
<1> QED
  BY <1>1, <1>2, <1>3, <1>4

\* The checkpoint written before or instead of what is exported.
LEMMA SavingHeld ==
  ASSUME SessionShape, SecondProfile, V2, saved' \in {saved, Export}
  PROVE  /\ saved' = [chain |-> saved'.chain, recovering |-> saved'.recovering]
         /\ IsSession(saved'.chain) /\ saved'.recovering \in SignedIds \cup {0}
         /\ OncePerAction(saved'.chain) /\ InvokedActions \subseteq saved'.chain.decided
         /\ saved'.chain.decided \subseteq session.decided
         /\ saved'.recovering # 0 => Fresh(saved'.recovering, saved'.chain)
<1>1. CASE saved' = saved
  BY <1>1 DEF SessionShape, SecondProfile
<1>2. CASE saved' = Export
  BY <1>2 DEF SessionShape, SecondProfile, Export
<1> QED
  BY <1>1, <1>2

\* A step of the runtime or of the checkpoint store that neither signs nor
\* invokes, nor changes what is committed or stored.
LEMMA RuntimeHeld ==
  ASSUME StrictInv,
         UNCHANGED <<setup, signed, session, stored, invoked>>,
         posted' \subseteq SignedIds, results \subseteq results',
         ~V2 => results' = results /\ saved' = saved,
         V2 => saved' \in {saved, Export},
         /\ slot' = [receipt |-> slot'.receipt, frozen |-> slot'.frozen,
                     recovering |-> slot'.recovering]
         /\ slot'.recovering \in {slot.recovering, 0},
         \/ op' = NoOp
         \/ op' = [op EXCEPT !.at = "sending"] /\ op # NoOp /\ slot' = slot /\ V2 /\ op.at = "saving"
         \/ op' = [op EXCEPT !.at = "closing"] /\ op # NoOp /\ V2
  PROVE  StrictInv'
<1>1. SessionShape /\ FirstProfile /\ SecondProfile /\ InvokedOnce
  BY DEF StrictInv
<1>2. /\ InvokedActions' = InvokedActions /\ SignedIds' = SignedIds /\ V2' = V2
      /\ \A state : OncePerAction(state)' <=> OncePerAction(state)
      /\ \A r, state : Fresh(r, state)' <=> Fresh(r, state)
      /\ InvokedOnce'
  BY <1>1, HeldWithoutSigning
<1>3. /\ saved' = [chain |-> saved'.chain, recovering |-> saved'.recovering]
      /\ IsSession(saved'.chain) /\ saved'.recovering \in SignedIds \cup {0}
      /\ V2 => /\ OncePerAction(saved'.chain) /\ InvokedActions \subseteq saved'.chain.decided
               /\ saved'.chain.decided \subseteq session.decided
               /\ saved'.recovering # 0 => Fresh(saved'.recovering, saved'.chain)
  <2>1. CASE V2
    BY <1>1, <2>1, SavingHeld
  <2>2. CASE ~V2
    BY <1>1, <2>2 DEF SessionShape
  <2> QED
    BY <2>1, <2>2
<1>4. \/ op' = NoOp
      \/ /\ op' = [at |-> "sending", receipt |-> op.receipt]
         /\ op.receipt \in SignedIds /\ slot' = slot /\ V2 /\ op.receipt = slot.recovering
      \/ op' = [at |-> "closing", receipt |-> op.receipt] /\ op.receipt \in SignedIds /\ V2
  BY <1>1 DEF SessionShape, SecondProfile
<1>5. op' = NoOp => op'.at = "idle"
  BY DEF NoOp
<1>6. SessionShape'
  <2>1. /\ setup' \in Setups /\ IsSession(session') /\ stored' \in [0..MaxLives -> Seq(Nat)]
        /\ signed' \in Seq({signed[i] : i \in SignedIds}) /\ Len(signed') \in Nat
        /\ invoked' \in Seq(SignedIds) /\ slot'.recovering \in SignedIds \cup {0}
    BY <1>1 DEF SessionShape
  <2>2. \/ op' = NoOp
        \/ /\ op' = [at |-> op'.at, receipt |-> op'.receipt]
           /\ op'.at \in {"saving", "sending", "closing", "recording", "invoking"}
           /\ op'.receipt \in SignedIds
    BY <1>4
  <2> QED
    BY <1>2, <1>3, <2>1, <2>2 DEF SessionShape
<1>7. FirstProfile'
  BY <1>1, <1>2, <1>4, <1>5 DEF FirstProfile
<1>8. SecondProfile'
  <2> SUFFICES ASSUME V2' PROVE SecondProfile'
    BY DEF SecondProfile
  <2>1. V2
    BY <1>2
  <2>2. OncePerAction(session)' /\ OncePerAction(saved.chain)'
    <3>1. OncePerAction(session) /\ OncePerAction(saved'.chain)
      BY <1>1, <1>3, <2>1 DEF SecondProfile
    <3> QED
      BY <1>2, <3>1
  <2>3. (slot.recovering # 0 => Fresh(slot.recovering, session))'
        /\ (saved.recovering # 0 => Fresh(saved.recovering, saved.chain))'
    BY <1>1, <1>2, <1>3, <2>1 DEF SecondProfile
  <2>4. (op.at \in {"saving", "sending"} => op.receipt = slot.recovering)' /\ op'.at # "recording"
    BY <1>4, <1>5
  <2> QED
    BY <1>2, <1>3, <2>1, <2>2, <2>3, <2>4 DEF SecondProfile
<1> QED
  BY <1>2, <1>6, <1>7, <1>8 DEF StrictInv

\* The end of an operation only adds to the results, and profile 1.0 adds
\* nothing.
LEMMA KeepsResults ==
  ASSUME NEW r, Ends(r)
  PROVE  op' = NoOp /\ results \subseteq results' /\ (~V2 => results' = results)
BY DEF Ends, Keeps

\* The steps that end an operation, or move it on, without committing or
\* invoking.
LEMMA QuietStepsHeld ==
  ASSUME StrictInv,
         \/ RefusedLocally \/ SavePreparedReceipt \/ SaveAborted
         \/ AdmissionDenied \/ AdmissionUnknown \/ ActionSettles
         \/ SaveCommittedReceipt /\ ~Grants(signed[op.receipt].outcome)
         \/ SaveCommittedReceipt /\ UNCHANGED invoked
  PROVE  StrictInv'
<1>0. /\ posted \subseteq SignedIds
      /\ slot = [receipt |-> slot.receipt, frozen |-> slot.frozen, recovering |-> slot.recovering]
      /\ op # NoOp => op.receipt \in SignedIds
      /\ op.at \in {"saving", "closing", "recording"} => V2
      /\ NoOp.at = "idle"
      /\ EmptySlot = [receipt |-> 0, frozen |-> FALSE, recovering |-> 0]
  BY DEF StrictInv, SessionShape, FirstProfile, NoOp, EmptySlot
<1>1. CASE RefusedLocally
  <2>1. /\ UNCHANGED <<setup, signed, session, slot, op, posted, stored, invoked, saved>>
        /\ results \subseteq results' /\ V2 /\ op = NoOp
    BY <1>1 DEF RefusedLocally, MayPropose
  <2> QED
    BY <1>0, <2>1, RuntimeHeld
<1>2. CASE SavePreparedReceipt
  <2>1. /\ UNCHANGED <<setup, signed, session, stored, invoked>> /\ op.at = "saving"
        /\ \/ saved' = Export /\ op' = [op EXCEPT !.at = "sending"]
              /\ posted' = posted \cup {op.receipt} /\ UNCHANGED <<slot, results>>
           \/ saved' \in {saved, Export} /\ slot' = EmptySlot /\ Ends(op.receipt) /\ UNCHANGED posted
    BY <1>2 DEF SavePreparedReceipt, At, OpTo, SaveFails
  <2>2. V2 /\ op # NoOp
    BY <1>0, <2>1
  <2>3. CASE /\ saved' = Export /\ op' = [op EXCEPT !.at = "sending"]
             /\ posted' = posted \cup {op.receipt} /\ UNCHANGED <<slot, results>>
    BY <1>0, <2>1, <2>2, <2>3, RuntimeHeld
  <2>4. CASE saved' \in {saved, Export} /\ slot' = EmptySlot /\ Ends(op.receipt) /\ UNCHANGED posted
    <3>1. op' = NoOp /\ results \subseteq results'
      BY <2>4, KeepsResults
    <3> QED
      BY <1>0, <2>1, <2>2, <2>4, <3>1, RuntimeHeld
  <2> QED
    BY <2>1, <2>3, <2>4
<1>3. CASE SaveAborted
  <2>1. /\ UNCHANGED <<setup, signed, session, slot, posted, stored, invoked>>
        /\ op.at = "closing" /\ saved' \in {saved, Export} /\ Ends(op.receipt)
    BY <1>3 DEF SaveAborted, At, SaveFails
  <2>2. op' = NoOp /\ results \subseteq results' /\ V2
    BY <1>0, <2>1, KeepsResults
  <2> QED
    BY <1>0, <2>1, <2>2, RuntimeHeld
<1>4. CASE AdmissionDenied
  <2>1. /\ UNCHANGED <<setup, signed, session, results, posted, stored, invoked, saved>>
        /\ op.at = "sending" /\ slot' \in {EmptySlot, slot}
        /\ IF V2 THEN op' = [op EXCEPT !.at = "closing"] ELSE op' = NoOp
    BY <1>4 DEF AdmissionDenied, At, OpTo
  <2>2. op # NoOp
    BY <1>0, <2>1
  <2>3. /\ slot' = [receipt |-> slot'.receipt, frozen |-> slot'.frozen,
                    recovering |-> slot'.recovering]
        /\ slot'.recovering \in {slot.recovering, 0}
    BY <1>0, <2>1
  <2> QED
    BY <1>0, <2>1, <2>2, <2>3, RuntimeHeld
<1>5. CASE AdmissionUnknown
  <2>1. /\ UNCHANGED <<setup, signed, session, posted, stored, invoked, saved>>
        /\ slot' \in {slot, [slot EXCEPT !.frozen = TRUE]} /\ Ends(op.receipt)
    BY <1>5 DEF AdmissionUnknown
  <2>2. op' = NoOp /\ results \subseteq results' /\ (~V2 => results' = results)
    BY <2>1, KeepsResults
  <2>3. /\ slot' = [receipt |-> slot'.receipt, frozen |-> slot'.frozen,
                    recovering |-> slot'.recovering]
        /\ slot'.recovering \in {slot.recovering, 0}
    BY <1>0, <2>1
  <2> QED
    BY <1>0, <2>1, <2>2, <2>3, RuntimeHeld
<1>6. CASE ActionSettles
  <2>1. UNCHANGED <<setup, signed, session, slot, results, posted, stored, invoked, saved>>
        /\ op' = NoOp
    BY <1>6 DEF ActionSettles
  <2> QED
    BY <1>0, <2>1, RuntimeHeld
<1>7. CASE \/ SaveCommittedReceipt /\ ~Grants(signed[op.receipt].outcome)
           \/ SaveCommittedReceipt /\ UNCHANGED invoked
  <2>1. /\ UNCHANGED <<setup, signed, session, slot, posted, stored>>
        /\ op.at = "recording" /\ saved' \in {saved, Export}
        /\ \/ Ends(op.receipt) /\ UNCHANGED invoked
           \/ InvokedUnder(op.receipt) /\ Grants(signed[op.receipt].outcome)
    BY <1>7 DEF SaveCommittedReceipt, At, SaveFails
  <2>2. Ends(op.receipt) /\ UNCHANGED invoked
    <3> SUFFICES ASSUME InvokedUnder(op.receipt), Grants(signed[op.receipt].outcome) PROVE FALSE
      BY <2>1
    <3>1. invoked' = invoked /\ invoked' = Append(invoked, op.receipt)
      BY <1>7 DEF InvokedUnder
    <3>2. invoked \in Seq(SignedIds)
      BY DEF StrictInv, SessionShape
    <3> QED
      BY <3>1, <3>2, AppendAny
  <2>3. op' = NoOp /\ results \subseteq results' /\ V2
    BY <1>0, <2>1, <2>2, KeepsResults
  <2> QED
    BY <1>0, <2>1, <2>2, <2>3, RuntimeHeld
<1> QED
  BY <1>1, <1>2, <1>3, <1>4, <1>5, <1>6, <1>7

\* The store only takes more.
LEMMA StoringHeld ==
  ASSUME StrictInv, NEW r \in posted, StorePosted(r)
  PROVE  StrictInv'
<1>1. SessionShape /\ FirstProfile /\ SecondProfile /\ InvokedOnce
  BY DEF StrictInv
<1>2. UNCHANGED <<setup, signed, session, slot, op, results, posted, refused, invoked, saved, lives>>
      /\ stored' = [stored EXCEPT ![signed[r].session] = Append(@, r)]
  BY DEF StorePosted
<1>3. r \in Nat /\ stored \in [0..MaxLives -> Seq(Nat)]
  BY <1>1 DEF SessionShape, SignedIds
<1>4. stored' \in [0..MaxLives -> Seq(Nat)]
  <2>1. \A s \in 0..MaxLives : stored[s] \in Seq(Nat) /\ Append(stored[s], r) \in Seq(Nat)
    BY <1>3
  <2> QED
    BY <1>2, <1>3, <2>1
<1>5. ASSUME NEW q, IsStored(q) PROVE IsStored(q)'
  <2> DEFINE s == signed[q].session
  <2>1. CASE s = signed[r].session /\ s \in 0..MaxLives
    <3>1. stored'[s] = Append(stored[s], r) /\ stored[s] \in Seq(Nat)
      BY <1>2, <1>3, <2>1
    <3>2. PICK i \in DOMAIN stored[s] : stored[s][i] = q
      BY <1>5 DEF IsStored
    <3>3. i \in DOMAIN stored'[s] /\ stored'[s][i] = q
      BY <3>1, <3>2
    <3> QED
      BY <1>2, <3>3 DEF IsStored
  <2>2. CASE s # signed[r].session \/ s \notin 0..MaxLives
    <3>1. stored'[s] = stored[s]
      BY <1>2, <1>3, <2>2
    <3> QED
      BY <1>2, <1>5, <3>1 DEF IsStored
  <2> QED
    BY <2>1, <2>2
<1>6. /\ InvokedActions' = InvokedActions /\ SignedIds' = SignedIds /\ V2' = V2
      /\ \A state : OncePerAction(state)' <=> OncePerAction(state)
      /\ \A q, state : Fresh(q, state)' <=> Fresh(q, state)
  BY <1>2, HeldWithoutSigning
<1>7. InvokedOnce'
  <2>1. \A i \in DOMAIN invoked : IsStored(invoked[i])'
    <3> SUFFICES ASSUME NEW i \in DOMAIN invoked PROVE IsStored(invoked[i])'
      OBVIOUS
    <3>1. PICK q : q = invoked[i] /\ q = invoked'[i]
      BY <1>2
    <3>2. IsStored(q)'
      BY <1>1, <1>5, <3>1 DEF InvokedOnce
    <3> QED
      BY <3>1, <3>2 DEF IsStored
  <2> QED
    BY <1>1, <1>2, <2>1 DEF InvokedOnce
<1>8. SessionShape'
  BY <1>1, <1>2, <1>4 DEF SessionShape, SignedIds
<1>9. FirstProfile'
  BY <1>1, <1>2, <1>6 DEF FirstProfile, ActionOf
<1>10. SecondProfile'
  <2> SUFFICES ASSUME V2' PROVE SecondProfile'
    BY DEF SecondProfile
  <2>1. V2
    BY <1>6
  <2>2. /\ OncePerAction(session)' /\ OncePerAction(saved.chain)'
        /\ (slot.recovering # 0 => Fresh(slot.recovering, session))'
        /\ (saved.recovering # 0 => Fresh(saved.recovering, saved.chain))'
    BY <1>1, <1>2, <1>6, <2>1 DEF SecondProfile
  <2>3. PICK q : q = op.receipt /\ q = op'.receipt
    BY <1>2
  <2>4. op'.at = "recording" => IsStored(op.receipt)'
    <3>1. op.at = "recording" => IsStored(q)'
      BY <1>1, <1>5, <2>1, <2>3 DEF SecondProfile
    <3> QED
      BY <1>2, <2>3, <3>1 DEF IsStored
  <2> QED
    BY <1>1, <1>2, <1>6, <2>1, <2>2, <2>4 DEF SecondProfile, ActionOf
<1> QED
  BY <1>7, <1>8, <1>9, <1>10 DEF StrictInv

\* Profile 1.0 commits, and invokes in the same turn what has no result.
LEMMA FirstProfileCommits ==
  ASSUME StrictInv, ~V2,
         \/ AdmissionSucceeds \/ ReconcilePrepared \/ ProcessChanges
  PROVE  StrictInv'
<1>1. SessionShape /\ FirstProfile /\ InvokedOnce
  BY DEF StrictInv
<1>2. /\ UNCHANGED <<setup, signed, posted, stored, saved>>
      /\ IsSession(session')
      /\ slot' \in {slot, EmptySlot}
      /\ \/ op' \in {op, NoOp} /\ UNCHANGED <<results, invoked>>
         \/ /\ op.at = "sending" /\ IsStored(op.receipt)
            /\ Grants(signed[op.receipt].outcome) /\ InvokedUnder(op.receipt)
  <2>1. IsSession(session) /\ IsSession(NewSession(session.id + 1))
    BY <1>1 DEF SessionShape, NewSession, IsSession
  <2>2. CASE AdmissionSucceeds
    <3>1. /\ UNCHANGED <<setup, signed, posted, stored, saved>>
          /\ At("sending") /\ Acknowledged(op.receipt)
          /\ \/ /\ session' = WithReceipt(session, signed, op.receipt)
                /\ slot' = EmptySlot
                /\ \/ Grants(signed[op.receipt].outcome) /\ InvokedUnder(op.receipt)
                   \/ op' = NoOp /\ UNCHANGED <<results, invoked>>
             \/ op' = NoOp /\ UNCHANGED <<session, slot, results, invoked>>
      BY <2>2 DEF AdmissionSucceeds
    <3>2. IsSession(WithReceipt(session, signed, op.receipt))
      BY <2>1, CommittedShape, Zenon
    <3> QED
      BY <2>1, <3>1, <3>2 DEF At, Acknowledged
  <2>3. CASE ReconcilePrepared
    <3>1. /\ UNCHANGED <<setup, signed, op, results, posted, stored, invoked, saved>>
          /\ slot' = EmptySlot
          /\ session' = WithReceipt(session, signed, slot.receipt) \/ session' = session
      BY <2>3 DEF ReconcilePrepared
    <3>2. IsSession(WithReceipt(session, signed, slot.receipt))
      BY <2>1, CommittedShape, Zenon
    <3> QED
      BY <2>1, <3>1, <3>2
  <2>4. CASE ProcessChanges
    BY <2>1, <2>4 DEF ProcessChanges
  <2> QED
    BY <2>2, <2>3, <2>4
<1>3. SignedIds' = SignedIds /\ ~V2' /\ \A r : ActionOf(r)' = ActionOf(r)
  BY <1>2 DEF SignedIds, V2, ActionOf
<1>4. /\ setup' \in Setups
      /\ Len(signed') \in Nat /\ signed' \in Seq({signed'[i] : i \in SignedIds'})
      /\ IsSession(session') /\ IsSession(saved'.chain)
      /\ saved' = [chain |-> saved'.chain, recovering |-> saved'.recovering]
      /\ slot' = [receipt |-> slot'.receipt, frozen |-> slot'.frozen, recovering |-> slot'.recovering]
      /\ slot'.recovering \in SignedIds' \cup {0} /\ saved'.recovering \in SignedIds' \cup {0}
      /\ posted' \subseteq SignedIds'
      /\ stored' \in [0..MaxLives -> Seq(Nat)]
  BY <1>1, <1>2, <1>3 DEF SessionShape, EmptySlot
<1>5. CASE op' \in {op, NoOp} /\ UNCHANGED <<results, invoked>>
  <2>1. InvokedActions' = InvokedActions /\ InvokedOnce'
    BY <1>1, <1>2, <1>5, HeldWithoutSigning
  <2>2. SessionShape'
    BY <1>1, <1>3, <1>4, <1>5 DEF SessionShape
  <2>3. FirstProfile'
    BY <1>1, <1>2, <1>3, <1>5, <2>1 DEF FirstProfile, NoOp, ActionOf
  <2> QED
    BY <1>1, <1>3, <2>1, <2>2, <2>3 DEF StrictInv, SecondProfile
<1>6. CASE /\ op.at = "sending" /\ IsStored(op.receipt)
           /\ Grants(signed[op.receipt].outcome) /\ InvokedUnder(op.receipt)
  <2>1. /\ op.receipt \in SignedIds /\ op = [at |-> op.at, receipt |-> op.receipt]
        /\ ActionOf(op.receipt) \notin results /\ InvokedActions \subseteq results
    BY <1>1, <1>6 DEF SessionShape, FirstProfile, NoOp
  <2>2. /\ invoked' = Append(invoked, op.receipt)
        /\ results' = results \cup {ActionOf(op.receipt)}
        /\ op' = [at |-> "invoking", receipt |-> op.receipt]
    BY <1>6, <2>1 DEF InvokedUnder, OpTo, ActionOf
  <2>3. /\ InvokedOnce' /\ InvokedActions' = InvokedActions \cup {ActionOf(op.receipt)}
        /\ invoked' \in Seq(SignedIds)
    BY <1>1, <1>2, <1>6, <2>1, <2>2, Invoking
  <2>4. SessionShape'
    BY <1>3, <1>4, <2>1, <2>2, <2>3 DEF SessionShape
  <2>5. FirstProfile'
    BY <2>1, <2>2, <2>3 DEF FirstProfile
  <2> QED
    BY <1>3, <2>3, <2>4, <2>5 DEF StrictInv, SecondProfile
<1> QED
  BY <1>2, <1>5, <1>6

\* Profile 2.0 commits a fresh receipt, on its way or recovered.
LEMMA SecondProfileCommits ==
  ASSUME StrictInv, V2, AdmissionSucceeds \/ ReconcileRecovered
  PROVE  StrictInv'
<1>1. SessionShape /\ SecondProfile /\ InvokedOnce
  BY DEF StrictInv
<1>2. /\ UNCHANGED <<setup, signed, posted, stored, invoked, saved>>
      /\ \/ UNCHANGED <<session, slot>> /\ op' = NoOp
         \/ /\ slot.recovering # 0 /\ session' = WithReceipt(session, signed, slot.recovering)
            /\ slot' \in {EmptySlot, [slot EXCEPT !.recovering = 0]}
            /\ \/ op' = NoOp
               \/ /\ op' = [at |-> "recording", receipt |-> slot.recovering]
                  /\ IsStored(slot.recovering)
  <2>1. CASE AdmissionSucceeds
    <3>1. /\ UNCHANGED <<setup, signed, posted, stored, invoked, saved>>
          /\ op.at = "sending" /\ IsStored(op.receipt)
          /\ \/ /\ session' = WithReceipt(session, signed, op.receipt)
                /\ slot' = EmptySlot /\ op' = [op EXCEPT !.at = "recording"]
             \/ op' = NoOp /\ UNCHANGED <<session, slot>>
      BY <2>1 DEF AdmissionSucceeds, At, Acknowledged, OpTo
    <3>2. /\ op = [at |-> op.at, receipt |-> op.receipt] /\ op.receipt \in SignedIds
          /\ op.receipt = slot.recovering
      BY <1>1, <3>1 DEF SessionShape, SecondProfile, NoOp
    <3>3. op.receipt # 0
      BY <3>2 DEF SignedIds
    <3> QED
      BY <3>1, <3>2, <3>3
  <2>2. CASE ReconcileRecovered
    BY <2>2 DEF ReconcileRecovered
  <2> QED
    BY <2>1, <2>2
<1>3. /\ InvokedActions' = InvokedActions /\ SignedIds' = SignedIds /\ V2'
      /\ \A state : OncePerAction(state)' <=> OncePerAction(state)
      /\ \A q, state : Fresh(q, state)' <=> Fresh(q, state)
      /\ InvokedOnce'
  BY <1>1, <1>2, HeldWithoutSigning
<1>4. /\ OncePerAction(session) /\ OncePerAction(saved'.chain)
      /\ InvokedActions \subseteq saved'.chain.decided
      /\ saved'.chain.decided \subseteq session.decided
      /\ saved'.recovering # 0 => Fresh(saved'.recovering, saved'.chain)
      /\ slot.recovering # 0 => Fresh(slot.recovering, session)
      /\ IsSession(session)
  BY <1>1, <1>2 DEF SecondProfile, SessionShape
<1>5. /\ IsSession(session') /\ OncePerAction(session') /\ session.decided \subseteq session'.decided
      /\ slot'.recovering # 0 => Fresh(slot'.recovering, session')
      /\ slot' = [receipt |-> slot'.receipt, frozen |-> slot'.frozen,
                  recovering |-> slot'.recovering]
      /\ slot'.recovering \in SignedIds \cup {0}
      /\ \/ op' = NoOp
         \/ /\ op' = [at |-> "recording", receipt |-> op'.receipt]
            /\ op'.receipt \in SignedIds /\ IsStored(op'.receipt)
            /\ ActionOf(op'.receipt) \in session'.decided \ InvokedActions
            /\ Grants(signed[op'.receipt].outcome) =>
                 \A s \in session'.suspended \ session'.resolved :
                   ActionOf(s) # ActionOf(op'.receipt)
  <2>1. CASE UNCHANGED <<session, slot>> /\ op' = NoOp
    BY <1>1, <1>4, <2>1 DEF SessionShape
  <2>2. CASE /\ slot.recovering # 0 /\ session' = WithReceipt(session, signed, slot.recovering)
             /\ slot' \in {EmptySlot, [slot EXCEPT !.recovering = 0]}
             /\ \/ op' = NoOp
                \/ /\ op' = [at |-> "recording", receipt |-> slot.recovering]
                   /\ IsStored(slot.recovering)
    <3>1. slot.recovering \in SignedIds
      BY <1>1, <2>2 DEF SessionShape
    <3>p. PICK new : new = session'
      OBVIOUS
    <3>2. PICK r \in SignedIds : r = slot.recovering /\ new = session'
      BY <3>1, <3>p
    <3>3. InvokedActions \subseteq session.decided
      BY <1>4
    <3>4. /\ IsSession(new) /\ OncePerAction(new)
          /\ session.decided \subseteq new.decided
          /\ ActionOf(r) \in new.decided \ InvokedActions
          /\ Grants(signed[r].outcome) =>
               \A s \in new.suspended \ new.resolved : ActionOf(s) # ActionOf(r)
      BY <1>4, <2>2, <3>2, <3>3, CommitFresh
    <3>5. slot' = [receipt |-> slot'.receipt, frozen |-> slot'.frozen,
                   recovering |-> slot'.recovering] /\ slot'.recovering = 0
      BY <1>1, <2>2 DEF SessionShape, EmptySlot
    <3> QED
      BY <2>2, <3>2, <3>4, <3>5
  <2> QED
    BY <1>2, <2>1, <2>2
<1>6. SessionShape'
  <2>1. /\ setup' \in Setups
        /\ Len(signed') \in Nat /\ signed' \in Seq({signed'[i] : i \in SignedIds'})
        /\ IsSession(saved'.chain)
        /\ saved' = [chain |-> saved'.chain, recovering |-> saved'.recovering]
        /\ saved'.recovering \in SignedIds' \cup {0}
        /\ posted' \subseteq SignedIds' /\ invoked' \in Seq(SignedIds')
        /\ stored' \in [0..MaxLives -> Seq(Nat)]
    BY <1>1, <1>2, <1>3 DEF SessionShape
  <2>2. \/ op' = NoOp
        \/ /\ op' = [at |-> op'.at, receipt |-> op'.receipt]
           /\ op'.at \in {"saving", "sending", "closing", "recording", "invoking"}
           /\ op'.receipt \in SignedIds'
    BY <1>3, <1>5
  <2> QED
    BY <1>3, <1>5, <2>1, <2>2 DEF SessionShape
<1>7. SecondProfile'
  <2>1. OncePerAction(session)' /\ OncePerAction(saved.chain)'
    BY <1>3, <1>4, <1>5
  <2>2. (slot.recovering # 0 => Fresh(slot.recovering, session))'
        /\ (saved.recovering # 0 => Fresh(saved.recovering, saved.chain))'
    BY <1>3, <1>4, <1>5
  <2>3. (InvokedActions \subseteq saved.chain.decided)'
        /\ (saved.chain.decided \subseteq session.decided)'
    BY <1>3, <1>4, <1>5
  <2>4. op'.at \notin {"saving", "sending"}
    BY <1>5 DEF NoOp
  <2>5. op'.at = "recording" =>
          /\ IsStored(op'.receipt)
          /\ ActionOf(op'.receipt) \in session'.decided \ InvokedActions
          /\ Grants(signed[op'.receipt].outcome) =>
               \A s \in session'.suspended \ session'.resolved :
                 ActionOf(s) # ActionOf(op'.receipt)
    BY <1>5 DEF NoOp
  <2>6. (op.at = "recording" =>
          /\ IsStored(op.receipt)
          /\ ActionOf(op.receipt) \in session.decided \ InvokedActions
          /\ Grants(signed[op.receipt].outcome) =>
               \A s \in session.suspended \ session.resolved : ActionOf(s) # ActionOf(op.receipt))'
    BY <1>2, <1>3, <2>5 DEF IsStored, ActionOf
  <2> QED
    BY <2>1, <2>2, <2>3, <2>4, <2>6 DEF SecondProfile
<1> QED
  BY <1>3, <1>6, <1>7 DEF StrictInv, FirstProfile

\* Profile 2.0 invokes what the checkpoint now holds as decided, and no
\* suspension of the action is left to be resolved.
LEMMA SecondProfileInvokes ==
  ASSUME StrictInv, SaveCommittedReceipt, ~UNCHANGED invoked
  PROVE  StrictInv'
<1>1. SessionShape /\ SecondProfile /\ InvokedOnce
  BY DEF StrictInv
<1>2. /\ UNCHANGED <<setup, signed, session, slot, posted, stored>>
      /\ op.at = "recording" /\ saved' = Export
      /\ Grants(signed[op.receipt].outcome) /\ InvokedUnder(op.receipt)
  BY DEF SaveCommittedReceipt, At
<1>3. V2 /\ op = [at |-> op.at, receipt |-> op.receipt] /\ op.receipt \in SignedIds
  BY <1>1, <1>2 DEF StrictInv, SessionShape, FirstProfile, NoOp
<1> DEFINE a == ActionOf(op.receipt)
<1>4. /\ IsStored(op.receipt) /\ a \in session.decided /\ a \notin InvokedActions
      /\ \A s \in session.suspended \ session.resolved : ActionOf(s) # a
      /\ InvokedActions \subseteq session.decided
      /\ OncePerAction(session)
      /\ slot.recovering # 0 => Fresh(slot.recovering, session)
  BY <1>1, <1>2, <1>3 DEF SecondProfile
<1>5. /\ invoked' = Append(invoked, op.receipt)
      /\ op' = [at |-> "invoking", receipt |-> op.receipt]
  BY <1>2, <1>3 DEF InvokedUnder, OpTo
<1>6. /\ InvokedOnce' /\ InvokedActions' = InvokedActions \cup {a}
      /\ invoked' \in Seq(SignedIds)
  BY <1>1, <1>2, <1>3, <1>4, <1>5, Invoking
<1>7. /\ SignedIds' = SignedIds /\ V2'
      /\ saved' = [chain |-> session, recovering |-> slot.recovering]
  BY <1>2, <1>3 DEF SignedIds, V2, Export
<1>8. SessionShape'
  BY <1>1, <1>2, <1>3, <1>5, <1>6, <1>7 DEF SessionShape
<1>9. OncePerAction(session)' /\ OncePerAction(saved.chain)'
  BY <1>2, <1>4, <1>6, <1>7 DEF OncePerAction, ActionOf
<1>10. (slot.recovering # 0 => Fresh(slot.recovering, session))'
       /\ (saved.recovering # 0 => Fresh(saved.recovering, saved.chain))'
  BY <1>2, <1>4, <1>7 DEF Fresh, ActionOf
<1>11. SecondProfile'
  BY <1>2, <1>4, <1>5, <1>6, <1>7, <1>9, <1>10 DEF SecondProfile
<1> QED
  BY <1>6, <1>7, <1>8, <1>11 DEF StrictInv, FirstProfile

\* A restart begins with what the checkpoint holds.
LEMMA RestartHeld ==
  ASSUME StrictInv, CrashAndRestoreCheckpoint
  PROVE  StrictInv'
<1>1. SessionShape /\ SecondProfile /\ InvokedOnce
  BY DEF StrictInv
<1>2. /\ V2 /\ UNCHANGED <<setup, signed, posted, stored, refused, invoked, saved>>
      /\ session' = saved.chain /\ op' = NoOp
      /\ slot' = [receipt |-> 0, frozen |-> FALSE, recovering |-> saved.recovering]
  BY DEF CrashAndRestoreCheckpoint, EmptySlot
<1>3. /\ InvokedActions' = InvokedActions /\ SignedIds' = SignedIds /\ V2'
      /\ \A state : OncePerAction(state)' <=> OncePerAction(state)
      /\ \A q, state : Fresh(q, state)' <=> Fresh(q, state)
      /\ InvokedOnce'
  BY <1>1, <1>2, HeldWithoutSigning
<1>4. SessionShape'
  BY <1>1, <1>2, <1>3 DEF SessionShape
<1>5. SecondProfile'
  <2>1. OncePerAction(session)' /\ OncePerAction(saved.chain)'
    BY <1>1, <1>2, <1>3 DEF SecondProfile
  <2>2. (slot.recovering # 0 => Fresh(slot.recovering, session))'
        /\ (saved.recovering # 0 => Fresh(saved.recovering, saved.chain))'
    BY <1>1, <1>2, <1>3 DEF SecondProfile
  <2> QED
    BY <1>1, <1>2, <1>3, <2>1, <2>2 DEF SecondProfile, NoOp
<1> QED
  BY <1>3, <1>4, <1>5 DEF StrictInv, FirstProfile

\* A session begins with nothing signed, decided or invoked.
LEMMA StrictInit ==
  ASSUME SessionInit
  PROVE  StrictInv
<1>1. SignedIds = {} /\ InvokedActions = {} /\ invoked = <<>> /\ op = NoOp
  BY DEF SessionInit, SignedIds, InvokedActions
<1>2. /\ IsSession(NewSession(0))
      /\ NewSession(0).suspended = {} /\ NewSession(0).decided = {}
  BY DEF IsSession, NewSession
<1>3. OncePerAction(NewSession(0))
  BY <1>2 DEF OncePerAction
<1>4. stored \in [0..MaxLives -> Seq(Nat)]
  BY DEF SessionInit
<1>5. SessionShape
  BY <1>1, <1>2, <1>4 DEF SessionInit, SessionShape, EmptySlot
<1>6. FirstProfile
  BY <1>1 DEF FirstProfile, NoOp
<1>7. SecondProfile
  BY <1>1, <1>2, <1>3 DEF SessionInit, SecondProfile, EmptySlot, NoOp
<1>8. InvokedOnce
  BY <1>1 DEF InvokedOnce
<1> QED
  BY <1>5, <1>6, <1>7, <1>8 DEF StrictInv

\* Every step of a session keeps every part of the invariant.
LEMMA StrictStep ==
  ASSUME StrictInv, [SessionNext]_sessionVars
  PROVE  StrictInv'
<1>1. CASE Decide \/ Resolve \/ ExpireSuspension
  BY <1>1, ProposingHeld
<1>2. CASE \/ RefusedLocally \/ SavePreparedReceipt \/ SaveAborted
           \/ AdmissionDenied \/ AdmissionUnknown \/ ActionSettles
  BY <1>2, QuietStepsHeld
<1>3. CASE SaveCommittedReceipt
  BY <1>3, QuietStepsHeld, SecondProfileInvokes
<1>4. CASE \E r \in posted : StorePosted(r)
  BY <1>4, StoringHeld
<1>5. CASE AdmissionSucceeds
  BY <1>5, FirstProfileCommits, SecondProfileCommits
<1>6. CASE ReconcilePrepared
  <2>1. ~V2
    BY <1>6 DEF ReconcilePrepared
  <2> QED
    BY <1>6, <2>1, FirstProfileCommits
<1>7. CASE ReconcileRecovered
  <2>1. V2
    BY <1>7 DEF ReconcileRecovered
  <2> QED
    BY <1>7, <2>1, SecondProfileCommits
<1>8. CASE ProcessChanges
  <2>1. ~V2
    BY <1>8 DEF ProcessChanges
  <2> QED
    BY <1>8, <2>1, FirstProfileCommits
<1>9. CASE CrashAndRestoreCheckpoint
  BY <1>9, RestartHeld
<1>10. CASE UNCHANGED sessionVars
  <2>1. /\ UNCHANGED <<setup, signed, session, slot, op, results, posted, stored, refused>>
        /\ UNCHANGED <<invoked, saved, lives>>
    BY <1>10 DEF sessionVars
  <2>2. /\ InvokedActions' = InvokedActions /\ SignedIds' = SignedIds /\ V2' = V2
        /\ \A state : OncePerAction(state)' <=> OncePerAction(state)
        /\ \A q, state : Fresh(q, state)' <=> Fresh(q, state)
        /\ InvokedOnce'
    BY <2>1, HeldWithoutSigning DEF StrictInv
  <2>3. SessionShape'
    BY <2>1, <2>2 DEF StrictInv, SessionShape
  <2>4. FirstProfile'
    BY <2>1, <2>2 DEF StrictInv, FirstProfile, ActionOf
  <2>5. ASSUME V2 PROVE SecondProfile'
    <3>1. SecondProfile /\ V2
      BY <2>5 DEF StrictInv
    <3>2. OncePerAction(session)' /\ OncePerAction(saved.chain)'
      BY <2>1, <2>2, <3>1 DEF SecondProfile
    <3>3. (slot.recovering # 0 => Fresh(slot.recovering, session))'
          /\ (saved.recovering # 0 => Fresh(saved.recovering, saved.chain))'
      BY <2>1, <2>2, <3>1 DEF SecondProfile
    <3> QED
      BY <2>1, <2>2, <3>1, <3>2, <3>3 DEF SecondProfile, IsStored, ActionOf
  <2> QED
    BY <2>2, <2>3, <2>4, <2>5 DEF StrictInv, SecondProfile
<1> QED
  BY <1>1, <1>2, <1>3, <1>4, <1>5, <1>6, <1>7, <1>8, <1>9, <1>10 DEF SessionNext

----------------------------------------------------------------------------
(* The theorems.                                                           *)

\* A strict session of either profile keeps the invariant: a receipt that may
\* still be committed is about an action that is not decided or a suspension
\* that is not resolved, and what was invoked is on record where a restart
\* looks for it.
THEOREM SessionInvariant == SessionSpec => []StrictInv
BY StrictInit, StrictStep, PTL DEF SessionSpec

----------------------------------------------------------------------------
(* Chains, as their links.                                                 *)

\* The first n receipts of c are linked from the start of session s to head.
Path(receipts, c, s, n, head) ==
  /\ n \in Nat
  /\ \A i \in 1..n : /\ c[i] \in 1..Len(receipts)
                     /\ receipts[c[i]].session = s
                     /\ receipts[c[i]].seq = i
                     /\ receipts[c[i]].prev = IF i = 1 THEN 0 ELSE c[i - 1]
  /\ \A i, j \in 1..n : i < j => c[i] < c[j]
  /\ head = IF n = 0 THEN 0 ELSE c[n]

StandingIn(receipts, c, n) ==
  {c[i] : i \in {j \in 1..n : \A k \in 1..n :
                   ~(Resolves(receipts[c[k]]) /\ receipts[c[k]].resolves = c[j])}}

\* What a session remembers is what its chain says.
Reads(receipts, state, c) ==
  LET n == state.seq
  IN  /\ \A i \in 1..n : receipts[c[i]].time <= receipts[c[n]].time
      /\ state.suspended = {c[i] : i \in {j \in 1..n : Suspends(receipts[c[j]])}}
      /\ \A i \in 1..n : Resolves(receipts[c[i]]) => receipts[c[i]].resolves \in state.resolved
      /\ state.prior \in Seq({Summary(receipts, c[i]) : i \in 1..n})
      /\ \A k, m \in 1..Len(state.prior) : k < m => state.prior[k].seq < state.prior[m].seq
      /\ {state.prior[k].receipt : k \in 1..Len(state.prior)} = StandingIn(receipts, c, n)

Agrees(receipts, state) ==
  \A c : Path(receipts, c, state.id, state.seq, state.head) => Reads(receipts, state, c)

\* The last of the first n receipts of c may stand where it does.
Stands(what, receipts, c, n) ==
  /\ Resolves(receipts[c[n]]) => ResolutionStands(what.profile, receipts, c, n)
  /\ Grants(receipts[c[n]].outcome) =>
       /\ Cardinality(StandingIn(receipts, c, n - 1)) <= what.rule.maxPrior
       /\ \A q \in StandingIn(receipts, c, n - 1) : receipts[q].outcome \notin what.rule.denyAfter

Warranted(what, receipts, r) ==
  \A c : Path(receipts, c, receipts[r].session, receipts[r].seq, r) =>
           Stands(what, receipts, c, receipts[r].seq)

\* A receipt is linked to one that was signed before it.
Linked(receipts, r) ==
  /\ WellFormed(receipts[r])
  /\ receipts[r].seq \in Nat \ {0} /\ receipts[r].session \in Nat
  /\ receipts[r].time \in Nat /\ receipts[r].expires \in Nat
  /\ receipts[r].prev \in Nat /\ receipts[r].prev < r
  /\ receipts[r].resolves \in Nat /\ receipts[r].resolves < r
  /\ receipts[r].prev # 0 =>
       /\ receipts[receipts[r].prev].session = receipts[r].session
       /\ receipts[receipts[r].prev].seq = receipts[r].seq - 1
       /\ receipts[receipts[r].prev].time <= receipts[r].time

AllLinked(what, receipts) ==
  \A r \in 1..Len(receipts) : Linked(receipts, r) /\ Warranted(what, receipts, r)

NextIn(receipts, r, state) ==
  /\ r \in 1..Len(receipts)
  /\ receipts[r].session = state.id
  /\ receipts[r].seq = state.seq + 1
  /\ receipts[r].prev = state.head

\* More receipts were signed, and the ones signed before are as they were.
Lengthens(old, new) ==
  /\ Len(old) \in Nat /\ Len(new) \in Nat /\ Len(old) <= Len(new)
  /\ \A i \in 1..Len(old) : new[i] = old[i]

----------------------------------------------------------------------------
(* Lemmas about paths.                                                     *)

\* A path leads to each of its receipts.
LEMMA PathTo ==
  ASSUME NEW receipts, NEW c, NEW s, NEW n, NEW head, Path(receipts, c, s, n, head),
         NEW i \in 1..n
  PROVE  Path(receipts, c, s, i, c[i])
BY DEF Path

\* Without its last receipt a path leads to that receipt's predecessor.
LEMMA PathEnds ==
  ASSUME NEW receipts, NEW c, NEW s, NEW m, m # 0, NEW head, Path(receipts, c, s, m, head)
  PROVE  head = c[m] /\ m \in 1..m /\ head \in 1..Len(receipts)
BY DEF Path

\* A path without its last receipt is a path to what that receipt names as its
\* predecessor, and what is on it was signed earlier.
BeforeLast(receipts, c, s, m, head) ==
  /\ Path(receipts, c, s, m - 1, receipts[head].prev)
  /\ \A i \in 1..(m - 1) : c[i] < head

\* Every path that is not empty has such a beginning.
LEMMA PathBefore ==
  ASSUME NEW receipts, NEW c, NEW s, NEW m, m # 0, NEW head, Path(receipts, c, s, m, head)
  PROVE  BeforeLast(receipts, c, s, m, head)
<1>1. head = c[m] /\ m \in 1..m /\ m \in Nat \ {0}
  BY DEF Path
<1>2. receipts[head].prev = IF m - 1 = 0 THEN 0 ELSE c[m - 1]
  BY <1>1 DEF Path
<1>3. \A i \in 1..(m - 1) : i \in 1..m /\ i < m
  BY <1>1
<1>4. \A i \in 1..(m - 1) : c[i] < head
  BY <1>1, <1>3 DEF Path
<1>5. Path(receipts, c, s, m - 1, receipts[head].prev)
  BY <1>1, <1>2, <1>3 DEF Path
<1> QED
  BY <1>4, <1>5 DEF BeforeLast

\* A path is longer by the receipt that continues it.
LEMMA PathLonger ==
  ASSUME NEW receipts, NEW c, NEW s, NEW n, NEW head, Path(receipts, c, s, n, head),
         NEW r \in 1..Len(receipts), Len(receipts) \in Nat, head < r,
         receipts[r].session = s, receipts[r].seq = n + 1, receipts[r].prev = head,
         NEW d, \A i \in 1..n : d[i] = c[i], d[n + 1] = r
  PROVE  Path(receipts, d, s, n + 1, r)
<1>1. n \in Nat /\ 1..n + 1 = 1..n \cup {n + 1}
  BY DEF Path
<1>2. ASSUME NEW i \in 1..n PROVE d[i] < r
  <2>1. n \in 1..n /\ head = c[n] /\ d[i] = c[i] /\ c[i] \in Nat /\ c[n] \in Nat /\ r \in Nat
    BY <1>1 DEF Path
  <2>2. i < n => c[i] < c[n]
    BY <2>1 DEF Path
  <2> QED
    BY <1>1, <2>1, <2>2
<1>3. ASSUME NEW i \in 1..n + 1
      PROVE  /\ d[i] \in 1..Len(receipts)
             /\ receipts[d[i]].session = s
             /\ receipts[d[i]].seq = i
             /\ receipts[d[i]].prev = IF i = 1 THEN 0 ELSE d[i - 1]
  <2>1. CASE i \in 1..n
    <3>1. i # 1 => i - 1 \in 1..n
      BY <1>1, <2>1
    <3> QED
      BY <1>1, <2>1, <3>1 DEF Path
  <2>2. CASE i = n + 1
    <3>1. n # 0 => n \in 1..n /\ i - 1 = n
      BY <1>1, <2>2
    <3> QED
      BY <1>1, <2>2, <3>1 DEF Path
  <2> QED
    BY <1>1, <2>1, <2>2
<1>4. ASSUME NEW i \in 1..n + 1, NEW j \in 1..n + 1, i < j PROVE d[i] < d[j]
  <2>1. i \in 1..n
    BY <1>1, <1>4
  <2>2. CASE j \in 1..n
    BY <1>4, <2>1, <2>2 DEF Path
  <2>3. CASE j = n + 1
    BY <1>2, <2>1, <2>3
  <2> QED
    BY <1>1, <2>2, <2>3
<1> QED
  BY <1>1, <1>3, <1>4 DEF Path

\* A path to an old receipt is made of old receipts.
LEMMA PathOld ==
  ASSUME NEW old, NEW new, Lengthens(old, new), NEW c, NEW s, NEW n, NEW head \in 0..Len(old),
         Path(new, c, s, n, head)
  PROVE  /\ Path(old, c, s, n, head)
         /\ \A i \in 1..n : c[i] \in 1..Len(old) /\ new[c[i]] = old[c[i]]
<1>1. \A i \in 1..n : c[i] \in 1..Len(old)
  <2> SUFFICES ASSUME NEW i \in 1..n PROVE c[i] \in 1..Len(old)
    OBVIOUS
  <2>1. n \in Nat /\ n # 0 /\ n \in 1..n /\ head = c[n] /\ c[i] \in 1..Len(new)
    BY DEF Path
  <2>2. c[i] <= c[n]
    BY <2>1 DEF Path, Lengthens
  <2> QED
    BY <2>1, <2>2 DEF Lengthens
<1>2. \A i \in 1..n : new[c[i]] = old[c[i]]
  BY <1>1 DEF Lengthens
<1> QED
  BY <1>1, <1>2 DEF Path

\* And so is one among old receipts only.
LEMMA PathKept ==
  ASSUME NEW old, NEW new, Lengthens(old, new), NEW c, NEW s, NEW n, NEW head,
         Path(old, c, s, n, head)
  PROVE  Path(new, c, s, n, head)
<1>1. \A i \in 1..n : c[i] \in 1..Len(new) /\ new[c[i]] = old[c[i]]
  BY DEF Path, Lengthens
<1> QED
  BY <1>1 DEF Path

\* How actions stand on a path does not depend on other receipts.
LEMMA SameStanding ==
  ASSUME NEW old, NEW new, NEW c, NEW n, \A i \in 1..n : new[c[i]] = old[c[i]]
  PROVE  StandingIn(new, c, n) = StandingIn(old, c, n)
<1>1. {j \in 1..n : \A k \in 1..n : ~(Resolves(new[c[k]]) /\ new[c[k]].resolves = c[j])}
        = {j \in 1..n : \A k \in 1..n : ~(Resolves(old[c[k]]) /\ old[c[k]].resolves = c[j])}
  OBVIOUS
<1> QED
  BY <1>1 DEF StandingIn

\* Nor do what a session read from it and what it allows.
LEMMA AgreesKept ==
  ASSUME NEW old, NEW new, Lengthens(old, new), NEW state, state.head \in 0..Len(old),
         Agrees(old, state)
  PROVE  Agrees(new, state)
<1> SUFFICES ASSUME NEW c, Path(new, c, state.id, state.seq, state.head)
             PROVE  Reads(new, state, c)
  BY DEF Agrees
<1> DEFINE n == state.seq
<1>1. Path(old, c, state.id, n, state.head) /\ \A i \in 1..n : new[c[i]] = old[c[i]]
  BY PathOld
<1>2. Reads(old, state, c)
  BY <1>1 DEF Agrees
<1> HIDE DEF n
<1>3. StandingIn(new, c, n) = StandingIn(old, c, n)
  BY <1>1, SameStanding
<1>4. {j \in 1..n : Suspends(new[c[j]])} = {j \in 1..n : Suspends(old[c[j]])}
  BY <1>1
<1>5. {Summary(new, c[i]) : i \in 1..n} = {Summary(old, c[i]) : i \in 1..n}
  BY <1>1 DEF Summary
<1>6. ASSUME NEW i \in 1..n PROVE new[c[i]].time <= new[c[n]].time
  <2>1. n \in 1..n
    BY <1>1 DEF Path
  <2> QED
    BY <1>1, <1>2, <2>1 DEF Reads, n
<1> QED
  BY <1>1, <1>2, <1>3, <1>4, <1>5, <1>6 DEF Reads, n

\* A receipt that may stand still may as more are signed.
LEMMA WarrantedKept ==
  ASSUME NEW old, NEW new, Lengthens(old, new), NEW what, NEW r \in 1..Len(old),
         Linked(old, r), Warranted(what, old, r)
  PROVE  Warranted(what, new, r) /\ Linked(new, r)
<1>1. new[r] = old[r]
  BY DEF Lengthens
<1>2. Linked(new, r)
  <2>1. old[r].prev # 0 => new[old[r].prev] = old[old[r].prev]
    BY DEF Linked, Lengthens
  <2> QED
    BY <1>1, <2>1 DEF Linked
<1>3. Warranted(what, new, r)
  <2> DEFINE n == old[r].seq
  <2> SUFFICES ASSUME NEW c, Path(new, c, old[r].session, n, r)
               PROVE  Stands(what, new, c, n)
    BY <1>1 DEF Warranted
  <2>1. Path(old, c, old[r].session, n, r) /\ \A i \in 1..n : new[c[i]] = old[c[i]]
    BY PathOld DEF Lengthens
  <2>2. Stands(what, old, c, n)
    BY <2>1 DEF Warranted
  <2>3. n \in Nat \ {0}
    BY DEF Linked
  <2> HIDE DEF n
  <2>4. n \in 1..n /\ \A i \in 1..(n - 1) : i \in 1..n
    BY <2>3
  <2>5. new[c[n]] = old[c[n]] /\ \A i \in 1..(n - 1) : new[c[i]] = old[c[i]]
    BY <2>1, <2>4
  <2>6. StandingIn(new, c, n - 1) = StandingIn(old, c, n - 1)
    BY <2>5, SameStanding
  <2>7. \A q \in StandingIn(old, c, n - 1) : new[q] = old[q]
    BY <2>5 DEF StandingIn
  <2>8. ResolutionStands(what.profile, old, c, n) => ResolutionStands(what.profile, new, c, n)
    BY <2>5, Zenon DEF ResolutionStands
  <2> QED
    BY <2>2, <2>5, <2>6, <2>7, <2>8 DEF Stands
<1> QED
  BY <1>2, <1>3

----------------------------------------------------------------------------
(* Committing a receipt.                                                   *)

\* What committing a receipt changes of a session.
CommittedAs(receipts, r, state, new) ==
  /\ new.id = state.id /\ new.seq = receipts[r].seq
  /\ new.head = r /\ new.last = receipts[r].time
  /\ Resolves(receipts[r]) =>
       /\ new.prior = Resummarized(state.prior, receipts, r)
       /\ new.suspended = state.suspended
       /\ new.resolved = state.resolved \cup {receipts[r].resolves}
  /\ ~Resolves(receipts[r]) =>
       /\ new.prior = Append(state.prior, Summary(receipts, r))
       /\ new.suspended = state.suspended \cup (IF Suspends(receipts[r]) THEN {r} ELSE {})
       /\ new.resolved = state.resolved

\* commitDecision and commitResolution change no more than that.
LEMMA CommittedFields ==
  ASSUME NEW state, IsSession(state), NEW receipts, NEW r
  PROVE  CommittedAs(receipts, r, state, WithReceipt(state, receipts, r))
<1> DEFINE prior == Resummarized(state.prior, receipts, r)
           added == Append(state.prior, Summary(receipts, r))
           requests == IF receipts[r].outcome = "STEP_UP"
                         THEN state.requests \cup {[request |-> receipts[r].request, receipt |-> r]}
                         ELSE state.requests
<1>1. CASE Resolves(receipts[r])
  <2>1. WithReceipt(state, receipts, r) =
          [id |-> state.id, seq |-> receipts[r].seq, head |-> r, last |-> receipts[r].time,
           prior |-> prior, suspended |-> state.suspended,
           resolved |-> state.resolved \cup {receipts[r].resolves},
           decided |-> state.decided, requests |-> state.requests]
    <3> HIDE DEF prior
    <3> QED
      BY <1>1 DEF WithReceipt, IsSession, prior
  <2> HIDE DEF prior
  <2> QED
    BY <1>1, <2>1 DEF CommittedAs, prior
<1>2. CASE ~Resolves(receipts[r])
  <2>1. WithReceipt(state, receipts, r) =
          [id |-> state.id, seq |-> receipts[r].seq, head |-> r, last |-> receipts[r].time,
           prior |-> added,
           suspended |-> IF Suspends(receipts[r]) THEN state.suspended \cup {r}
                                                  ELSE state.suspended,
           resolved |-> state.resolved,
           decided |-> state.decided \cup {receipts[r].action}, requests |-> requests]
    BY <1>2 DEF WithReceipt, IsSession
  <2> HIDE DEF added, requests
  <2> QED
    BY <1>2, <2>1 DEF CommittedAs, added
<1> QED
  BY <1>1, <1>2

\* The summary at place p is replaced by a later one, and the order restored.
MovedLast(prior, p, x, sorted) ==
  /\ sorted \in Seq({prior[k] : k \in 1..Len(prior)} \cup {x})
  /\ \A k, m \in 1..Len(sorted) : k < m => sorted[k].seq < sorted[m].seq
  /\ {sorted[k] : k \in 1..Len(sorted)} = {prior[k] : k \in (1..Len(prior)) \ {p}} \cup {x}

\* What commitResolution does to the summaries: the replaced one moves to the
\* end, and none is lost or repeated.
LEMMA Sorting ==
  ASSUME NEW S, NEW prior \in Seq(S), NEW receipts, NEW r, receipts[r].seq \in Nat,
         \A k \in 1..Len(prior) : prior[k].seq \in Nat /\ prior[k].seq < receipts[r].seq,
         \A k, m \in 1..Len(prior) : k < m => prior[k].seq < prior[m].seq,
         NEW p \in 1..Len(prior),
         \A k \in 1..Len(prior) : prior[k].receipt = receipts[r].resolves <=> k = p
  PROVE  MovedLast(prior, p, Summary(receipts, r), Resummarized(prior, receipts, r))
<1> DEFINE L == Len(prior)
           x == Summary(receipts, r)
           replaced == ResummarizedInPlace(prior, receipts, r)
           T == {replaced[i] : i \in DOMAIN prior}
           w == [i \in 1..L |-> IF i < p THEN prior[i] ELSE IF i < L THEN prior[i + 1] ELSE x]
           Good(s) == /\ {s[i] : i \in DOMAIN prior} = T
                      /\ \A i, j \in DOMAIN prior : i < j => s[i].seq <= s[j].seq
<1>1. DOMAIN prior = 1..L /\ L \in Nat /\ p \in Nat /\ p <= L
  OBVIOUS
<1>2. x.seq = receipts[r].seq
  BY DEF Summary
<1>3. replaced = [i \in 1..L |-> IF i = p THEN x ELSE prior[i]]
  BY <1>1 DEF ResummarizedInPlace
<1>4. T = {prior[k] : k \in (1..L) \ {p}} \cup {x}
  BY <1>1, <1>3
<1> HIDE DEF L, x, replaced
<1>5. \A i, j \in 1..L : i < j => w[i].seq < w[j].seq
  <2> SUFFICES ASSUME NEW i \in 1..L, NEW j \in 1..L, i < j PROVE w[i].seq < w[j].seq
    OBVIOUS
  <2>1. w[i] = IF i < p THEN prior[i] ELSE prior[i + 1]
    BY <1>1
  <2>2. w[j] = IF j < p THEN prior[j] ELSE IF j < L THEN prior[j + 1] ELSE x
    OBVIOUS
  <2>3. i + 1 \in 1..L /\ (j < L => j + 1 \in 1..L)
    BY <1>1
  <2> QED
    BY <1>1, <1>2, <2>1, <2>2, <2>3 DEF L
<1>6. {w[i] : i \in 1..L} = T
  <2>1. ASSUME NEW i \in 1..L PROVE w[i] \in T
    <3>1. CASE i < p
      <4>1. i \in (1..L) \ {p} /\ w[i] = prior[i]
        BY <1>1, <3>1
      <4> QED
        BY <1>4, <4>1
    <3>2. CASE ~(i < p) /\ i < L
      <4>1. i + 1 \in (1..L) \ {p} /\ w[i] = prior[i + 1]
        BY <1>1, <3>2
      <4> QED
        BY <1>4, <4>1
    <3>3. CASE ~(i < p) /\ ~(i < L)
      <4>1. w[i] = x
        BY <3>3
      <4> QED
        BY <1>4, <4>1
    <3> QED
      BY <3>1, <3>2, <3>3
  <2>2. x \in {w[i] : i \in 1..L}
    <3>1. L \in 1..L /\ w[L] = x
      BY <1>1
    <3> QED
      BY <3>1
  <2>3. ASSUME NEW k \in (1..L) \ {p} PROVE prior[k] \in {w[i] : i \in 1..L}
    <3>1. CASE k < p
      BY <1>1, <3>1
    <3>2. CASE k > p
      <4>1. k - 1 \in 1..L /\ w[k - 1] = prior[k]
        BY <1>1, <3>2
      <4> QED
        BY <4>1
    <3> QED
      BY <1>1, <3>1, <3>2
  <2> HIDE DEF w, T
  <2> QED
    BY <1>4, <2>1, <2>2, <2>3
<1>7. w \in [1..L -> T]
  BY <1>6
<1>8. \A t \in T : t.seq \in Nat
  BY <1>2, <1>4 DEF L
<1> HIDE DEF w, T
<1>9. /\ Resummarized(prior, receipts, r) \in [1..L -> T]
      /\ Good(Resummarized(prior, receipts, r))
  <2>1. \A i, j \in 1..L : i < j => w[i].seq <= w[j].seq
    BY <1>5, <1>7, <1>8
  <2>2. w \in [DOMAIN prior -> T] /\ Good(w)
    BY <1>1, <1>6, <1>7, <2>1
  <2> HIDE DEF Good
  <2>3. Resummarized(prior, receipts, r) = CHOOSE s \in [DOMAIN prior -> T] : Good(s)
    BY DEF Resummarized, replaced, T, Good
  <2> QED
    BY <1>1, <2>2, <2>3
<1> DEFINE s == Resummarized(prior, receipts, r)
<1> HIDE DEF s
<1>10. s \in [1..L -> T] /\ {s[i] : i \in 1..L} = T /\ \A i, j \in 1..L : i < j => s[i].seq <= s[j].seq
  BY <1>1, <1>9 DEF s
<1>11. s \in Injection(1..L, T)
  <2>1. IsFiniteSet(1..L) /\ Cardinality(1..L) = L
    <3>1. 1 \in Int /\ L \in Int /\ ~(1 > L) /\ L - 1 + 1 = L
      BY <1>1
    <3> QED
      BY <3>1, FS_Interval
  <2>2. w \in Bijection(1..L, T)
    <3>1. \A i, j \in 1..L : w[i] = w[j] => i = j
      <4> SUFFICES ASSUME NEW i \in 1..L, NEW j \in 1..L, w[i] = w[j], i # j PROVE FALSE
        OBVIOUS
      <4>1. w[i].seq \in Nat /\ w[j].seq \in Nat
        BY <1>7, <1>8
      <4>2. i < j \/ j < i
        BY <1>1
      <4> QED
        BY <1>5, <4>1, <4>2
    <3> QED
      BY <1>6, <1>7, <3>1 DEF Bijection, Injection, IsInjective, Surjection
  <2>3. Cardinality(T) = L
    BY <1>1, <2>2, FS_CountingElements DEF ExistsBijection
  <2>4. s \in Surjection(1..L, T)
    BY <1>10 DEF Surjection
  <2> QED
    BY <2>1, <2>3, <2>4, FS_SurjSameCardinalityImpliesInj
<1>12. \A i, j \in 1..L : i < j => s[i].seq < s[j].seq
  <2> SUFFICES ASSUME NEW i \in 1..L, NEW j \in 1..L, i < j PROVE s[i].seq < s[j].seq
    OBVIOUS
  <2>1. s[i] # s[j] /\ s[i] \in T /\ s[j] \in T
    <3>1. \A a, b \in 1..L : s[a] = s[b] => a = b
      BY <1>10, <1>11 DEF Injection, IsInjective
    <3>2. i # j
      BY <1>1
    <3> QED
      BY <1>10, <3>1, <3>2
  <2>2. PICK a \in 1..L : s[i] = w[a]
    BY <1>6, <2>1
  <2>3. PICK b \in 1..L : s[j] = w[b]
    BY <1>6, <2>1
  <2>4. a # b /\ s[i].seq <= s[j].seq
    BY <1>10, <2>1, <2>2, <2>3
  <2> QED
    BY <1>1, <1>5, <1>8, <2>1, <2>2, <2>3, <2>4
<1>13. s \in Seq(T) /\ Len(s) = L
  BY <1>1, <1>10
<1>14. T \subseteq {prior[k] : k \in 1..Len(prior)} \cup {x}
  BY <1>4 DEF L
<1>15. s \in Seq({prior[k] : k \in 1..Len(prior)} \cup {x})
  BY <1>13, <1>14, SeqWidens
<1> QED
  BY <1>4, <1>10, <1>12, <1>13, <1>15 DEF MovedLast, s, x, L

\* After a decision it stands beside what stood before.
LEMMA StandingDecision ==
  ASSUME NEW receipts, NEW c, NEW s, NEW n \in Nat, NEW r, Path(receipts, c, s, n + 1, r),
         \A q \in 1..Len(receipts) : Linked(receipts, q), ~Resolves(receipts[r])
  PROVE  StandingIn(receipts, c, n + 1) = StandingIn(receipts, c, n) \cup {r}
<1>1. /\ c[n + 1] = r /\ 1..n + 1 = 1..n \cup {n + 1} /\ r \in Nat
      /\ \A i \in 1..n + 1 : c[i] \in 1..Len(receipts) /\ c[i] \in Nat
      /\ \A i \in 1..n : c[i] < r
  <2>1. PICK m : m = n + 1 /\ m # 0 /\ Path(receipts, c, s, m, r)
    OBVIOUS
  <2>2. m # 0 /\ Path(receipts, c, s, m, r)
    BY <2>1
  <2>3. c[m] = r
    BY <2>2, PathEnds
  <2> QED
    BY <2>1, <2>3 DEF Path
<1>2. \A i \in 1..n + 1 : receipts[c[i]].resolves \in Nat /\ receipts[c[i]].resolves < c[i]
  BY <1>1 DEF Linked
<1>3. \A k \in 1..n : receipts[c[k]].resolves # r
  BY <1>1, <1>2
<1>4. ASSUME NEW i \in 1..n + 1
      PROVE  (\A k \in 1..n + 1 : ~(Resolves(receipts[c[k]]) /\ receipts[c[k]].resolves = c[i]))
             <=> (i = n + 1
                  \/ \A k \in 1..n : ~(Resolves(receipts[c[k]]) /\ receipts[c[k]].resolves = c[i]))
  BY <1>1, <1>3
<1> QED
  BY <1>1, <1>4 DEF StandingIn

\* After a resolution it stands in the place of what it resolves.
LEMMA StandingResolution ==
  ASSUME NEW receipts, NEW c, NEW s, NEW n \in Nat, NEW r, Path(receipts, c, s, n + 1, r),
         \A q \in 1..Len(receipts) : Linked(receipts, q), Resolves(receipts[r])
  PROVE  StandingIn(receipts, c, n + 1)
           = (StandingIn(receipts, c, n) \ {receipts[r].resolves}) \cup {r}
<1>1. /\ c[n + 1] = r /\ 1..n + 1 = 1..n \cup {n + 1} /\ r \in Nat
      /\ \A i \in 1..n + 1 : c[i] \in 1..Len(receipts) /\ c[i] \in Nat
      /\ \A i \in 1..n : c[i] < r
  <2>1. PICK m : m = n + 1 /\ m # 0 /\ Path(receipts, c, s, m, r)
    OBVIOUS
  <2>2. m # 0 /\ Path(receipts, c, s, m, r)
    BY <2>1
  <2>3. c[m] = r
    BY <2>2, PathEnds
  <2> QED
    BY <2>1, <2>3 DEF Path
<1>2. \A i \in 1..n + 1 : receipts[c[i]].resolves \in Nat /\ receipts[c[i]].resolves < c[i]
  BY <1>1 DEF Linked
<1>3. \A k \in 1..n + 1 : receipts[c[k]].resolves # r
  BY <1>1, <1>2
<1>4. ASSUME NEW i \in 1..n + 1
      PROVE  (\A k \in 1..n + 1 : ~(Resolves(receipts[c[k]]) /\ receipts[c[k]].resolves = c[i]))
             <=> (i = n + 1
                  \/ /\ c[i] # receipts[r].resolves
                     /\ \A k \in 1..n : ~(Resolves(receipts[c[k]]) /\ receipts[c[k]].resolves = c[i]))
  BY <1>1, <1>3
<1>5. receipts[r].resolves # r
  BY <1>1, <1>3
<1> QED
  BY <1>1, <1>4, <1>5 DEF StandingIn

\* After a decision was committed, the session remembers what its chain says.
LEMMA DecisionRead ==
  ASSUME NEW receipts, NEW state, Agrees(receipts, state), state.seq \in Nat,
         \A q \in 1..Len(receipts) : Linked(receipts, q),
         NEW r, NextIn(receipts, r, state), ~Resolves(receipts[r]),
         NEW new, CommittedAs(receipts, r, state, new)
  PROVE  Agrees(receipts, new)
<1>0. PICK n \in Nat : n = state.seq
  OBVIOUS
<1> DEFINE x == Summary(receipts, r)
<1> SUFFICES ASSUME NEW c, Path(receipts, c, new.id, new.seq, new.head)
             PROVE  Reads(receipts, new, c)
  BY DEF Agrees
<1>1. /\ new.id = state.id /\ new.seq = n + 1 /\ new.head = r
      /\ new.prior = Append(state.prior, x)
      /\ new.suspended = state.suspended \cup (IF Suspends(receipts[r]) THEN {r} ELSE {})
      /\ new.resolved = state.resolved
  BY <1>0 DEF CommittedAs, NextIn
<1>2. Path(receipts, c, state.id, n + 1, r)
  BY <1>1
<1>3. /\ c[n + 1] = r
      /\ Path(receipts, c, state.id, n, receipts[r].prev)
  <2>1. PICK m : m = n + 1 /\ m # 0 /\ Path(receipts, c, state.id, m, r)
    BY <1>2
  <2>2. m # 0 /\ Path(receipts, c, state.id, m, r)
    BY <2>1
  <2>3. c[m] = r /\ BeforeLast(receipts, c, state.id, m, r)
    BY <2>2, PathEnds, PathBefore
  <2>4. m - 1 = n
    BY <2>1
  <2> QED
    BY <2>1, <2>3, <2>4 DEF BeforeLast
<1>4. Reads(receipts, state, c)
  BY <1>0, <1>3 DEF Agrees, NextIn
<1>t. \A i \in 1..new.seq : receipts[c[i]].time <= receipts[c[new.seq]].time
  <2>1. \A i \in 1..n + 1 : receipts[c[i]].time \in Nat
    BY <1>2 DEF Path, Linked
  <2>2. n # 0 => n \in 1..n /\ receipts[r].prev = c[n]
    BY <1>3 DEF Path
  <2>3. n # 0 => receipts[c[n]].time <= receipts[c[n + 1]].time
    <3>1. r \in 1..Len(receipts) /\ 0 \notin 1..Len(receipts)
      BY DEF NextIn
    <3>2. n # 0 => c[n] # 0
      BY <1>3, <2>2 DEF Path
    <3> QED
      BY <1>3, <2>2, <3>1, <3>2 DEF Linked
  <2>4. \A i \in 1..n : receipts[c[i]].time <= receipts[c[n]].time
    BY <1>0, <1>4 DEF Reads
  <2>5. ASSUME NEW i \in 1..n + 1 PROVE receipts[c[i]].time <= receipts[c[n + 1]].time
    <3>1. CASE i = n + 1
      BY <2>1, <3>1
    <3>2. CASE i # n + 1
      <4>1. i \in 1..n /\ n # 0 /\ n \in 1..n + 1 /\ n + 1 \in 1..n + 1
        BY <3>2
      <4> QED
        BY <2>1, <2>3, <2>4, <4>1
    <3> QED
      BY <3>1, <3>2
  <2> QED
    BY <1>1, <2>5
<1>5. 1..n + 1 = 1..n \cup {n + 1}
  OBVIOUS
<1>6. new.suspended = {c[i] : i \in {j \in 1..new.seq : Suspends(receipts[c[j]])}}
  BY <1>0, <1>1, <1>3, <1>4, <1>5 DEF Reads
<1>7. \A i \in 1..new.seq : Resolves(receipts[c[i]]) => receipts[c[i]].resolves \in new.resolved
  BY <1>0, <1>1, <1>3, <1>4, <1>5 DEF Reads
<1> DEFINE before == {Summary(receipts, c[i]) : i \in 1..n}
           after == {Summary(receipts, c[i]) : i \in 1..n + 1}
<1>8. before \cup {x} \subseteq after
  BY <1>3, <1>5
<1>9. /\ \A t \in before : t.seq \in Nat /\ t.seq < n + 1
      /\ x.seq = n + 1 /\ x.receipt = r
  BY <1>0, <1>3 DEF Summary, Path, NextIn
<1>10. /\ state.prior \in Seq(before)
       /\ \A k, m \in 1..Len(state.prior) : k < m => state.prior[k].seq < state.prior[m].seq
       /\ {state.prior[k].receipt : k \in 1..Len(state.prior)} = StandingIn(receipts, c, n)
  BY <1>0, <1>4 DEF Reads
<1> HIDE DEF before, after, x
<1>11. /\ new.prior \in Seq(before \cup {x})
       /\ Len(new.prior) = Len(state.prior) + 1 /\ Len(state.prior) \in Nat
       /\ new.prior[Len(state.prior) + 1] = x
       /\ \A i \in 1..Len(state.prior) : new.prior[i] = state.prior[i] /\ state.prior[i] \in before
  BY <1>1, <1>10, AppendAny
<1>12. new.prior \in Seq(after)
  BY <1>8, <1>11, SeqWidens
<1>13. ASSUME NEW k \in 1..Len(new.prior), NEW m \in 1..Len(new.prior), k < m
       PROVE  new.prior[k].seq < new.prior[m].seq
  <2>1. k \in 1..Len(state.prior) /\ (m \in 1..Len(state.prior) \/ m = Len(state.prior) + 1)
    BY <1>11, <1>13
  <2>2. CASE m \in 1..Len(state.prior)
    BY <1>10, <1>11, <1>13, <2>1, <2>2
  <2>3. CASE m = Len(state.prior) + 1
    BY <1>9, <1>11, <2>1, <2>3
  <2> QED
    BY <2>1, <2>2, <2>3
<1>14. {new.prior[k].receipt : k \in 1..Len(new.prior)} = StandingIn(receipts, c, n + 1)
  <2>1. StandingIn(receipts, c, n + 1) = StandingIn(receipts, c, n) \cup {r}
    BY <1>2, StandingDecision
  <2>2. 1..Len(new.prior) = 1..Len(state.prior) \cup {Len(state.prior) + 1}
    BY <1>11
  <2>3. {new.prior[k].receipt : k \in 1..Len(new.prior)}
          = {new.prior[k].receipt : k \in 1..Len(state.prior)} \cup {new.prior[Len(state.prior) + 1].receipt}
    BY <2>2
  <2>4. {new.prior[k].receipt : k \in 1..Len(state.prior)}
          = {state.prior[k].receipt : k \in 1..Len(state.prior)}
    BY <1>11
  <2> QED
    BY <1>9, <1>10, <1>11, <2>1, <2>3, <2>4
<1> QED
  BY <1>1, <1>t, <1>6, <1>7, <1>12, <1>13, <1>14 DEF Reads, after

\* And after a resolution.
LEMMA ResolutionRead ==
  ASSUME NEW what, NEW receipts, NEW state, Agrees(receipts, state), state.seq \in Nat,
         \A q \in 1..Len(receipts) : Linked(receipts, q),
         NEW r, NextIn(receipts, r, state), Resolves(receipts[r]), Warranted(what, receipts, r),
         NEW new, CommittedAs(receipts, r, state, new)
  PROVE  Agrees(receipts, new)
<1>0. PICK n \in Nat : n = state.seq
  OBVIOUS
<1> DEFINE x == Summary(receipts, r)
           s == receipts[r].resolves
<1> SUFFICES ASSUME NEW c, Path(receipts, c, new.id, new.seq, new.head)
             PROVE  Reads(receipts, new, c)
  BY DEF Agrees
<1>1. /\ new.id = state.id /\ new.seq = n + 1 /\ new.head = r
      /\ new.prior = Resummarized(state.prior, receipts, r)
      /\ new.suspended = state.suspended
      /\ new.resolved = state.resolved \cup {s}
  BY <1>0 DEF CommittedAs, NextIn
<1>2. Path(receipts, c, state.id, n + 1, r)
  BY <1>1
<1>3. /\ c[n + 1] = r
      /\ Path(receipts, c, state.id, n, receipts[r].prev)
  <2>1. PICK m : m = n + 1 /\ m # 0 /\ Path(receipts, c, state.id, m, r)
    BY <1>2
  <2>2. m # 0 /\ Path(receipts, c, state.id, m, r)
    BY <2>1
  <2>3. c[m] = r /\ BeforeLast(receipts, c, state.id, m, r)
    BY <2>2, PathEnds, PathBefore
  <2>4. m - 1 = n
    BY <2>1
  <2> QED
    BY <2>1, <2>3, <2>4 DEF BeforeLast
<1>4. Reads(receipts, state, c)
  BY <1>0, <1>3 DEF Agrees, NextIn
<1>t. \A i \in 1..new.seq : receipts[c[i]].time <= receipts[c[new.seq]].time
  <2>1. \A i \in 1..n + 1 : receipts[c[i]].time \in Nat
    BY <1>2 DEF Path, Linked
  <2>2. n # 0 => n \in 1..n /\ receipts[r].prev = c[n]
    BY <1>3 DEF Path
  <2>3. n # 0 => receipts[c[n]].time <= receipts[c[n + 1]].time
    <3>1. r \in 1..Len(receipts) /\ 0 \notin 1..Len(receipts)
      BY DEF NextIn
    <3>2. n # 0 => c[n] # 0
      BY <1>3, <2>2 DEF Path
    <3> QED
      BY <1>3, <2>2, <3>1, <3>2 DEF Linked
  <2>4. \A i \in 1..n : receipts[c[i]].time <= receipts[c[n]].time
    BY <1>0, <1>4 DEF Reads
  <2>5. ASSUME NEW i \in 1..n + 1 PROVE receipts[c[i]].time <= receipts[c[n + 1]].time
    <3>1. CASE i = n + 1
      BY <2>1, <3>1
    <3>2. CASE i # n + 1
      <4>1. i \in 1..n /\ n # 0 /\ n \in 1..n + 1 /\ n + 1 \in 1..n + 1
        BY <3>2
      <4> QED
        BY <2>1, <2>3, <2>4, <4>1
    <3> QED
      BY <3>1, <3>2
  <2> QED
    BY <1>1, <2>5
<1>5. 1..n + 1 = 1..n \cup {n + 1} /\ n + 1 - 1 = n
  OBVIOUS
<1>6. new.suspended = {c[i] : i \in {j \in 1..new.seq : Suspends(receipts[c[j]])}}
  <2>1. ~Suspends(receipts[c[n + 1]])
    BY <1>3 DEF Suspends, Resolves
  <2> QED
    BY <1>0, <1>1, <1>4, <1>5, <2>1 DEF Reads
<1>7. \A i \in 1..new.seq : Resolves(receipts[c[i]]) => receipts[c[i]].resolves \in new.resolved
  BY <1>0, <1>1, <1>3, <1>4, <1>5 DEF Reads
<1> DEFINE before == {Summary(receipts, c[i]) : i \in 1..n}
           after == {Summary(receipts, c[i]) : i \in 1..n + 1}
<1>8. before \cup {x} \subseteq after
  BY <1>3, <1>5
<1>9. /\ \A t \in before : t.seq \in Nat /\ t.seq < n + 1
      /\ \A t, u \in before : t.receipt = u.receipt => t.seq = u.seq
      /\ x.seq = n + 1 /\ x.receipt = r
  BY <1>0, <1>3 DEF Summary, Path, NextIn
<1>10. /\ state.prior \in Seq(before)
       /\ \A k, m \in 1..Len(state.prior) : k < m => state.prior[k].seq < state.prior[m].seq
       /\ {state.prior[k].receipt : k \in 1..Len(state.prior)} = StandingIn(receipts, c, n)
  BY <1>0, <1>4 DEF Reads
<1>11. s \in StandingIn(receipts, c, n)
  <2>1. ResolutionStands(what.profile, receipts, c, n + 1)
    BY <1>0, <1>2, <1>3 DEF Warranted, Stands, NextIn
  <2>2. /\ \A j \in 1..n : ~(Resolves(receipts[c[j]]) /\ receipts[c[j]].resolves = s)
        /\ \E j \in 1..n : c[j] = s
    BY <1>3, <1>5, <2>1 DEF ResolutionStands
  <2> QED
    BY <2>2 DEF StandingIn
<1> HIDE DEF before, after, x, s
<1> DEFINE L == Len(state.prior)
<1>12. L \in Nat /\ \A k \in 1..L : state.prior[k] \in before
  BY <1>10
<1>13. PICK p \in 1..L : state.prior[p].receipt = s
  BY <1>10, <1>11
<1>14. \A k \in 1..L : state.prior[k].receipt = s <=> k = p
  <2> SUFFICES ASSUME NEW k \in 1..L, state.prior[k].receipt = s, k # p PROVE FALSE
    BY <1>13
  <2>1. state.prior[k].seq = state.prior[p].seq /\ state.prior[p].seq \in Nat
    BY <1>9, <1>12, <1>13
  <2>2. k < p \/ p < k
    BY <1>12
  <2> QED
    BY <1>10, <2>1, <2>2
<1>15. MovedLast(state.prior, p, x, new.prior)
  <2>1. receipts[r].seq = n + 1
    BY <1>0 DEF NextIn
  <2>2. \A k \in 1..Len(state.prior) : state.prior[k].seq \in Nat /\ state.prior[k].seq < receipts[r].seq
    BY <1>9, <1>12, <2>1
  <2>3. MovedLast(state.prior, p, Summary(receipts, r), Resummarized(state.prior, receipts, r))
    <3>1. receipts[r].seq \in Nat
      BY <2>1
    <3>2. \A k \in 1..Len(state.prior) : state.prior[k].receipt = receipts[r].resolves <=> k = p
      BY <1>14 DEF s
    <3> QED
      BY <1>10, <2>2, <3>1, <3>2, Sorting
  <2> QED
    BY <1>1, <2>3 DEF x
<1>16. {new.prior[k].receipt : k \in 1..Len(new.prior)} = StandingIn(receipts, c, n + 1)
  <2>1. StandingIn(receipts, c, n + 1) = (StandingIn(receipts, c, n) \ {s}) \cup {r}
    BY <1>2, StandingResolution DEF s
  <2>2. {new.prior[k] : k \in 1..Len(new.prior)} = {state.prior[k] : k \in (1..L) \ {p}} \cup {x}
    BY <1>15 DEF MovedLast
  <2>3. {new.prior[k].receipt : k \in 1..Len(new.prior)}
          = {t.receipt : t \in {new.prior[k] : k \in 1..Len(new.prior)}}
    OBVIOUS
  <2>4. {t.receipt : t \in {state.prior[k] : k \in (1..L) \ {p}} \cup {x}}
          = {state.prior[k].receipt : k \in (1..L) \ {p}} \cup {r}
    BY <1>9
  <2>5. {state.prior[k].receipt : k \in (1..L) \ {p}} = StandingIn(receipts, c, n) \ {s}
    BY <1>10, <1>13, <1>14
  <2> QED
    BY <2>1, <2>2, <2>3, <2>4, <2>5
<1>17. new.prior \in Seq(after)
  <2>1. {state.prior[k] : k \in 1..Len(state.prior)} \cup {x} \subseteq after
    BY <1>8, <1>12
  <2> QED
    BY <1>15, <2>1, SeqWidens DEF MovedLast
<1> QED
  BY <1>1, <1>t, <1>6, <1>7, <1>15, <1>16, <1>17 DEF Reads, after, MovedLast

----------------------------------------------------------------------------
(* Signing a receipt.                                                      *)

\* What was decided grants nothing against the rule on the session's history.
LEMMA GrantedOnHistory ==
  ASSUME NEW rule, NEW prior, NEW context, NEW base,
         Grants(AlignedOutcome(rule, prior, context, base).outcome)
  PROVE  /\ ~(Len(prior) > rule.maxPrior)
         /\ \A i \in DOMAIN prior : prior[i].outcome \notin rule.denyAfter
<1> DEFINE layers == <<BaseLayer(base), IntentLayer(context), ScopeLayer(rule, context),
                       HistoryLayer(rule, prior), OutcomeLayer(base)>>
           First(i) == layers[i] # Silent /\ \A j \in 1..(i - 1) : layers[j] = Silent
           first == CHOOSE i \in DOMAIN layers : First(i)
<1>1. /\ ~Grants(BaseLayer(base).outcome)
      /\ ~Grants(IntentLayer(context).outcome)
      /\ ~Grants(ScopeLayer(rule, context).outcome)
      /\ ~Grants(HistoryLayer(rule, prior).outcome)
      /\ OutcomeLayer(base) # Silent
  <2>1. \A fields : DefersFor(fields).outcome = "DEFER"
    BY DEF DefersFor
  <2>2. \A outcome : Says(outcome).outcome = outcome
    BY DEF Says
  <2>3. Silent.outcome = "none"
    BY DEF Silent
  <2>4. ~Grants(BaseLayer(base).outcome)
    BY <2>1, <2>2, <2>3 DEF BaseLayer, Grants
  <2>5. ~Grants(IntentLayer(context).outcome)
    BY <2>1, <2>3 DEF IntentLayer, Grants
  <2>6. ~Grants(ScopeLayer(rule, context).outcome)
    BY <2>1, <2>2, <2>3 DEF ScopeLayer, Grants
  <2>7. ~Grants(HistoryLayer(rule, prior).outcome)
    BY <2>2, <2>3 DEF HistoryLayer, Grants
  <2>8. OutcomeLayer(base).outcome # "none"
    BY <2>1, <2>2 DEF OutcomeLayer
  <2> QED
    BY <2>3, <2>4, <2>5, <2>6, <2>7, <2>8
<1>2. /\ DOMAIN layers = 1..5
      /\ layers[1] = BaseLayer(base) /\ layers[2] = IntentLayer(context)
      /\ layers[3] = ScopeLayer(rule, context) /\ layers[4] = HistoryLayer(rule, prior)
      /\ layers[5] = OutcomeLayer(base)
  OBVIOUS
<1>3. AlignedOutcome(rule, prior, context, base) = layers[first]
  BY DEF AlignedOutcome
<1> HIDE DEF layers
<1>4. First(1) \/ First(2) \/ First(3) \/ First(4) \/ First(5)
  BY <1>1, <1>2
<1>5. \E i \in DOMAIN layers : First(i)
  BY <1>2, <1>4
<1> HIDE DEF First
<1>6. first \in 1..5 /\ First(first)
  BY <1>2, <1>5
<1> HIDE DEF first
<1>7. first = 5
  BY <1>1, <1>2, <1>3, <1>6
<1>8. HistoryLayer(rule, prior) = Silent
  BY <1>2, <1>6, <1>7 DEF First
<1>9. Says("DENY") # Silent
  BY DEF Says, Silent
<1> QED
  BY <1>8, <1>9 DEF HistoryLayer

\* A blocked action that asks for no approval is denied whatever else is said.
LEMMA BlockedDenies ==
  ASSUME NEW rule, NEW prior, NEW context
  PROVE  AlignedOutcome(rule, prior, context, Blocked).outcome = "DENY"
<1> DEFINE layers == <<BaseLayer(Blocked), IntentLayer(context), ScopeLayer(rule, context),
                       HistoryLayer(rule, prior), OutcomeLayer(Blocked)>>
           First(i) == layers[i] # Silent /\ \A j \in 1..(i - 1) : layers[j] = Silent
           first == CHOOSE i \in DOMAIN layers : First(i)
<1>1. BaseLayer(Blocked) = Says("DENY") /\ Says("DENY").outcome = "DENY" /\ Says("DENY") # Silent
  BY DEF BaseLayer, Blocked, Says, Silent
<1>2. DOMAIN layers = 1..5 /\ layers[1] = BaseLayer(Blocked)
  OBVIOUS
<1>3. AlignedOutcome(rule, prior, context, Blocked) = layers[first]
  BY DEF AlignedOutcome
<1> HIDE DEF layers
<1>4. First(1) /\ 1 \in DOMAIN layers
  BY <1>1, <1>2
<1> HIDE DEF First
<1>5. first \in 1..5 /\ First(first)
  BY <1>2, <1>4
<1> HIDE DEF first
<1>6. first = 1
  BY <1>1, <1>2, <1>5 DEF First
<1> QED
  BY <1>1, <1>2, <1>3, <1>6

\* What the coordinator asks of a receipt that continues a session.
Founded(what, receipts, state, receipt) ==
  /\ Resolves(receipt) =>
       LET prior == receipts[receipt.resolves]
       IN  /\ receipt.resolves \in state.suspended \ state.resolved
           /\ MethodFits(prior, receipt.method)
           /\ OutcomeFits(receipt.method, receipt.outcome)
           /\ receipt.method \in {"approval_granted", "context_supplied"} =>
                receipt.time < prior.expires
           /\ receipt.method = "expired" => receipt.time >= prior.expires
           /\ SameAction(prior, receipt)
           /\ prior.input.context.agent = receipt.input.context.agent
  /\ Grants(receipt.outcome) =>
       /\ ~(Len(state.prior) > what.rule.maxPrior)
       /\ \A k \in DOMAIN state.prior : state.prior[k].outcome \notin what.rule.denyAfter

\* No more actions stand than the session remembers.
LEMMA StandingBound ==
  ASSUME NEW S, NEW prior \in Seq(S), NEW T, {prior[k].receipt : k \in 1..Len(prior)} = T
  PROVE  Cardinality(T) \in Nat /\ Cardinality(T) <= Len(prior)
<1> DEFINE L == Len(prior)
           f == [k \in 1..L |-> prior[k].receipt]
<1>1. L \in Nat
  OBVIOUS
<1> HIDE DEF L
<1>2. IsFiniteSet(1..L) /\ Cardinality(1..L) = L
  <2>1. CASE L = 0
    BY <2>1, FS_EmptySet
  <2>2. CASE L # 0
    <3>1. 1 \in Int /\ L \in Int /\ ~(1 > L) /\ L - 1 + 1 = L
      BY <1>1, <2>2
    <3> QED
      BY <3>1, FS_Interval
  <2> QED
    BY <2>1, <2>2
<1>3. f \in Surjection(1..L, T)
  BY DEF Surjection, L
<1>4. IsFiniteSet(T) /\ Cardinality(T) <= Cardinality(1..L)
  BY <1>2, <1>3, FS_Surjection
<1>5. Cardinality(T) \in Nat
  BY <1>4, FS_CardinalityType
<1> QED
  BY <1>2, <1>4, <1>5 DEF L

\* So the receipt may stand where it is signed.
LEMMA FoundedStands ==
  ASSUME NEW old, NEW new, Lengthens(old, new), \A q \in 1..Len(old) : Linked(old, q),
         NEW state, Agrees(old, state), state.seq \in Nat, state.head \in 0..Len(old),
         NEW what, what.rule.maxPrior \in Nat,
         NEW r, NextIn(new, r, state), Founded(what, old, state, new[r]), new[r].time \in Nat,
         state.head # 0 => old[state.head].time <= new[r].time
  PROVE  Warranted(what, new, r)
<1>0. PICK n \in Nat : n = state.seq
  OBVIOUS
<1> DEFINE s == new[r].resolves
<1> SUFFICES ASSUME NEW c, Path(new, c, new[r].session, new[r].seq, r)
             PROVE  Stands(what, new, c, new[r].seq)
  BY DEF Warranted
<1>1. new[r].seq = n + 1 /\ new[r].session = state.id /\ new[r].prev = state.head
  BY <1>0 DEF NextIn
<1>2. c[n + 1] = r /\ Path(new, c, state.id, n, state.head)
  <2>1. PICK m : m = n + 1 /\ m # 0 /\ Path(new, c, state.id, m, r)
    BY <1>1
  <2>2. m # 0 /\ Path(new, c, state.id, m, r)
    BY <2>1
  <2>3. c[m] = r /\ BeforeLast(new, c, state.id, m, r)
    BY <2>2, PathEnds, PathBefore
  <2>4. m - 1 = n
    BY <2>1
  <2> QED
    BY <1>1, <2>1, <2>3, <2>4 DEF BeforeLast
<1>3. /\ Path(old, c, state.id, n, state.head)
      /\ \A i \in 1..n : c[i] \in 1..Len(old) /\ new[c[i]] = old[c[i]]
  BY <1>2, PathOld
<1>4. Reads(old, state, c)
  BY <1>0, <1>3 DEF Agrees
<1>5. StandingIn(new, c, n) = StandingIn(old, c, n)
  BY <1>3, SameStanding
<1>6. n + 1 - 1 = n
  OBVIOUS
<1>7. ASSUME Resolves(new[r]) PROVE ResolutionStands(what.profile, new, c, n + 1)
  <2>1. PICK j \in 1..n : c[j] = s /\ Suspends(old[s])
    BY <1>0, <1>4, <1>7 DEF Founded, Reads
  <2>2. \A i \in 1..n : ~(Resolves(new[c[i]]) /\ new[c[i]].resolves = s)
    BY <1>0, <1>3, <1>4, <1>7 DEF Founded, Reads
  <2>3. new[s] = old[s]
    BY <1>3, <2>1
  <2>4. old[s].time <= new[r].time
    <3>1. n # 0 /\ n \in 1..n /\ state.head = c[n] /\ state.head # 0
      BY <1>3, <2>1 DEF Path
    <3>2. old[s].time <= old[c[n]].time
      BY <1>0, <1>4, <2>1 DEF Reads
    <3>3. old[s].time \in Nat /\ old[c[n]].time \in Nat
      BY <1>3, <2>1, <3>1 DEF Linked
    <3> QED
      BY <3>1, <3>2, <3>3
  <2>5. TimeFits(what.profile, old[s], new[r])
    <3>1. old[s].expires \in Nat /\ old[s].time \in Nat
      BY <1>3, <2>1 DEF Linked
    <3> QED
      BY <1>7, <2>4, <3>1 DEF Founded, TimeFits
  <2>6. /\ Suspends(new[s]) /\ MethodFits(new[s], new[r].method)
        /\ OutcomeFits(new[r].method, new[r].outcome)
        /\ TimeFits(what.profile, new[s], new[r])
        /\ SameAction(new[s], new[r])
        /\ new[s].input.context.agent = new[r].input.context.agent
    BY <1>7, <2>1, <2>3, <2>5 DEF Founded
  <2> QED
    BY <1>2, <1>6, <2>1, <2>2, <2>6 DEF ResolutionStands
<1>8. ASSUME Grants(new[r].outcome)
      PROVE  /\ Cardinality(StandingIn(new, c, n)) <= what.rule.maxPrior
             /\ \A q \in StandingIn(new, c, n) : new[q].outcome \notin what.rule.denyAfter
  <2> DEFINE S == {Summary(old, c[i]) : i \in 1..n}
  <2>1. /\ state.prior \in Seq(S)
        /\ {state.prior[k].receipt : k \in 1..Len(state.prior)} = StandingIn(old, c, n)
    BY <1>0, <1>4 DEF Reads
  <2> HIDE DEF S
  <2>2. Cardinality(StandingIn(new, c, n)) \in Nat
        /\ Cardinality(StandingIn(new, c, n)) <= Len(state.prior)
    BY <1>5, <2>1, StandingBound
  <2>3. Len(state.prior) <= what.rule.maxPrior
    BY <1>8, <2>1 DEF Founded
  <2>4. ASSUME NEW q \in StandingIn(new, c, n) PROVE new[q].outcome \notin what.rule.denyAfter
    <3>1. PICK k \in 1..Len(state.prior) : state.prior[k].receipt = q
      BY <1>5, <2>1
    <3>2. PICK i \in 1..n : state.prior[k] = Summary(old, c[i])
      BY <2>1, <3>1 DEF S
    <3>3. q = c[i] /\ state.prior[k].outcome = new[q].outcome
      BY <1>3, <3>1, <3>2 DEF Summary
    <3>4. k \in DOMAIN state.prior
      BY <2>1, <3>1
    <3> QED
      BY <1>8, <3>3, <3>4 DEF Founded
  <2> QED
    BY <2>1, <2>2, <2>3, <2>4
<1> QED
  BY <1>1, <1>2, <1>6, <1>7, <1>8 DEF Stands

----------------------------------------------------------------------------
(* Where a session is in its chain.                                        *)

Placed(receipts, state) ==
  /\ state.seq \in Nat /\ state.head \in 0..Len(receipts) /\ state.last \in Nat
  /\ state.head # 0 => state.last = receipts[state.head].time
  /\ \E c : Path(receipts, c, state.id, state.seq, state.head)
  /\ Agrees(receipts, state)

\* A session stays where it is as receipts are signed.
LEMMA PlacedKept ==
  ASSUME NEW old, NEW new, Lengthens(old, new), NEW state, Placed(old, state)
  PROVE  Placed(new, state)
<1>1. state.head \in 0..Len(new) /\ (state.head # 0 => new[state.head] = old[state.head])
  BY DEF Placed, Lengthens
<1>2. PICK c : Path(old, c, state.id, state.seq, state.head)
  BY DEF Placed
<1>3. Path(new, c, state.id, state.seq, state.head)
  BY <1>2, PathKept
<1>4. Agrees(new, state)
  BY AgreesKept DEF Placed
<1> QED
  BY <1>1, <1>3, <1>4 DEF Placed

\* A new session has no receipts.
LEMMA PlacedNew ==
  ASSUME NEW receipts, Len(receipts) \in Nat, NEW id
  PROVE  Placed(receipts, NewSession(id))
<1>1. /\ NewSession(id).seq = 0 /\ NewSession(id).head = 0 /\ NewSession(id).last = 0
      /\ NewSession(id).prior = <<>> /\ NewSession(id).suspended = {}
      /\ NewSession(id).resolved = {} /\ NewSession(id).id = id
  BY DEF NewSession
<1>2. 1..0 = {}
  OBVIOUS
<1>3. Path(receipts, <<>>, id, 0, 0)
  BY <1>2 DEF Path
<1>4. Agrees(receipts, NewSession(id))
  <2> SUFFICES ASSUME NEW c PROVE Reads(receipts, NewSession(id), c)
    BY DEF Agrees
  <2>1. StandingIn(receipts, c, 0) = {}
    BY <1>2 DEF StandingIn
  <2>2. {c[i] : i \in {j \in 1..0 : Suspends(receipts[c[j]])}} = {}
    BY <1>2
  <2> QED
    BY <1>1, <1>2, <2>1, <2>2 DEF Reads
<1> QED
  BY <1>1, <1>3, <1>4 DEF Placed

\* Committing its next receipt takes a session to that receipt.
LEMMA PlacedCommitted ==
  ASSUME NEW what, NEW receipts, Len(receipts) \in Nat,
         AllLinked(what, receipts), NEW state, Placed(receipts, state),
         NEW r, NextIn(receipts, r, state),
         NEW new, CommittedAs(receipts, r, state, new)
  PROVE  /\ Placed(receipts, new)
         /\ new.id = state.id /\ new.seq = state.seq + 1 /\ new.head = r
<1>0. \A q \in 1..Len(receipts) : Linked(receipts, q) /\ Warranted(what, receipts, q)
  BY DEF AllLinked
<1>1. /\ r \in 1..Len(receipts) /\ receipts[r].seq = state.seq + 1
      /\ receipts[r].session = state.id /\ receipts[r].prev = state.head
  BY DEF NextIn
<1>2. /\ new.id = state.id /\ new.seq = state.seq + 1 /\ new.head = r
      /\ new.last = receipts[r].time
  BY <1>1 DEF CommittedAs
<1>3. PICK n \in Nat : n = state.seq
  BY DEF Placed
<1>4. PICK c : Path(receipts, c, state.id, n, state.head)
  BY <1>3 DEF Placed
<1>5. \E d : Path(receipts, d, state.id, n + 1, r)
  <2>1. PICK d : d = [i \in 1..n + 1 |-> IF i = n + 1 THEN r ELSE c[i]]
    OBVIOUS
  <2>2. (\A i \in 1..n : d[i] = c[i]) /\ d[n + 1] = r
    BY <2>1
  <2>3. state.head < r
    BY <1>0, <1>1 DEF Linked
  <2> QED
    BY <1>1, <1>3, <1>4, <2>2, <2>3, PathLonger
<1>6. Agrees(receipts, new)
  <2>1. Agrees(receipts, state) /\ state.seq \in Nat /\ Warranted(what, receipts, r)
    BY <1>0, <1>1 DEF Placed
  <2>2. \A q \in 1..Len(receipts) : Linked(receipts, q)
    BY <1>0
  <2>3. CASE Resolves(receipts[r])
    BY <2>1, <2>2, <2>3, ResolutionRead
  <2>4. CASE ~Resolves(receipts[r])
    BY <2>1, <2>2, <2>4, DecisionRead
  <2> QED
    BY <2>3, <2>4
<1>7. new.last \in Nat
  BY <1>0, <1>1, <1>2 DEF Linked
<1> QED
  BY <1>1, <1>2, <1>3, <1>5, <1>6, <1>7 DEF Placed

----------------------------------------------------------------------------
(* The receipts the coordinator signs.                                     *)

SignedLinked == \A r \in SignedIds : Linked(signed, r) /\ Warranted(setup, signed, r)

\* A draft that continues the session.
Drafted(receipt) ==
  /\ receipt.session = session.id /\ receipt.seq = session.seq + 1 /\ receipt.prev = session.head
  /\ receipt.time \in Nat /\ receipt.time >= session.last /\ receipt.expires \in Nat
  /\ receipt.resolves \in 0..Len(signed)
  /\ Founded(setup, signed, session, receipt)

\* A timestamp allocated is a number and not before the last receipt.
LEMMA AllocatedLater ==
  ASSUME Placed(signed, session), NEW time \in Allocated
  PROVE  time \in Nat /\ time >= session.last
<1>1. PICK t \in ClockTimes : time = IF t > session.last THEN t ELSE session.last
  BY DEF Allocated
<1>2. ClockTimes \subseteq Nat
  BY StrictSessionAssumption
<1>3. session.last \in Nat
  BY DEF Placed
<1> QED
  BY <1>1, <1>2, <1>3

\* A decision is such a draft.
LEMMA DecisionDrafted ==
  ASSUME SessionShape, SignedLinked, Placed(signed, session),
         NEW a, NEW input \in Proposals[setup.channel], NEW time \in Allocated
  PROVE  Drafted(DecisionDraft(time, a, input))
<1> DEFINE verdict == Evaluated(input)
           plain == [session |-> session.id, seq |-> session.seq + 1, prev |-> session.head,
                     time |-> time, record |-> "decision", action |-> a, input |-> input,
                     outcome |-> verdict.outcome, required |-> {}, expires |-> 0,
                     request |-> "none", resolves |-> 0, method |-> "none"]
           draft == DecisionDraft(time, a, input)
<1>1. time \in Nat /\ time >= session.last
  BY AllocatedLater
<1>2. setup \in Setups /\ input.base.expires \in Nat /\ DeferTtl \in Nat
  BY StrictSessionAssumption DEF SessionShape
<1>3. Draft(time, a, input) = plain
  BY DEF Draft
<1> HIDE DEF verdict
<1>4. /\ draft.session = session.id /\ draft.seq = session.seq + 1 /\ draft.prev = session.head
      /\ draft.time = time /\ draft.record = "decision" /\ draft.resolves = 0
      /\ draft.outcome = verdict.outcome
      /\ draft.expires \in {0, input.base.expires, time + DeferTtl}
  BY <1>3 DEF DecisionDraft
<1> HIDE DEF draft
<1>5. Founded(setup, signed, session, draft)
  <2>1. ~Resolves(draft)
    BY <1>4 DEF Resolves
  <2>2. Grants(draft.outcome) =>
          /\ ~(Len(session.prior) > setup.rule.maxPrior)
          /\ \A k \in DOMAIN session.prior : session.prior[k].outcome \notin setup.rule.denyAfter
    BY <1>4, GrantedOnHistory DEF verdict, Evaluated
  <2> QED
    BY <2>1, <2>2 DEF Founded
<1>6. draft.expires \in Nat /\ draft.resolves \in 0..Len(signed)
  BY <1>1, <1>2, <1>4 DEF SessionShape
<1> QED
  BY <1>1, <1>4, <1>5, <1>6 DEF Drafted, draft

\* The fields of a resolution.
LEMMA ResolutionFields ==
  ASSUME NEW time, NEW s, NEW input, NEW method,
         NEW draft, draft = ResolutionDraft(time, s, input, method)
  PROVE  /\ draft.session = session.id /\ draft.seq = session.seq + 1 /\ draft.prev = session.head
         /\ draft.time = time /\ draft.record = "resolution" /\ draft.resolves = s
         /\ draft.method = method /\ draft.outcome = Evaluated(input).outcome
         /\ draft.input = input /\ draft.action = signed[s].action /\ draft.expires = 0
<1> DEFINE verdict == Evaluated(input)
<1>1. draft = [session |-> session.id, seq |-> session.seq + 1, prev |-> session.head,
               time |-> time, record |-> "resolution", action |-> signed[s].action,
               input |-> input, outcome |-> verdict.outcome, required |-> {}, expires |-> 0,
               request |-> "none", resolves |-> s, method |-> method]
  BY DEF ResolutionDraft, Draft
<1> HIDE DEF verdict
<1> QED
  BY <1>1 DEF verdict

\* A resolution, or the expiry of a suspension, is one as well.
LEMMA ResolutionDrafted ==
  ASSUME SessionShape, SignedLinked, Placed(signed, session),
         NEW s \in session.suspended, Unresolved(s),
         NEW input, NEW time \in Allocated, NEW method,
         NEW draft, draft = ResolutionDraft(time, s, input, method),
         \/ method \in {"approval_granted", "approval_denied", "context_supplied", "cancelled"}
            /\ ResolutionAllowed(s, draft)
         \/ /\ method = "expired" /\ time >= signed[s].expires
            /\ input = [context |-> signed[s].input.context, base |-> Blocked]
  PROVE  Drafted(draft)
<1>1. /\ draft.session = session.id /\ draft.seq = session.seq + 1 /\ draft.prev = session.head
      /\ draft.time = time /\ draft.record = "resolution" /\ draft.resolves = s
      /\ draft.method = method /\ draft.outcome = Evaluated(input).outcome
      /\ draft.input = input /\ draft.action = signed[s].action /\ draft.expires = 0
  BY ResolutionFields
<1>2. time \in Nat /\ time >= session.last
  BY AllocatedLater
<1>3. s \in 1..Len(signed) /\ Suspends(signed[s])
  <2>1. PICK c : Path(signed, c, session.id, session.seq, session.head)
    BY DEF Placed
  <2>2. Reads(signed, session, c)
    BY <2>1 DEF Placed, Agrees
  <2> QED
    BY <2>1, <2>2 DEF Reads, Path
<1>4. s \in session.suspended \ session.resolved
  BY DEF Unresolved
<1>5. Grants(draft.outcome) =>
        /\ ~(Len(session.prior) > setup.rule.maxPrior)
        /\ \A k \in DOMAIN session.prior : session.prior[k].outcome \notin setup.rule.denyAfter
  BY <1>1, GrantedOnHistory DEF Evaluated
<1>6. /\ MethodFits(signed[s], method) /\ OutcomeFits(method, draft.outcome)
      /\ method \in {"approval_granted", "context_supplied"} => time < signed[s].expires
      /\ method = "expired" => time >= signed[s].expires
      /\ SameAction(signed[s], draft)
      /\ signed[s].input.context.agent = draft.input.context.agent
  <2>1. CASE /\ method \in {"approval_granted", "approval_denied", "context_supplied", "cancelled"}
             /\ ResolutionAllowed(s, draft)
    <3>1. /\ draft.outcome \in FinalOutcomes /\ SameAction(signed[s], draft)
          /\ signed[s].input.context.agent = draft.input.context.agent
          /\ \/ signed[s].outcome = "STEP_UP" <=> method \in {"approval_granted", "approval_denied"}
             \/ method = "cancelled"
          /\ method \in {"approval_granted", "context_supplied"} => time < signed[s].expires
          /\ method \in {"approval_denied", "cancelled"} => draft.outcome = "DENY"
          /\ method = "approval_granted" => draft.outcome # "DENY"
      BY <1>1, <2>1 DEF ResolutionAllowed, FinalAllowed
    <3>2. MethodFits(signed[s], method)
      BY <1>3, <2>1, <3>1 DEF MethodFits, Suspends
    <3>3. OutcomeFits(method, draft.outcome)
      BY <2>1, <3>1 DEF OutcomeFits, FinalOutcomes, Grants
    <3> QED
      BY <2>1, <3>1, <3>2, <3>3
  <2>2. CASE /\ method = "expired" /\ time >= signed[s].expires
             /\ input = [context |-> signed[s].input.context, base |-> Blocked]
    <3>1. MethodFits(signed[s], method)
      BY <2>2 DEF MethodFits
    <3>2. draft.outcome = "DENY"
      BY <1>1, <2>2, BlockedDenies DEF Evaluated
    <3>3. OutcomeFits(method, draft.outcome)
      BY <2>2, <3>2 DEF OutcomeFits
    <3>4. SameAction(signed[s], draft) /\ signed[s].input.context.agent = draft.input.context.agent
      BY <1>1, <2>2 DEF SameAction
    <3> QED
      BY <2>2, <3>1, <3>3, <3>4
  <2> QED
    BY <2>1, <2>2
<1>7. Founded(setup, signed, session, draft)
  BY <1>1, <1>4, <1>5, <1>6 DEF Founded
<1> QED
  BY <1>1, <1>2, <1>3, <1>7 DEF Drafted

----------------------------------------------------------------------------
(* The inductive invariant of the chain.                                   *)

\* Sessions are numbered by the changes of process.
Numbered ==
  /\ lives \in 0..MaxLives /\ session.id = (IF V2 THEN 0 ELSE lives) /\ saved.chain.id = 0
  /\ \A r \in SignedIds : signed[r].session <= session.id

\* What the store holds of a session is a chain of what was posted.
StoredLinked ==
  \A s \in 0..MaxLives :
    /\ Path(signed, stored[s], s, Len(stored[s]),
            IF Len(stored[s]) = 0 THEN 0 ELSE stored[s][Len(stored[s])])
    /\ \A i \in 1..Len(stored[s]) : stored[s][i] \in posted

\* The receipt whose fate the session does not know.
Pending == IF V2 THEN slot.recovering ELSE slot.receipt

\* The store holds what the session committed, and can hold of its next
\* receipts only the one pending, or one that was refused and stored all the
\* same.
Backed(state, pending) ==
  /\ state.seq <= Len(stored[state.id])
  /\ state.seq # 0 => stored[state.id][state.seq] = state.head
  /\ \A p \in posted :
       signed[p].session = state.id =>
         \/ signed[p].seq <= state.seq
         \/ signed[p].seq = state.seq + 1 /\ p \in {pending} \cup refused

SessionBacked ==
  /\ Placed(signed, session)
  /\ Pending # 0 => NextIn(signed, Pending, session)
  /\ Runtime => Backed(session, Pending)
  /\ ~Runtime => op = NoOp /\ slot = EmptySlot
  /\ ~V2 /\ slot.frozen => slot.receipt # 0

CheckpointBacked ==
  /\ Placed(signed, saved.chain)
  /\ ~V2 => saved.chain = NewSession(0)
  /\ V2 => /\ Backed(saved.chain, saved.recovering)
           /\ saved.recovering # 0 => NextIn(signed, saved.recovering, saved.chain)
           /\ saved.chain.seq <= session.seq
           /\ \A i \in DOMAIN invoked : signed[invoked[i]].seq <= saved.chain.seq

\* Profile 2.0: the receipt on its way is the one pending, and the checkpoint
\* names it before it is sent.
OnItsWay ==
  V2 => /\ slot.frozen => slot.receipt = saved.recovering
        /\ op.at \in {"saving", "sending"} =>
             slot = [receipt |-> op.receipt, frozen |-> FALSE, recovering |-> op.receipt]
        /\ op.at = "saving" /\ op.receipt \in posted => op.receipt \in refused
        /\ op.at = "sending" => saved.recovering = op.receipt
        /\ op.at = "recording" => signed[op.receipt].seq <= session.seq
        /\ op.at \in {"closing", "recording", "invoking"} => slot = EmptySlot

LinkInv ==
  /\ SignedLinked /\ StoredLinked /\ Numbered
  /\ SessionBacked /\ CheckpointBacked /\ OnItsWay

----------------------------------------------------------------------------
(* Steps that sign and commit nothing.                                     *)

\* What was signed and stored stays linked.
LEMMA LinkedStays ==
  ASSUME SignedLinked, StoredLinked, Numbered, posted \subseteq posted',
         UNCHANGED <<setup, signed, stored, lives>>, session'.id = session.id,
         saved'.chain.id = 0
  PROVE  SignedLinked' /\ StoredLinked' /\ Numbered'
<1>1. SignedLinked'
  BY DEF SignedLinked, SignedIds
<1>2. StoredLinked'
  BY DEF StoredLinked
<1>3. Numbered'
  BY DEF Numbered, SignedIds, V2
<1> QED
  BY <1>1, <1>2, <1>3

\* The session stays backed while its pending receipt is posted, or given up
\* once it was never posted or is refused.
LEMMA SessionStays ==
  ASSUME SessionBacked, UNCHANGED <<setup, signed, session, stored>>,
         refused \subseteq refused',
         posted' = posted \/ (posted' = posted \cup {Pending} /\ Pending # 0),
         Pending' = Pending \/ (Pending' = 0 /\ (Pending \in posted' => Pending \in refused')),
         ~Runtime => UNCHANGED <<op, slot>>,
         ~V2 /\ slot'.frozen => slot'.receipt # 0
  PROVE  SessionBacked'
<1>1. V2' = V2 /\ Runtime' = Runtime
  BY DEF V2, Runtime
<1>2. Placed(signed, session)'
  BY DEF SessionBacked
<1>3. PICK old, new : old = Pending /\ new = Pending'
  OBVIOUS
<1>4. new # 0 => NextIn(signed', new, session')
  BY <1>3 DEF SessionBacked
<1>5. ASSUME Runtime PROVE Backed(session, new)'
  <2>1. Backed(session, old)
    BY <1>3, <1>5 DEF SessionBacked
  <2>2. old # 0 => signed[old].seq = session.seq + 1
    BY <1>3 DEF SessionBacked, NextIn
  <2> QED
    BY <1>3, <2>1, <2>2 DEF Backed
<1> QED
  BY <1>1, <1>2, <1>3, <1>4, <1>5 DEF SessionBacked, Backed

\* The checkpoint stays backed when it is kept, and when it is replaced by what
\* the session holds.
LEMMA CheckpointStays ==
  ASSUME SessionBacked, CheckpointBacked, Placed(signed, session'), session'.seq >= session.seq,
         UNCHANGED <<setup, signed, stored>>, refused \subseteq refused',
         \/ saved' = saved /\ posted' = posted
         \/ /\ V2 /\ Runtime /\ saved' = Export /\ UNCHANGED session
            /\ posted' = posted \/ (posted' = posted \cup {Pending} /\ Pending # 0),
         \A i \in DOMAIN invoked' :
           signed[invoked'[i]].seq <= saved'.chain.seq \/ (i \in DOMAIN invoked /\ invoked'[i] = invoked[i]),
         \A i \in DOMAIN invoked : signed[invoked[i]].seq \in Nat
  PROVE  CheckpointBacked'
<1>0. session.seq \in Nat /\ session'.seq \in Nat /\ saved.chain.seq \in Nat
  BY DEF SessionBacked, CheckpointBacked, Placed
<1>1. CASE saved' = saved /\ posted' = posted
  <2>1. CASE ~V2
    <3>1. ~V2'
      BY <2>1 DEF V2
    <3> QED
      BY <1>1, <2>1, <3>1 DEF CheckpointBacked
  <2>2. CASE V2
    <3>1. /\ Backed(saved.chain, saved.recovering)
          /\ saved.recovering # 0 => NextIn(signed, saved.recovering, saved.chain)
          /\ saved.chain.seq <= session'.seq
          /\ \A i \in DOMAIN invoked : signed[invoked[i]].seq <= saved.chain.seq
      BY <1>0, <2>2 DEF CheckpointBacked
    <3>2. \A i \in DOMAIN invoked' : signed'[invoked'[i]].seq <= saved'.chain.seq
      BY <1>1, <3>1
    <3>3. Backed(saved.chain, saved.recovering)'
      BY <1>1, <3>1 DEF Backed
    <3>4. (saved.recovering # 0 => NextIn(signed, saved.recovering, saved.chain))'
      BY <1>1, <3>1
    <3>5. Placed(signed, saved.chain)'
      BY <1>1 DEF CheckpointBacked
    <3>6. V2'
      BY <2>2 DEF V2
    <3> QED
      BY <1>1, <3>1, <3>2, <3>3, <3>4, <3>5, <3>6 DEF CheckpointBacked
  <2> QED
    BY <2>1, <2>2
<1>2. CASE /\ V2 /\ Runtime /\ saved' = Export /\ UNCHANGED session
           /\ posted' = posted \/ (posted' = posted \cup {Pending} /\ Pending # 0)
  <2>1. PICK state, old : /\ state = session /\ state = saved'.chain /\ state = session'
                          /\ old = Pending /\ old = saved'.recovering
    BY <1>2 DEF Export, Pending
  <2>2. /\ Backed(state, old) /\ Placed(signed, state)
        /\ old # 0 => NextIn(signed, old, state)
    BY <1>2, <2>1 DEF SessionBacked
  <2>3. Backed(state, old)'
    <3>1. old # 0 => signed[old].seq = state.seq + 1
      BY <2>2 DEF NextIn
    <3> QED
      BY <1>2, <2>1, <2>2, <3>1 DEF Backed
  <2>4. Backed(saved.chain, saved.recovering)'
    BY <2>1, <2>3 DEF Backed
  <2>5. \A i \in DOMAIN invoked' : signed'[invoked'[i]].seq <= saved'.chain.seq
    <3>1. \A i \in DOMAIN invoked : signed[invoked[i]].seq <= saved.chain.seq /\ saved.chain.seq <= session.seq
      BY <1>2 DEF CheckpointBacked
    <3> QED
      BY <1>0, <2>1, <3>1
  <2>6. V2' /\ saved'.chain.seq <= session'.seq
    BY <1>0, <1>2, <2>1 DEF V2
  <2>7. Placed(signed', saved'.chain) /\ (saved'.recovering # 0 => NextIn(signed', saved'.recovering, saved'.chain))
    BY <2>1, <2>2
  <2> QED
    BY <2>4, <2>5, <2>6, <2>7 DEF CheckpointBacked
<1> QED
  BY <1>1, <1>2

\* What StrictInv and the invariant say of the operation under way.
LEMMA WhereItIs ==
  ASSUME StrictInv, LinkInv
  PROVE  /\ V2 => Runtime
         /\ slot = [receipt |-> slot.receipt, frozen |-> slot.frozen, recovering |-> slot.recovering]
         /\ EmptySlot = [receipt |-> 0, frozen |-> FALSE, recovering |-> 0]
         /\ NoOp.at = "idle" /\ NoOp.receipt = 0 /\ 0 \notin SignedIds
         /\ op = [at |-> op.at, receipt |-> op.receipt]
         /\ op # NoOp => Runtime /\ op.receipt \in SignedIds
         /\ op.at \in {"saving", "closing", "recording"} => V2
         /\ posted \subseteq SignedIds /\ SignedIds = 1..Len(signed) /\ Len(signed) \in Nat
         /\ \A i \in DOMAIN invoked : invoked[i] \in SignedIds /\ signed[invoked[i]].seq \in Nat
         /\ \A r \in SignedIds : signed[r].seq \in Nat
         /\ Placed(signed, session) /\ session.seq \in Nat
         /\ session.id \in 0..MaxLives /\ saved.chain.id = 0
<1>1. V2 => Runtime
  BY StrictSessionAssumption DEF StrictInv, SessionShape, V2, Runtime
<1>2. /\ slot = [receipt |-> slot.receipt, frozen |-> slot.frozen, recovering |-> slot.recovering]
      /\ EmptySlot = [receipt |-> 0, frozen |-> FALSE, recovering |-> 0]
      /\ NoOp.at = "idle" /\ NoOp.receipt = 0 /\ 0 \notin SignedIds
      /\ posted \subseteq SignedIds /\ SignedIds = 1..Len(signed) /\ Len(signed) \in Nat
  BY DEF StrictInv, SessionShape, EmptySlot, NoOp, SignedIds
<1>3. /\ op = [at |-> op.at, receipt |-> op.receipt]
      /\ op # NoOp => Runtime /\ op.receipt \in SignedIds
  BY DEF StrictInv, SessionShape, NoOp, LinkInv, SessionBacked
<1>4. op.at \in {"saving", "closing", "recording"} => V2
  BY DEF StrictInv, FirstProfile
<1>5. \A r \in SignedIds : signed[r].seq \in Nat
  BY DEF LinkInv, SignedLinked, Linked
<1>6. \A i \in DOMAIN invoked : invoked[i] \in SignedIds
  BY DEF StrictInv, SessionShape
<1>7. Placed(signed, session) /\ session.seq \in Nat
  BY DEF LinkInv, SessionBacked, Placed
<1>8. session.id \in 0..MaxLives /\ saved.chain.id = 0
  BY StrictSessionAssumption DEF LinkInv, Numbered
<1> QED
  BY <1>1, <1>2, <1>3, <1>4, <1>5, <1>6, <1>7, <1>8

\* The steps of the runtime and of the checkpoint store that commit nothing.
LEMMA QuietLinks ==
  ASSUME StrictInv, LinkInv,
         \/ RefusedLocally \/ SavePreparedReceipt \/ SaveAborted \/ SaveCommittedReceipt
         \/ AdmissionDenied \/ AdmissionUnknown \/ ActionSettles
  PROVE  LinkInv'
<1>0. /\ V2 => Runtime
      /\ slot = [receipt |-> slot.receipt, frozen |-> slot.frozen, recovering |-> slot.recovering]
      /\ EmptySlot = [receipt |-> 0, frozen |-> FALSE, recovering |-> 0]
      /\ NoOp.at = "idle" /\ NoOp.receipt = 0 /\ 0 \notin SignedIds
      /\ op = [at |-> op.at, receipt |-> op.receipt]
      /\ op # NoOp => Runtime /\ op.receipt \in SignedIds
      /\ op.at \in {"saving", "closing", "recording"} => V2
      /\ \A i \in DOMAIN invoked : signed[invoked[i]].seq \in Nat
      /\ Placed(signed, session) /\ session.seq \in Nat
  BY WhereItIs
<1>1. SignedLinked /\ StoredLinked /\ Numbered /\ SessionBacked /\ CheckpointBacked /\ OnItsWay
  BY DEF LinkInv
<1>2. /\ UNCHANGED <<setup, signed, session, stored, lives>>
      /\ refused \subseteq refused' /\ posted \subseteq posted'
      /\ V2' = V2 /\ Runtime' = Runtime
  BY DEF RefusedLocally, SavePreparedReceipt, SaveAborted, SaveCommittedReceipt, AdmissionDenied,
         AdmissionUnknown, ActionSettles, V2, Runtime
<1>3. Placed(signed, session') /\ session'.seq >= session.seq
  BY <1>0, <1>2
<1>4. CASE RefusedLocally
  <2>1. UNCHANGED <<slot, op, posted, refused, invoked, saved>>
    BY <1>4 DEF RefusedLocally
  <2>2. Pending' = Pending
    BY <1>2, <2>1 DEF Pending
  <2>3. SessionBacked'
    BY <1>1, <1>2, <2>1, <2>2, SessionStays DEF SessionBacked
  <2>4. CheckpointBacked'
    BY <1>0, <1>1, <1>2, <1>3, <2>1, CheckpointStays
  <2>5. OnItsWay'
    BY <1>1, <1>2, <2>1 DEF OnItsWay
  <2>6. saved'.chain.id = 0
    BY <1>1, <2>1 DEF Numbered
  <2> QED
    BY <1>1, <1>2, <2>3, <2>4, <2>5, <2>6, LinkedStays DEF LinkInv
<1>5. CASE SavePreparedReceipt
  <2>1. /\ op.at = "saving" /\ UNCHANGED <<refused, invoked>>
        /\ \/ saved' = Export /\ op' = [op EXCEPT !.at = "sending"]
              /\ posted' = posted \cup {op.receipt} /\ UNCHANGED slot
           \/ saved' \in {saved, Export} /\ slot' = EmptySlot /\ op' = NoOp /\ UNCHANGED posted
    BY <1>5 DEF SavePreparedReceipt, At, OpTo, SaveFails, Ends
  <2>2. /\ V2 /\ Runtime /\ op.receipt \in SignedIds /\ op.receipt # 0
        /\ slot = [receipt |-> op.receipt, frozen |-> FALSE, recovering |-> op.receipt]
        /\ Pending = op.receipt /\ slot.recovering = op.receipt /\ slot.frozen = FALSE
        /\ op.receipt \in posted => op.receipt \in refused
    BY <1>0, <1>1, <2>1 DEF OnItsWay, Pending
  <2>3. saved'.chain.id = 0 /\ (saved' = Export => saved'.recovering = op.receipt /\ saved'.chain = session)
    BY <1>1, <2>1, <2>2 DEF Numbered, Export
  <2>4. SignedLinked' /\ StoredLinked' /\ Numbered'
    BY <1>1, <1>2, <2>3, LinkedStays
  <2>5. CASE /\ saved' = Export /\ op' = [op EXCEPT !.at = "sending"]
             /\ posted' = posted \cup {op.receipt} /\ UNCHANGED slot
    <3>1. Pending' = Pending
      BY <1>2, <2>5 DEF Pending
    <3>2. SessionBacked'
      BY <1>1, <1>2, <2>2, <2>5, <3>1, SessionStays
    <3>3. CheckpointBacked'
      BY <1>0, <1>1, <1>2, <1>3, <2>1, <2>2, <2>5, CheckpointStays
    <3>4. op' = [at |-> "sending", receipt |-> op.receipt]
      BY <1>0, <2>5
    <3>5. OnItsWay'
      BY <2>2, <2>3, <2>5, <3>4 DEF OnItsWay
    <3> QED
      BY <2>4, <3>2, <3>3, <3>5 DEF LinkInv
  <2>6. CASE saved' \in {saved, Export} /\ slot' = EmptySlot /\ op' = NoOp /\ UNCHANGED posted
    <3>1. Pending' = 0 /\ slot'.frozen = FALSE
      BY <1>0, <2>6 DEF Pending
    <3>2. SessionBacked'
      BY <1>1, <1>2, <2>2, <2>6, <3>1, SessionStays
    <3>3. CheckpointBacked'
      BY <1>0, <1>1, <1>2, <1>3, <2>1, <2>2, <2>6, CheckpointStays
    <3>4. OnItsWay'
      BY <1>0, <2>6, <3>1 DEF OnItsWay
    <3> QED
      BY <2>4, <3>2, <3>3, <3>4 DEF LinkInv
  <2> QED
    BY <2>1, <2>5, <2>6
<1>6. CASE SaveAborted \/ SaveCommittedReceipt
  <2>1. /\ op.at \in {"closing", "recording"} /\ UNCHANGED <<slot, posted, refused>>
        /\ saved' \in {saved, Export}
        /\ \/ op' = NoOp /\ UNCHANGED invoked
           \/ /\ op.at = "recording" /\ op' = [op EXCEPT !.at = "invoking"]
              /\ invoked' = Append(invoked, op.receipt) /\ saved' = Export
    BY <1>6 DEF SaveAborted, SaveCommittedReceipt, At, OpTo, SaveFails, Ends, InvokedUnder
  <2>2. V2 /\ Runtime /\ slot = EmptySlot /\ slot' = EmptySlot /\ op.receipt \in SignedIds
    BY <1>0, <1>1, <2>1 DEF OnItsWay
  <2>3. saved'.chain.id = 0
    BY <1>1, <1>2, <2>1, <2>2 DEF Numbered, Export
  <2>4. SignedLinked' /\ StoredLinked' /\ Numbered'
    BY <1>1, <1>2, <2>3, LinkedStays
  <2>5. Pending' = Pending
    BY <1>2, <2>1 DEF Pending
  <2>6. SessionBacked'
    BY <1>1, <1>2, <2>1, <2>2, <2>5, SessionStays
  <2>7. \A i \in DOMAIN invoked' :
          signed[invoked'[i]].seq <= saved'.chain.seq \/ (i \in DOMAIN invoked /\ invoked'[i] = invoked[i])
    <3>1. CASE UNCHANGED invoked
      BY <3>1
    <3>2. CASE /\ op.at = "recording" /\ invoked' = Append(invoked, op.receipt) /\ saved' = Export
      <4>1. signed[op.receipt].seq <= saved'.chain.seq
        BY <1>1, <2>2, <3>2 DEF OnItsWay, Export
      <4>2. invoked \in Seq(SignedIds)
        BY DEF StrictInv, SessionShape
      <4>3. /\ DOMAIN invoked' = 1..Len(invoked) + 1 /\ Len(invoked) \in Nat
            /\ invoked'[Len(invoked) + 1] = op.receipt
            /\ \A i \in 1..Len(invoked) : invoked'[i] = invoked[i] /\ i \in DOMAIN invoked
        BY <3>2, <4>2
      <4> QED
        BY <4>1, <4>3
    <3> QED
      BY <2>1, <3>1, <3>2
  <2>8. CheckpointBacked'
    BY <1>0, <1>1, <1>2, <1>3, <2>1, <2>2, <2>7, CheckpointStays
  <2>9. op'.at \in {"idle", "invoking"}
    BY <1>0, <2>1
  <2>10. OnItsWay'
    BY <1>0, <2>2, <2>9 DEF OnItsWay
  <2> QED
    BY <2>4, <2>6, <2>8, <2>10 DEF LinkInv
<1>7. CASE AdmissionDenied
  <2>1. /\ op.at = "sending" /\ UNCHANGED <<posted, invoked, saved>>
        /\ slot' = IF slot.receipt = op.receipt THEN EmptySlot ELSE slot
        /\ IF V2 THEN op' = [op EXCEPT !.at = "closing"] ELSE op' = NoOp
        /\ refused' = refused \cup {op.receipt}
    BY <1>7 DEF AdmissionDenied, At, OpTo, Matches
  <2>2. Runtime /\ op.receipt \in SignedIds
    BY <1>0, <2>1
  <2>3. V2 => /\ slot.receipt = op.receipt /\ slot.recovering = op.receipt /\ slot' = EmptySlot
              /\ op'.at = "closing"
    BY <1>0, <1>1, <2>1 DEF OnItsWay
  <2>4. Pending' = Pending \/ (Pending' = 0 /\ (Pending \in posted' => Pending \in refused'))
    BY <1>0, <1>2, <2>1, <2>3 DEF Pending
  <2>5. saved'.chain.id = 0
    BY <1>1, <2>1 DEF Numbered
  <2>6. SignedLinked' /\ StoredLinked' /\ Numbered'
    BY <1>1, <1>2, <2>5, LinkedStays
  <2>7. SessionBacked'
    <3>1. ~V2 /\ slot'.frozen => slot'.receipt # 0
      BY <1>0, <1>1, <2>1 DEF SessionBacked
    <3> QED
      BY <1>1, <1>2, <2>1, <2>2, <2>4, <3>1, SessionStays
  <2>8. CheckpointBacked'
    BY <1>0, <1>1, <1>2, <1>3, <2>1, CheckpointStays
  <2>9. OnItsWay'
    BY <1>0, <1>2, <2>3 DEF OnItsWay
  <2> QED
    BY <2>6, <2>7, <2>8, <2>9 DEF LinkInv
<1>8. CASE AdmissionUnknown
  <2>1. /\ op.at = "sending" /\ UNCHANGED <<posted, refused, invoked, saved>>
        /\ slot' = IF slot.receipt = op.receipt THEN [slot EXCEPT !.frozen = TRUE] ELSE slot
        /\ op' = NoOp
    BY <1>8 DEF AdmissionUnknown, At, Matches, Ends
  <2>2. Runtime /\ op.receipt \in SignedIds /\ op.receipt # 0
    BY <1>0, <2>1
  <2>3. slot'.receipt = slot.receipt /\ slot'.recovering = slot.recovering
        /\ (slot'.frozen => slot.frozen \/ slot.receipt = op.receipt)
    BY <1>0, <2>1
  <2>4. Pending' = Pending
    BY <1>2, <2>3 DEF Pending
  <2>5. saved'.chain.id = 0
    BY <1>1, <2>1 DEF Numbered
  <2>6. SignedLinked' /\ StoredLinked' /\ Numbered'
    BY <1>1, <1>2, <2>5, LinkedStays
  <2>7. SessionBacked'
    <3>1. ~V2 /\ slot'.frozen => slot'.receipt # 0
      BY <1>0, <1>1, <2>2, <2>3 DEF SessionBacked
    <3> QED
      BY <1>1, <1>2, <2>1, <2>2, <2>4, <3>1, SessionStays
  <2>8. CheckpointBacked'
    BY <1>0, <1>1, <1>2, <1>3, <2>1, CheckpointStays
  <2>9. OnItsWay'
    BY <1>0, <1>1, <1>2, <2>1, <2>3 DEF OnItsWay
  <2> QED
    BY <2>6, <2>7, <2>8, <2>9 DEF LinkInv
<1>9. CASE ActionSettles
  <2>1. op.at = "invoking" /\ op' = NoOp /\ UNCHANGED <<slot, posted, refused, invoked, saved>>
    BY <1>9 DEF ActionSettles, At
  <2>2. Pending' = Pending
    BY <1>2, <2>1 DEF Pending
  <2>3. Runtime
    BY <1>0, <2>1
  <2>4. SessionBacked'
    BY <1>1, <1>2, <2>1, <2>2, <2>3, SessionStays DEF SessionBacked
  <2>5. CheckpointBacked'
    BY <1>0, <1>1, <1>2, <1>3, <2>1, CheckpointStays
  <2>6. OnItsWay'
    BY <1>0, <1>1, <1>2, <2>1 DEF OnItsWay
  <2>7. saved'.chain.id = 0
    BY <1>1, <2>1 DEF Numbered
  <2> QED
    BY <1>1, <1>2, <2>4, <2>5, <2>6, <2>7, LinkedStays DEF LinkInv
<1> QED
  BY <1>4, <1>5, <1>6, <1>7, <1>8, <1>9

----------------------------------------------------------------------------
(* Storing, and beginning anew.                                            *)

\* The store admits what continues its chain.
LEMMA StoringLinks ==
  ASSUME StrictInv, LinkInv, NEW r \in posted, StorePosted(r)
  PROVE  LinkInv'
<1>0. /\ posted \subseteq SignedIds /\ SignedIds = 1..Len(signed) /\ Len(signed) \in Nat
      /\ stored \in [0..MaxLives -> Seq(Nat)]
      /\ session.id \in 0..MaxLives /\ saved.chain.id = 0 /\ 0 \in 0..MaxLives
      /\ \A s \in 0..MaxLives : Len(stored[s]) \in Nat
      /\ Placed(signed, session) /\ Placed(signed, saved.chain)
      /\ session.seq \in Nat /\ saved.chain.seq \in Nat
  <2>1. stored \in [0..MaxLives -> Seq(Nat)]
    BY DEF StrictInv, SessionShape
  <2> QED
    BY <2>1, WhereItIs, StrictSessionAssumption DEF LinkInv, CheckpointBacked, Placed
<1>1. SignedLinked /\ StoredLinked /\ Numbered /\ SessionBacked /\ CheckpointBacked /\ OnItsWay
  BY DEF LinkInv
<1>2. PICK s : s = signed[r].session
  OBVIOUS
<1> DEFINE chain == stored[s]
           n == Len(chain)
<1>3. /\ UNCHANGED <<setup, signed, session, slot, op, results, posted, refused, invoked, saved, lives>>
      /\ signed[r].seq = n + 1
      /\ signed[r].prev = (IF chain = <<>> THEN 0 ELSE chain[n])
      /\ stored' = [stored EXCEPT ![s] = Append(@, r)]
  BY <1>2 DEF StorePosted
<1>4. V2' = V2 /\ Runtime' = Runtime /\ Pending' = Pending /\ SignedIds' = SignedIds
  BY <1>3 DEF V2, Runtime, Pending, SignedIds
<1>5. CASE s \notin 0..MaxLives
  <2>1. stored' = stored
    BY <1>0, <1>3, <1>5
  <2>2. SignedLinked' /\ StoredLinked' /\ Numbered'
    BY <1>0, <1>1, <1>3, <2>1, LinkedStays
  <2>3. SessionBacked' /\ CheckpointBacked' /\ OnItsWay'
    BY <1>1, <1>3, <1>4, <2>1 DEF SessionBacked, CheckpointBacked, OnItsWay, Backed
  <2> QED
    BY <2>2, <2>3 DEF LinkInv
<1>6. CASE s \in 0..MaxLives
  <2>1. /\ chain \in Seq(Nat) /\ n \in Nat
        /\ stored'[s] = Append(chain, r)
        /\ \A t \in 0..MaxLives : t # s => stored'[t] = stored[t]
    BY <1>0, <1>3, <1>6
  <2>2. /\ Len(stored'[s]) = n + 1 /\ stored'[s][n + 1] = r
        /\ \A i \in 1..n : stored'[s][i] = chain[i]
    BY <2>1, AppendAny
  <2>3. \A t \in 0..MaxLives : /\ Len(stored[t]) <= Len(stored'[t]) /\ Len(stored'[t]) \in Nat
                               /\ \A i \in 1..Len(stored[t]) : stored'[t][i] = stored[t][i]
    <3>1. SUFFICES ASSUME NEW t \in 0..MaxLives
          PROVE  /\ Len(stored[t]) <= Len(stored'[t]) /\ Len(stored'[t]) \in Nat
                 /\ \A i \in 1..Len(stored[t]) : stored'[t][i] = stored[t][i]
      OBVIOUS
    <3>2. CASE t = s
      BY <2>1, <2>2, <3>2
    <3>3. CASE t # s
      <4>1. stored'[t] = stored[t] /\ Len(stored[t]) \in Nat
        BY <1>0, <2>1, <3>3
      <4> QED
        BY <4>1
    <3> QED
      BY <3>2, <3>3
  <2>4. signed[r].prev = IF n = 0 THEN 0 ELSE chain[n]
    BY <1>3, <2>1
  <2>5. StoredLinked'
    <3>1. /\ Path(signed, chain, s, n, IF n = 0 THEN 0 ELSE chain[n])
          /\ \A i \in 1..n : chain[i] \in posted
      BY <1>1, <1>6 DEF StoredLinked
    <3>2. r \in 1..Len(signed) /\ signed[r].session = s /\ signed[r].prev < r
      BY <1>0, <1>1, <1>2 DEF SignedLinked, Linked
    <3>3. PICK d : d = stored'[s]
      OBVIOUS
    <3>4. Path(signed, d, s, n + 1, r)
      <4>1. PICK head : head = IF n = 0 THEN 0 ELSE chain[n]
        OBVIOUS
      <4>2. Path(signed, chain, s, n, head) /\ head < r /\ signed[r].prev = head
        BY <2>4, <3>1, <3>2, <4>1
      <4>3. PICK c, k : c = chain /\ k = n /\ k \in Nat
        BY <2>1
      <4>4. (\A i \in 1..k : d[i] = c[i]) /\ d[k + 1] = r /\ signed[r].seq = k + 1
        BY <1>3, <2>2, <3>3, <4>3
      <4>5. Path(signed, c, s, k, head)
        BY <4>2, <4>3
      <4>6. Path(signed, d, s, k + 1, r)
        BY <1>0, <3>2, <4>2, <4>4, <4>5, PathLonger
      <4> QED
        BY <4>3, <4>6
    <3>5. \A i \in 1..n + 1 : d[i] \in posted
      <4>1. SUFFICES ASSUME NEW i \in 1..n + 1 PROVE d[i] \in posted
        OBVIOUS
      <4>2. CASE i = n + 1
        BY <2>2, <3>3, <4>2
      <4>3. CASE i # n + 1
        <5>1. i \in 1..n
          BY <2>1, <4>1, <4>3
        <5> HIDE DEF n, chain
        <5>2. d[i] = chain[i]
          BY <2>2, <3>3, <5>1
        <5> QED
          BY <3>1, <5>1, <5>2
      <4> QED
        BY <4>2, <4>3
    <3>6. /\ Path(signed, stored'[s], s, Len(stored'[s]),
                  IF Len(stored'[s]) = 0 THEN 0 ELSE stored'[s][Len(stored'[s])])
          /\ \A i \in 1..Len(stored'[s]) : stored'[s][i] \in posted
      BY <2>1, <2>2, <3>3, <3>4, <3>5
    <3> QED
      BY <1>1, <1>3, <2>1, <3>6 DEF StoredLinked
  <2>6. SignedLinked' /\ Numbered'
    BY <1>0, <1>1, <1>3, <1>4 DEF SignedLinked, Numbered
  <2>7. ASSUME NEW state, NEW pending, Backed(state, pending), state.id \in 0..MaxLives, state.seq \in Nat
        PROVE  Backed(state, pending)'
    <3>1. state.seq <= Len(stored'[state.id])
      BY <1>0, <2>3, <2>7 DEF Backed
    <3>2. state.seq # 0 => stored'[state.id][state.seq] = state.head
      <4>1. state.seq # 0 => state.seq \in 1..Len(stored[state.id])
        BY <1>0, <2>7 DEF Backed
      <4> QED
        BY <2>3, <2>7, <4>1 DEF Backed
    <3> QED
      BY <1>3, <2>7, <3>1, <3>2 DEF Backed
  <2>8. SessionBacked'
    <3>1. PICK state, pending : state = session /\ pending = Pending
      OBVIOUS
    <3>2. Runtime => Backed(state, pending)'
      BY <1>0, <1>1, <2>7, <3>1 DEF SessionBacked
    <3>3. Runtime => Backed(session, Pending)'
      BY <1>3, <1>4, <3>1, <3>2 DEF Backed
    <3> QED
      BY <1>1, <1>3, <1>4, <3>3 DEF SessionBacked
  <2>9. CheckpointBacked'
    <3>1. PICK state, pending : state = saved.chain /\ pending = saved.recovering
      OBVIOUS
    <3>2. V2 => Backed(state, pending)'
      BY <1>0, <1>1, <2>7, <3>1 DEF CheckpointBacked
    <3>3. V2 => Backed(saved.chain, saved.recovering)'
      BY <1>3, <1>4, <3>1, <3>2 DEF Backed
    <3> QED
      BY <1>1, <1>3, <1>4, <3>3 DEF CheckpointBacked
  <2>10. OnItsWay'
    BY <1>1, <1>3, <1>4 DEF OnItsWay
  <2> QED
    BY <2>5, <2>6, <2>8, <2>9, <2>10 DEF LinkInv
<1> QED
  BY <1>5, <1>6

\* A new session has no receipts, and a restart begins where the checkpoint is.
LEMMA BeginningLinks ==
  ASSUME StrictInv, LinkInv, ProcessChanges \/ CrashAndRestoreCheckpoint
  PROVE  LinkInv'
<1>0. /\ SignedIds = 1..Len(signed) /\ Len(signed) \in Nat /\ posted \subseteq SignedIds
      /\ EmptySlot = [receipt |-> 0, frozen |-> FALSE, recovering |-> 0]
      /\ NoOp.at = "idle" /\ MaxLives \in Nat /\ (V2 => Runtime) /\ saved.chain.id = 0
      /\ \A r \in SignedIds : signed[r].seq \in Nat
      /\ \A i \in DOMAIN invoked : invoked[i] \in SignedIds
      /\ stored \in [0..MaxLives -> Seq(Nat)]
  <2>1. stored \in [0..MaxLives -> Seq(Nat)]
    BY DEF StrictInv, SessionShape
  <2> QED
    BY <2>1, WhereItIs, StrictSessionAssumption
<1>1. SignedLinked /\ StoredLinked /\ Numbered /\ SessionBacked /\ CheckpointBacked /\ OnItsWay
  BY DEF LinkInv
<1>2. UNCHANGED <<setup, signed, posted, stored, refused, invoked, saved>> /\ lives' = lives + 1
      /\ lives < MaxLives
  BY DEF ProcessChanges, CrashAndRestoreCheckpoint
<1>3. V2' = V2 /\ Runtime' = Runtime /\ SignedIds' = SignedIds
      /\ lives' \in 0..MaxLives /\ SignedLinked' /\ StoredLinked'
  <2>1. V2' = V2 /\ Runtime' = Runtime /\ SignedIds' = SignedIds
    BY <1>2 DEF V2, Runtime, SignedIds
  <2>2. lives' \in 0..MaxLives
    BY <1>0, <1>1, <1>2 DEF Numbered
  <2> QED
    BY <1>1, <1>2, <2>1, <2>2 DEF SignedLinked, StoredLinked
<1>4. CASE ProcessChanges
  <2>1. ~V2 /\ session' = NewSession(session.id + 1) /\ slot' = EmptySlot /\ UNCHANGED op
    BY <1>4 DEF ProcessChanges
  <2>2. /\ session'.id = lives + 1 /\ session'.seq = 0 /\ session'.head = 0
        /\ \A r \in SignedIds : signed[r].session <= lives /\ signed[r].session \in Nat
        /\ lives \in Nat
    BY <1>1, <2>1 DEF Numbered, NewSession, SignedLinked, Linked
  <2>3. Numbered'
    BY <1>0, <1>2, <1>3, <2>1, <2>2 DEF Numbered
  <2>4. Pending' = 0
    BY <1>0, <1>3, <2>1 DEF Pending
  <2>5. Placed(signed, session)'
    <3>1. PICK id : id = session.id + 1
      OBVIOUS
    <3>2. Placed(signed, NewSession(id))
      BY <1>0, PlacedNew
    <3> QED
      BY <1>2, <2>1, <3>1, <3>2
  <2>6. Backed(session, Pending)'
    <3>1. \A p \in posted : signed[p].session # lives + 1
      BY <1>0, <2>2
    <3>2. Len(stored[lives + 1]) \in Nat
      <4>1. lives + 1 \in 0..MaxLives
        BY <1>2, <1>3
      <4> QED
        BY <1>0, <4>1
    <3> QED
      BY <1>2, <2>2, <3>1, <3>2 DEF Backed
  <2>7. SessionBacked'
    BY <1>0, <1>1, <1>3, <2>1, <2>4, <2>5, <2>6 DEF SessionBacked
  <2>8. CheckpointBacked' /\ OnItsWay'
    BY <1>1, <1>2, <1>3, <2>1 DEF CheckpointBacked, OnItsWay
  <2> QED
    BY <1>3, <2>3, <2>7, <2>8 DEF LinkInv
<1>5. CASE CrashAndRestoreCheckpoint
  <2>1. /\ V2 /\ Runtime /\ session' = saved.chain /\ op' = NoOp
        /\ slot' = [receipt |-> 0, frozen |-> FALSE, recovering |-> saved.recovering]
    BY <1>0, <1>5 DEF CrashAndRestoreCheckpoint
  <2>2. Pending' = saved.recovering
    BY <1>3, <2>1 DEF Pending
  <2>3. /\ Placed(signed, saved.chain) /\ Backed(saved.chain, saved.recovering)
        /\ saved.recovering # 0 => NextIn(signed, saved.recovering, saved.chain)
        /\ \A i \in DOMAIN invoked : signed[invoked[i]].seq <= saved.chain.seq
    BY <1>1, <2>1 DEF CheckpointBacked
  <2>4. Numbered'
    BY <1>0, <1>1, <1>2, <1>3, <2>1 DEF Numbered
  <2>5. SessionBacked'
    <3>1. Backed(session, Pending)'
      BY <1>2, <2>1, <2>2, <2>3 DEF Backed
    <3> QED
      BY <1>2, <1>3, <2>1, <2>2, <2>3, <3>1 DEF SessionBacked
  <2>6. CheckpointBacked'
    <3>1. Backed(saved.chain, saved.recovering)'
      BY <1>2, <2>3 DEF Backed
    <3>2. saved'.chain.seq <= session'.seq
      BY <1>2, <2>1, <2>3 DEF Placed
    <3> QED
      BY <1>2, <1>3, <2>1, <2>3, <3>1, <3>2 DEF CheckpointBacked
  <2>7. OnItsWay'
    BY <1>0, <2>1 DEF OnItsWay
  <2> QED
    BY <1>3, <2>4, <2>5, <2>6, <2>7 DEF LinkInv
<1> QED
  BY <1>4, <1>5

----------------------------------------------------------------------------
(* Committing.                                                             *)

\* A session that commits the receipt it had pending.
LEMMA CommittingLinks ==
  ASSUME StrictInv, LinkInv, Pending # 0,
         UNCHANGED <<setup, signed, posted, stored, refused, saved, lives>>,
         session' = WithReceipt(session, signed, Pending), IsStored(Pending), Pending' = 0,
         Runtime, ~V2 /\ slot'.frozen => slot'.receipt # 0,
         V2 => UNCHANGED invoked
  PROVE  /\ SignedLinked' /\ StoredLinked' /\ Numbered' /\ SessionBacked' /\ CheckpointBacked'
         /\ signed[Pending].seq = session'.seq /\ session.seq <= session'.seq
<1>0. /\ SignedIds = 1..Len(signed) /\ Len(signed) \in Nat /\ posted \subseteq SignedIds
      /\ IsSession(session) /\ session.seq \in Nat
      /\ \A i \in DOMAIN invoked : signed[invoked[i]].seq \in Nat
      /\ session.id \in 0..MaxLives /\ saved.chain.id = 0
      /\ stored \in [0..MaxLives -> Seq(Nat)] /\ \A q \in SignedIds : signed[q].seq \in Nat
  <2>1. IsSession(session) /\ stored \in [0..MaxLives -> Seq(Nat)]
    BY DEF StrictInv, SessionShape
  <2> QED
    BY <2>1, WhereItIs
<1>1. SignedLinked /\ StoredLinked /\ Numbered /\ SessionBacked /\ CheckpointBacked /\ OnItsWay
  BY DEF LinkInv
<1>2. PICK r : r = Pending
  OBVIOUS
<1>3. /\ NextIn(signed, r, session) /\ Placed(signed, session) /\ Backed(session, r)
      /\ r \in 1..Len(signed) /\ signed[r].seq = session.seq + 1 /\ signed[r].session = session.id
  BY <1>1, <1>2 DEF SessionBacked, NextIn
<1>4. PICK state, new : state = session /\ new = WithReceipt(state, signed, r) /\ new = session'
  BY <1>2
<1>5. CommittedAs(signed, r, state, new)
  <2>1. CommittedAs(signed, r, state, WithReceipt(state, signed, r))
    BY <1>0, <1>4, CommittedFields
  <2> QED
    BY <1>4, <2>1
<1>6. /\ Placed(signed, new) /\ new.id = session.id /\ new.seq = session.seq + 1 /\ new.head = r
  <2>1. \A q \in 1..Len(signed) : Linked(signed, q) /\ Warranted(setup, signed, q)
    BY <1>0, <1>1 DEF SignedLinked
  <2>2. IsSession(state) /\ Placed(signed, state) /\ NextIn(signed, r, state)
    BY <1>0, <1>3, <1>4
  <2>3. AllLinked(setup, signed)
    BY <2>1 DEF AllLinked
  <2>4. /\ Placed(signed, new) /\ new.id = state.id /\ new.seq = state.seq + 1 /\ new.head = r
    BY <1>0, <1>5, <2>2, <2>3, PlacedCommitted
  <2> QED
    BY <1>4, <2>4
<1>7. V2' = V2 /\ Runtime' = Runtime /\ SignedIds' = SignedIds
  BY DEF V2, Runtime, SignedIds
<1>8. SignedLinked' /\ StoredLinked' /\ Numbered'
  BY <1>0, <1>1, <1>4, <1>6, LinkedStays
<1>9. stored[session.id][session.seq + 1] = r /\ session.seq + 1 <= Len(stored[session.id])
  <2>1. PICK i \in DOMAIN stored[session.id] : stored[session.id][i] = r
    BY <1>2, <1>3 DEF IsStored
  <2>2. i \in 1..Len(stored[session.id]) /\ Len(stored[session.id]) \in Nat
    BY <1>0, <2>1
  <2>3. signed[stored[session.id][i]].seq = i
    BY <1>0, <1>1, <2>2 DEF StoredLinked, Path
  <2> QED
    BY <1>3, <2>1, <2>2, <2>3
<1>10. Backed(session, Pending)'
  <2>1. \A p \in posted : signed[p].session = session.id => signed[p].seq <= session.seq + 1
    <3> SUFFICES ASSUME NEW p \in posted, signed[p].session = session.id
                 PROVE  signed[p].seq <= session.seq + 1
      OBVIOUS
    <3>1. signed[p].seq \in Nat
      BY <1>0
    <3>2. signed[p].seq <= session.seq \/ signed[p].seq = session.seq + 1
      BY <1>3 DEF Backed
    <3> QED
      BY <1>0, <3>1, <3>2
  <2> QED
    BY <1>4, <1>6, <1>9, <2>1 DEF Backed
<1>11. SessionBacked'
  BY <1>1, <1>4, <1>6, <1>7, <1>10 DEF SessionBacked
<1>12. CheckpointBacked'
  <2>1. CASE ~V2
    BY <1>1, <1>7, <2>1 DEF CheckpointBacked
  <2>2. CASE V2
    <3>1. Placed(signed, session') /\ session'.seq >= session.seq
      BY <1>0, <1>4, <1>6
    <3> QED
      BY <1>0, <1>1, <2>2, <3>1, CheckpointStays
  <2> QED
    BY <2>1, <2>2
<1> QED
  BY <1>0, <1>2, <1>3, <1>4, <1>6, <1>8, <1>11, <1>12

\* An admitted receipt is committed if it is still pending; one that has to be
\* reconciled is committed or given up as refused.
LEMMA CommitsLinks ==
  ASSUME StrictInv, LinkInv, AdmissionSucceeds \/ ReconcilePrepared \/ ReconcileRecovered
  PROVE  LinkInv'
<1>0. /\ V2 => Runtime
      /\ slot = [receipt |-> slot.receipt, frozen |-> slot.frozen, recovering |-> slot.recovering]
      /\ EmptySlot = [receipt |-> 0, frozen |-> FALSE, recovering |-> 0]
      /\ NoOp.at = "idle" /\ NoOp.receipt = 0 /\ 0 \notin SignedIds
      /\ op = [at |-> op.at, receipt |-> op.receipt]
      /\ op # NoOp => Runtime /\ op.receipt \in SignedIds
      /\ \A i \in DOMAIN invoked : signed[invoked[i]].seq \in Nat
      /\ Placed(signed, session) /\ session.seq \in Nat
  BY WhereItIs
<1>1. SignedLinked /\ StoredLinked /\ Numbered /\ SessionBacked /\ CheckpointBacked /\ OnItsWay
  BY DEF LinkInv
<1>2. UNCHANGED <<setup, signed, posted, stored, saved, lives>> /\ V2' = V2 /\ Runtime' = Runtime
  BY DEF AdmissionSucceeds, ReconcilePrepared, ReconcileRecovered, V2, Runtime
<1>3. CASE AdmissionSucceeds /\ Matches(op.receipt)
  <2>1. /\ op.at = "sending" /\ IsStored(op.receipt) /\ slot.receipt = op.receipt
        /\ session' = WithReceipt(session, signed, op.receipt) /\ slot' = EmptySlot
        /\ UNCHANGED refused
        /\ V2 => op' = [op EXCEPT !.at = "recording"] /\ UNCHANGED invoked
    BY <1>3 DEF AdmissionSucceeds, At, OpTo, Acknowledged, Matches
  <2>2. Pending = op.receipt /\ Pending # 0 /\ Runtime /\ Pending' = 0 /\ slot'.frozen = FALSE
    BY <1>0, <1>1, <1>2, <2>1 DEF Pending, OnItsWay
  <2>3. /\ SignedLinked' /\ StoredLinked' /\ Numbered' /\ SessionBacked' /\ CheckpointBacked'
        /\ signed[Pending].seq = session'.seq /\ session.seq <= session'.seq
    BY <1>2, <2>1, <2>2, CommittingLinks
  <2>4. OnItsWay'
    <3>1. V2 => op' = [at |-> "recording", receipt |-> op.receipt] /\ session'.seq \in Nat
      BY <1>0, <2>1, <2>3 DEF SessionBacked, Placed
    <3> QED
      BY <1>0, <1>2, <2>1, <2>2, <2>3, <3>1 DEF OnItsWay
  <2> QED
    BY <2>3, <2>4 DEF LinkInv
<1>4. CASE AdmissionSucceeds /\ ~Matches(op.receipt)
  <2>1. /\ op.at = "sending" /\ op' = NoOp /\ UNCHANGED <<session, slot, invoked, refused>>
        /\ slot.receipt # op.receipt
    BY <1>4 DEF AdmissionSucceeds, At, Matches
  <2>2. ~V2 /\ Runtime
    BY <1>0, <1>1, <2>1 DEF OnItsWay
  <2>3. Pending' = Pending /\ saved'.chain.id = 0
    BY <1>1, <1>2, <2>1 DEF Pending, Numbered
  <2>4. SignedLinked' /\ StoredLinked' /\ Numbered'
    BY <1>1, <1>2, <2>1, <2>3, LinkedStays
  <2>5. SessionBacked'
    BY <1>1, <1>2, <2>1, <2>2, <2>3, SessionStays DEF SessionBacked
  <2>6. CheckpointBacked' /\ OnItsWay'
    BY <1>1, <1>2, <2>2 DEF CheckpointBacked, OnItsWay
  <2> QED
    BY <2>4, <2>5, <2>6 DEF LinkInv
<1>5. CASE ReconcilePrepared
  <2>1. /\ Runtime /\ ~V2 /\ op = NoOp /\ slot.frozen /\ slot' = EmptySlot /\ UNCHANGED <<op, invoked>>
        /\ \/ /\ IsStored(slot.receipt) /\ UNCHANGED refused
              /\ session' = WithReceipt(session, signed, slot.receipt)
           \/ refused' = refused \cup {slot.receipt} /\ UNCHANGED session
    BY <1>5 DEF ReconcilePrepared
  <2>2. Pending = slot.receipt /\ Pending # 0 /\ Pending' = 0 /\ slot'.frozen = FALSE
    BY <1>0, <1>1, <1>2, <2>1 DEF Pending, SessionBacked
  <2>3. CASE /\ IsStored(slot.receipt) /\ UNCHANGED refused
             /\ session' = WithReceipt(session, signed, slot.receipt)
    <3>1. SignedLinked' /\ StoredLinked' /\ Numbered' /\ SessionBacked' /\ CheckpointBacked'
      BY <1>2, <2>1, <2>2, <2>3, CommittingLinks
    <3> QED
      BY <1>2, <2>1, <3>1 DEF LinkInv, OnItsWay
  <2>4. CASE refused' = refused \cup {slot.receipt} /\ UNCHANGED session
    <3>1. saved'.chain.id = 0
      BY <1>1, <1>2 DEF Numbered
    <3>2. SignedLinked' /\ StoredLinked' /\ Numbered'
      BY <1>1, <1>2, <2>4, <3>1, LinkedStays
    <3>3. SessionBacked'
      BY <1>1, <1>2, <2>1, <2>2, <2>4, SessionStays
    <3>4. CheckpointBacked' /\ OnItsWay'
      BY <1>1, <1>2, <2>1 DEF CheckpointBacked, OnItsWay
    <3> QED
      BY <3>2, <3>3, <3>4 DEF LinkInv
  <2> QED
    BY <2>1, <2>3, <2>4
<1>6. CASE ReconcileRecovered
  <2>1. /\ V2 /\ op = NoOp /\ UNCHANGED <<op, invoked, refused>>
        /\ slot.recovering # 0 /\ IsStored(slot.recovering)
        /\ session' = WithReceipt(session, signed, slot.recovering)
        /\ slot' = [slot EXCEPT !.recovering = 0]
    BY <1>6 DEF ReconcileRecovered
  <2>2. /\ Pending = slot.recovering /\ Pending' = 0
        /\ slot'.receipt = slot.receipt /\ slot'.frozen = slot.frozen
    BY <1>0, <1>2, <2>1 DEF Pending
  <2>3. SignedLinked' /\ StoredLinked' /\ Numbered' /\ SessionBacked' /\ CheckpointBacked'
    BY <1>0, <1>2, <2>1, <2>2, CommittingLinks
  <2>4. OnItsWay'
    BY <1>0, <1>1, <1>2, <2>1, <2>2 DEF OnItsWay
  <2> QED
    BY <2>3, <2>4 DEF LinkInv
<1> QED
  BY <1>3, <1>4, <1>5, <1>6

----------------------------------------------------------------------------
(* Proposing.                                                              *)

\* The receipt signed is linked to the session's head, and may stand there.
LEMMA SigningLinks ==
  ASSUME StrictInv, LinkInv, NEW receipt, Drafted(receipt), WellFormed(receipt),
         Lengthens(signed, signed'), setup' = setup,
         NEW r \in 1..Len(signed'), signed'[r] = receipt,
         \A q \in 1..Len(signed') : q \in 1..Len(signed) \/ q = r
  PROVE  NextIn(signed', r, session) /\ AllLinked(setup, signed')
<1>0. /\ Placed(signed, session) /\ session.id \in Nat /\ setup.rule.maxPrior \in Nat
      /\ \A q \in 1..Len(signed) : Linked(signed, q) /\ Warranted(setup, signed, q)
      /\ Len(signed) \in Nat /\ Len(signed') \in Nat
  <2>1. setup \in Setups
    BY DEF StrictInv, SessionShape
  <2>2. setup.rule.maxPrior \in Nat
    BY <2>1, StrictSessionAssumption DEF IntentRules
  <2>3. session.id \in Nat
    BY WhereItIs
  <2> QED
    BY <2>2, <2>3 DEF LinkInv, SessionBacked, SignedLinked, SignedIds, Lengthens
<1>1. /\ receipt.session = session.id /\ receipt.seq = session.seq + 1
      /\ receipt.prev = session.head /\ receipt.time \in Nat /\ receipt.time >= session.last
      /\ receipt.expires \in Nat /\ receipt.resolves \in 0..Len(signed)
      /\ Founded(setup, signed, session, receipt)
  BY DEF Drafted
<1>2. NextIn(signed', r, session)
  BY <1>1 DEF NextIn
<1>3. /\ session.seq \in Nat /\ session.head \in 0..Len(signed) /\ session.last \in Nat
      /\ session.head # 0 =>
           /\ session.last = signed[session.head].time
           /\ signed[session.head].session = session.id
           /\ signed[session.head].seq = session.seq
  <2>1. PICK c : Path(signed, c, session.id, session.seq, session.head)
    BY <1>0 DEF Placed
  <2>2. PICK n : n = session.seq
    OBVIOUS
  <2>3. Path(signed, c, session.id, n, session.head)
    BY <2>1, <2>2
  <2>4. n \in Nat /\ session.last \in Nat /\ session.head \in 0..Len(signed)
    BY <1>0, <2>3 DEF Placed, Path
  <2>5. ASSUME session.head # 0
        PROVE  /\ session.last = signed[session.head].time
               /\ signed[session.head].session = session.id
               /\ signed[session.head].seq = n
    <3>1. n # 0
      BY <2>3, <2>5 DEF Path
    <3>2. n \in 1..n /\ session.head = c[n]
      BY <2>3, <3>1, PathEnds
    <3>3. signed[c[n]].session = session.id /\ signed[c[n]].seq = n
      BY <2>3, <3>2 DEF Path
    <3>4. session.last = signed[session.head].time
      BY <1>0, <2>5 DEF Placed
    <3> QED
      BY <3>2, <3>3, <3>4
  <2> QED
    BY <2>2, <2>4, <2>5
<1>4. Warranted(setup, signed', r)
  <2>1. PICK state, what : state = session /\ what = setup
    OBVIOUS
  <2>2. /\ Agrees(signed, state) /\ state.seq \in Nat /\ state.head \in 0..Len(signed)
        /\ what.rule.maxPrior \in Nat /\ NextIn(signed', r, state)
        /\ Founded(what, signed, state, signed'[r]) /\ signed'[r].time \in Nat
        /\ state.head # 0 => signed[state.head].time <= signed'[r].time
    BY <1>0, <1>1, <1>2, <1>3, <2>1 DEF Placed
  <2>3. Warranted(what, signed', r)
    BY <1>0, <2>2, FoundedStands
  <2> QED
    BY <2>1, <2>3
<1>5. \A q \in 1..Len(signed) : Linked(signed', q) /\ Warranted(setup, signed', q)
  <2> SUFFICES ASSUME NEW q \in 1..Len(signed)
               PROVE  Linked(signed', q) /\ Warranted(setup, signed', q)
    OBVIOUS
  <2> QED
    BY <1>0, WarrantedKept
<1>6. ASSUME r \notin 1..Len(signed) PROVE Linked(signed', r)
  <2>1. r > Len(signed)
    BY <1>0, <1>6
  <2>2. session.head # 0 => signed'[session.head] = signed[session.head]
    BY <1>3 DEF Lengthens
  <2>5. r \in Nat /\ Len(signed) < r
    BY <1>0, <2>1
  <2>6. receipt.prev \in 0..Len(signed) /\ receipt.resolves \in 0..Len(signed)
    BY <1>1, <1>3
  <2>7. \A q \in 0..Len(signed) : q \in Nat /\ q < r
    BY <1>0, <2>5
  <2>8. receipt.seq \in Nat \ {0} /\ receipt.seq - 1 = session.seq
    BY <1>1, <1>3
  <2>3. /\ receipt.prev \in Nat /\ receipt.prev < r
        /\ receipt.resolves \in Nat /\ receipt.resolves < r
        /\ receipt.seq \in Nat \ {0} /\ receipt.seq - 1 = session.seq
    BY <2>6, <2>7, <2>8
  <2>4. receipt.prev # 0 => /\ signed'[receipt.prev].session = receipt.session
                            /\ signed'[receipt.prev].seq = receipt.seq - 1
                            /\ signed'[receipt.prev].time <= receipt.time
    BY <1>1, <1>3, <2>2, <2>3
  <2> QED
    BY <1>0, <1>1, <2>3, <2>4 DEF Linked
<1>7. Linked(signed', r)
  BY <1>5, <1>6
<1> QED
  BY <1>2, <1>4, <1>5, <1>7 DEF AllLinked

\* Proposing keeps the invariant.
LEMMA ProposalLinks ==
  ASSUME StrictInv, LinkInv, MayPropose, NEW receipt, Drafted(receipt), Propose(receipt)
  PROVE  LinkInv'
<1>0. /\ V2 => Runtime
      /\ EmptySlot = [receipt |-> 0, frozen |-> FALSE, recovering |-> 0]
      /\ NoOp.at = "idle" /\ 0 \notin SignedIds
      /\ posted \subseteq SignedIds /\ SignedIds = 1..Len(signed) /\ Len(signed) \in Nat
      /\ \A i \in DOMAIN invoked : invoked[i] \in SignedIds
      /\ Placed(signed, session) /\ session.seq \in Nat
      /\ slot = EmptySlot /\ op = NoOp /\ SessionShape /\ IsSession(session)
  BY WhereItIs DEF MayPropose, StrictInv, SessionShape
<1>1. SignedLinked /\ StoredLinked /\ Numbered /\ SessionBacked /\ CheckpointBacked /\ OnItsWay
  BY DEF LinkInv
<1>2. PICK r \in SignedIds' :
        /\ signed'[r] = receipt
        /\ Len(signed') \in Nat
        /\ SignedIds' = SignedIds \cup {r}
        /\ \A i \in SignedIds : signed'[i] = signed[i]
        /\ WellFormed(receipt)
        /\ UNCHANGED <<setup, results, stored, refused, invoked, saved, lives>>
        /\ IF Runtime
             THEN /\ slot' = [receipt |-> r, frozen |-> FALSE, recovering |-> IF V2 THEN r ELSE 0]
                  /\ op' = [at |-> IF V2 THEN "saving" ELSE "sending", receipt |-> r]
                  /\ posted' \subseteq posted \cup {r}
                  /\ session' = session
             ELSE session' = WithReceipt(session, signed', r) /\ UNCHANGED <<slot, op, posted>>
  BY <1>0, ProposeSigned
<1>3. posted \subseteq posted' /\ (V2 => posted' = posted)
  BY <1>0 DEF Propose
<1>4. /\ Lengthens(signed, signed') /\ r \in 1..Len(signed') /\ SignedIds' = 1..Len(signed')
      /\ \A q \in 1..Len(signed') : q \in 1..Len(signed) \/ q = r
  <2>1. SignedIds' = 1..Len(signed')
    BY DEF SignedIds
  <2>2. Len(signed) <= Len(signed')
    BY <1>0, <1>2, <2>1
  <2> QED
    BY <1>0, <1>2, <2>1, <2>2 DEF Lengthens
<1>5. NextIn(signed', r, session) /\ AllLinked(setup, signed')
  BY <1>2, <1>4, SigningLinks
<1>6. V2' = V2 /\ Runtime' = Runtime
  BY <1>2 DEF V2, Runtime
<1>7. SignedLinked'
  BY <1>2, <1>4, <1>5 DEF SignedLinked, AllLinked
<1>8. StoredLinked'
  <2> SUFFICES ASSUME NEW s \in 0..MaxLives
               PROVE  /\ Path(signed', stored[s], s, Len(stored[s]),
                              IF Len(stored[s]) = 0 THEN 0 ELSE stored[s][Len(stored[s])])
                      /\ \A i \in 1..Len(stored[s]) : stored[s][i] \in posted'
    BY <1>2 DEF StoredLinked
  <2> QED
    BY <1>1, <1>3, <1>4, PathKept DEF StoredLinked
<1>9. Placed(signed', session) /\ Placed(signed', saved.chain)
  BY <1>1, <1>4, PlacedKept DEF SessionBacked, CheckpointBacked
<1>10. signed'[r].session = session.id /\ signed'[r].seq = session.seq + 1
  BY <1>5 DEF NextIn
<1>11. ASSUME session'.id = session.id PROVE Numbered'
  <2>1. session.id \in Nat
    BY WhereItIs
  <2> QED
    BY <1>0, <1>1, <1>2, <1>6, <1>10, <1>11, <2>1 DEF Numbered
<1>12. CASE Runtime
  <2>1. /\ slot' = [receipt |-> r, frozen |-> FALSE, recovering |-> IF V2 THEN r ELSE 0]
        /\ op' = [at |-> IF V2 THEN "saving" ELSE "sending", receipt |-> r]
        /\ posted' \subseteq posted \cup {r} /\ session' = session
    BY <1>2, <1>12
  <2>2. Pending = 0 /\ Pending' = r /\ Backed(session, 0)
    BY <1>0, <1>1, <1>6, <1>12, <2>1 DEF Pending, SessionBacked
  <2>3. \A p \in posted : signed'[p] = signed[p] /\ p # 0
    BY <1>0, <1>2
  <2>4. Backed(session, Pending)'
    BY <1>2, <1>10, <2>1, <2>2, <2>3 DEF Backed
  <2>5. SessionBacked'
    BY <1>5, <1>6, <1>9, <1>12, <2>1, <2>2, <2>4 DEF SessionBacked
  <2>6. CheckpointBacked'
    <3>1. CASE ~V2
      BY <1>1, <1>2, <1>6, <1>9, <3>1 DEF CheckpointBacked
    <3>2. CASE V2
      <4>1. /\ Backed(saved.chain, saved.recovering)
            /\ saved.recovering # 0 => NextIn(signed, saved.recovering, saved.chain)
            /\ saved.chain.seq <= session.seq
            /\ \A i \in DOMAIN invoked : signed[invoked[i]].seq <= saved.chain.seq
        BY <1>1, <3>2 DEF CheckpointBacked
      <4>2. Backed(saved.chain, saved.recovering)'
        BY <1>2, <1>3, <2>3, <3>2, <4>1 DEF Backed
      <4>3. saved.recovering # 0 => NextIn(signed', saved.recovering, saved.chain)
        BY <1>4, <4>1 DEF NextIn, Lengthens
      <4>4. \A i \in DOMAIN invoked : signed'[invoked[i]].seq <= saved.chain.seq
        BY <1>0, <1>2, <4>1
      <4> QED
        BY <1>2, <1>6, <1>9, <2>1, <3>2, <4>1, <4>2, <4>3, <4>4 DEF CheckpointBacked
    <3> QED
      BY <3>1, <3>2
  <2>7. OnItsWay'
    <3>1. r \in posted => r \in refused
      BY <1>10, <2>2, <2>3, <1>0 DEF Backed
    <3> QED
      BY <1>2, <1>3, <1>6, <2>1, <3>1 DEF OnItsWay
  <2> QED
    BY <1>7, <1>8, <1>11, <2>1, <2>5, <2>6, <2>7 DEF LinkInv
<1>13. CASE ~Runtime
  <2>1. ~V2 /\ session' = WithReceipt(session, signed', r) /\ UNCHANGED <<slot, op, posted>>
    BY <1>0, <1>2, <1>13
  <2>2. PICK receipts, state, new : receipts = signed' /\ state = session
                                    /\ new = WithReceipt(state, receipts, r) /\ new = session'
    BY <2>1
  <2>3. CommittedAs(receipts, r, state, new)
    <3>1. CommittedAs(receipts, r, state, WithReceipt(state, receipts, r))
      BY <1>0, <2>2, CommittedFields
    <3> QED
      BY <2>2, <3>1
  <2>4. Placed(receipts, new) /\ new.id = state.id
    <3>1. AllLinked(setup, receipts) /\ Placed(receipts, state) /\ NextIn(receipts, r, state)
          /\ Len(receipts) \in Nat
      BY <1>2, <1>5, <1>9, <2>2
    <3> QED
      BY <2>3, <3>1, PlacedCommitted
  <2>5. Placed(signed', session') /\ session'.id = session.id
    BY <2>2, <2>4
  <2>6. Pending' = 0 /\ slot'.frozen = FALSE
    BY <1>0, <1>6, <2>1 DEF Pending
  <2>7. SessionBacked'
    BY <1>0, <1>6, <1>13, <2>1, <2>5, <2>6 DEF SessionBacked
  <2>8. CheckpointBacked' /\ OnItsWay'
    BY <1>1, <1>2, <1>6, <1>9, <2>1 DEF CheckpointBacked, OnItsWay
  <2> QED
    BY <1>7, <1>8, <1>11, <2>5, <2>7, <2>8 DEF LinkInv
<1> QED
  BY <1>12, <1>13

\* What is decided, resolved or expired keeps it.
LEMMA ProposingLinks ==
  ASSUME StrictInv, LinkInv, Decide \/ Resolve \/ ExpireSuspension
  PROVE  LinkInv'
<1>0. SessionShape /\ SignedLinked /\ Placed(signed, session)
  BY DEF StrictInv, LinkInv, SessionBacked
<1>1. CASE Decide
  <2>1. PICK a \in ActionIds, input \in Proposals[setup.channel], time \in Allocated :
          Propose(DecisionDraft(time, a, input))
    BY <1>1 DEF Decide
  <2>2. Drafted(DecisionDraft(time, a, input))
    BY <1>0, DecisionDrafted
  <2>3. MayPropose
    BY <1>1 DEF Decide
  <2> QED
    BY <2>1, <2>2, <2>3, ProposalLinks
<1>2. CASE Resolve
  <2>1. PICK s \in session.suspended, input \in Proposals[setup.channel], time \in Allocated,
             method \in {"approval_granted", "approval_denied", "context_supplied", "cancelled"} :
          /\ Unresolved(s) /\ ResolutionAllowed(s, ResolutionDraft(time, s, input, method))
          /\ Propose(ResolutionDraft(time, s, input, method))
    BY <1>2 DEF Resolve
  <2>2. PICK draft : draft = ResolutionDraft(time, s, input, method)
    OBVIOUS
  <2>3. Drafted(draft)
    BY <1>0, <2>1, <2>2, ResolutionDrafted
  <2>4. MayPropose
    BY <1>2 DEF Resolve
  <2> QED
    BY <2>1, <2>2, <2>3, <2>4, ProposalLinks
<1>3. CASE ExpireSuspension
  <2>1. PICK s \in session.suspended, time \in Allocated :
          LET input == [context |-> signed[s].input.context, base |-> Blocked]
          IN  /\ Unresolved(s) /\ time >= signed[s].expires
              /\ Propose(ResolutionDraft(time, s, input, "expired"))
    BY <1>3 DEF ExpireSuspension
  <2>2. PICK input : input = [context |-> signed[s].input.context, base |-> Blocked]
    OBVIOUS
  <2>3. PICK draft : draft = ResolutionDraft(time, s, input, "expired")
    OBVIOUS
  <2>4. Drafted(draft)
    BY <1>0, <2>1, <2>2, <2>3, ResolutionDrafted
  <2>5. MayPropose /\ Propose(draft)
    BY <1>3, <2>1, <2>2, <2>3 DEF ExpireSuspension
  <2> QED
    BY <2>4, <2>5, ProposalLinks
<1> QED
  BY <1>1, <1>2, <1>3

----------------------------------------------------------------------------
(* The chains the stores hold.                                             *)

\* Nothing is signed in the beginning.
LEMMA LinkInit == SessionInit => LinkInv
<1> SUFFICES ASSUME SessionInit PROVE LinkInv
  OBVIOUS
<1>1. /\ signed = <<>> /\ Len(signed) = 0 /\ SignedIds = {} /\ DOMAIN invoked = {}
      /\ session = NewSession(0) /\ saved.chain = NewSession(0) /\ saved.recovering = 0
      /\ op = NoOp /\ slot = EmptySlot /\ posted = {} /\ lives = 0 /\ MaxLives \in Nat
      /\ \A s \in 0..MaxLives : stored[s] = <<>>
  BY StrictSessionAssumption DEF SessionInit, SignedIds
<1>2. /\ slot.receipt = 0 /\ slot.recovering = 0 /\ slot.frozen = FALSE
      /\ op.at = "idle" /\ session.id = 0 /\ session.seq = 0 /\ session.head = 0
  BY <1>1 DEF EmptySlot, NoOp, NewSession
<1>3. Placed(signed, session) /\ Placed(signed, saved.chain)
  BY <1>1, PlacedNew
<1>4. 1..0 = {}
  OBVIOUS
<1>5. StoredLinked
  <2> SUFFICES ASSUME NEW s \in 0..MaxLives
               PROVE  Path(signed, stored[s], s, 0, 0) /\ Len(stored[s]) = 0
    BY <1>4 DEF StoredLinked
  <2> QED
    BY <1>1, <1>4 DEF Path
<1>6. SignedLinked /\ Numbered
  BY <1>1, <1>2 DEF SignedLinked, Numbered
<1>7. Backed(session, 0) /\ Backed(saved.chain, 0)
  <2>1. Len(stored[0]) = 0
    BY <1>1
  <2> QED
    BY <1>1, <1>2, <2>1 DEF Backed
<1>8. SessionBacked /\ CheckpointBacked
  BY <1>1, <1>2, <1>3, <1>7 DEF SessionBacked, CheckpointBacked, Pending
<1>9. OnItsWay
  BY <1>1, <1>2 DEF OnItsWay
<1> QED
  BY <1>5, <1>6, <1>8, <1>9 DEF LinkInv

\* And every step keeps it so.
LEMMA LinkStep ==
  ASSUME StrictInv, LinkInv, [SessionNext]_sessionVars
  PROVE  LinkInv'
<1>1. CASE Decide \/ Resolve \/ ExpireSuspension
  BY <1>1, ProposingLinks
<1>2. CASE \/ RefusedLocally \/ SavePreparedReceipt \/ SaveAborted \/ SaveCommittedReceipt
           \/ AdmissionDenied \/ AdmissionUnknown \/ ActionSettles
  BY <1>2, QuietLinks
<1>3. CASE \E r \in posted : StorePosted(r)
  BY <1>3, StoringLinks
<1>4. CASE AdmissionSucceeds \/ ReconcilePrepared \/ ReconcileRecovered
  BY <1>4, CommitsLinks
<1>5. CASE ProcessChanges \/ CrashAndRestoreCheckpoint
  BY <1>5, BeginningLinks
<1>6. CASE UNCHANGED sessionVars
  BY <1>6 DEF sessionVars, LinkInv, SignedLinked, SignedIds, StoredLinked, Numbered, V2, Runtime,
              SessionBacked, CheckpointBacked, Backed, Pending, OnItsWay
<1> QED
  BY <1>1, <1>2, <1>3, <1>4, <1>5, <1>6 DEF SessionNext

\* The coordinator, the remote store and the checkpoint hold the same chain:
\* links unbroken, each receipt as the history before it allows.
THEOREM ChainInvariant == SessionSpec => []LinkInv
BY SessionInvariant, LinkInit, LinkStep, PTL DEF SessionSpec

\* The receipts met when the chain is walked back from its head.
BackFrom(back, N, head) ==
  back = [n \in 0..N |-> IF n = 0 THEN head
                         ELSE IF back[n - 1] = 0 THEN 0 ELSE signed[back[n - 1]].prev]

\* Walking a path back meets its receipts, the last first.
LEMMA WalkExists ==
  ASSUME NEW N \in Nat, NEW head, NEW c, NEW s, Path(signed, c, s, N, head)
  PROVE  BackFrom([n \in 0..N |-> IF n = N THEN 0 ELSE c[N - n]], N, head)
<1> DEFINE back == [n \in 0..N |-> IF n = N THEN 0 ELSE c[N - n]]
<1>1. ASSUME NEW n \in 0..N
      PROVE  back[n] = IF n = 0 THEN head ELSE IF back[n - 1] = 0 THEN 0 ELSE signed[back[n - 1]].prev
  <2>1. CASE n = 0
    <3>1. back[n] = IF N = 0 THEN 0 ELSE c[N]
      BY <2>1
    <3> QED
      BY <2>1, <3>1 DEF Path
  <2>2. CASE n # 0
    <3>1. PICK k : k = N - (n - 1)
      OBVIOUS
    <3>2. /\ k \in 1..N /\ n - 1 \in 0..N /\ n - 1 # N /\ N - (n - 1) = k
          /\ k - 1 = N - n /\ (k = 1 <=> n = N)
      BY <2>2, <3>1
    <3>3. back[n - 1] = c[k]
      BY <3>2
    <3>4. c[k] # 0 /\ signed[c[k]].prev = IF k = 1 THEN 0 ELSE c[k - 1]
      BY <3>2 DEF Path
    <3>5. back[n] = IF n = N THEN 0 ELSE c[k - 1]
      BY <3>2
    <3> HIDE DEF back
    <3> QED
      BY <2>2, <3>2, <3>3, <3>4, <3>5
  <2> QED
    BY <2>1, <2>2
<1> QED
  BY <1>1 DEF BackFrom

\* And it meets nothing else.
LEMMA WalkUnique ==
  ASSUME NEW N \in Nat, NEW head, NEW f, NEW g, BackFrom(f, N, head), BackFrom(g, N, head)
  PROVE  f = g
<1>1. /\ f = [n \in 0..N |-> f[n]] /\ g = [n \in 0..N |-> g[n]]
      /\ \A n \in 0..N : /\ f[n] = IF n = 0 THEN head
                                   ELSE IF f[n - 1] = 0 THEN 0 ELSE signed[f[n - 1]].prev
                         /\ g[n] = IF n = 0 THEN head
                                   ELSE IF g[n - 1] = 0 THEN 0 ELSE signed[g[n - 1]].prev
  BY DEF BackFrom
<1>2. ASSUME {n \in 0..N : f[n] # g[n]} # {} PROVE FALSE
  <2>1. PICK T : T = {k \in 0..N : f[k] # g[k]}
    OBVIOUS
  <2>2. T \subseteq Nat /\ T # {}
    BY <1>2, <2>1
  <2>3. PICK n \in T : \A m \in T : ~(m < n)
    BY <2>2, LeastOf
  <2>4. n \in 0..N /\ f[n] # g[n] /\ \A m \in 0..N : f[m] # g[m] => ~(m < n)
    BY <2>1, <2>3
  <2>5. n # 0
    BY <1>1, <2>4
  <2>6. n - 1 \in 0..N /\ n - 1 < n
    BY <2>4, <2>5
  <2>7. f[n - 1] = g[n - 1]
    BY <2>4, <2>6
  <2> QED
    BY <1>1, <2>4, <2>5, <2>7
<1> QED
  BY <1>1, <1>2

\* So the chain of a session is the path to its head.
LEMMA ChainOfPath ==
  ASSUME NEW state, NEW c, Path(signed, c, state.id, state.seq, state.head)
  PROVE  ChainOf(state) = [i \in 1..state.seq |-> c[i]]
<1>1. PICK N, head : N = state.seq /\ head = state.head /\ N \in Nat
  BY DEF Path
<1>2. PICK w : w = [n \in 0..N |-> IF n = N THEN 0 ELSE c[N - n]]
  OBVIOUS
<1>3. BackFrom(w, N, head)
  BY <1>1, <1>2, WalkExists
<1>4. PICK back : BackFrom(back, N, head) /\ ChainOf(state) = [i \in 1..N |-> back[N - i]]
  <2> DEFINE step(f) == [n \in 0..N |-> IF n = 0 THEN head
                           ELSE IF f[n - 1] = 0 THEN 0 ELSE signed[f[n - 1]].prev]
             back == CHOOSE f : f = step(f)
  <2>1. back = step(back)
    BY <1>3 DEF BackFrom
  <2>2. ChainOf(state) = [i \in 1..N |-> back[N - i]]
    BY <1>1 DEF ChainOf
  <2> QED
    BY <2>1, <2>2 DEF BackFrom
<1>5. back = w
  BY <1>1, <1>3, <1>4, WalkUnique
<1>6. \A i \in 1..N : w[N - i] = c[i]
  <2> SUFFICES ASSUME NEW i \in 1..N PROVE w[N - i] = c[i]
    OBVIOUS
  <2>1. N - i \in 0..N /\ N - i # N /\ N - (N - i) = i
    BY <1>1
  <2> QED
    BY <1>2, <2>1
<1> QED
  BY <1>1, <1>4, <1>5, <1>6

----------------------------------------------------------------------------
(* What the chains are worth.                                              *)

\* The receipts of a session are the path to its head.
LEMMA CommittedChain ==
  ASSUME NEW state, Placed(signed, state)
  PROVE  /\ state.seq \in Nat
         /\ ChainOf(state) = [i \in 1..state.seq |-> ChainOf(state)[i]]
         /\ Path(signed, ChainOf(state), state.id, state.seq, state.head)
<1>1. PICK c : Path(signed, c, state.id, state.seq, state.head)
  BY DEF Placed
<1>2. PICK chain, n : chain = ChainOf(state) /\ n = state.seq
  OBVIOUS
<1>3. n \in Nat /\ chain = [i \in 1..n |-> c[i]]
  <2>1. state.seq \in Nat
    BY DEF Placed
  <2>2. ChainOf(state) = [i \in 1..state.seq |-> c[i]]
    BY <1>1, ChainOfPath
  <2> QED
    BY <1>2, <2>1, <2>2
<1>4. \A i \in 1..n : chain[i] = c[i]
  BY <1>3
<1>5. Path(signed, chain, state.id, n, state.head)
  <2>1. /\ Path(signed, c, state.id, n, state.head)
        /\ \A i \in 1..n : i # 1 => i - 1 \in 1..n
        /\ n # 0 => n \in 1..n
    BY <1>1, <1>2, <1>3
  <2> QED
    BY <1>3, <1>4, <2>1 DEF Path
<1> QED
  BY <1>2, <1>3, <1>5

\* A session that the store backs holds the start of what is stored.
LEMMA StartOfStored ==
  ASSUME StrictInv, StoredLinked, NEW state, Placed(signed, state), state.id \in 0..MaxLives,
         state.seq <= Len(stored[state.id]),
         state.seq # 0 => stored[state.id][state.seq] = state.head
  PROVE  ChainOf(state) = SubSeq(stored[state.id], 1, state.seq)
<1>1. PICK chain, n : chain = stored[state.id] /\ n = state.seq
  OBVIOUS
<1>2. n \in Nat /\ chain \in Seq(Nat) /\ Len(chain) \in Nat /\ n <= Len(chain)
  BY <1>1 DEF StrictInv, SessionShape, Placed
<1>3. PICK last : Path(signed, chain, state.id, Len(chain), last)
  BY <1>1 DEF StoredLinked
<1>4. Path(signed, chain, state.id, n, state.head)
  <2>1. CASE n = 0
    <3>1. PICK c : Path(signed, c, state.id, n, state.head)
      BY <1>1 DEF Placed
    <3> QED
      BY <2>1, <3>1 DEF Path
  <2>2. CASE n # 0
    <3>1. n \in 1..Len(chain) /\ chain[n] = state.head
      BY <1>1, <1>2, <2>2
    <3> QED
      BY <1>3, <3>1, PathTo
  <2> QED
    BY <2>1, <2>2
<1>5. ChainOf(state) = [i \in 1..n |-> chain[i]]
  BY <1>1, <1>4, ChainOfPath
<1>6. SubSeq(chain, 1, n) = [i \in 1..n |-> chain[i]]
  BY <1>2
<1> QED
  BY <1>1, <1>5, <1>6

\* What a session behind a runtime committed is what the store admitted.
LEMMA CommittedFollowsStore ==
  ASSUME StrictInv, LinkInv
  PROVE  CommittedIsStored
<1> SUFFICES ASSUME Runtime PROVE CommittedIsStored
  BY DEF CommittedIsStored
<1>1. /\ StoredLinked /\ Backed(session, Pending) /\ Placed(signed, session)
      /\ Placed(signed, saved.chain) /\ session.id \in 0..MaxLives /\ saved.chain.id \in 0..MaxLives
  BY WhereItIs, StrictSessionAssumption DEF LinkInv, SessionBacked, CheckpointBacked
<1>2. ChainOf(session) = SubSeq(stored[session.id], 1, session.seq)
  BY <1>1, StartOfStored DEF Backed
<1>3. ChainOf(saved.chain) = SubSeq(stored[saved.chain.id], 1, saved.chain.seq)
  <2>1. CASE V2
    BY <1>1, <2>1, StartOfStored DEF LinkInv, CheckpointBacked, Backed
  <2>2. CASE ~V2
    <3>1. saved.chain.seq = 0 /\ saved.chain.id = 0
      BY <2>2 DEF LinkInv, CheckpointBacked, NewSession
    <3>2. Len(stored[0]) \in Nat
      BY <1>1, <3>1 DEF StrictInv, SessionShape
    <3> QED
      BY <1>1, <3>1, <3>2, StartOfStored
  <2> QED
    BY <2>1, <2>2
<1>4. ASSUME NEW i \in DOMAIN stored[session.id]
      PROVE  \/ i <= session.seq
             \/ stored[session.id][i] \in {op.receipt, slot.receipt, slot.recovering} \cup refused
  <2>1. i \in 1..Len(stored[session.id]) /\ stored[session.id][i] \in posted
    BY <1>1 DEF StrictInv, SessionShape, StoredLinked
  <2>2. PICK p : p = stored[session.id][i]
    OBVIOUS
  <2>3. signed[p].session = session.id /\ signed[p].seq = i
    BY <1>1, <2>1, <2>2 DEF StoredLinked, Path
  <2>4. i <= session.seq \/ p \in {Pending} \cup refused
    BY <1>1, <2>1, <2>2, <2>3 DEF Backed
  <2> QED
    BY <2>2, <2>4 DEF Pending
<1> QED
  BY <1>2, <1>3, <1>4 DEF CommittedIsStored

\* A path of linked receipts is a chain the profile's verifier accepts.
LEMMA PathVerifies ==
  ASSUME LinkInv, NEW chain, NEW s, NEW n \in Nat \ {0}, NEW head, DOMAIN chain = 1..n,
         Path(signed, chain, s, n, head), V2 => OneAgent(chain)
  PROVE  ChainVerifies(setup.profile, signed, chain)
<1>1. ASSUME NEW i \in 1..n
      PROVE  /\ chain[i] \in SignedIds
             /\ Linked(signed, chain[i]) /\ Stands(setup, signed, chain, i)
  <2>1. /\ chain[i] \in SignedIds /\ signed[chain[i]].session = s /\ signed[chain[i]].seq = i
    BY DEF Path, SignedIds
  <2>2. Linked(signed, chain[i]) /\ Warranted(setup, signed, chain[i])
    BY <2>1 DEF LinkInv, SignedLinked
  <2>3. Path(signed, chain, s, i, chain[i])
    BY PathTo
  <2> QED
    BY <2>1, <2>2, <2>3 DEF Warranted
<1>2. chain # <<>>
  <2>1. 1 \in DOMAIN chain
    OBVIOUS
  <2> QED
    BY <2>1
<1>3. ASSUME NEW i \in 1..n PROVE Continues(setup.profile, signed, chain, i)
  <2>1. /\ signed[chain[i]].seq = i /\ signed[chain[i]].session = s
        /\ 1 \in 1..n /\ signed[chain[1]].session = s
    BY DEF Path
  <2>2. setup.profile = "2.0" =>
          signed[chain[i]].input.context.agent = signed[chain[1]].input.context.agent
    BY DEF V2, OneAgent
  <2>3. \A j \in 1..(i - 1) : chain[j] # chain[i]
    <3> SUFFICES ASSUME NEW j \in 1..(i - 1) PROVE chain[j] # chain[i]
      OBVIOUS
    <3>1. j \in 1..n /\ j < i /\ chain[j] \in Nat /\ chain[i] \in Nat
      BY DEF Path
    <3> QED
      BY <3>1 DEF Path
  <2>4. ASSUME i > 1
        PROVE  /\ signed[chain[i]].prev = chain[i - 1]
               /\ signed[chain[i]].time >= signed[chain[i - 1]].time
    <3>1. PICK k : k = i - 1
      OBVIOUS
    <3>2. k \in 1..n /\ i # 1
      BY <2>4, <3>1
    <3>3. signed[chain[i]].prev = chain[k] /\ chain[k] # 0
      BY <3>1, <3>2 DEF Path
    <3>4. signed[chain[k]].time <= signed[chain[i]].time
      BY <1>1, <3>3 DEF Linked
    <3>5. signed[chain[k]].time \in Nat /\ signed[chain[i]].time \in Nat
      BY <1>1, <3>2 DEF Linked
    <3> QED
      BY <3>1, <3>3, <3>4, <3>5
  <2> QED
    BY <2>1, <2>2, <2>3, <2>4 DEF Continues
<1>4. ASSUME NEW i \in 1..n
      PROVE  /\ WellFormed(signed[chain[i]])
             /\ Resolves(signed[chain[i]]) => ResolutionStands(setup.profile, signed, chain, i)
  BY <1>1 DEF Linked, Stands
<1> QED
  BY <1>2, <1>3, <1>4 DEF ChainVerifies

\* What is committed and what is stored verifies, and nothing made of the same
\* receipts does that leaves out, repeats or moves one of them.
LEMMA LinkedChainsVerify ==
  ASSUME StrictInv, LinkInv
  PROVE  ChainsVerify
<1>1. Placed(signed, session)
  BY DEF LinkInv, SessionBacked
<1>2. PICK chain, n : chain = ChainOf(session) /\ n = session.seq
  OBVIOUS
<1>3. /\ n \in Nat /\ chain = [i \in 1..n |-> chain[i]]
      /\ Path(signed, chain, session.id, n, session.head)
  BY <1>1, <1>2, CommittedChain
<1>4. DOMAIN chain = 1..n /\ (n = 0 => chain = <<>>)
  BY <1>3
<1>5. chain # <<>> /\ (V2 => OneAgent(chain)) => ChainVerifies(setup.profile, signed, chain)
  BY <1>3, <1>4, PathVerifies
<1>6. ASSUME NEW s \in DOMAIN stored, stored[s] # <<>>, V2 => OneAgent(stored[s])
      PROVE  ChainVerifies(setup.profile, signed, stored[s])
  <2>1. PICK held : held = stored[s]
    OBVIOUS
  <2>2. s \in 0..MaxLives /\ held \in Seq(Nat)
    BY <2>1 DEF StrictInv, SessionShape
  <2>3. PICK m \in Nat \ {0} : m = Len(held)
    BY <1>6, <2>1, <2>2
  <2>4. DOMAIN held = 1..m
    BY <2>2, <2>3
  <2>5. PICK last : Path(signed, held, s, m, last)
    BY <2>1, <2>2, <2>3 DEF LinkInv, StoredLinked
  <2> QED
    BY <1>6, <2>1, <2>4, <2>5, PathVerifies
<1>7. ASSUME NEW m \in 1..Len(chain), NEW other \in [1..m -> {chain[i] : i \in DOMAIN chain}],
             ChainVerifies(setup.profile, signed, other)
      PROVE  other = SubSeq(chain, 1, Len(other))
  <2>1. chain \in Seq({chain[i] : i \in 1..n}) /\ Len(chain) = n
    <3> DEFINE S == {chain[i] : i \in 1..n}
    <3>1. chain \in [1..n -> S]
      BY <1>3
    <3> HIDE DEF S
    <3> QED
      BY <1>3, <3>1
  <2>2. other \in Seq({chain[i] : i \in DOMAIN chain}) /\ Len(other) = m /\ m \in Nat
    <3> DEFINE S == {chain[i] : i \in DOMAIN chain}
    <3>1. other \in [1..m -> S] /\ m \in Nat
      BY <2>1, <1>3
    <3> HIDE DEF S
    <3> QED
      BY <3>1
  <2>3. ASSUME NEW i \in 1..m PROVE other[i] = chain[i]
    <3>1. signed[other[i]].seq = i
      BY <1>7 DEF ChainVerifies, Continues
    <3>2. PICK j \in 1..n : other[i] = chain[j]
      BY <1>4
    <3>3. signed[chain[j]].seq = j
      BY <1>3 DEF Path
    <3> QED
      BY <3>1, <3>2, <3>3
  <2>4. SubSeq(chain, 1, m) = [i \in 1..m |-> chain[i]]
    BY <1>3, <2>1, <2>2
  <2> QED
    BY <2>2, <2>3, <2>4
<1> QED
  BY <1>2, <1>5, <1>6, <1>7 DEF ChainsVerify

\* The history an action is judged on is what the chain says of the session.
LEMMA HistoryFollowsChain ==
  ASSUME LinkInv
  PROVE  HistoryHeld
<1>1. Placed(signed, session)
  BY DEF LinkInv, SessionBacked
<1>2. PICK chain, n : chain = ChainOf(session) /\ n = session.seq
  OBVIOUS
<1>3. /\ n \in Nat /\ chain = [i \in 1..n |-> chain[i]]
      /\ Path(signed, chain, session.id, n, session.head)
  BY <1>1, <1>2, CommittedChain
<1>4. Reads(signed, session, chain)
  BY <1>1, <1>2, <1>3 DEF Placed, Agrees
<1>5. \A m : Standing(chain, m) = StandingIn(signed, chain, m)
  BY DEF Standing, StandingIn
<1>6. DOMAIN session.prior = 1..Len(session.prior) /\ Len(session.prior) \in Nat
  BY <1>4 DEF Reads
<1>7. HistoryInOrder
  <2> SUFFICES ASSUME NEW i \in 2..Len(session.prior)
               PROVE  session.prior[i - 1].seq < session.prior[i].seq
    BY DEF HistoryInOrder
  <2>1. i \in 1..Len(session.prior) /\ i - 1 \in 1..Len(session.prior) /\ i - 1 < i
    BY <1>6
  <2> QED
    BY <1>4, <2>1 DEF Reads
<1>8. {session.prior[i].receipt : i \in DOMAIN session.prior} = Standing(chain, n)
  BY <1>2, <1>4, <1>5, <1>6 DEF Reads
<1>9. ASSUME NEW m \in DOMAIN chain, Grants(signed[chain[m]].outcome)
      PROVE  /\ Cardinality(Standing(chain, m - 1)) <= setup.rule.maxPrior
             /\ \A r \in Standing(chain, m - 1) : signed[r].outcome \notin setup.rule.denyAfter
  <2>1. m \in 1..n
    BY <1>3
  <2>2. chain[m] \in SignedIds /\ signed[chain[m]].session = session.id /\ signed[chain[m]].seq = m
    BY <1>3, <2>1 DEF Path, SignedIds
  <2>3. Warranted(setup, signed, chain[m]) /\ Path(signed, chain, session.id, m, chain[m])
    BY <1>3, <2>1, <2>2, PathTo DEF LinkInv, SignedLinked
  <2>4. Stands(setup, signed, chain, m)
    BY <2>2, <2>3 DEF Warranted
  <2> QED
    BY <1>5, <1>9, <2>4 DEF Stands
<1> QED
  BY <1>2, <1>7, <1>8, <1>9 DEF HistoryHeld

\* The checkpoint that survives a crash says what was decided before it is
\* done, and names the receipt whose fate is unknown.
LEMMA CheckpointFollows ==
  ASSUME StrictInv, LinkInv
  PROVE  CheckpointTruthful
<1> SUFFICES ASSUME V2 PROVE CheckpointTruthful
  BY DEF CheckpointTruthful
<1>1. \A i \in DOMAIN invoked : /\ signed[invoked[i]].action \in saved.chain.decided
                                /\ signed[invoked[i]].seq <= saved.chain.seq
  BY DEF StrictInv, SecondProfile, InvokedActions, ActionOf, LinkInv, CheckpointBacked
<1>2. ASSUME NEW r, op = [at |-> "sending", receipt |-> r] \/ (slot.frozen /\ slot.receipt = r)
      PROVE  r = saved.recovering
  BY <1>2 DEF LinkInv, OnItsWay
<1> QED
  BY <1>1, <1>2 DEF CheckpointTruthful

\* Profiles 1.0 and 2.0: what is committed is what the store admitted, what is
\* admitted verifies, the history an action is judged on is the chain's, and
\* the checkpoint of profile 2.0 tells the truth.
THEOREM SessionChainsHold ==
  SessionSpec => [](CommittedIsStored /\ ChainsVerify /\ HistoryHeld /\ CheckpointTruthful)
<1>1. StrictInv /\ LinkInv =>
        CommittedIsStored /\ ChainsVerify /\ HistoryHeld /\ CheckpointTruthful
  BY CommittedFollowsStore, LinkedChainsVerify, HistoryFollowsChain, CheckpointFollows
<1> QED
  BY <1>1, SessionInvariant, ChainInvariant, PTL

----------------------------------------------------------------------------
(* Theorems about the composition.                                         *)

\* What runs beside profiles 1.0 and 2.0 leaves them alone.
LEMMA SessionAlone == RecoverySpec => SessionSpec
<1>1. RecoveryInit => SessionInit
  BY DEF RecoveryInit
<1>2. [RecoveryNext]_recoveryVars => [SessionNext]_sessionVars
  BY DEF RecoveryNext, recoveryVars
<1> QED
  BY <1>1, <1>2, PTL DEF RecoverySpec, SessionSpec

\* What runs beside profile 2.1 leaves it alone.
LEMMA JournalAlone == RecoverySpec => Spec
<1>1. RecoveryInit => Init
  BY DEF RecoveryInit
<1>2. [RecoveryNext]_recoveryVars => [Next]_vars
  BY DEF RecoveryNext, recoveryVars
<1> QED
  BY <1>1, <1>2, PTL DEF RecoverySpec, Spec

\* No action is invoked twice, nor under a receipt that was not admitted or
\* does not authorize it, in any of the three profiles.
THEOREM InvokedUnderOneReceipt == RecoverySpec => AdmittedOnce
<1>1. StrictInv => InvokedOnce
  BY DEF StrictInv
<1>2. RecoverySpec => [][InvokedOnce']_recoveryVars
  <2>1. RecoverySpec => []InvokedOnce
    BY <1>1, SessionAlone, SessionInvariant, PTL
  <2> QED
    BY <2>1, PTL
<1> QED
  BY <1>2, JournalAlone, ProfileImplementsLedger, PTL DEF AdmittedOnce

\* Profile 2.1 keeps to the chain the store admitted, and its journal tells
\* the truth, beside the others as alone.
LEMMA JournalKept == RecoverySpec => [](ChainIsAdmitted /\ JournalTruthful)
BY JournalAlone, CommittedFollows, JournalsTruthful, PTL

\* And so do the chains, the history and the checkpoint of profiles 1.0 and 2.0.
LEMMA SessionsKept ==
  RecoverySpec => [](CommittedIsStored /\ ChainsVerify /\ HistoryHeld /\ CheckpointTruthful)
BY SessionAlone, SessionChainsHold, PTL

\* What any of the three profiles holds as committed is what the remote store
\* admitted, and an auditor accepts it, across aborts, freezes, lost replies,
\* restores and reconciliations.
THEOREM CommittedWasAdmitted == RecoverySpec => []CommittedIsAdmitted
BY JournalKept, SessionsKept, PTL DEF CommittedIsAdmitted

\* What survives a crash tells the truth about what was invoked, and about
\* what may have been stored.
THEOREM SurvivorsTruthful == RecoverySpec => []RecoveryTruthful
BY JournalKept, SessionsKept, PTL DEF RecoveryTruthful

\* A persisted event is never lost, unless ingest refused it in an accepted
\* response the sender could not read: giving one up buries its record before it
\* leaves pending/, and only an answer of ingest removes one.
THEOREM PersistedNeverLost == RecoverySpec => []PersistedKept
<1>1. RecoveryInit => PersistedKept
  BY DEF RecoveryInit, OutboxInit, PersistedKept
<1>2. ASSUME PersistedKept, [RecoveryNext]_recoveryVars
      PROVE  PersistedKept'
  <2>1. CASE LogEvent
    BY <1>2, <2>1 DEF LogEvent, PersistedKept
  <2>2. CASE Flush
    BY <1>2, <2>2 DEF Flush, PersistedKept
  <2>3. CASE Acknowledge
    BY <1>2, <2>3 DEF Acknowledge, PersistedKept
  <2>4. ASSUME NEW afterDead \in BOOLEAN, GiveUp(afterDead), accepted \subseteq accepted',
               unread' = unread
        PROVE  PersistedKept'
    <3>1. written' \ written \subseteq pendingDir'
      BY <2>4 DEF GiveUp
    <3>2. pendingDir \cup deadDir \subseteq pendingDir' \cup deadDir'
      BY <2>4 DEF GiveUp
    <3> QED
      BY <1>2, <2>4, <3>1, <3>2 DEF PersistedKept
  <2>5. CASE Refuse
    BY <2>4, <2>5 DEF Refuse
  <2>6. CASE Retry
    <3>1. accepted \subseteq accepted' /\ unread' = unread
      BY <2>6 DEF Retry
    <3>2. GiveUp(TRUE) \/ UNCHANGED disk
      BY <2>6 DEF Retry
    <3> QED
      BY <1>2, <2>4, <3>1, <3>2 DEF PersistedKept, disk
  <2>7. CASE BackoffEnds \/ CrashAndReplay \/ UNCHANGED outboxVars
    BY <1>2, <2>7 DEF BackoffEnds, CrashAndReplay, outboxVars, disk, PersistedKept
  <2>8. OutboxNext \/ UNCHANGED outboxVars
    BY <1>2 DEF RecoveryNext, recoveryVars
  <2> QED
    BY <2>1, <2>2, <2>3, <2>5, <2>6, <2>7, <2>8 DEF OutboxNext, Answer
<1> QED
  BY <1>1, <1>2, PTL DEF RecoverySpec
=============================================================================
