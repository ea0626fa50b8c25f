# TLA+ models of the obsvr SDK

The obsvr SDK governs what a program asks of AI providers and what its agents do with tools,
and keeps a signed audit trail of both. These modules model the TypeScript SDK
(`sdk-typescript/src`, which paths below are relative to) and the parts of the Python SDK
(`sdk-python/obsvr`) that are not a line-by-line port of it: its threads, its signal handlers, its call
path and its tool boundaries.

The project has four families of modules, one for each question a user of the SDK has to trust it on:

1. **Delivery and evidence.** Does every audit event arrive or leave a trace, and may a reader of
   the trail trust the verdict of `obsvr-verify`?
2. **Policy in force.** Is the policy that decides a call one that was issued, not rolled back, within its
   limits, and approved when it asks for approval?
3. **Governed calls, tools and requests.** Is what was refused really not sent or run, what was redacted
   really redacted, and is it all on the record?
4. **Strict receipts and recovery.** Does an action run at most once, under an admitted receipt, whatever
   crashes?

Each family has a detailed model, runs of TLC on small instances, and, where the prover can follow, theorems
for every instance. The files: modules `*.tla`, the configurations `*.cfg`, `PROJECT.json` (components, runs, a
mutation for every property, the source lines of every definition, hazards, theorems, findings).

## The system

| Component | State it keeps | Operations | Interacts with |
|---|---|---|---|
| audit sender, `proxy/sender/fire-and-forget.ts` | `pendingQueue`, `isProcessing`, backoff, signing state, `gapPendingCount`, counters | enqueue, process the queue, requeue, declare a gap, flush | every governed call; ingest |
| durable outbox, `proxy/sender/durable-outbox.ts` | directories `pending/` and `dead/` | persist, refill, acknowledge, dead-letter | the sender |
| shutdown, same file as the sender | `exitFlushStarted` | `beforeExit`, SIGTERM, SIGINT | the flush, Node's event loop |
| Python sender, `obsvr/sender.py` | queue, retry queue, front slot, batch in hand, signing lock | sign and enqueue, worker, flush, signal handler | the main thread, a daemon worker |
| chain format, chain verifier, `obsvr-verify` | none | preimage of five formats, `verifyAuditChain`, tiers and exit codes | the exported trail |
| policy synchronisation, `proxy/config.ts` | rules, hash, `remoteDisabled`, last success | poll, verify, apply, degrade | policy service, approvals, escrow |
| approvals, `policy/approvals.ts` | grants | match, hold, revalidate | synchronisation, call paths |
| escrow, meters, latches, `governance/escrow.ts`, `quota.ts`, `policy/session-taint.ts`, `injection-session.ts` | share and epoch; counters by scope and window; taint and score by session | spend, check, charge, sweep, evict | rules, call paths |
| rules and pipeline, `policy/rules.ts`, `policy/hook.ts`, `integrations/core.ts` | none | merge and evaluate rules, layers of a verdict | all call paths |
| call paths, `proxy/wrapper.ts`, `integrations/*`, `governance/evaluate.ts`, `obsvr/policy.py`, `wrap.py` | the call under way | pre-call policy, send, post-call policy, event | rules, approvals, sender |
| tool boundaries, `integrations/mcp.ts`, `langchain.ts`, `tools.ts`, `openai-agents.ts`, `proxy/*runner*.ts` | pins, verdicts, run trees, credits, guardrails, queued handlers | gate a tool call, watch its result, record it | agents, MCP servers, provider SDKs |
| adapters, `integrations/*`, `proxy/extractors/*` | none | read, redact, verify, send and record the content of a request | call paths |
| strict receipts 1.0, 2.0, 2.1, `governance/strict-*` | receipt chain, prepared receipt, freeze, suspensions, checkpoint, journal | decide, suspend, resolve, admit, commit, invoke, reconcile, recover | a remote receipt store, a checkpoint store |

The parts meet in few places: a call path asks the rules, which ask meters, escrow and approvals; what it did
becomes one event for the sender; the verifier reads what the sender delivered. The models are cut there: a module
takes what another component may answer as a choice, and the composed modules (below) put together those whose
interleavings matter.

What is hard, and what makes it right:

- **Audit sender.** One JavaScript thread, yet every `await` of the queue processor lets the application
  enqueue, flush and drop; replies get lost after ingest recorded the request; the queue is bounded and a retry
  budget runs out. Right: no event disappears unseen, every loss is declared once by a signed marker,
  retries keep the signing order, the processor never sleeps on a queue.
- **Python sender.** A worker thread moves items between four places while a flush looks for them; a signal handler
  runs between two bytecodes of a signing. Right: a flush sees every event; every drop is on record.
- **Verifier.** Exports start and end anywhere, are cut, merged, edited, and signed under formats of different strength.
  Right: valid implies genuine, genuine implies valid, damage stays local, separately written tiers agree.
- **Policy synchronisation.** Overlapping polls answered in any order; state read before an `await` and used
  after. Right: one issue at a time, no rollback, no share spent twice, a live grant at the moment of the request.
- **Meters and latches.** Bounded stores that a flood of keys fills; check-then-charge with calls in flight.
- **Call paths.** Detectors, rules, hook, external backend, monitor mode and failure modes each may change a verdict; what
  is sent, stored and recorded are three copies of one text. Right: a refusal stands unless something
  entitled to lift it did; what the event says happened did.
- **Tool boundaries.** Frameworks announce a tool call once, twice or never; descriptors change after they were pinned;
  tables of sightings fill up; threads share credits.
- **Strict receipts.** Ambiguous replies, late attempts, crashes between any two writes, resolutions that race: one
  unforked chain, at most one invocation per action, and a checkpoint that never claims less than what happened.

The full list, each hazard at its line, is in `PROJECT.json`.

## Modules

| Module | Models | Extends or composes |
|---|---|---|
| `AuditSender` | sender with the in-memory queue, and ingest as the sender sees it | |
| `AuditShutdown` | exit handlers and flush loop | `AuditSender` |
| `PythonSender` | Python's threaded sender and its signal handler | |
| `MCShutdown` | the exit flushes of both SDKs in one run | `AuditShutdown`, `PythonSender` |
| `CliVerify` | signed preimages, `verifyAuditChain`, the command | |
| `TamperedExport` | exports of signed sessions, and what edits make of them | `CliVerify` |
| `AuditEvidence` | sender, then export, then verdict | `AuditSender`, `CliVerify` (`INSTANCE ... WITH`) |
| `PolicySync` | polls, kill switch, staleness, approvals, escrow, a held call | |
| `ScopeStores` | both meters, the taint latch, the injection score | |
| `PolicyEnforcement` | the two above as one system | `PolicySync`, `ScopeStores` |
| `PolicyRules` | verdict of a rule list, first-wins and deny-wins | |
| `GovernedCall` | what call paths share: layers, event, environment | `PolicyRules` |
| `WrapperCall`, `IntegrationCall`, `PostCall`, `PythonCall`, `GovernanceEvaluate` | the call paths and the response phase | `GovernedCall` |
| `GovernedCalls` | their composition and properties | the five above |
| `ToolUse` | a tool call as every boundary sees it | |
| `McpTools`, `LangChainTools`, `GovernedTools`, `OpenAIAgents`, `DeferredRunner` | the boundaries | `ToolUse` |
| `AgentTools` | their composition and properties | the five above |
| `RequestAdapters` | content of requests and answers on ten adapters | |
| `Governance` | calls, tools and requests as one system | `GovernedCalls`, `AgentTools`, `RequestAdapters` |
| `ExecutionLedger` | abstract: what strict execution promises | |
| `StrictReceipt` | profile 2.1 with journal and checkpoint; implements the ledger | `ExecutionLedger` (`INSTANCE ... WITH`) |
| `IntentAlignment`, `StrictChain`, `StrictSession` | profiles 1.0 and 2.0: the outcome of a decision, the auditors, coordinator and runtime | each the one before |
| `DurableOutbox` | durable delivery with crash and replay | |
| `Recovery` | the three that survive a crash, as one system | `StrictReceipt`, `StrictSession`, `DurableOutbox` |
| `MCPolicySync`, `MCGovernedCall`, `MCRecovery`, `MCTamperedExport` | model values | |
| `Counting` | lemmas on sums, least elements and ordered sets; nothing of the model | TLAPS |
| `AuditDeliveryProofs`, `PolicyEnforcementProofs`, `TamperedExportProofs`, `RecoveryProofs`, `PythonSenderProofs`, `GovernanceProofs`, `AgentToolsProofs` | theorems | the module they are about, `Counting`, TLAPS |

`PolicyEnforcement`, `Governance`, `Recovery` and `MCShutdown` put together parts that share no state: a variable
(`concern`, `part`, `sdk`) chooses one at the start and the others stand still. This loses no behaviour, because the parts
cannot see each other, and lets a property speak of all of them.

### How state and actions correspond to the code

**AuditSender.** One action is one turn of the event loop with everything the turn does synchronously.
`DropOnOverflow`, `Enqueue`, `EnqueueAfterGap` are the three outcomes of `enqueueAuditEvent`; `FlushQueue` is the synchronous
part of `flushQueue`; `DeliverOk`, `RefuseRequest`, `DiscardPermanent`, `RetryLater`, `TimeOut` are the continuations of the one
outstanding request: classification of the reply, counters, requeueing, gap declaration, and the loop up to its next
`await` (`Drain`; `Kick` is a call of `processQueue` that may find a processor running). An event is its signature number, session,
sequence number, link and the gap it declares. A batch cut by `MAX_BATCH_BYTES` is any shorter prefix. Ingest may record any part of
a request whose reply fails or is lost, and the body of an accepted one may be unreadable (`Unreadable`): the sender then counts no refusal. `lost`, `offered`, `recorded` are history, and so is
`unread`, the events refused in such a body: the exception that `NothingVanishes`, the verdicts of `AuditEvidence` and `PersistedKept` name. The length of a backoff is not modelled.

**AuditShutdown** adds the process, who holds the event loop, the flush under way and the guard. `BeforeExit` may happen
when nothing holds the loop; the unref'd backoff timer does not. **PythonSender** has one action per stretch of bytecode at whose ends
a signal handler makes a difference; the worker's four places for items are four variables.

**CliVerify** is operators, check by check in the code's order where order matters. `Hmac` is an operator constant. A preimage is the sequence of parts between its separators; a text that holds separators contributes several
(`PartsOf`), and such a part may spell a number or a digest. The numbers of an event have their declared type: as JSON an export could also hold a string there, which
the verifier compares as it is (`verify-chain.ts:291-306`) and which the models leave out. **TamperedExport** has the log that was signed as a
constant, the export of one or two of its sessions as its state, and one action per kind of edit: an event dropped, repeated, moved, or rewritten in any way
(`Altered`). Signatures are ideal: `IdealSig` is the signature of what was signed, and something else for what was not. `Texts` are the session ids and links an
export may hold, with and without separators; what is signed has none (UUIDs and hexadecimal). Absent
numbers are sentinels. Text is a short sequence of tokens, so that the boundary between prompt and response, which format 1 does not
sign, can be moved. **AuditEvidence** states its properties at rest: processor idle, no gap pending.

**PolicySync.** A poll is a fetch (timer's or the hold's) with the issue the service answers from; `AnswerArrives` is the whole of
applying an answer: signature and freshness, kill switch, rules, approvals and hash, escrow grant. The answer may leave its approvals out, signed or not,
and a grant may name no definition of its rule (`NoHash`). Time is the passing of deadlines, which
may happen at any moment. The held call has one action per `await` of `awaitApproval` and of the call path after it. **ScopeStores** has a
clock; a store maps a scope or a session to what it keeps, in insertion order where eviction needs it.

**GovernedCall** and the call paths: a call has a program counter `at`, an assignment of results to layers, a verdict, what it sent
and what its event says. Whether a detector or a rule matches a text is a free choice; what follows from that is the code. The gate and the
grant (module `PolicySync`) may change at every `await`. **ToolUse** and the boundaries: a use of a tool is announced, ruled on, run or refused,
and recorded; each boundary adds its own state (pins and verdicts; run trees and credits; guardrails and handles; queued handlers).
**RequestAdapters** holds, for every adapter, which slots of a request the scan reads, which the redaction rewrites, which a later assertion
checks, and what of an answer reaches the record.

**StrictSession, StrictReceipt.** A receipt is known by its place among the receipts signed. An action is what happens between two
awaits; a save that fails may or may not have been written; the request of an earlier attempt may reach the remote store at any later time
(`StorePosted`). `CrashAndRestoreCheckpoint` and its 2.1 counterpart may happen between any two of them. **DurableOutbox**: persisted, queued, in flight
and dead events, a full disk, failure modes, crash and replay.

## Runs

| Run | Distinct states | Bounds | Checks |
|---|---|---|---|
| `SenderRetry` | 3.4 M | queue 2, batch 2, one retry, 3 events, one status of each class, partial refusals, unreadable bodies | `TypeOK`, `ProcessorAwake`, `CountersBalance`, `LossesDeclared`, `NothingVanishes`, `SignOrder` |
| `Shutdown` | 1.0 M | Node: queue 1, no retry, 3 events; Python: queue 2, one retry, 3 calls, a flush, a signal; fairness | `NormalExitDrains`, `QueueBounded`, `FlushSeesAll`, `DropsOnRecord`, `ProcessEnds` |
| `AuditEvidence` | 1.9 M | queue 2, batch 2, no retry, 4 events, partial refusals, unreadable bodies, one permanent status | `CleanMeansComplete`, `IncompleteIsDeclared`, `OverflowKeepsChain` |
| `TamperedExport` | 0.2 M | sessions of 4, 2 and 1 events, texts with separators, two edits, every mode | `ValidIsGenuine`, `GenuineIsValid`, `DamageIsLocal`, `TallyIsSigned`, `TiersAgree` |
| `PolicySync` | 0.9 M | every two of key, failure mode and kind of rule; two timer polls and the hold's, 3 issues, 3 epochs, share 1; 3 scopes in stores of 2, two calls in flight, horizon 2; fairness | `StoreIsOneIssue`, `LimitsHold`, `NothingRollsBack`, `SentUnderLiveGrant`, `PausedForGoodIsRefused`, `HoldEnds` |
| `GovernedCall` | 2.3 M | every surface, mode, pair of unlike rules under either order, floor; two tool uses, two tools on every boundary; requests with at most two things to find on ten adapters | `RefusalStands`, `SendStands`, `RedactedMeansRedacted`, `EnforcementAudited`, `StrongestRulePrevails`, `StoredCopyGoverned`, `RulingsStand`, `ToolCallsOnRecord`, `DeniedStaysDark`, `SwappedToolRefused` |
| `Recovery` | 0.6 M | two actions, 3 receipts (2 behind a runtime of 1.0/2.0), one crash or change of process, clock {0, 1}; outbox of 3 records, queue 1, one retry, one restart; fairness | `CommittedIsAdmitted`, `RecoveryTruthful`, `AdmittedOnce`, `PersistedKept`, `PersistedSettles` |
| `HeadLoss`, `ExitGap`, `HookWeakens`, `UnscannedStored`, `PythonLoss` | violated | as the run of their family | one statement of the repository each |

Why the bounds are enough:

- *Sender.* Two slots and a batch of two make every branch happen: a marker that fits and one that does not (it needs room for two), a
  requeue over the bound, an event exhausted next to one that is not, a partial refusal, a lost marker, a fresh session while events of the
  old one wait. Four events saturate a queue of two with a batch outstanding and leave one to end the gap (`AuditEvidence`); without a retry a failure is a loss at once, and what retries add is `SenderRetry`'s.
- *Exit.* A queue of one overflows with the second event; one signal and one flush reach every place an item of Python's sender can be.
- *Verifier.* The two sessions have the current format with a marker in the middle and equal timestamps, and format 1 with a user who typed a claim; two
  edits reach every pair of damages, among them those that hide each other. The session of one event is what a chain of format 1 can respell in two edits
  besides the first events of another: the texts with separators are those that make it possible (`MCTexts`).
- *Policy.* Three outstanding fetches of three issues give every order in which an older answer overtakes a newer one; three scopes overflow a
  store of two; two calls in flight race one budget; a horizon of two passes every window and half-life once.
- *Calls.* No property relates two calls, so one call per behaviour is enough; lists of two rules give every combination of a winner and a
  loser. Two uses make credits, step limits and pins of one call meet another's. `MaxPinned` and `MaxListed` of one fill the tables.
- *Recovery.* Two receipts suffice for a suspension and its resolution, three (direct, and 2.1) for one action in between. One crash falls between any
  two steps; a second is the same from a later state, because a restart forgets everything but checkpoint and remote stores, which the first
  crash leaves as arbitrary as the second finds them.

`SYMMETRY` is used for interchangeable actions and tool uses; no property and no fairness condition names one of them.
`CHECK_DEADLOCK FALSE` stands where a system may really stop: an ended process, a session whose receipts are used up, a settled outbox.

Fairness, and why the code justifies it. *Shutdown*: an outstanding request settles, because the sender aborts it by a timer; a backoff elapses; Node
emits `beforeExit` on an empty loop; the flush loop looks at its clock. *PolicySync*: the staleness budget and the hold's deadline pass; the hold's
loop, its timers and its shared refresh are run by the event loop; the fetch of a hold is answered or fails. *Recovery*: a delivery is
answered, by a timer if need be, and a backoff ends. The application, signals, polls of the timer, crashes and the contents of answers are free.

### What the violated runs show

- `HeadLoss`: the first event of a session is discarded and its successors recorded. The keyed tier refuses only a first `seq_no` below 1
  (`governance/verify-chain.ts:292`), so the session verifies, while `cli-verify.ts:163-166` says that the keyed tier has always checked the initial
  `seq_no`. For the sender's own losses the fresh session's marker keeps the exit code at 3; nothing but the marker does.
- `ExitGap`: a burst overflows the queue, the queue drains without a later enqueue, the loop empties. `beforeExit` sees an empty queue
  (`fire-and-forget.ts:1263`) and does not flush, so the gap is never declared; the comment at 1194-1196 promises that it is. A signal does declare it.
- `HookWeakens`: a hook that answers "redact" takes the place of an earlier block (`wrapper.ts:2657`), and the call goes out redacted;
  `failure-dispositions.ts:191` says that no hook result weakens an earlier enforcement decision.
- `UnscannedStored`: a response-phase detector throws; the event says that the stored copy was withheld, and the merge (`core.ts:1686`), which applies
  the marker to redactions only, stores the response as it was.
- `PythonLoss`: an event whose metadata `json` cannot serialise is found out only in the worker (`sender.py:891`), which drops it without a
  counter, a marker or a warning; `sender.py:103-104` says that loss must be visible.

## Proofs

A run shows a property on its instance; a theorem shows it for every value of the constants. The assumptions on them are
named in the module that declares them and say no more than the code does: sizes are positive (`SenderAssumption`), quota rules have a positive limit and window (`ScopeStoresAssumption`; one without renders no outcome), bounds are natural numbers,
profiles, channels and rules are those that exist (`StrictSessionAssumption`, `StrictReceiptAssumption`, `PolicySyncAssumption`, `ScopeStoresAssumption`, `PythonSenderAssumption`, `GovernedCallAssumption`, `RequestAssumption`, `BoundaryAssumption`), a log is signed in order (`TamperedExportAssumption`);
`ToolAssumption` adds that the calls of a behaviour are finitely many, because credits and charges are counted against them. TLC evaluates each in a run. Six theorems have a further hypothesis, named in them: `FlushExact` and those of `TamperedExportProofs` (below).

**`AuditDeliveryProofs`: `TypeCorrect`, `NoLostWakeup`, `CountersAccount`.** One inductive invariant, `SenderInv`, because the three need each other:
the counters balance across a reply only because the outstanding request holds every item the queue gave up; a batch is non-empty and its
refusals lie between none and all of it only in states whose phases fit; and an item's type (retry count within budget) survives requeueing only because
items without budget are left out. One lemma per mechanism (`DrainLemma`, `KickLemma`, `MarkerBalance`, `LossLemma`, `CountRejectsLemma`,
`RetriedLemma`, `SettleLemma`), one per action, collected in `StepInv`.

**`AuditDeliveryProofs`: `HeldInSignOrder`, `SignedIsSomewhere`, `LossesOnRecord`, `MemoryBounded`.** The invariant `DeliveryInv` looks at the batch in flight and the
queue as one sequence, `Held`. Every turn of the loop either adds newly signed items at its end (`ExtendStep`) or keeps a
part of it in order with the dropped rest counted as lost (`SettleStep`), and declaring a loss is an extension by at most one marker. What is refused behind an unreadable body is a third part
of it, `unread`, which no counter knows: the invariant keeps it apart from the other two. Signing
order needs that retry counts fall along `Held` (an item put back has been sent before everything behind it); vanishing needs that
what is held and what is lost stay apart; the account of losses needs that a marker in flight travels alone (`TakesFront`); the bound needs an
injection of the kept items into the held ones (overflow markers apart, which stand for events turned away).

**`AuditDeliveryProofs`: `ExitImplementsSender`, `ExitDrains`.** The process with its exit handlers implements the sender (`ExitSpec => Spec`), so everything above
holds of it; and a process that ends by itself holds nothing: the guard is up only while a flush runs, and on an idle processor the queue is empty.

**`AuditDeliveryProofs`: `CleanIsComplete`, `MissingIsDeclared`, `OverflowIsNoBreak`.** What `obsvr-verify` concludes from the record, against what the application offered. The verdict is built of sums over
sets, a scan and a grouping by session, all recursive. A sum over a finite set is shown to exist (`SumExists`), to be unique and additive (`TotalUnion`, `TotalByClass`) by a smallest counterexample; so is a scan of a session
(`SessionTallied`). Then `VerdictTallies`: for every readable export the verifier's numbers are the markers recorded and what these declare. The other side is the sender's ledger, `EvidenceInv`: the events ever signed (held, recorded, lost or unread) bear each
signature once, as many as the chain has counted; their markers are the counter `gap_markers`, what these declare is `gap_events_declared`; what was lost is at most what the drop counters say; and until a loss there is one session.
It is needed because a verdict sees only what was recorded, and only the counters know what was offered. `WhatIsMissing` then counts at rest: offered is what is recorded, missing, refused unseen and overflowed; overflowed and dropped is what
the markers declare and the lost markers. `LedgerInvariant` was first checked as an invariant of the run `AuditEvidence`. `OverflowIsNoBreak` goes the other way, from the ledger to the scan: one session whose
signatures are 1 to n passes every link (`ScanPasses`).

**`TamperedExportProofs`: `ValidMeansGenuine`, `GenuineMeansValid`, `DamageStaysLocal`, `OnlySignedCounts`, `TwoTiersAgree`.** The five properties of the verifier, for every log, every number of
sessions and events in it, every edit and any number of edits. Texts without separators are their own only part and no two texts have the same parts, which is true of strings (`TextsAssumption`). Their hypothesis is an ideal signature, `SignaturesIdeal`: the signature of what was signed is known, and nothing else has one of those. It is what the run takes for `Hmac`; `HMAC-SHA256` and `Ed25519` are trusted to be that. The rest is the
code's. The preimage of a signed event has five parts in format 1, six in format 2 and seven later, the number of the format first except in format 1; no text of it holds a separator. An event of another shape could have the same parts, with its session id or
link cut at a separator, only under format 1: under a later one number, sequence and digests stand where they are looked for (`PayloadTells`). So an event that passes the checks was signed (`Genuine`), unless it is of format 1 and
its session id holds a separator, and one that was signed passes them (`SignedPasses`). The scan is a recursive function; that it has a state after each event is shown by a least counterexample (`ScanExists`), and two inductions along it say what these states are: the breaks are exactly the positions that do not fit
(`ScanBreaks`), and the state is the last event of the session, broken or not (`Anchored`), which is what keeps damage local. Then a valid chain is read off as consecutive events of one session (`ValidChain`), and a run of such events fits (`SegmentIsValid`).
Tallies are a third induction (`ScanTallies`); a marker that counts is a signed one because the format signs the label (`MarkerIsSigned`), and without edits because everything is signed. For the tiers, each session of a bundle is its events in a stable order (`SessionIs`); a whole valid session is the first
events of a signed one, of which the structural checks hold (`WholeSession`), and a sum of tallies is 0 just when the bundle holds no marker (`ZeroSum`). `ExportInv` says only what an export is, because the properties are about single states: all the weight is in the operators.

**`PolicyEnforcementProofs`: `OneIssue`, `SpentOnce`, `SentUnderGrant`, `NothingUndone`.** `SyncInv`: an answer under way belongs to a published issue; rules and grants in
force are of one issue, or the last answer had no approvals and the grants are of another, published one (`GrantsOfAnIssue`; under a pinned key an earlier one, because the issue dates only grow); and the account of every escrow epoch, with the epochs that a withdrawal spoiled set apart (that exception is the code's, see the observations).
`SessionInv` says what taint and score stores hold over any clock and any store size; with it no answer, eviction or sweep undoes what is in force.

**`PolicyEnforcementProofs`: `LimitsKept`.** The other conjuncts of `LimitsHold`, for every list of rules, store size and number of scopes and calls. `QuotaInv` follows the watched scope through its meter: while it has an entry, what was used
in the window since it opened is what the entry counts (or the count has passed every limit), nothing was used after, and the calls under way, at their dearest, still fit (`WatchFits`); without an entry its last window is over,
because only an expired entry is dropped, whoever floods the store (`RoomMade`, `Gets`). Two windows that follow each other open at least one width apart, so a span of that width meets at most two of them, and each holds at most the
allowance (`UseInWindow`): hence twice. A call is let by only after each rule found room in its own window (`RulesEvaluated`, an induction along the rules by a smallest counterexample); what it uses is then recorded once in the window all of them share, which is
why the rules must have one window (`OneWindow`). An unmetered unit's store was swept when the sweep could drop anything (`MeterFits`: no entry ends before the expiry bound), so it is full of open windows (`Crowded`).

**`RecoveryProofs`: `CommittedFollows`, `JournalsTruthful`, `ProfileImplementsLedger`.** A receipt is decided once and admitted perhaps long after, by a coordinator restored from a
stale checkpoint. What saves the session is that a receipt names its predecessor: whatever it was checked against is the admitted chain up to its place,
which never changes again (`Grounded`). So of all receipts signed by all incarnations the chain admits at most one that authorizes an
action, and profile 2.1 implements `ExecutionLedger`: every step maps to a step of the ledger or to none.

**`RecoveryProofs`: `SessionInvariant`, `ChainInvariant`, `SessionChainsHold`.** Profile 1.0 has its results, which outlive a change of session. Profile 2.0 forgets them with
the process, and what saves it is the order of its writes: an action is invoked only after the checkpoint that a restart reads holds it as decided and, if it had been suspended, as
resolved (`SecondProfile`); a receipt still to be committed is about an action not decided or a suspension not resolved (`Fresh`).
The second invariant, `LinkInv`, is about chains. A session keeps a summary, the auditor sees only receipts, and the store has its own copy. All three are related to one path of links: what
the session remembers is what the path to its head says (`Reads`; the re-sorted summaries of `commitResolution` need `Sorting`), every receipt signed may stand where it does on the path to it (`Warranted`: the
resolution is compatible, and no grant breaks the rule on the history before it), and store and checkpoint hold a beginning of the same path, except for the one receipt whose
fate is open (`Backed`, `OnItsWay`). Signing adds to no path that was there before, so nothing said of an old receipt changes (`WarrantedKept`). `CommittedIsStored`, `ChainsVerify`, `HistoryHeld` and
`CheckpointTruthful` are then read off; `ChainOf` walks the chain by a recursive function, and `ChainOfPath` shows by a least counterexample that the walk is the path.

**`RecoveryProofs`: `InvokedUnderOneReceipt`, `CommittedWasAdmitted`, `SurvivorsTruthful`, `PersistedNeverLost`.** The composition implements each of its
parts, so what is proved of the profiles holds side by side: together these are `AdmittedOnce`, `CommittedIsAdmitted` and `RecoveryTruthful` of the run, conjunct by conjunct.
`PersistedNeverLost` proves of the outbox that a persisted event is pending, buried or recorded, for every size and number of crashes.

**`PythonSenderProofs`: `DropsAccounted`, `NoFlushReturnsEarly`, `FlushExact`.** The application's thread, the signal handler that interrupts it between any two
statements, and the worker. `PyInv` says what each program counter owes the others: a marker travels alone in its batch; every item has its task; the gap a
caller has drafted declares all that is pending, or else what the handler has declared meanwhile, because nothing becomes pending between drafting and clearing. A gap may
thus be declared twice, but never not at all. What is declared is a recursive sum over a set; the proof uses only that a set has one sum (two sums of
one set would differ at a least prefix), and how the sum changes when a marker is added. `NoFlushReturnsEarly` (tasks never fewer than items) holds without hypotheses. That there are never
more (`FlushSeesAll`) needs that `json.dumps` accepts every event, `~MayDefyJson`: otherwise a task is left over in the code (`PythonLoss`, observations). The run has the same setting.

**`GovernanceProofs`: `RefusalsStand`, `SendsStand`, `RedactionsHold`, `EnforcementRecorded`, `StoredCopiesHold`.** A call goes through up to twenty places on four
surfaces, and at each of them a layer may refuse, redact, find something, throw or be skipped, for every set of surfaces and every list of rules. No property is inductive by
itself: whether a refusal stands when the call is sent depends on what every layer behind it did with the verdict. `CallInv` says place by place what the layers passed so far have left
(`EarlyFits`, `RuledFits`, `HookedFits`, `ConcludedFits`, `SentFits`, `DoneFits`): up to the rules a refusal is a block, the hook may turn it into a redaction, the conclusion may convert it, and
a guard that fails open gives it up only where nothing but the gate or the principal had refused. `SendsStand` is about a step: gate and grant may change at every `await`, and `Timely` says
that none lies between the last look at them and the request. The lemmas on the helpers (`BlockFields`, `WithFields`, ...) and on sets of results carry the surfaces' layers alike.
`CallsGoverned` lifts all this to the composed system, and `RedactionsCarriedOut`, `CallsOnRecord` and `CopiesGoverned` are the call paths' share of its properties. The share of the
requests is `RequestInv`, for every content of every adapter: until it is rewritten the policy saw exactly what there is in the parts the adapter reads, unless a history
grew meanwhile (`SawAll`); once rewritten, nothing of it is left in what goes out, as far as the adapter carries that (`Cleared`); a request that was redacted or monitored is audited before it goes out and leaves one event
(`RecordFits`); a record that says completed has heard the answer's text (`HeardFits`). `RedactionsFit` goes through the adapters' redactions one by one. The proof
found the property stated too strongly and the run's contents too few to show it: a wrapped Google model's readable cached content goes out under a rule's redaction (observations).

**`GovernanceProofs`: `RefusingRulePrevails`, `StrongestDecides`, `VerdictIgnoresOrder`.** `resolveMatched` is a loop that keeps the best rule so far, a recursive function of the model. That the function exists is proved
by writing it down (`BestExists`), that no other satisfies its equation by a least counterexample (`BestUnique`, `LeastOf`); then `ResolveIsBest`: what it returns renders an outcome and no rendered rule prevails over it. Hence two lists with the same
rules in any order get the same outcome when their ids differ, and one refusing rule decides for a refusal. `RefusingRulePrevails` carries this through the call: past the rules a refusal of the list is a
block (`RuleStands`), and what the property excepts (an approval, monitor mode, a hook) is all that lifts it. `SomeRuleRefuses` is stated without the loop, so the property compares two definitions.

**`AgentToolsProofs`: `ToolRulings`, `ToolRecord`, `DeniedToolsDark`.** `ToolsInv` is one invariant for each boundary; a step belongs to one of them (`StepOfKind`). At the MCP client, the agents and the runners
it says of each call, by its place, what its gate and its reply have left in it (`McpUse`, `AgentUse`, `RunnerUse`), with what the calls share: gates that went away with a handle (`GatesFit`),
the charges of an agent span (`TraceFits`), a listener's entries in the queue (`ListenerShape`). LangChain needs accounts. A call goes unruled because it spends a credit that another callback left, so the
number of credits about and spent is compared with the number granted (`CreditsFit`); and a call is ruled on twice only if its credit went to another, so as long as none was stolen a run that has not ended owns as many credits as
calls announced on it and not yet started (`OwingsFit`). The budget holds because the calls charged to a run are at most the steps it has counted (`StepsFit`). A TypeScript call whose input could not be written keeps the marks of its place and is told by its note (`"swallowed"`). In TypeScript what a callback read still
stands when it writes (`TurnFits`); in Python it does not, and a write that lost another is marked (`Raced`), where the properties promise nothing. To speak of the credit a call is spending
the model records whose it is (`lender`). `ToolsGoverned` lifts the three to the composed system.

### What stays with TLC

- Liveness (`ProcessEnds`, `PausedForGoodIsRefused`, `HoldEnds`, `PersistedSettles`) and everything that needs ENABLED: out of the prover's reach.
- `SwappedToolRefused`: what the store holds after a listing is a fold over it.
- The invariants of type that the runs do not list (`GovernedCalls`, `DurableOutbox`, `StrictSession`) document the state; `StrictReceipt`'s is proved within `ReceiptInvariant`.

## Not modelled, and why

- The text matching of detectors, deobfuscation, rule packs, PII formats: large pure functions without protocol. What they find is a free choice in every model.
- `integrations/core.ts`'s helpers that infer providers, delegation checks, loop detection of plain calls; the wrapping of client
  objects (proxies, sealing) apart from the calls through them; auto-instrumentation, which patches modules as they load.
- HTTP and JSON plumbing, option parsing and defaults of `config.ts`, trimming and wire normalisation of events.
- The OpenTelemetry mirror: it changes no state of the SDK unless application code in a tracer callback calls back into it.
- Device keys (their seals appear in `CliVerify`), duplicate-instance warnings, the sampling decision, cost figures.
- Evidence bundles, outcome transport and the encoding of strict receipts.
- Ancestry bounds of LangChain runs (4096 chains, 64 hops) and the stripping of MCP descriptions.
- Most of the Python SDK is a port of the same protocols, pinned to the TypeScript one by `conformance/`.

## Observations

Met while modelling. None is a run, either because no text of the repository says otherwise or because the models take what the code does as given;
where a property would be violated, its definition names the exception.

*Delivery.* A 2xx answer whose body cannot be read (absent, cut short, not JSON, or aborted by the request's timer, which is cleared only afterwards) counts as no refusal (`fire-and-forget.ts:387-393`).
An event refused in such a body is counted as sent and appears in no drop counter, no marker and no record, and its durable record is removed; the comment at 607-608 says of refused events
that "they count as rejected, never as sent", `README.md:154-155` that a record is "removed only after ingest accepts it", `SECURITY.md:117-118` "only after accepted delivery". The comment in the `catch` and the
Python twin (`sender.py:672-678`) decide so on purpose, in order not to repeat a delivery that was made, so the models take it as given and the properties name it. With durable delivery, dead letters count toward `maxBytes` and are never removed; when the outbox is full and failure
mode is "error", `declareDeliveryGap`'s persist throws out of `processQueue` before the dead-lettering (`fire-and-forget.ts:639-645`, `611-624`, `657-663`): the
record stays in `pending/` until a restart and `flushQueue` (1203-1212) spins until its timeout. A corrupt record makes every refill throw. A tracer callback between persist and
queue (1086-1131) lets the refill load the outer record, which is then queued twice. Overflow drops events unsaved even with durable delivery. Python: a signal inside a signing numbers the
chain 1, 3, 2, 4 (`sender.py:163-164`, `257-259`, `1043`); a signal during `put_nowait` with a gap pending deadlocks (`queue.mutex` is not reentrant); retried
items may be delivered after newer ones; `fork` rebuilds neither the outbox's lock nor its sets; a corrupt record kills the worker; an item that fails to serialise second leaves
an unfinished task, so every later flush times out; a forced marker can be declared twice under a signal.

*Verifier.* The fields of a preimage are joined by `|`, and nothing asks whether the `sdk_session_id` or `prev_sig` of an export holds one. Format 1 neither leads with its number nor tags its content hash, so a first event of a later format
can be retold as a chain of format 1: its number and session as session id, the framed content as prompt, the decision digest before its link. The HMAC is the same, and verdict and operation of the retold event are free, as in every chain of format 1.
`chain-format.ts:82` says that "No two formats share a valid signature." Without the exception `Respelled` of `ValidIsGenuine` TLC finds the case in two states. Chains of later formats are not exposed to it, which is what `PayloadTells` shows.
The comment at `audit-gap.ts:143-148` says that `operation` is in no preimage, so that a stored event can be relabelled as a marker, and that closing it would need a new format. From format 4 on `operation` is in the decision digest
(`chain-format.ts:132-142`): the comment is out of date, and `TallyIsSigned`, which speaks of these formats, says what the code does.

An event that spells out `chain_format: 1` next to one that leaves it out passes the keyed tier, which reads an absent format as 1, and is refused by the structural tier, which compares the fields
(`cli-verify.ts:193`), although the comment above that check says that "the keyed tier already refuses it" (`cli-verify.ts:194-196`): the field is not signed in format 1. `TiersAgree` excludes it (`unsaid`).

*Policy.* The epoch of an escrow share is forgotten once an answer comes without it, and an older grant is then taken again (`escrow.ts:69-72` says otherwise). `awaitApproval` looks at the grant
before `unavailable()`; the body of a poll has no timer and can hang a hold past its deadline; an answer without approvals keeps the old grants beside new rules (`config.ts:1288`), revoked ones among them, under a pinned
key too when the issue has none (`StoreIsOneIssue` names it); a grant without `rule_hash` satisfies every later definition of its rule (`approvals.ts:226`, on purpose: 54-60); an older 200 after a newer 401 clears
`remoteDisabled`. Two quota rules on one scope share a counter, and the sweep goes by the window that opened it last: a longer window's count can be dropped by the
shorter rule, although `quota.ts` says that the sweep changes no decision (`WindowHolds` promises rule sets of one window only). Checks allocate slots; a full store loses
recorded usage silently; a flood evicts the older half of the injection sessions. Clocks that go back keep windows open. `core.ts:745` says that the taint key is the multi-turn key
"exactly", but they differ for an empty or non-string user id.

*Calls.* Under `deny_wins` quota rules are charged and escrow spent even when another rule blocks, and the approval of the winning rule lifts the block although another rule
also blocks. A layer resolved open skips canary, floor and rules. In monitor mode an earlier would-be block skips the canary. The catch of `core.ts` with failMode open answers allow even after the integrity
gate had blocked; the Python counterpart does too. `core.ts` awaits Presidio after it revalidated the approval; `evaluate()` does not revalidate after its hook, emits no event from its catch, and
ignores a PII "redact". In the wrapper a failed outbound redaction is not marked, so monitor mode sends a half-redacted request. In the integrations and in Python a hook timeout overwrites a decided redaction, and the
call goes out raw. Sampling looks at the compliance before the call, so response-phase findings of sampled-out calls leave no event; in Python a response-phase failure overlays the record that
a request was redacted. A stream that breaks off stores its partial response without post-call policy; abandoned streams leave no event on most surfaces, and Bedrock records them as completed.
`_GovernedStreamManager.__enter__` in Python has no handler, so an error on entry leaves no event.

*Tools.* LangChain in TypeScript writes a tool's input down inside the `try` that swallows what is no policy error (`langchain.ts:654-667`, 697-702): an input `JSON.stringify` cannot write (a cycle, a BigInt) leaves the call unruled and without a "tool.call" event,
and after `handleAgentAction`, which grants the credit first, the tool's own start is let pass by it. `RulingsStand` and `DeniedStaysDark` name it. In Python `str(tool_input)` comes after the ruling, so that only the event would be lost; no model has that. A tool whose first sighting found the table of sightings full but which has a verdict slot passes block mode as unpinned. The pin verdict is read before the `await` of the pre-call
policy and not re-read. A sanitizer that failed open is stamped "redacted" in TypeScript; one that failed closed leaves no event. Python's MCP wrapper returns the real experimental object when it cannot
rebuild it. LangChain: a credit left by a tool name the executor does not have; two agent runs in flight share nothing and a stray tool may be charged to the wrong one; Python's step count is not
locked, and a run popped between lookup and index lets its tool run unjudged. OpenAI Agents: a tool shared by two agents loses its gate when the first attacher detaches (`openai-agents.ts:577` says "gated for
both"); nothing is unregistered after a detach, so a denied tool then runs without a record; a nested span deletes the outer budget. Governed tools: no integrity gate unless the pipeline is armed; a paused project
drops the events of blocks too. Runners: calls before start become unhandled promises; a queued abort is never replayed; an iterator-only runner never reports its end; class-instance tools stay ungated.
Wrapping a client twice returns the raw client; re-wrapping with `sealRaw` leaves the older proxy reading blocker stubs.

*Adapters.* Entities only Presidio finds go out raw under "redact" and are recorded as redacted on Vertex, Workers AI and Bedrock, although `core.ts:456-461` says that such a call is refused. Rule and hook
redactions are not asserted, and touch neither a chat's retained history nor what a wrapped Google model has cached. Bedrock rewrites the caller's command in place, even when it then refuses, and an undecodable body is recorded as redacted. Workers' events with a context go
by their own fetch, unsigned and outside the queue. Streams record no tool calls on any adapter.

*Strict receipts.* Profile 2.1: `return executeCommittedStrictActionV21(...)` is not awaited in `runExclusive`, so operations overlap an execution; the terminal journal of the earlier one may then name a later head, which
`validateJournal` refuses (`strict-runtime-recovery-v2-1.ts:177`) although README.md:667 and 687 promise recovery (`TerminalRecovers` in `StrictReceipt` states it; it is not checked, because it does not hold). After an "absent" reconciliation a restored
session is stuck. A definite "not stored" does not exclude that an earlier attempt is stored later (the `refused` exception of `CommittedIsStored`). A suspended action of 2.0 can be resolved only after a
restart, because every end is kept under its action id. A deferral for a missing target, approval binding or intent ends only by expiry or denial. `deny_after` on STEP_UP or DEFER, or a small `max_prior_actions`, counts the
suspended action against its own grant. A 2.0 session of two agents is committed but not accepted by its verifier (`ChainsVerify` says so). Reconciling a recovered receipt in a live frozen process leaves it frozen. The 1.0 verifier takes a grant
at exactly its expiry and an expiry before it; the coordinator neither.

## What next

The wrapping of client objects as a further part of `Governance`. Overlapping durable delivery with the event-loop turns of `AuditSender`. `SwappedToolRefused`, with an invariant of the pin store that one
entry of a listing keeps.
