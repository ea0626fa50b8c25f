----------------------------- MODULE ScopeStores -----------------------------
(***************************************************************************)
(* The process-global stores keyed by a value the caller supplies, each    *)
(* bounded: the request and token meters of quota rules                    *)
(* (governance/quota.ts, metering.ts), the taint latch                     *)
(* (policy/session-taint.ts) and the multi-turn injection score            *)
(* (policy/injection-session.ts).                                          *)
(*                                                                         *)
(* A full meter turns new scopes away; a full latch or score store evicts. *)
(* The clock stands for Date.now(), which is taken not to go back.         *)
(***************************************************************************)
EXTENDS Integers, FiniteSets, SequencesExt

CONSTANTS
  Scopes,        \* the values callers supply: end users, sessions
  Watched,       \* the scope whose use is recorded
  MaxScopes,     \* MAX_QUOTA_SCOPES
  MaxSessions,   \* MAX_TAINTED_SESSIONS and MAX_SESSIONS
  Horizon,       \* bound on the clock of the meters
  HalfLives,     \* bound on the clock of the sessions, a tick a half-life
  MaxInFlight,   \* bound on the calls under way, for each scope
  MaxCost,       \* bound on the tokens of one call
  StoreSetups    \* the configurations considered

QuotaUnits == {"requests", "tokens"}

\* A rule without a limit or without a window renders no outcome: those that
\* meter have both.
QuotaRule == [unit : QuotaUnits, limit : Nat \ {0}, window : Nat \ {0}]

ASSUME ScopeStoresAssumption ==
  /\ Watched \in Scopes
  /\ MaxScopes \in Nat \ {0} /\ MaxSessions \in Nat \ {0}
  /\ Horizon \in Nat /\ HalfLives \in 0..Horizon
  /\ MaxInFlight \in [Scopes -> Nat] /\ MaxCost \in Nat
  /\ \A s \in StoreSetups : s.rules \in Seq(QuotaRule)

VARIABLES
  setup,     \* rules, their resolution, failMode, and the action of the latch
  clock,
  meters,    \* requestMeter and tokenMeter
  flight,    \* calls past their token check, per scope
  verdict,   \* what the step just taken decided on quota
  used,      \* history: what the watched scope used, by unit and time
  tainted,   \* session -> updatedAt
  sessions,  \* session -> accumulated score
  seen       \* history: when a session was last marked or enforced

meterVars == <<meters, flight, used>>
sessionStoreVars == <<tainted, sessions, seen>>
storeVars == <<setup, clock, verdict, meterVars, sessionStoreVars>>

Ticks == 0..Horizon
Never == 2 * Horizon + 1
NoVerdict == [decision |-> "none", unmetered |-> {}]

\* Map.set: a key given a value.
Put(map, key, value) ==
  [k \in DOMAIN map \cup {key} |-> IF k = key THEN value ELSE map[k]]

StoresInit ==
  /\ setup \in StoreSetups
  /\ clock = 0
  /\ meters = [u \in QuotaUnits |-> [entries |-> <<>>, earliest |-> Never]]
  /\ flight = [s \in Scopes |-> 0]
  /\ verdict = NoVerdict
  /\ used = [u \in QuotaUnits |-> [t \in Ticks |-> 0]]
  /\ tainted = <<>> /\ sessions = <<>> /\ seen = [s \in Scopes |-> 0]

Tick ==
  /\ clock < Horizon
  /\ clock' = clock + 1 /\ verdict' = NoVerdict
  /\ UNCHANGED <<setup, meterVars, sessionStoreVars>>

----------------------------------------------------------------------------
(* The bounded meter.                                                      *)

Expires(entry) == entry.start + entry.window
LiveScopes(meter) == {s \in DOMAIN meter.entries : Expires(meter.entries[s]) > clock}

\* Drop every entry whose own window has elapsed and re-derive the bound.
SweepExpired(meter) ==
  [entries |-> Restrict(meter.entries, LiveScopes(meter)),
   earliest |-> Min({Never} \cup {Expires(meter.entries[s]) : s \in LiveScopes(meter)})]

FullMeter(meter) == Cardinality(DOMAIN meter.entries) >= MaxScopes

\* Variant: room is made by dropping a counter that is still live.
MakeRoomByEviction(meter) ==
  IF FullMeter(meter)
    THEN [meter EXCEPT !.entries = Restrict(@, DOMAIN @ \ {CHOOSE s \in DOMAIN @ : TRUE})]
    ELSE meter

\* makeRoom, saturatedNow: before the earliest expiry no entry can have
\* expired, so a full meter is swept only from then on.
MakeRoom(meter) ==
  IF FullMeter(meter) /\ clock >= meter.earliest THEN SweepExpired(meter) ELSE meter

\* Variant: the expiry bound does not follow a window that ends sooner.
TrackNoExpiry(meter, window) == meter.earliest

TrackExpiry(meter, window) == Min({meter.earliest, clock + window})

OpenWindow(meter, scope, window) ==
  [entries |-> Put(meter.entries, scope, [count |-> 0, start |-> clock, window |-> window]),
   earliest |-> TrackExpiry(meter, window)]

\* Expiry is judged by the window of the rule that asks; an expired entry
\* reuses its slot, a new scope needs one.
GetOrCreate(meter, scope, window) ==
  LET roomy == MakeRoom(meter)
      known == scope \in DOMAIN meter.entries
  IN CASE known /\ clock - meter.entries[scope].start < window -> meter
       [] known /\ clock - meter.entries[scope].start >= window -> OpenWindow(meter, scope, window)
       [] ~known /\ FullMeter(roomy) -> roomy
       [] ~known /\ ~FullMeter(roomy) -> OpenWindow(roomy, scope, window)

\* Counts beyond every limit are one.
Beyond == 1 + Max({0} \cup {r.limit : r \in Range(setup.rules)})
AddTo(meter, scope, n) ==
  IF scope \in DOMAIN meter.entries
    THEN [meter EXCEPT !.entries[scope].count = Min({Beyond, @ + n})]
    ELSE meter

\* checkQuota and checkTokenBudget open a window and count nothing;
\* incrementQuota counts the call it then judges.
CountsCall(rule, checkOnly) == rule.unit = "requests" /\ ~checkOnly

\* The quota branch of the rule evaluator.  A scope without a slot was not
\* metered: failMode decides, and the call declares it.
EvaluateQuota(found, rule, scope, checkOnly) ==
  LET opened == GetOrCreate(found.meters[rule.unit], scope, rule.window)
      meter == IF CountsCall(rule, checkOnly) THEN AddTo(opened, scope, 1) ELSE opened
      metered == scope \in DOMAIN meter.entries
      spent0 == IF CountsCall(rule, checkOnly) THEN 1 ELSE 0
      exceeded == metered /\ meter.entries[scope].count - spent0 >= rule.limit
  IN [meters |-> [found.meters EXCEPT ![rule.unit] = meter],
      unmetered |-> found.unmetered \cup (IF metered THEN {} ELSE {rule.unit}),
      decision |-> IF exceeded \/ (~metered /\ setup.failClosed) THEN "refused" ELSE found.decision]

\* First match stops at the first rule that refuses; deny_wins asks them all.
EvaluateRules(scope, checkOnly) ==
  LET found[i \in 0..Len(setup.rules)] ==
        IF i = 0 THEN [meters |-> meters, unmetered |-> {}, decision |-> "allowed"]
        ELSE IF found[i - 1].decision = "refused" /\ ~setup.denyWins THEN found[i - 1]
        ELSE EvaluateQuota(found[i - 1], setup.rules[i], scope, checkOnly)
  IN found[Len(setup.rules)]

MetersUnit(unit) == \E r \in Range(setup.rules) : r.unit = unit
RecordUse(unit, scope, n) ==
  used' = IF scope = Watched /\ MetersUnit(unit) THEN [used EXCEPT ![unit][clock] = @ + n] ELSE used

\* A governed call meets the rules: for real, or as a shadow evaluation.
MeetRules(scope, checkOnly) ==
  LET found == EvaluateRules(scope, checkOnly)
      goes == found.decision = "allowed" /\ ~checkOnly
  IN /\ flight[scope] < MaxInFlight[scope]
     /\ meters' = found.meters
     /\ verdict' = [decision |-> found.decision, unmetered |-> found.unmetered]
     /\ flight' = IF goes /\ MetersUnit("tokens") THEN [flight EXCEPT ![scope] = @ + 1] ELSE flight
     /\ RecordUse("requests", scope, IF goes /\ "requests" \notin found.unmetered THEN 1 ELSE 0)
     /\ UNCHANGED <<setup, clock, sessionStoreVars>>

\* recordTokenUsageForRules, for every token rule: use is known after the call,
\* and a scope that lost its slot meanwhile is counted nowhere.
RecordTokenUsage(scope, tokens) ==
  LET meter[i \in 0..Len(setup.rules)] ==
        IF i = 0 THEN meters.tokens
        ELSE IF setup.rules[i].unit = "tokens"
          THEN AddTo(GetOrCreate(meter[i - 1], scope, setup.rules[i].window), scope, tokens)
        ELSE meter[i - 1]
  IN meter[Len(setup.rules)]

\* meterEvent: only a call that succeeded and reported usage is metered.
CallReturns(scope, tokens) ==
  /\ flight[scope] > 0
  /\ flight' = [flight EXCEPT ![scope] = @ - 1]
  /\ meters' = [meters EXCEPT !.tokens = IF tokens > 0 THEN RecordTokenUsage(scope, tokens) ELSE @]
  /\ RecordUse("tokens", scope, IF scope \in DOMAIN meters'.tokens.entries THEN tokens ELSE 0)
  /\ verdict' = NoVerdict
  /\ UNCHANGED <<setup, clock, sessionStoreVars>>

\* quotaStoreSaturated sweeps; the token meter is asked only if the first has room.
AskSaturated ==
  /\ meters' = [requests |-> MakeRoom(meters.requests),
                tokens |-> IF FullMeter(MakeRoom(meters.requests))
                             THEN meters.tokens ELSE MakeRoom(meters.tokens)]
  /\ verdict' = NoVerdict
  /\ UNCHANGED <<setup, clock, flight, used, sessionStoreVars>>

\* resetQuota: the application gives a scope its allowance back.
ResetQuota(scope) ==
  /\ scope \in DOMAIN meters.requests.entries
  /\ meters' = [meters EXCEPT !.requests.entries = Restrict(@, DOMAIN @ \ {scope})]
  /\ used' = IF scope = Watched THEN [used EXCEPT !.requests = [t \in Ticks |-> 0]] ELSE used
  /\ verdict' = NoVerdict
  /\ UNCHANGED <<setup, clock, flight, sessionStoreVars>>

MetersNext ==
  \/ Tick
  \/ AskSaturated
  \/ \E s \in Scopes : \/ \E checkOnly \in BOOLEAN : MeetRules(s, checkOnly)
                       \/ \E tokens \in 0..MaxCost : CallReturns(s, tokens)
                       \/ ResetQuota(s)

----------------------------------------------------------------------------
(* The taint latch and the injection score.                                *)

\* Scores are exact: a quarter is one weak signal, and halves once a tick.
Quarter == 2 ^ HalfLives
Threshold == 4 * Quarter
HighScore == 2 * Threshold   \* bound: higher scores are taken as this one

Decayed(entry) == entry.score \div 2 ^ (clock - entry.at)
Negligible(entry) == 20 * Decayed(entry) < 4 * Quarter

\* Variant: an enforced session is not refreshed.
TouchNothing(store, scope) == store

TouchTaint(store, scope) ==
  IF scope \in DOMAIN store THEN [store EXCEPT ![scope] = clock] ELSE store

\* What markTainted may leave: a full latch evicts a session of the oldest.
\* Which of several equally old goes is left open.
MarkTainted(store, scope) ==
  LET oldest == {o \in DOMAIN store : \A p \in DOMAIN store : store[o] <= store[p]}
      marked(kept) == Put(Restrict(store, kept), scope, clock)
  IN IF scope \in DOMAIN store \/ Cardinality(DOMAIN store) < MaxSessions
       THEN {marked(DOMAIN store)}
       ELSE {marked(DOMAIN store \ {o}) : o \in oldest}

\* Variant: when the negligible ones are not enough, all scores go.
EvictAllScores == IF Cardinality(DOMAIN sessions) < MaxSessions THEN {DOMAIN sessions} ELSE {{}}

\* What evictIfNeeded may keep: all while there is room, else what is not
\* negligible, and of that the younger half if it still fills the store.
EvictIfNeeded ==
  LET live == {s \in DOMAIN sessions : ~Negligible(sessions[s])} IN
  CASE Cardinality(DOMAIN sessions) < MaxSessions -> {DOMAIN sessions}
    [] Cardinality(DOMAIN sessions) >= MaxSessions /\ Cardinality(live) < MaxSessions -> {live}
    [] Cardinality(live) >= MaxSessions ->
         {kept \in SUBSET live :
            /\ Cardinality(kept) = Cardinality(live) \div 2
            /\ \A k \in kept, d \in live \ kept : sessions[k].at >= sessions[d].at}

\* One turn's findings: the weak signals with their weight, a full pattern, and
\* whether the single-turn scan reports an injection (it does for a quoted one).
TurnFindings ==
  {[weight |-> 0, signals |-> 0, full |-> FALSE, detected |-> FALSE],
   [weight |-> 2, signals |-> 1, full |-> FALSE, detected |-> FALSE],
   [weight |-> 5, signals |-> 3, full |-> FALSE, detected |-> FALSE],
   [weight |-> 2, signals |-> 1, full |-> FALSE, detected |-> TRUE],
   [weight |-> 4, signals |-> 0, full |-> TRUE, detected |-> TRUE]}

Tripped(entry, turn) ==
  entry.score >= Threshold /\ (entry.turns > 1 \/ turn.signals >= 2 \/ turn.full)

\* scoreTurn; accumulation without a full match taints the session.
ScoreTurn(scope, turn, latch) ==
  \E kept \in EvictIfNeeded :
    LET known == scope \in kept
        base == IF known THEN Decayed(sessions[scope]) ELSE 0
        entry == [score |-> Min({HighScore, base + turn.weight * Quarter}), at |-> clock,
                  turns |-> IF known THEN 2 ELSE 1]
    IN /\ sessions' = Put(Restrict(sessions, kept), scope, entry)
       /\ IF Tripped(entry, turn) /\ ~turn.full
            THEN tainted' \in MarkTainted(latch, scope)
            ELSE tainted' = latch

\* One governed turn of a session: the latch as earlier turns left it, then the
\* single-turn scan, then the score; a refusal ends the turn.
TakeTurn(scope, turn) ==
  LET latch == TouchTaint(tainted, scope)
      refused == scope \in DOMAIN tainted /\ setup.taintBlocks
  IN /\ \/ refused /\ tainted' = latch /\ UNCHANGED sessions
        \/ /\ ~refused /\ turn.detected /\ setup.piiBlocks
           /\ tainted' \in MarkTainted(latch, scope) /\ UNCHANGED sessions
        \/ /\ ~refused /\ turn.detected /\ ~setup.piiBlocks
           /\ \E l \in MarkTainted(latch, scope) : ScoreTurn(scope, turn, l)
        \/ ~refused /\ ~turn.detected /\ ScoreTurn(scope, turn, latch)
     /\ seen' = IF scope \in DOMAIN tainted \cup DOMAIN tainted'
                  THEN [seen EXCEPT ![scope] = clock] ELSE seen
     /\ UNCHANGED <<setup, clock, verdict, meterVars>>

SessionsNext == (clock < HalfLives /\ Tick) \/ \E s \in Scopes, turn \in TurnFindings : TakeTurn(s, turn)

----------------------------------------------------------------------------
(* Properties.                                                             *)

\* No span as long as the window of a rule sees more than twice its limit, or
\* for tokens twice what calls under way may add: whoever floods the store.  It
\* is promised for rules of one window: rules that share a scope share a
\* counter, whose window the last of them to open it decides.
UsedWithin(unit, first, window) ==
  FoldFunctionOnSet(LAMBDA n, sum : n + sum, 0, used[unit],
                    {t \in Ticks : first <= t /\ t < first + window})
MostOf(rule) ==
  IF rule.unit = "requests" THEN rule.limit ELSE rule.limit - 1 + MaxInFlight[Watched] * MaxCost
OneWindow == \A r, q \in Range(setup.rules) : r.window = q.window
WindowHolds ==
  OneWindow =>
    \A r \in Range(setup.rules), first \in Ticks :
      UsedWithin(r.unit, first, r.window) <= 2 * MostOf(r)

\* A scope goes unmetered only while the store is full of windows that are
\* still open, and never when one of them is its own.
UnmeteredOnlyWhenFull ==
  \A u \in verdict.unmetered : Cardinality(LiveScopes(meters[u])) >= MaxScopes

\* A tainted session is forgotten only in a full latch, and only while every
\* session that stays was marked or enforced no earlier than it.
TaintOutlastsFlood ==
  \A s \in DOMAIN tainted \ DOMAIN tainted' :
    /\ Cardinality(DOMAIN tainted) >= MaxSessions
    /\ \A o \in DOMAIN tainted' : seen'[o] >= seen[s]

\* An accumulated score that still counts is dropped only for as many younger
\* ones as half the store holds.
ScoresOutlastFlood ==
  \A s \in DOMAIN sessions \ DOMAIN sessions' :
    \/ Negligible(sessions[s])
    \/ Cardinality({o \in DOMAIN sessions' \cap DOMAIN sessions :
                      sessions[o].at >= sessions[s].at}) >= MaxSessions \div 2
=============================================================================
