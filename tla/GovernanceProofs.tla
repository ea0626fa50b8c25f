-------------------------- MODULE GovernanceProofs --------------------------
(***************************************************************************)
(* What holds of every call and of every request, for every set of         *)
(* surfaces, every list of rules and floor rules and every content: a      *)
(* refusal stands to the end, what is sent may be sent, a redaction is     *)
(* carried out, the record tells the verdict, and the stored copy is       *)
(* governed and is a copy of what was answered.                            *)
(*                                                                         *)
(* The inductive invariant of a call says, place by place, what the layers *)
(* passed so far have left in it.  Up to the rules a refusal is a block;   *)
(* the hook may turn it into a redaction; the conclusion may convert it;   *)
(* and a guard that fails open gives it up before a second layer was       *)
(* reached.  That of a request says what the scan saw of it, what its      *)
(* redaction left, and what its event owes.                                *)
(***************************************************************************)
EXTENDS Governance, Counting

----------------------------------------------------------------------------
(* The rules of a list.                                                    *)

PolicyRule == [id : Nat, does : Does]

\* How strong a rule is under the settings of an evaluation.
StrengthOf(rule, opts) == OutcomeStrength(rule, RuleOutcome(rule, opts))

\* Strengths are numbers, and the greatest is that of a refusal.
LEMMA StrengthFits ==
  ASSUME NEW rule \in PolicyRule, NEW opts
  PROVE  /\ StrengthOf(rule, opts) \in 0..3
         /\ StrengthOf(rule, opts) = 3 <=> RuleOutcome(rule, opts).decision = "block"
<1>1. PICK outcome : outcome = RuleOutcome(rule, opts)
  OBVIOUS
<1>2. OutcomeStrength(rule, outcome) = 3 <=> outcome.decision = "block"
  BY DEF OutcomeStrength
<1>3. OutcomeStrength(rule, outcome) \in 0..3
  BY DEF OutcomeStrength
<1>4. QED
  BY <1>1, <1>2, <1>3 DEF StrengthOf

\* The position k beats the position j: the stronger rule, then the smaller id, then
\* the earlier place.
Beats(rules, opts, k, j) ==
  \/ StrengthOf(rules[k], opts) > StrengthOf(rules[j], opts)
  \/ /\ StrengthOf(rules[k], opts) = StrengthOf(rules[j], opts)
     /\ \/ rules[k].id < rules[j].id
        \/ rules[k].id = rules[j].id /\ k < j

\* k is the best of the first i rules, 0 if none of them rendered.
BestOf(rules, opts, i, k) ==
  \/ k = 0 /\ \A j \in Rendered(rules, opts) : ~(j <= i)
  \/ /\ k \in Rendered(rules, opts) /\ k <= i
     /\ \A j \in Rendered(rules, opts) : j <= i /\ j # k => Beats(rules, opts, k, j)

\* What the loop makes of the best so far at the next rule.
NextBest(rules, opts, i, k) ==
  IF /\ i \in Rendered(rules, opts)
     /\ k = 0 \/ Prevails(rules[i], rules[k], opts)
    THEN i ELSE k

\* The positions of a list and what stands there.
LEMMA RenderedFits ==
  ASSUME NEW rules \in Seq(PolicyRule), NEW opts, NEW j \in Rendered(rules, opts)
  PROVE  /\ j \in 1..Len(rules) /\ j \in Nat /\ j # 0
         /\ rules[j] \in PolicyRule /\ rules[j].id \in Nat
         /\ StrengthOf(rules[j], opts) \in Nat
         /\ RuleOutcome(rules[j], opts).decision = "block" <=> StrengthOf(rules[j], opts) = 3
         /\ StrengthOf(rules[j], opts) <= 3
<1>1. j \in 1..Len(rules)
  BY DEF Rendered
<1>2. rules[j] \in PolicyRule
  BY <1>1
<1>3. /\ StrengthOf(rules[j], opts) \in 0..3
      /\ StrengthOf(rules[j], opts) = 3 <=> RuleOutcome(rules[j], opts).decision = "block"
  BY <1>2, StrengthFits
<1>4. rules[j].id \in Nat
  BY <1>2 DEF PolicyRule
<1>5. QED
  BY <1>1, <1>2, <1>3, <1>4

\* Prevailing in terms of strengths.
LEMMA PrevailsIs ==
  ASSUME NEW rules, NEW opts, NEW i, NEW k
  PROVE  Prevails(rules[i], rules[k], opts) <=>
           \/ StrengthOf(rules[i], opts) > StrengthOf(rules[k], opts)
           \/ StrengthOf(rules[i], opts) = StrengthOf(rules[k], opts) /\ rules[i].id < rules[k].id
BY DEF Prevails, StrengthOf

\* One turn of the loop keeps the best the best.
LEMMA BestStep ==
  ASSUME NEW rules \in Seq(PolicyRule), NEW opts, NEW i \in 1..Len(rules), NEW k,
         BestOf(rules, opts, i - 1, k)
  PROVE  BestOf(rules, opts, i, NextBest(rules, opts, i, k))
<1>1. \A j \in Rendered(rules, opts) : j \in Nat /\ (j <= i <=> j <= i - 1 \/ j = i)
  BY RenderedFits
<1>2. CASE i \notin Rendered(rules, opts)
  BY <1>1, <1>2 DEF BestOf, NextBest
<1>3. CASE i \in Rendered(rules, opts) /\ k = 0
  <2>1. \A j \in Rendered(rules, opts) : ~(j <= i - 1)
    BY <1>3, RenderedFits DEF BestOf
  <2>2. NextBest(rules, opts, i, k) = i
    BY <1>3 DEF NextBest
  <2>3. QED
    BY <1>1, <1>3, <2>1, <2>2 DEF BestOf
<1>4. CASE i \in Rendered(rules, opts) /\ k # 0
  <2>1. /\ k \in Rendered(rules, opts) /\ k <= i - 1
        /\ \A j \in Rendered(rules, opts) : j <= i - 1 /\ j # k => Beats(rules, opts, k, j)
    BY <1>4 DEF BestOf
  <2>2. k \in Nat /\ k < i /\ k <= i
    BY <2>1, RenderedFits
  <2>3. CASE Prevails(rules[i], rules[k], opts)
    <3>1. NextBest(rules, opts, i, k) = i
      BY <1>4, <2>3 DEF NextBest
    <3>2. ASSUME NEW j \in Rendered(rules, opts), j <= i, j # i
          PROVE  Beats(rules, opts, i, j)
      <4>1. j = k \/ Beats(rules, opts, k, j)
        BY <1>1, <2>1, <3>2
      <4>2. /\ StrengthOf(rules[i], opts) \in Nat /\ StrengthOf(rules[j], opts) \in Nat
            /\ StrengthOf(rules[k], opts) \in Nat
            /\ rules[i].id \in Nat /\ rules[j].id \in Nat /\ rules[k].id \in Nat
        BY <1>4, <2>1, <3>2, RenderedFits
      <4>3. \/ StrengthOf(rules[i], opts) > StrengthOf(rules[k], opts)
            \/ StrengthOf(rules[i], opts) = StrengthOf(rules[k], opts) /\ rules[i].id < rules[k].id
        BY <2>3, PrevailsIs
      <4>4. QED
        BY <4>1, <4>2, <4>3 DEF Beats
    <3>3. i <= i
      OBVIOUS
    <3>4. QED
      BY <1>4, <3>1, <3>2, <3>3 DEF BestOf
  <2>4. CASE ~Prevails(rules[i], rules[k], opts)
    <3>1. NextBest(rules, opts, i, k) = k
      BY <1>4, <2>4 DEF NextBest
    <3>2. Beats(rules, opts, k, i)
      <4>1. /\ StrengthOf(rules[i], opts) \in Nat /\ StrengthOf(rules[k], opts) \in Nat
            /\ rules[i].id \in Nat /\ rules[k].id \in Nat
        BY <1>4, <2>1, RenderedFits
      <4>2. ~\/ StrengthOf(rules[i], opts) > StrengthOf(rules[k], opts)
             \/ StrengthOf(rules[i], opts) = StrengthOf(rules[k], opts) /\ rules[i].id < rules[k].id
        BY <2>4, PrevailsIs
      <4>3. QED
        BY <2>2, <4>1, <4>2 DEF Beats
    <3>3. \A j \in Rendered(rules, opts) : j <= i /\ j # k => Beats(rules, opts, k, j)
      BY <1>1, <2>1, <3>2
    <3>4. QED
      BY <2>1, <2>2, <3>1, <3>3 DEF BestOf
  <2>5. QED
    BY <2>3, <2>4
<1>5. QED
  BY <1>2, <1>3, <1>4

\* There is one best at most.
LEMMA BestUnique ==
  ASSUME NEW rules \in Seq(PolicyRule), NEW opts, NEW i, NEW k, NEW l,
         BestOf(rules, opts, i, k), BestOf(rules, opts, i, l)
  PROVE  k = l
<1>1. CASE k = 0 \/ l = 0
  BY <1>1, RenderedFits DEF BestOf
<1>2. CASE k # 0 /\ l # 0
  <2>1. /\ k \in Rendered(rules, opts) /\ l \in Rendered(rules, opts)
        /\ k # l => Beats(rules, opts, k, l) /\ Beats(rules, opts, l, k)
    BY <1>2 DEF BestOf
  <2>2. /\ StrengthOf(rules[k], opts) \in Nat /\ StrengthOf(rules[l], opts) \in Nat
        /\ rules[k].id \in Nat /\ rules[l].id \in Nat /\ k \in Nat /\ l \in Nat
    BY <2>1, RenderedFits
  <2>3. ~(Beats(rules, opts, k, l) /\ Beats(rules, opts, l, k))
    BY <2>2 DEF Beats
  <2>4. QED
    BY <2>1, <2>3
<1>3. QED
  BY <1>1, <1>2

\* And one at least.
LEMMA BestExists ==
  ASSUME NEW rules \in Seq(PolicyRule), NEW opts
  PROVE  \A i \in 0..Len(rules) : \E k : BestOf(rules, opts, i, k)
<1> DEFINE T == {i \in 0..Len(rules) : ~\E k : BestOf(rules, opts, i, k)}
<1> SUFFICES ASSUME T # {} PROVE FALSE
  OBVIOUS
<1>1. T \subseteq Nat
  OBVIOUS
<1>2. PICK i \in T : \A j \in T : ~(j < i)
  BY <1>1, LeastOf
<1>3. BestOf(rules, opts, 0, 0)
  BY RenderedFits DEF BestOf
<1>4. i \in 1..Len(rules) /\ i - 1 \in 0..Len(rules) /\ i - 1 < i
  BY <1>2, <1>3
<1>5. PICK k : BestOf(rules, opts, i - 1, k)
  BY <1>2, <1>4
<1>6. BestOf(rules, opts, i, NextBest(rules, opts, i, k))
  BY <1>4, <1>5, BestStep
<1>7. QED
  BY <1>2, <1>6

\* The loop ends with the best of all.
LEMMA ResolveIsBest ==
  ASSUME NEW rules \in Seq(PolicyRule), NEW opts
  PROVE  BestOf(rules, opts, Len(rules), ResolveMatched(rules, opts))
<1> DEFINE n == Len(rules)
           step(f) == [i \in 0..n |->
                         IF i = 0 THEN 0
                         ELSE IF /\ i \in Rendered(rules, opts)
                                 /\ f[i - 1] = 0 \/ Prevails(rules[i], rules[f[i - 1]], opts)
                           THEN i ELSE f[i - 1]]
           w == [i \in 0..n |-> CHOOSE k : BestOf(rules, opts, i, k)]
           best == CHOOSE f : f = step(f)
<1>1. n \in Nat
  OBVIOUS
<1>2. \A i \in 0..n : BestOf(rules, opts, i, w[i])
  BY BestExists
<1>3. BestOf(rules, opts, 0, 0)
  BY RenderedFits DEF BestOf
<1>4. w = step(w)
  <2>1. ASSUME NEW i \in 0..n
        PROVE  w[i] = IF i = 0 THEN 0
                      ELSE IF /\ i \in Rendered(rules, opts)
                              /\ w[i - 1] = 0 \/ Prevails(rules[i], rules[w[i - 1]], opts)
                        THEN i ELSE w[i - 1]
    <3>1. CASE i = 0
      BY <1>1, <1>2, <1>3, <3>1, BestUnique
    <3>2. CASE i # 0
      <4>1. i \in 1..Len(rules) /\ i - 1 \in 0..n
        BY <1>1, <3>2
      <4>2. BestOf(rules, opts, i, NextBest(rules, opts, i, w[i - 1]))
        BY <1>2, <4>1, BestStep
      <4>3. w[i] = NextBest(rules, opts, i, w[i - 1])
        BY <1>2, <4>2, BestUnique
      <4> HIDE DEF w
      <4>4. QED
        BY <3>2, <4>3 DEF NextBest
    <3>3. QED
      BY <3>1, <3>2
  <2> DEFINE u == step(w)
  <2>2. \A i \in 0..n : w[i] = u[i]
    <3> HIDE DEF w
    <3>1. QED
      BY <2>1
  <2>3. w = [i \in 0..n |-> w[i]] /\ u = [i \in 0..n |-> u[i]]
    OBVIOUS
  <2> HIDE DEF w, u
  <2>4. w = u
    BY <2>2, <2>3
  <2>5. QED
    BY <2>4 DEF u
<1>5. best = step(best)
  <2> HIDE DEF w
  <2>1. QED
    BY <1>4
<1>6. best[n] = ResolveMatched(rules, opts)
  BY DEF ResolveMatched
<1> DEFINE T == {i \in 0..n : ~BestOf(rules, opts, i, best[i])}
<1>7. /\ best[0] = 0
      /\ \A i \in 1..n : best[i] = NextBest(rules, opts, i, best[i - 1])
  <2> HIDE DEF best
  <2>1. best[0] = 0
    BY <1>1, <1>5
  <2>2. ASSUME NEW i \in 1..n PROVE best[i] = NextBest(rules, opts, i, best[i - 1])
    <3>1. i \in 0..n /\ i # 0
      BY <1>1
    <3>2. QED
      BY <1>5, <3>1 DEF NextBest
  <2>3. QED
    BY <2>1, <2>2
<1> HIDE DEF best
<1>8. T = {}
  <2> SUFFICES ASSUME T # {} PROVE FALSE
    OBVIOUS
  <2>1. T \subseteq Nat
    BY <1>1
  <2>2. PICK i \in T : \A j \in T : ~(j < i)
    BY <2>1, LeastOf
  <2>3. i \in 1..n /\ i - 1 \in 0..n /\ i - 1 < i
    BY <1>1, <1>3, <1>7, <2>2
  <2>4. BestOf(rules, opts, i - 1, best[i - 1])
    BY <2>2, <2>3
  <2>5. BestOf(rules, opts, i, best[i])
    BY <1>7, <2>3, <2>4, BestStep
  <2>6. QED
    BY <2>2, <2>5
<1>9. n \in 0..n
  BY <1>1
<1>10. QED
  BY <1>6, <1>8, <1>9

\* Under deny_wins the rule that decides is one that rendered, and none that rendered
\* prevails over it: a stronger rule anywhere in the list would have decided.
THEOREM StrongestDecides ==
  ASSUME NEW rules \in Seq(PolicyRule), NEW opts, Rendered(rules, opts) # {}
  PROVE  /\ ResolveMatched(rules, opts) \in Rendered(rules, opts)
         /\ \A i \in Rendered(rules, opts) :
              ~Prevails(rules[i], rules[ResolveMatched(rules, opts)], opts)
<1>1. PICK k : k = ResolveMatched(rules, opts)
  OBVIOUS
<1>2. BestOf(rules, opts, Len(rules), k)
  BY <1>1, ResolveIsBest
<1>3. PICK j \in Rendered(rules, opts) : TRUE
  OBVIOUS
<1>4. \A i \in Rendered(rules, opts) : i <= Len(rules) /\ i # 0
  BY RenderedFits
<1>5. /\ k \in Rendered(rules, opts)
      /\ \A i \in Rendered(rules, opts) : i # k => Beats(rules, opts, k, i)
  BY <1>2, <1>3, <1>4 DEF BestOf
<1>6. ASSUME NEW i \in Rendered(rules, opts)
      PROVE  ~Prevails(rules[i], rules[k], opts)
  <2>1. /\ StrengthOf(rules[k], opts) \in Nat /\ StrengthOf(rules[i], opts) \in Nat
        /\ rules[k].id \in Nat /\ rules[i].id \in Nat
    BY <1>5, RenderedFits
  <2>2. i = k \/ Beats(rules, opts, k, i)
    BY <1>5
  <2>3. ~\/ StrengthOf(rules[i], opts) > StrengthOf(rules[k], opts)
         \/ StrengthOf(rules[i], opts) = StrengthOf(rules[k], opts) /\ rules[i].id < rules[k].id
    BY <2>1, <2>2 DEF Beats
  <2>4. QED
    BY <2>3, PrevailsIs
<1>7. QED
  BY <1>1, <1>5, <1>6

\* Under deny_wins one rule that refuses is enough.
LEMMA RefusalDecides ==
  ASSUME NEW rules \in Seq(PolicyRule), NEW opts, opts.denyWins, SomeRuleRefuses(rules, opts)
  PROVE  EvaluatePolicyRules(rules, opts).decision = "block"
<1>1. PICK i \in Rendered(rules, opts) : RuleOutcome(rules[i], opts).decision = "block"
  BY DEF SomeRuleRefuses
<1>2. PICK k : k = ResolveMatched(rules, opts)
  OBVIOUS
<1>3. k \in Rendered(rules, opts) /\ ~Prevails(rules[i], rules[k], opts)
  BY <1>2, StrongestDecides
<1>4. /\ StrengthOf(rules[i], opts) = 3 /\ StrengthOf(rules[k], opts) \in Nat
      /\ StrengthOf(rules[k], opts) <= 3
  BY <1>1, <1>3, RenderedFits
<1>5. ~(StrengthOf(rules[i], opts) > StrengthOf(rules[k], opts))
  BY <1>3, PrevailsIs
<1>6. StrengthOf(rules[k], opts) = 3
  BY <1>4, <1>5
<1>7. RuleOutcome(rules[k], opts).decision = "block"
  BY <1>3, <1>6, RenderedFits
<1>8. QED
  BY <1>2, <1>3, <1>7 DEF EvaluatePolicyRules

\* "Every permutation of the same rule list resolves to the same verdict" (rules.ts):
\* two lists of the same rules, no two of which share an id, come to the same outcome
\* under deny_wins.
THEOREM VerdictIgnoresOrder ==
  ASSUME NEW rules \in Seq(PolicyRule), NEW others \in Seq(PolicyRule), NEW opts, opts.denyWins,
         {rules[i] : i \in DOMAIN rules} = {others[i] : i \in DOMAIN others},
         \A i, j \in DOMAIN rules : rules[i].id = rules[j].id => rules[i] = rules[j]
  PROVE  EvaluatePolicyRules(rules, opts) = EvaluatePolicyRules(others, opts)
<1>1. ASSUME NEW i \in Rendered(rules, opts)
      PROVE  \E j \in Rendered(others, opts) : others[j] = rules[i]
  <2>1. i \in DOMAIN rules /\ Renders(rules[i], opts)
    BY DEF Rendered
  <2>2. PICK j \in DOMAIN others : others[j] = rules[i]
    BY <2>1
  <2>3. j \in Rendered(others, opts)
    BY <2>1, <2>2 DEF Rendered
  <2>4. QED
    BY <2>2, <2>3
<1>2. ASSUME NEW j \in Rendered(others, opts)
      PROVE  \E i \in Rendered(rules, opts) : rules[i] = others[j]
  <2>1. j \in DOMAIN others /\ Renders(others[j], opts)
    BY DEF Rendered
  <2>2. PICK i \in DOMAIN rules : rules[i] = others[j]
    BY <2>1
  <2>3. i \in Rendered(rules, opts)
    BY <2>1, <2>2 DEF Rendered
  <2>4. QED
    BY <2>2, <2>3
<1>3. CASE Rendered(rules, opts) = {}
  BY <1>2, <1>3 DEF EvaluatePolicyRules
<1>4. CASE Rendered(rules, opts) # {}
  <2>1. Rendered(others, opts) # {}
    BY <1>1, <1>4
  <2>2. PICK k, l : k = ResolveMatched(rules, opts) /\ l = ResolveMatched(others, opts)
    OBVIOUS
  <2>3. /\ k \in Rendered(rules, opts)
        /\ \A i \in Rendered(rules, opts) : ~Prevails(rules[i], rules[k], opts)
    BY <1>4, <2>2, StrongestDecides
  <2>4. /\ l \in Rendered(others, opts)
        /\ \A j \in Rendered(others, opts) : ~Prevails(others[j], others[l], opts)
    BY <2>1, <2>2, StrongestDecides
  <2>5. PICK m \in Rendered(rules, opts) : rules[m] = others[l]
    BY <1>2, <2>4
  <2>6. ~Prevails(rules[m], rules[k], opts) /\ ~Prevails(rules[k], rules[m], opts)
    BY <1>1, <2>3, <2>4, <2>5
  <2>7. /\ StrengthOf(rules[k], opts) \in Nat /\ StrengthOf(rules[m], opts) \in Nat
        /\ rules[k].id \in Nat /\ rules[m].id \in Nat
    BY <2>3, <2>5, RenderedFits
  <2>8.  /\ ~\/ StrengthOf(rules[m], opts) > StrengthOf(rules[k], opts)
             \/ StrengthOf(rules[m], opts) = StrengthOf(rules[k], opts) /\ rules[m].id < rules[k].id
         /\ ~\/ StrengthOf(rules[k], opts) > StrengthOf(rules[m], opts)
             \/ StrengthOf(rules[k], opts) = StrengthOf(rules[m], opts) /\ rules[k].id < rules[m].id
    BY <2>6, PrevailsIs
  <2>9. rules[k].id = rules[m].id
    BY <2>7, <2>8
  <2>10. rules[k] = others[l]
    BY <2>3, <2>5, <2>9 DEF Rendered
  <2>11. QED
    BY <1>4, <2>1, <2>2, <2>10 DEF EvaluatePolicyRules
<1>5. QED
  BY <1>3, <1>4

----------------------------------------------------------------------------
(* The invariant of calls.                                                 *)

EarlyPlaces == {"gate", "session_taint", "canary", "builtin_pii_scan",
                "multi_turn_injection", "policy_floor", "policy_rules"}
RuledPlaces == {"holding", "hook"}
HookedPlaces == {"external_backend", "conclude"}
CarryPlaces == {"anonymizer", "caller"}
WrapPlaces == {"value", "streaming", "drained", "post_hook", "post_stream_hook"}
PythonPlaces == {"py_answered", "py_streaming", "py_manager", "py_post_hook"}
OutPlaces == WrapPlaces \cup PythonPlaces \cup {"building"}
BuiltPlaces == {"post_hook", "post_stream_hook", "py_post_hook"}
Places == EarlyPlaces \cup RuledPlaces \cup HookedPlaces \cup CarryPlaces \cup OutPlaces
          \cup {"sent", "done"}

Calls ==
  [surface : {"wrap", "integration", "evaluate", "python"}, at : Places,
   action : Actions, reason : Reasons, marks : SUBSET Marks, refusals : SUBSET Layers,
   outbound : {"raw", "redacted", "partial"},
   event : {"none", "blocked", "error", "completed"},
   told : Actions \cup {"none", "would_block"},
   truth : SUBSET Findings, stored : StoredCopies]

\* No event yet, and no answer.
Untold(c) == c.event = "none" /\ c.told = "none"
NoAnswer(c) == c.truth = {} /\ c.stored = "none"

\* A wrapped client redacts as the layers decide, the others when they send.
OutboundFits(c) ==
  IF c.surface = "wrap"
    THEN /\ c.action = "redacted" => c.outbound = "redacted"
         /\ c.outbound = "partial" => Blocked(c) \/ Has(c, "converted")
    ELSE c.outbound = "raw"

\* A rule that refuses under deny_wins refuses the call, unless an approval lifts it.
RuleStands(c) == Has(c, "ruledOut") => "policy_rules" \in c.refusals \/ Has(c, "approved")

\* Up to the rules: whatever refused the call, the call is blocked.
EarlyFits(c) ==
  /\ c.refusals # {} => Blocked(c)
  /\ Has(c, "canary") => Blocked(c)
  /\ Has(c, "floor") => Blocked(c)
  /\ Has(c, "degraded") => Blocked(c)
  /\ c.marks \cap {"weakened", "converted", "abandoned", "failedClosed", "failureSeen", "claim",
                   "ruledOut", "audited", "unrecorded", "unscanned"} = {}
  /\ OutboundFits(c)
  /\ c.surface = "evaluate" => c.action # "redacted"

\* Behind the rules: the same, and a layer that failed closed blocks.
RuledFits(c) ==
  /\ c.refusals # {} => Blocked(c)
  /\ Has(c, "canary") => Blocked(c)
  /\ Has(c, "floor") => Blocked(c)
  /\ Has(c, "degraded") => Blocked(c)
  /\ Has(c, "failedClosed") => Blocked(c)
  /\ c.marks \cap {"weakened", "converted", "abandoned", "audited", "unrecorded", "unscanned"} = {}
  /\ OutboundFits(c)
  /\ c.surface = "evaluate" => c.action # "redacted"

\* Behind the hook: a redaction may have taken the place of a refusal.
HookedFits(c) ==
  /\ RuleStands(c)
  /\ c.refusals # {} => Blocked(c) \/ Has(c, "weakened")
  /\ Has(c, "canary") => Blocked(c)
  /\ Has(c, "floor") => Blocked(c)
  /\ Has(c, "degraded") => Blocked(c)
  /\ Has(c, "failedClosed") => Blocked(c) \/ Has(c, "weakened")
  /\ Has(c, "weakened") => Blocked(c) \/ c.action = "redacted"
  /\ c.marks \cap {"converted", "abandoned", "audited", "unrecorded", "unscanned"} = {}
  /\ OutboundFits(c)
  /\ c.surface = "evaluate" => c.action # "redacted"

\* A guard that failed open over a refusal of the gate or the principal.
GivenUp(c) ==
  /\ Has(c, "abandoned")
  /\ ~config.failClosed
  /\ c.surface \in {"integration", "python"}
  /\ c.refusals \subseteq {"gate", "principal"}

\* Behind the conclusion: a refusal blocks, or it was converted, replaced or given up.
ConcludedFits(c) ==
  /\ RuleStands(c)
  /\ c.refusals # {} =>
       Blocked(c) \/ Has(c, "weakened") \/ (config.monitor /\ Has(c, "converted")) \/ GivenUp(c)
  /\ Has(c, "canary") => Blocked(c)
  /\ Has(c, "floor") => Blocked(c) \/ Has(c, "converted")
  /\ Has(c, "degraded") => Blocked(c) \/ Has(c, "abandoned")
  /\ Has(c, "failedClosed") => Blocked(c) \/ Has(c, "weakened")
  /\ Has(c, "weakened") => Blocked(c) \/ c.action = "redacted" \/ Has(c, "converted")
  /\ Has(c, "converted") => config.monitor /\ c.action = "allowed"
  /\ Has(c, "abandoned") => Has(c, "failureSeen")
  /\ c.marks \cap {"audited", "unrecorded", "unscanned"} = {}
  /\ OutboundFits(c)
  /\ c.surface = "evaluate" => c.action # "redacted"

\* What the conclusion saw of the environment still holds: no await has passed.
Timely(c) ==
  /\ Has(c, "converted") => ~gate
  /\ Has(c, "claim") /\ ~Blocked(c) /\ c.action # "redacted" => granted \/ Has(c, "converted")

\* A call that leaves no event has nothing to tell, or is one of the exceptions.
Quiet(c) ==
  \/ /\ c.action = "allowed" /\ c.refusals = {} /\ ~Has(c, "failureSeen")
     /\ c.surface = "python" => c.reason = "none"
  \/ /\ c.surface = "integration"
     /\ ~Blocked(c) /\ c.action # "redacted"
     /\ Has(c, "failureSeen") \/ c.action # "allowed"
  \/ c.surface = "evaluate" /\ Has(c, "failureSeen")

\* The event tells the verdict.
TellsVerdict(c) ==
  c.event # "none" =>
    \/ c.told = IF Has(c, "converted") THEN "would_block" ELSE c.action
    \/ c.surface = "python" /\ Has(c, "unscanned")

\* At the provider.
SentFits(c) ==
  /\ RuleStands(c)
  /\ c.refusals # {} =>
       (config.monitor /\ Has(c, "converted")) \/ Has(c, "weakened") \/ GivenUp(c)
  /\ c.action = "redacted" => c.outbound = "redacted"
  /\ c.outbound = "partial" => Has(c, "converted")
  /\ c.surface # "evaluate" => Untold(c)
  /\ TellsVerdict(c)
  /\ c.surface # "evaluate" /\ ~Has(c, "audited") => Quiet(c)

\* What is sent may be sent, by what the environment is at this moment.
SendHolds(c) ==
  /\ ~Has(c, "canary")
  /\ Has(c, "failedClosed") => Has(c, "weakened")
  /\ Has(c, "floor") => Has(c, "converted")
  /\ Has(c, "converted") => ~gate
  /\ Has(c, "degraded") => Has(c, "abandoned")
  /\ Has(c, "claim") /\ c.surface # "evaluate" /\ c.action # "redacted" =>
       granted \/ Has(c, "converted")

\* The copy the nets leave of an answer.
Withheld(c) == c.stored \in {"placeholder", "unscanned"}
CopyGoverned(c, kind) ==
  /\ "canary" \in c.truth => Withheld(c)
  /\ "pii" \in c.truth /\ c.surface = "python" => c.stored # "raw"
  /\ kind = "completed" /\ ~Has(c, "unscanned") =>
       /\ "floor" \in c.truth /\ c.surface \in {"wrap", "python"} => Withheld(c)
       /\ "pii" \in c.truth => c.stored # "raw"
       /\ "view" \in c.truth => Withheld(c)

\* What is to be looked at by the post-call policy.
BuiltFits(c) ==
  /\ "view" \in c.truth => "pii" \in c.truth
  /\ c.at = "post_stream_hook" => c.stored = "raw"
  /\ c.at = "post_hook" => c.stored = "raw" \/ Withheld(c)
  /\ c.at # "post_stream_hook" /\ "canary" \in c.truth => Withheld(c)
  /\ c.at = "py_post_hook" =>
       /\ "pii" \in c.truth => c.stored # "raw"
       /\ "view" \in c.truth => Withheld(c)

\* Settled.
DoneFits(c) ==
  /\ TellsVerdict(c)
  /\ c.event = "none" /\ ~Has(c, "unrecorded") => Quiet(c)
  /\ c.event \in {"error", "completed"} /\ c.surface # "evaluate" => CopyGoverned(c, c.event)

\* What holds of a call, by its place.
Fits(c) ==
  /\ c \in Calls
  /\ c.at \notin {"sent", "done"} => Untold(c)
  /\ c.at \notin BuiltPlaces \cup {"done"} => NoAnswer(c)
  /\ c.at \in EarlyPlaces => EarlyFits(c)
  /\ c.at = "gate" => c.marks = {} /\ c.refusals = {} /\ c.action = "allowed"
  /\ c.at = "session_taint" => c.refusals \subseteq {"gate", "principal"} /\ c.marks \subseteq {"degraded"}
  /\ c.at \in RuledPlaces => RuledFits(c)
  /\ c.at = "hook" => RuleStands(c)
  /\ c.at \in HookedPlaces => HookedFits(c)
  /\ c.at \in CarryPlaces => ConcludedFits(c)
  /\ c.at = "anonymizer" => c.action = "redacted"
  /\ c.at = "caller" => Timely(c)
  /\ c.at = "sent" => SentFits(c)
  /\ c.at \in OutPlaces /\ ~Has(c, "audited") => Quiet(c)
  /\ c.at \in WrapPlaces => c.surface = "wrap"
  /\ c.at \in PythonPlaces => c.surface = "python"
  /\ c.at = "building" => c.surface = "integration"
  /\ c.at \in BuiltPlaces => BuiltFits(c)
  /\ c.at = "done" => DoneFits(c)

CallInv ==
  /\ config \in [failClosed : BOOLEAN, monitor : BOOLEAN]
  /\ gate \in BOOLEAN
  /\ granted \in BOOLEAN
  /\ Fits(call)

----------------------------------------------------------------------------
(* What the operators on calls do to the fields.                           *)

\* The same call at the same place with the same event and answer: only its
\* verdict may differ.
Same(d, c) ==
  /\ d \in Calls
  /\ d.surface = c.surface /\ d.at = c.at /\ d.event = c.event /\ d.told = c.told
  /\ d.truth = c.truth /\ d.stored = c.stored

\* The verdict of d in terms of that of c.
HasVerdict(d, action, reason, marks, refusals, outbound) ==
  /\ d.action = action /\ d.reason = reason /\ d.marks = marks
  /\ d.refusals = refusals /\ d.outbound = outbound

\* The verdict, event and answer are those of c.
Kept(d, c) == HasVerdict(d, c.action, c.reason, c.marks, c.refusals, c.outbound)
KeptRecord(d, c) == d.event = c.event /\ d.told = c.told /\ d.truth = c.truth /\ d.stored = c.stored

\* A refusal.
LEMMA BlockFields ==
  ASSUME NEW c \in Calls, NEW layer \in Layers
  PROVE  /\ Same(Block(c, layer), c)
         /\ HasVerdict(Block(c, layer), "blocked", "policy_violation", c.marks, c.refusals \cup {layer},
                    c.outbound)
<1>1. PICK a : a = [c EXCEPT !.action = "blocked"]
  OBVIOUS
<1>2. PICK b : b = [a EXCEPT !.reason = "policy_violation"]
  OBVIOUS
<1>3. PICK d : d = [b EXCEPT !.refusals = @ \cup {layer}]
  OBVIOUS
<1>4. Same(a, c) /\ HasVerdict(a, "blocked", c.reason, c.marks, c.refusals, c.outbound)
  BY <1>1 DEF Calls, Same, HasVerdict, Actions
<1>5. Same(b, c) /\ HasVerdict(b, "blocked", "policy_violation", c.marks, c.refusals, c.outbound)
  BY <1>2, <1>4 DEF Calls, Same, HasVerdict, Reasons
<1>6. Same(d, c) /\ HasVerdict(d, "blocked", "policy_violation", c.marks, c.refusals \cup {layer}, c.outbound)
  BY <1>3, <1>5 DEF Calls, Same, HasVerdict
<1>7. Block(c, layer) = d
  BY <1>1, <1>2, <1>3 DEF Calls, Block
<1>8. QED
  BY <1>6, <1>7

\* A mark.
LEMMA WithFields ==
  ASSUME NEW c \in Calls, NEW mark \in Marks
  PROVE  /\ Same(With(c, mark), c)
         /\ HasVerdict(With(c, mark), c.action, c.reason, c.marks \cup {mark}, c.refusals, c.outbound)
BY DEF Calls, With, Same, HasVerdict, Marks

\* A move.
LEMMA AtFields ==
  ASSUME NEW c \in Calls, NEW place \in Places
  PROVE  /\ At(c, place) \in Calls
         /\ At(c, place).at = place /\ At(c, place).surface = c.surface
         /\ Kept(At(c, place), c) /\ KeptRecord(At(c, place), c)
BY DEF Calls, At, Kept, HasVerdict, KeptRecord

\* An action.
LEMMA ActionFields ==
  ASSUME NEW c \in Calls, NEW action \in Actions
  PROVE  /\ Same([c EXCEPT !.action = action], c)
         /\ HasVerdict([c EXCEPT !.action = action], action, c.reason, c.marks, c.refusals, c.outbound)
BY DEF Calls, Same, HasVerdict

\* An action with its reason.
LEMMA ReasonFields ==
  ASSUME NEW c \in Calls, NEW action \in Actions, NEW reason \in Reasons
  PROVE  /\ Same([c EXCEPT !.action = action, !.reason = reason], c)
         /\ HasVerdict([c EXCEPT !.action = action, !.reason = reason], action, reason, c.marks,
                    c.refusals, c.outbound)
BY DEF Calls, Same, HasVerdict

\* A reason alone.
LEMMA OnlyReasonFields ==
  ASSUME NEW c \in Calls, NEW reason \in Reasons
  PROVE  /\ Same([c EXCEPT !.reason = reason], c)
         /\ HasVerdict([c EXCEPT !.reason = reason], c.action, reason, c.marks, c.refusals, c.outbound)
BY DEF Calls, Same, HasVerdict

\* What goes out.
LEMMA OutboundFields ==
  ASSUME NEW c \in Calls, NEW outbound \in {"raw", "redacted", "partial"}
  PROVE  /\ Same([c EXCEPT !.outbound = outbound], c)
         /\ HasVerdict([c EXCEPT !.outbound = outbound], c.action, c.reason, c.marks, c.refusals, outbound)
BY DEF Calls, Same, HasVerdict

\* What the record says.
LEMMA RecordFields ==
  ASSUME NEW c \in Calls, NEW kind \in {"blocked", "error", "completed"}
  PROVE  /\ Record(c, kind) \in Calls /\ Record(c, kind).surface = c.surface
         /\ Kept(Record(c, kind), c) /\ Record(c, kind).event = kind
         /\ Record(c, kind).told = IF Has(c, "converted") THEN "would_block" ELSE c.action
         /\ Record(c, kind).truth = c.truth /\ Record(c, kind).stored = c.stored
BY DEF Record, Told, Calls, Kept, HasVerdict, Actions

\* The event.
LEMMA EventFields ==
  ASSUME NEW c \in Calls, NEW kind \in {"blocked", "error", "completed"}
  PROVE  /\ Event(c, kind) \in Calls
         /\ Event(c, kind).at = "done" /\ Event(c, kind).surface = c.surface
         /\ Kept(Event(c, kind), c)
         /\ Event(c, kind).event = kind
         /\ Event(c, kind).told = IF Has(c, "converted") THEN "would_block" ELSE c.action
         /\ Event(c, kind).truth = c.truth /\ Event(c, kind).stored = c.stored
BY RecordFields, AtFields DEF Event, Kept, HasVerdict, KeptRecord, Places

\* A finding of the scan.
LEMMA FoundFields ==
  ASSUME NEW c \in Calls, NEW via \in BOOLEAN
  PROVE  /\ Same(Found(c, via), c)
         /\ \E marks \in SUBSET Marks :
              /\ marks \in {c.marks, c.marks \cup {"via"}}
              /\ HasVerdict(Found(c, via), c.action, "pii_detected", marks, c.refusals, c.outbound)
<1>1. PICK marks \in SUBSET Marks : marks = IF via THEN c.marks \cup {"via"} ELSE c.marks
  BY DEF Calls, Marks
<1>2. Found(c, via) = [c EXCEPT !.reason = "pii_detected", !.marks = marks]
  BY <1>1 DEF Found, Calls
<1>3. QED
  BY <1>1, <1>2 DEF Calls, Same, HasVerdict, Reasons

\* A block of the scan.
LEMMA PiiBlockFields ==
  ASSUME NEW c \in Calls
  PROVE  /\ Same(PiiBlock(c), c)
         /\ HasVerdict(PiiBlock(c), "blocked", "pii_detected", c.marks, c.refusals \cup {"builtin_pii_scan"},
                    c.outbound)
<1>1. PICK b : b = Block(c, "builtin_pii_scan")
  OBVIOUS
<1>2. /\ Same(b, c)
      /\ HasVerdict(b, "blocked", "policy_violation", c.marks, c.refusals \cup {"builtin_pii_scan"}, c.outbound)
  BY <1>1, BlockFields DEF Layers
<1>3. b \in Calls /\ "pii_detected" \in Reasons
  BY <1>2 DEF Same, Reasons
<1>4. PICK d : d = [b EXCEPT !.reason = "pii_detected"]
  OBVIOUS
<1>5. Same(d, b) /\ HasVerdict(d, b.action, "pii_detected", b.marks, b.refusals, b.outbound)
  BY <1>3, <1>4, OnlyReasonFields
<1>6. PiiBlock(c) = d
  BY <1>1, <1>4 DEF PiiBlock
<1>7. QED
  BY <1>2, <1>5, <1>6 DEF Same, HasVerdict

\* A redaction that fails blocks the call.
LEMMA RedactionFailsFields ==
  ASSUME NEW c \in Calls
  PROVE  /\ Same(RedactionFails(c), c)
         /\ HasVerdict(RedactionFails(c), "blocked", "policy_violation", c.marks,
                    c.refusals \cup {"redaction"}, "partial")
<1>1. PICK b : b = Block(c, "redaction")
  OBVIOUS
<1>2. /\ Same(b, c)
      /\ HasVerdict(b, "blocked", "policy_violation", c.marks, c.refusals \cup {"redaction"}, c.outbound)
  BY <1>1, BlockFields DEF Layers
<1>3. b \in Calls
  BY <1>2 DEF Same
<1>4. PICK e : e = [b EXCEPT !.outbound = "partial"]
  OBVIOUS
<1>5. Same(e, b) /\ HasVerdict(e, b.action, b.reason, b.marks, b.refusals, "partial")
  BY <1>3, <1>4, OutboundFields
<1>6. RedactionFails(c) = e
  BY <1>1, <1>4 DEF RedactionFails
<1>7. QED
  BY <1>2, <1>5, <1>6 DEF Same, HasVerdict

\* A redaction takes, or it blocks the call.
LEMMA RedactionFields ==
  ASSUME NEW c \in Calls, NEW d \in ApplyRedaction(c)
  PROVE  /\ Same(d, c)
         /\ \/ HasVerdict(d, c.action, c.reason, c.marks, c.refusals, "redacted")
            \/ HasVerdict(d, "blocked", "policy_violation", c.marks, c.refusals \cup {"redaction"}, "partial")
BY OutboundFields, RedactionFailsFields DEF ApplyRedaction

----------------------------------------------------------------------------
(* The layers up to the rules.                                             *)

\* A refusal, whichever layer it is of.
LEMMA EarlyBlock ==
  ASSUME NEW c \in Calls, NEW layer \in Layers, EarlyFits(c)
  PROVE  EarlyFits(Block(c, layer)) /\ Same(Block(c, layer), c) /\ Blocked(Block(c, layer))
BY BlockFields DEF EarlyFits, Same, HasVerdict, Blocked, Has, OutboundFits

\* A layer that may refuse.
LEMMA EarlyRefusal ==
  ASSUME NEW c \in Calls, NEW layer \in Layers, EarlyFits(c), NEW d \in MayRefuse(c, layer)
  PROVE  EarlyFits(d) /\ Same(d, c) /\ d.refusals \subseteq c.refusals \cup {layer} /\ d.marks = c.marks
<1>1. Same(c, c)
  BY DEF Same
<1>2. Block(c, layer).refusals = c.refusals \cup {layer} /\ Block(c, layer).marks = c.marks
  BY BlockFields DEF HasVerdict
<1>3. d = c \/ d = Block(c, layer)
  BY DEF MayRefuse
<1>4. QED
  BY <1>1, <1>2, <1>3, EarlyBlock

\* A refusal that marks the call as one that stays blocked.
LEMMA EarlyMarkedBlock ==
  ASSUME NEW c \in Calls, NEW layer \in Layers, EarlyFits(c),
         NEW mark \in {"degraded", "canary", "floor"}
  PROVE  /\ EarlyFits(With(Block(c, layer), mark)) /\ Same(With(Block(c, layer), mark), c)
         /\ With(Block(c, layer), mark).refusals = c.refusals \cup {layer}
         /\ With(Block(c, layer), mark).marks = c.marks \cup {mark}
<1>1. PICK b : b = Block(c, layer)
  OBVIOUS
<1>2. /\ EarlyFits(b) /\ Same(b, c) /\ Blocked(b) /\ b \in Calls
      /\ b.refusals = c.refusals \cup {layer} /\ b.marks = c.marks
  BY <1>1, EarlyBlock, BlockFields DEF Same, HasVerdict
<1>3. PICK d : d = With(b, mark)
  OBVIOUS
<1>4. Same(d, b) /\ HasVerdict(d, b.action, b.reason, b.marks \cup {mark}, b.refusals, b.outbound)
  BY <1>2, <1>3, WithFields DEF Marks
<1>5. Same(d, c) /\ d.refusals = c.refusals \cup {layer} /\ d.marks = c.marks \cup {mark} /\ Blocked(d)
  BY <1>2, <1>4 DEF Same, HasVerdict, Blocked
<1>6. EarlyFits(d)
  BY <1>2, <1>4, <1>5 DEF EarlyFits, Same, HasVerdict, Blocked, Has, OutboundFits
<1>7. QED
  BY <1>1, <1>3, <1>5, <1>6

\* The integrity gate.
LEMMA EarlyGate ==
  ASSUME NEW c \in Calls, EarlyFits(c)
  PROVE  /\ EarlyFits(IntegrityGate(c)) /\ Same(IntegrityGate(c), c)
         /\ IntegrityGate(c).refusals \subseteq c.refusals \cup {"gate"}
         /\ IntegrityGate(c).marks \subseteq c.marks \cup {"degraded"}
BY EarlyMarkedBlock DEF IntegrityGate, Same, Layers

\* A canary.
LEMMA EarlyCanary ==
  ASSUME NEW c \in Calls, EarlyFits(c), NEW d \in Canary(c)
  PROVE  EarlyFits(d) /\ Same(d, c)
BY EarlyMarkedBlock DEF Canary, Same, Layers

\* The floor.
LEMMA EarlyFloor ==
  ASSUME NEW c \in Calls, EarlyFits(c), NEW d \in Floor(c)
  PROVE  EarlyFits(d) /\ Same(d, c)
<1>1. d = c \/ d = With(Block(c, "policy_floor"), "floor")
  BY DEF Floor
<1>2. QED
  BY <1>1, EarlyMarkedBlock DEF Same, Layers

\* A finding of the scan.
LEMMA EarlyFound ==
  ASSUME NEW c \in Calls, EarlyFits(c), NEW via \in BOOLEAN
  PROVE  EarlyFits(Found(c, via)) /\ Same(Found(c, via), c)
<1>1. PICK d : d = Found(c, via)
  OBVIOUS
<1>2. PICK marks : /\ marks \in {c.marks, c.marks \cup {"via"}}
                   /\ HasVerdict(d, c.action, "pii_detected", marks, c.refusals, c.outbound)
  BY <1>1, FoundFields
<1>3. Same(d, c)
  BY <1>1, FoundFields
<1>4. EarlyFits(d)
  BY <1>2, <1>3 DEF EarlyFits, Same, HasVerdict, Blocked, Has, OutboundFits
<1>5. QED
  BY <1>1, <1>3, <1>4

\* A block of the scan.
LEMMA EarlyPiiBlock ==
  ASSUME NEW c \in Calls, EarlyFits(c)
  PROVE  EarlyFits(PiiBlock(c)) /\ Same(PiiBlock(c), c)
BY PiiBlockFields DEF EarlyFits, Same, HasVerdict, Blocked, Has, OutboundFits

\* A redaction applied as it is decided.
LEMMA EarlyRedaction ==
  ASSUME NEW c \in Calls, EarlyFits(c), c.surface = "wrap", ~Blocked(c), NEW d \in ApplyRedaction(c)
  PROVE  EarlyFits(d) /\ Same(d, c)
<1>1. /\ Same(d, c)
      /\ \/ HasVerdict(d, c.action, c.reason, c.marks, c.refusals, "redacted")
         \/ HasVerdict(d, "blocked", "policy_violation", c.marks, c.refusals \cup {"redaction"}, "partial")
  BY RedactionFields
<1>2. QED
  BY <1>1 DEF EarlyFits, Same, HasVerdict, Blocked, Has, OutboundFits

\* An action that is no block and fits what goes out.
LEMMA EarlyAction ==
  ASSUME NEW c \in Calls, EarlyFits(c), ~Blocked(c), c.surface # "evaluate",
         c.surface = "wrap" => c.outbound = "redacted"
  PROVE  /\ EarlyFits([c EXCEPT !.action = "redacted"]) /\ Same([c EXCEPT !.action = "redacted"], c)
<1>1. PICK d : d = [c EXCEPT !.action = "redacted"]
  OBVIOUS
<1>2. Same(d, c) /\ HasVerdict(d, "redacted", c.reason, c.marks, c.refusals, c.outbound)
  BY <1>1, ActionFields DEF Actions
<1>3. EarlyFits(d)
  BY <1>2 DEF EarlyFits, Same, HasVerdict, Blocked, Has, OutboundFits
<1>4. QED
  BY <1>1, <1>2, <1>3

\* The scan of a wrapped client, which redacts at once.
LEMMA EarlyWrapScan ==
  ASSUME NEW c \in Calls, EarlyFits(c), c.surface = "wrap", NEW d \in WrapScan(c)
  PROVE  EarlyFits(d) /\ Same(d, c)
<1>1. CASE d = c
  BY <1>1 DEF Same
<1>2. ASSUME d # c, NEW via \in BOOLEAN
      PROVE  /\ d = PiiBlock(Found(c, via)) => EarlyFits(d) /\ Same(d, c)
             /\ d = Found(c, via) => EarlyFits(d) /\ Same(d, c)
             /\ \A e \in ApplyRedaction(Found(c, via)) :
                  d = (IF e.outbound = "redacted" THEN [e EXCEPT !.action = "redacted"] ELSE e) =>
                    EarlyFits(d) /\ Same(d, c)
  <2>1. PICK f : f = Found(c, via)
    OBVIOUS
  <2>2. EarlyFits(f) /\ Same(f, c) /\ f \in Calls /\ f.surface = "wrap"
    BY <2>1, EarlyFound DEF Same
  <2>3. ~Blocked(c)
    BY <1>2 DEF WrapScan
  <2>4. ~Blocked(f)
    BY <2>1, <2>3, FoundFields DEF HasVerdict, Blocked
  <2>5. ASSUME d = PiiBlock(f) PROVE EarlyFits(d) /\ Same(d, c)
    BY <2>2, <2>5, EarlyPiiBlock DEF Same
  <2>6. ASSUME NEW e \in ApplyRedaction(f),
               d = IF e.outbound = "redacted" THEN [e EXCEPT !.action = "redacted"] ELSE e
        PROVE  EarlyFits(d) /\ Same(d, c)
    <3>1. EarlyFits(e) /\ Same(e, f)
      BY <2>2, <2>4, EarlyRedaction
    <3>2. e \in Calls /\ e.surface = "wrap"
      BY <2>2, <3>1 DEF Same
    <3>3. e.outbound = "redacted" => ~Blocked(e)
      BY <2>2, <2>4, RedactionFields DEF HasVerdict, Blocked
    <3>4. CASE e.outbound = "redacted"
      BY <2>2, <2>6, <3>1, <3>2, <3>3, <3>4, EarlyAction DEF Same
    <3>5. CASE e.outbound # "redacted"
      BY <2>2, <2>6, <3>1, <3>5 DEF Same
    <3>6. QED
      BY <3>4, <3>5
  <2>7. QED
    BY <2>1, <2>2, <2>5, <2>6
<1>3. ASSUME d # c
      PROVE  \E via \in BOOLEAN :
               \/ d = PiiBlock(Found(c, via)) \/ d = Found(c, via)
               \/ \E e \in ApplyRedaction(Found(c, via)) :
                    d = IF e.outbound = "redacted" THEN [e EXCEPT !.action = "redacted"] ELSE e
  BY <1>3 DEF WrapScan, ScanVerdicts
<1>4. QED
  BY <1>1, <1>2, <1>3

\* The scan of an integration and of the Python SDK, which only decides.
LEMMA EarlyIntegrationScan ==
  ASSUME NEW c \in Calls, EarlyFits(c), c.surface \in {"integration", "python"},
         NEW d \in IntegrationScan(c)
  PROVE  EarlyFits(d) /\ Same(d, c)
<1>1. CASE d = c
  BY <1>1 DEF Same
<1>2. ASSUME d # c
      PROVE  ~Blocked(c) /\ \E via \in BOOLEAN :
               \/ d = PiiBlock(Found(c, via)) \/ d = Found(c, via)
               \/ d = [Found(c, via) EXCEPT !.action = "redacted"]
  BY <1>2 DEF IntegrationScan, ScanVerdicts
<1>3. ASSUME NEW via \in BOOLEAN, ~Blocked(c), NEW f, f = Found(c, via),
             d = PiiBlock(f) \/ d = f \/ d = [f EXCEPT !.action = "redacted"]
      PROVE  EarlyFits(d) /\ Same(d, c)
  <2>1. EarlyFits(f) /\ Same(f, c) /\ f \in Calls /\ f.surface = c.surface
    BY <1>3, EarlyFound DEF Same
  <2>2. ~Blocked(f)
    BY <1>3, FoundFields DEF HasVerdict, Blocked
  <2>3. CASE d = PiiBlock(f)
    BY <2>1, <2>3, EarlyPiiBlock DEF Same
  <2>4. CASE d = [f EXCEPT !.action = "redacted"]
    BY <2>1, <2>2, <2>4, EarlyAction DEF Same
  <2>5. QED
    BY <1>3, <2>1, <2>3, <2>4
<1>4. QED
  BY <1>1, <1>2, <1>3

\* The scan of evaluate().
LEMMA EarlyEvaluateScan ==
  ASSUME NEW c \in Calls, EarlyFits(c), NEW d \in IF Blocked(c) THEN {c} ELSE {c, PiiBlock(c)}
  PROVE  EarlyFits(d) /\ Same(d, c)
BY EarlyPiiBlock DEF Same

----------------------------------------------------------------------------
(* The rules and the hold.                                                 *)

\* What the layers left is as good behind the rules.
LEMMA EarlyIsRuled ==
  ASSUME NEW c, EarlyFits(c)
  PROVE  RuledFits(c) /\ RuleStands(c)
BY DEF EarlyFits, RuledFits, RuleStands, Has

\* A refusal.
LEMMA RuledBlock ==
  ASSUME NEW c \in Calls, NEW layer \in Layers, RuledFits(c)
  PROVE  RuledFits(Block(c, layer)) /\ Same(Block(c, layer), c) /\ Blocked(Block(c, layer))
BY BlockFields DEF RuledFits, Same, HasVerdict, Blocked, Has, OutboundFits

\* A mark that promises nothing.
LEMMA RuledMark ==
  ASSUME NEW c \in Calls, RuledFits(c), NEW mark \in {"ruledOut", "claim", "approved", "failureSeen"}
  PROVE  /\ RuledFits(With(c, mark)) /\ Same(With(c, mark), c)
         /\ With(c, mark).action = c.action /\ With(c, mark).outbound = c.outbound
<1>1. PICK d : d = With(c, mark)
  OBVIOUS
<1>2. Same(d, c) /\ HasVerdict(d, c.action, c.reason, c.marks \cup {mark}, c.refusals, c.outbound)
  BY <1>1, WithFields DEF Marks
<1>3. RuledFits(d)
  BY <1>2 DEF RuledFits, Same, HasVerdict, Blocked, Has, OutboundFits
<1>4. QED
  BY <1>1, <1>2, <1>3 DEF HasVerdict

\* The verdict of the rules marks the call.
LEMMA RulesMark ==
  ASSUME NEW c \in Calls, RuledFits(c), NEW rules, NEW denyWins
  PROVE  LET d == RulesVerdict(c, rules, denyWins).call
         IN RuledFits(d) /\ Same(d, c) /\ d.action = c.action /\ d.outbound = c.outbound
<1>1. PICK n : n = IF denyWins /\ SomeRuleRefuses(rules, Options(denyWins, config.failClosed, granted))
                     THEN With(c, "ruledOut") ELSE c
  OBVIOUS
<1>2. RuledFits(n) /\ Same(n, c) /\ n.action = c.action /\ n.outbound = c.outbound
  BY <1>1, RuledMark DEF Same
<1>3. n \in Calls
  BY <1>2 DEF Same
<1>4. PICK m : m = With(n, "claim")
  OBVIOUS
<1>5. RuledFits(m) /\ Same(m, n) /\ m.action = n.action /\ m.outbound = n.outbound
  BY <1>2, <1>3, <1>4, RuledMark
<1>6. RulesVerdict(c, rules, denyWins).call \in {n, m}
  BY <1>1, <1>4 DEF RulesVerdict
<1>7. QED
  BY <1>2, <1>5, <1>6 DEF Same

\* A block of the rules stands as such.
LEMMA RulesBlockStands ==
  ASSUME NEW c \in Calls
  PROVE  RuleStands(Block(c, "policy_rules"))
BY BlockFields DEF RuleStands, HasVerdict, Layers

\* The verdict of rules one of which refuses under deny_wins is a block.
LEMMA RuledOutBlocks ==
  ASSUME NEW c \in Calls, ~Has(c, "ruledOut"), NEW rules \in RuleLists, NEW denyWins
  PROVE  Has(RulesVerdict(c, rules, denyWins).call, "ruledOut") =>
           RulesVerdict(c, rules, denyWins).outcome.decision = "block"
<1>1. PICK opts : opts = Options(denyWins, config.failClosed, granted)
  OBVIOUS
<1>2. opts.denyWins = denyWins
  BY <1>1 DEF Options
<1>3. PICK v : v = RulesVerdict(c, rules, denyWins)
  OBVIOUS
<1>4. v.outcome = EvaluatePolicyRules(rules, opts)
  BY <1>1, <1>3 DEF RulesVerdict
<1>5. rules \in Seq(PolicyRule)
  BY GovernedCallAssumption DEF PolicyRule
<1>6. CASE denyWins /\ SomeRuleRefuses(rules, opts)
  BY <1>2, <1>3, <1>4, <1>5, <1>6, RefusalDecides
<1>7. CASE ~(denyWins /\ SomeRuleRefuses(rules, opts))
  <2>1. v.call = c \/ v.call = With(c, "claim")
    BY <1>1, <1>3, <1>7 DEF RulesVerdict
  <2>2. With(c, "claim").marks = c.marks \cup {"claim"}
    BY WithFields DEF HasVerdict, Marks
  <2>3. ~Has(v.call, "ruledOut")
    BY <2>1, <2>2 DEF Has
  <2>4. QED
    BY <1>3, <2>3
<1>8. QED
  BY <1>6, <1>7

\* What the rules decide on a wrapped client.
LEMMA RuledWrap ==
  ASSUME NEW v, v.call \in Calls, RuledFits(v.call), v.call.surface = "wrap", ~Blocked(v.call),
         Has(v.call, "ruledOut") => v.outcome.decision = "block",
         NEW d \in WrapApplyRules(v)
  PROVE  RuledFits(d) /\ Same(d, v.call) /\ RuleStands(d)
<1>1. PICK c : c = v.call
  OBVIOUS
<1>2. /\ c \in Calls /\ RuledFits(c) /\ c.surface = "wrap" /\ ~Blocked(c)
      /\ v.outcome.decision # "block" => ~Has(c, "ruledOut")
  BY <1>1
<1>3. \/ v.outcome.decision # "block" /\ d = c
      \/ d = Block(c, "policy_rules")
      \/ /\ v.outcome.decision # "block"
         /\ \E e \in ApplyRedaction(c) :
              d = IF e.outbound = "redacted"
                    THEN [e EXCEPT !.action = "redacted", !.reason = "policy_violation"] ELSE e
  BY <1>1 DEF WrapApplyRules
<1>4. ASSUME NEW e \in ApplyRedaction(c),
             d = IF e.outbound = "redacted"
                   THEN [e EXCEPT !.action = "redacted", !.reason = "policy_violation"] ELSE e
      PROVE  RuledFits(d) /\ Same(d, c) /\ d.marks = c.marks
  <2>1. /\ Same(e, c)
        /\ \/ HasVerdict(e, c.action, c.reason, c.marks, c.refusals, "redacted")
           \/ HasVerdict(e, "blocked", "policy_violation", c.marks, c.refusals \cup {"redaction"}, "partial")
    BY <1>2, RedactionFields
  <2>2. CASE e.outbound = "redacted"
    <3>1. e \in Calls /\ HasVerdict(e, c.action, c.reason, c.marks, c.refusals, "redacted")
      BY <2>1, <2>2 DEF Same, HasVerdict
    <3>2. Same(d, e) /\ HasVerdict(d, "redacted", "policy_violation", e.marks, e.refusals, e.outbound)
      BY <1>4, <2>2, <3>1, ReasonFields DEF Actions, Reasons
    <3>3. Same(d, c) /\ HasVerdict(d, "redacted", "policy_violation", c.marks, c.refusals, "redacted")
      BY <2>1, <3>1, <3>2 DEF Same, HasVerdict
    <3>4. QED
      BY <1>2, <3>3 DEF RuledFits, Same, HasVerdict, Blocked, Has, OutboundFits
  <2>3. CASE e.outbound # "redacted"
    <3>1. Same(d, c) /\ HasVerdict(d, "blocked", "policy_violation", c.marks, c.refusals \cup {"redaction"}, "partial")
      BY <1>4, <2>1, <2>3 DEF HasVerdict
    <3>2. QED
      BY <1>2, <3>1 DEF RuledFits, Same, HasVerdict, Blocked, Has, OutboundFits
  <2>4. QED
    BY <2>2, <2>3
<1>5. CASE v.outcome.decision # "block" /\ d = c
  BY <1>1, <1>2, <1>5 DEF Same, RuleStands
<1>6. CASE d = Block(c, "policy_rules")
  BY <1>1, <1>2, <1>6, RuledBlock, RulesBlockStands DEF Layers
<1>7. CASE /\ v.outcome.decision # "block"
           /\ \E e \in ApplyRedaction(c) :
                d = IF e.outbound = "redacted"
                      THEN [e EXCEPT !.action = "redacted", !.reason = "policy_violation"] ELSE e
  <2>1. RuledFits(d) /\ Same(d, c) /\ d.marks = c.marks
    BY <1>4, <1>7
  <2>2. RuleStands(d)
    BY <1>2, <1>7, <2>1 DEF RuleStands, Has
  <2>3. QED
    BY <1>1, <2>1, <2>2
<1>8. QED
  BY <1>3, <1>5, <1>6, <1>7

\* What the rules decide in an integration and in the Python SDK.
LEMMA RuledIntegration ==
  ASSUME NEW v, v.call \in Calls, RuledFits(v.call), ~Blocked(v.call),
         v.call.surface \in {"integration", "python"},
         Has(v.call, "ruledOut") => v.outcome.decision = "block"
  PROVE  /\ RuledFits(IntegrationApplyRules(v)) /\ Same(IntegrationApplyRules(v), v.call)
         /\ RuleStands(IntegrationApplyRules(v))
<1>1. PICK c : c = v.call
  OBVIOUS
<1>2. /\ c \in Calls /\ RuledFits(c) /\ c.surface \in {"integration", "python"} /\ ~Blocked(c)
      /\ v.outcome.decision # "block" => ~Has(c, "ruledOut")
  BY <1>1
<1>3. PICK d : d = IntegrationApplyRules(v)
  OBVIOUS
<1>4. \/ v.outcome.decision # "block" /\ d = c
      \/ d = Block(c, "policy_rules")
      \/ /\ v.outcome.decision # "block"
         /\ d = [c EXCEPT !.action = "redacted", !.reason = "policy_violation"]
  BY <1>1, <1>3 DEF IntegrationApplyRules
<1>5. CASE /\ v.outcome.decision # "block"
           /\ d = [c EXCEPT !.action = "redacted", !.reason = "policy_violation"]
  <2>1. Same(d, c) /\ HasVerdict(d, "redacted", "policy_violation", c.marks, c.refusals, c.outbound)
    BY <1>2, <1>5, ReasonFields DEF Actions, Reasons
  <2>2. RuledFits(d)
    BY <1>2, <2>1 DEF RuledFits, Same, HasVerdict, Blocked, Has, OutboundFits
  <2>3. RuleStands(d)
    BY <1>2, <1>5, <2>1 DEF RuleStands, HasVerdict, Has
  <2>4. QED
    BY <1>1, <1>3, <2>1, <2>2, <2>3
<1>6. CASE v.outcome.decision # "block" /\ d = c
  BY <1>1, <1>2, <1>3, <1>6 DEF Same, RuleStands
<1>7. CASE d = Block(c, "policy_rules")
  BY <1>1, <1>2, <1>3, <1>7, RuledBlock, RulesBlockStands DEF Layers
<1>8. QED
  BY <1>4, <1>5, <1>6, <1>7

\* What the rules decide in evaluate().
LEMMA RuledEvaluate ==
  ASSUME NEW c \in Calls, RuledFits(c), ~Has(c, "ruledOut"), NEW rules \in RuleLists, NEW denyWins,
         NEW d, d = EvaluateApplyRules(c, rules, denyWins)
  PROVE  RuledFits(d) /\ Same(d, c) /\ RuleStands(d)
<1>1. PICK n : n = IF denyWins /\ SomeRuleRefuses(rules, Options(denyWins, FALSE, granted))
                     THEN With(c, "ruledOut") ELSE c
  OBVIOUS
<1>2. RuledFits(n) /\ Same(n, c) /\ n \in Calls
  BY <1>1, RuledMark DEF Same
<1>3. d = n \/ d = Block(n, "policy_rules")
  BY <1>1 DEF EvaluateApplyRules
<1>4. /\ RuledFits(Block(n, "policy_rules")) /\ Same(Block(n, "policy_rules"), n)
      /\ RuleStands(Block(n, "policy_rules"))
  BY <1>2, RuledBlock, RulesBlockStands DEF Layers
<1>5. CASE d = Block(n, "policy_rules")
  BY <1>2, <1>4, <1>5 DEF Same
<1>6. CASE d = n /\ d # Block(n, "policy_rules")
  <2>1. PICK opts : opts = Options(denyWins, FALSE, granted)
    OBVIOUS
  <2>2. opts.denyWins = denyWins
    BY <2>1 DEF Options
  <2>3. rules \in Seq(PolicyRule)
    BY GovernedCallAssumption DEF PolicyRule
  <2>4. EvaluatePolicyRules(rules, opts).decision = "allow"
    BY <1>1, <1>6, <2>1 DEF EvaluateApplyRules
  <2>5. ~(denyWins /\ SomeRuleRefuses(rules, opts))
    BY <2>2, <2>3, <2>4, RefusalDecides
  <2>6. d = c
    BY <1>1, <1>6, <2>1, <2>5
  <2>7. QED
    BY <2>6 DEF Same, RuleStands
<1>7. QED
  BY <1>3, <1>5, <1>6

\* The hold ends with a block or with a grant.
LEMMA RuledHold ==
  ASSUME NEW c \in Calls, RuledFits(c), NEW d \in HoldEndsWith(c)
  PROVE  RuledFits(d) /\ Same(d, c) /\ RuleStands(d)
<1>1. PICK m : m = With(c, "claim")
  OBVIOUS
<1>2. RuledFits(m) /\ Same(m, c) /\ m \in Calls
  BY <1>1, RuledMark DEF Same
<1>3. RuledFits(With(m, "approved")) /\ Same(With(m, "approved"), m)
  BY <1>2, RuledMark
<1>4. d = Block(c, "policy_rules") \/ d = With(m, "approved")
  BY <1>1 DEF HoldEndsWith
<1>5. RuleStands(With(m, "approved"))
  BY <1>2, WithFields DEF RuleStands, HasVerdict, Has, Marks
<1>6. CASE d = Block(c, "policy_rules")
  BY <1>6, RuledBlock, RulesBlockStands DEF Layers
<1>7. CASE d = With(m, "approved")
  BY <1>2, <1>3, <1>5, <1>7 DEF Same
<1>8. QED
  BY <1>4, <1>6, <1>7

\* A guard of the wrapper that fails: closed it blocks, open the call goes on.
LEMMA RuledWrapCatch ==
  ASSUME NEW c \in Calls, RuledFits(c), ~Has(c, "ruledOut"), NEW layer, NEW malformed
  PROVE  /\ RuledFits(WrapCatch(c, layer, malformed)) /\ Same(WrapCatch(c, layer, malformed), c)
         /\ RuleStands(WrapCatch(c, layer, malformed))
<1>1. PICK n : n = With(c, "failureSeen")
  OBVIOUS
<1>2. /\ RuledFits(n) /\ Same(n, c) /\ n \in Calls
      /\ ~Has(n, "ruledOut")
  BY <1>1, RuledMark, WithFields DEF Same, HasVerdict, Has, Marks
<1>3. PICK b : b = Block(n, "detector")
  OBVIOUS
<1>4. /\ RuledFits(b) /\ Same(b, n) /\ Blocked(b) /\ b \in Calls
      /\ ~Has(b, "ruledOut")
  BY <1>2, <1>3, RuledBlock, BlockFields DEF Same, HasVerdict, Has, Layers
<1>5. PICK d : d = With(b, "failedClosed")
  OBVIOUS
<1>6. Same(d, b) /\ HasVerdict(d, b.action, b.reason, b.marks \cup {"failedClosed"}, b.refusals, b.outbound)
  BY <1>4, <1>5, WithFields DEF Marks
<1>7. RuledFits(d)
  BY <1>4, <1>6 DEF RuledFits, Same, HasVerdict, Blocked, Has, OutboundFits
<1>8. WrapCatch(c, layer, malformed) \in {n, d}
  BY <1>1, <1>3, <1>5 DEF WrapCatch
<1>9. RuleStands(n) /\ RuleStands(d)
  BY <1>2, <1>4, <1>6 DEF RuleStands, HasVerdict, Has
<1>10. QED
  BY <1>2, <1>4, <1>6, <1>7, <1>8, <1>9 DEF Same

----------------------------------------------------------------------------
(* The hook and the policy backend.                                        *)

\* What the rules left is as good behind the hook.
LEMMA RuledIsHooked ==
  ASSUME NEW c, RuledFits(c), RuleStands(c)
  PROVE  HookedFits(c)
BY DEF RuledFits, HookedFits, RuleStands, Has

\* A refusal.
LEMMA HookedBlock ==
  ASSUME NEW c \in Calls, NEW layer \in Layers, HookedFits(c)
  PROVE  HookedFits(Block(c, layer)) /\ Same(Block(c, layer), c) /\ Blocked(Block(c, layer))
BY BlockFields DEF HookedFits, RuleStands, Same, HasVerdict, Blocked, Has, OutboundFits

\* The redaction a hook asks for.
LEMMA RedactedByHookFields ==
  ASSUME NEW c \in Calls
  PROVE  /\ Same(RedactedByHook(c), c)
         /\ \E marks \in SUBSET Marks :
              /\ marks = c.marks \cup (IF Blocked(c) THEN {"weakened"} ELSE {})
              /\ HasVerdict(RedactedByHook(c), "redacted", "policy_violation", marks, c.refusals, c.outbound)
<1>1. PICK m : m = IF Blocked(c) THEN With(c, "weakened") ELSE c
  OBVIOUS
<1>2. PICK marks : marks = c.marks \cup (IF Blocked(c) THEN {"weakened"} ELSE {})
  OBVIOUS
<1>3. Same(m, c) /\ HasVerdict(m, c.action, c.reason, marks, c.refusals, c.outbound)
  BY <1>1, <1>2, WithFields DEF Marks, Same, HasVerdict
<1>4. m \in Calls /\ marks \in SUBSET Marks
  BY <1>3 DEF Same, HasVerdict, Calls
<1>5. PICK d : d = [m EXCEPT !.action = "redacted", !.reason = "policy_violation"]
  OBVIOUS
<1>6. Same(d, m) /\ HasVerdict(d, "redacted", "policy_violation", m.marks, m.refusals, m.outbound)
  BY <1>4, <1>5, ReasonFields DEF Actions, Reasons
<1>7. RedactedByHook(c) = d
  BY <1>1, <1>5 DEF RedactedByHook
<1>8. QED
  BY <1>2, <1>3, <1>4, <1>6, <1>7 DEF Same, HasVerdict

\* It fits behind the hook, once what goes out is redacted too.
LEMMA HookedRedaction ==
  ASSUME NEW c \in Calls, RuledFits(c), RuleStands(c), ~Has(c, "degraded"),
         NEW answer, HookRedacts(c, answer)
  PROVE  /\ Same(RedactedByHook(c), c)
         /\ c.surface \in {"integration", "python"} => HookedFits(RedactedByHook(c))
         /\ c.surface = "wrap" =>
              /\ HookedFits([RedactedByHook(c) EXCEPT !.outbound = "redacted"])
              /\ Same([RedactedByHook(c) EXCEPT !.outbound = "redacted"], c)
<1>1. ~Has(c, "canary") /\ ~Has(c, "floor")
  BY DEF HookRedacts
<1>2. PICK d : d = RedactedByHook(c)
  OBVIOUS
<1>3. PICK marks : /\ marks = c.marks \cup (IF Blocked(c) THEN {"weakened"} ELSE {})
                   /\ HasVerdict(d, "redacted", "policy_violation", marks, c.refusals, c.outbound)
  BY <1>2, RedactedByHookFields
<1>4. Same(d, c) /\ d \in Calls
  BY <1>2, RedactedByHookFields DEF Same
<1>5. ASSUME c.surface \in {"integration", "python"} PROVE HookedFits(d)
  BY <1>1, <1>3, <1>4, <1>5 DEF RuledFits, HookedFits, RuleStands, Same, HasVerdict, Blocked, Has, OutboundFits
<1>6. PICK e : e = [d EXCEPT !.outbound = "redacted"]
  OBVIOUS
<1>7. Same(e, d) /\ HasVerdict(e, d.action, d.reason, d.marks, d.refusals, "redacted")
  BY <1>4, <1>6, OutboundFields
<1>8. Same(e, c) /\ HasVerdict(e, "redacted", "policy_violation", marks, c.refusals, "redacted")
  BY <1>3, <1>4, <1>7 DEF Same, HasVerdict
<1>9. ASSUME c.surface = "wrap" PROVE HookedFits(e)
  <2>1. OutboundFits(e) /\ e.surface # "evaluate" /\ e.action = "redacted"
    BY <1>8, <1>9 DEF Same, HasVerdict, OutboundFits
  <2>2. CASE Blocked(c)
    BY <1>1, <1>3, <1>8, <2>1, <2>2 DEF RuledFits, HookedFits, RuleStands, HasVerdict, Blocked, Has
  <2>3. CASE ~Blocked(c)
    BY <1>1, <1>3, <1>8, <2>1, <2>3 DEF RuledFits, HookedFits, RuleStands, HasVerdict, Blocked, Has
  <2>4. QED
    BY <2>2, <2>3
<1>10. QED
  BY <1>2, <1>4, <1>5, <1>6, <1>8, <1>9

\* What the hook of a wrapped client comes to.
LEMMA HookedWrapHook ==
  ASSUME NEW c \in Calls, RuledFits(c), RuleStands(c), c.surface = "wrap", NEW d \in HookResults(c)
  PROVE  HookedFits(d) /\ Same(d, c)
<1>1. HookedFits(c) /\ Same(c, c)
  BY RuledIsHooked DEF Same
<1>2. HookedFits(Block(c, "hook")) /\ Same(Block(c, "hook"), c)
  BY <1>1, HookedBlock DEF Layers
<1>3. HookedFits(RedactionFails(c)) /\ Same(RedactionFails(c), c)
  BY <1>1, RedactionFailsFields DEF HookedFits, RuleStands, Same, HasVerdict, Blocked, Has, OutboundFits
<1>4. \/ d = c
      \/ \E trigger \in Triggers, answer \in HookAnswers :
           ShouldRunHook(c, trigger) /\ d \in WrapHookResult(c, answer)
  BY DEF HookResults
<1>5. ASSUME NEW trigger \in Triggers, NEW answer \in HookAnswers, ShouldRunHook(c, trigger),
             d \in WrapHookResult(c, answer)
      PROVE  HookedFits(d) /\ Same(d, c)
  <2>1. \/ d = c \/ d = Block(c, "hook") \/ d = RedactionFails(c)
        \/ HookRedacts(c, answer) /\ d = [RedactedByHook(c) EXCEPT !.outbound = "redacted"]
    BY <1>5 DEF WrapHookResult
  <2>2. ~Has(c, "degraded")
    BY <1>5 DEF ShouldRunHook
  <2>3. CASE HookRedacts(c, answer) /\ d = [RedactedByHook(c) EXCEPT !.outbound = "redacted"]
    BY <2>2, <2>3, HookedRedaction
  <2>4. QED
    BY <1>1, <1>2, <1>3, <2>1, <2>3
<1>6. QED
  BY <1>1, <1>4, <1>5

\* What the hook of an integration and of the Python SDK comes to.
LEMMA HookedIntegrationHook ==
  ASSUME NEW c \in Calls, RuledFits(c), RuleStands(c),
         c.surface \in {"integration", "python"}, ~Has(c, "degraded"),
         NEW answer, NEW d, d = IntegrationHookResult(c, answer)
  PROVE  HookedFits(d) /\ Same(d, c)
<1>1. HookedFits(c) /\ Same(c, c)
  BY RuledIsHooked DEF Same
<1>2. HookedFits(Block(c, "hook")) /\ Same(Block(c, "hook"), c)
  BY <1>1, HookedBlock DEF Layers
<1>3. HookedFits(Unanswered(c, answer)) /\ Same(Unanswered(c, answer), c)
  <2>1. CASE Blocked(c)
    BY <1>1, <2>1 DEF Unanswered
  <2>2. CASE ~Blocked(c)
    <3>1. PICK action : action = IF answer = "timeout" THEN "hook_timeout" ELSE "hook_error"
      OBVIOUS
    <3>2. action \in Actions /\ action \notin {"blocked", "redacted"}
      BY <3>1 DEF Actions
    <3>3. PICK e : e = [c EXCEPT !.action = action]
      OBVIOUS
    <3>4. Same(e, c) /\ HasVerdict(e, action, c.reason, c.marks, c.refusals, c.outbound)
      BY <3>2, <3>3, ActionFields
    <3>5. HookedFits(e)
      BY <2>2, <3>2, <3>4 DEF RuledFits, HookedFits, RuleStands, Same, HasVerdict, Blocked, Has, OutboundFits
    <3>6. Unanswered(c, answer) = e
      BY <2>2, <3>1, <3>3 DEF Unanswered
    <3>7. QED
      BY <3>4, <3>5, <3>6
  <2>3. QED
    BY <2>1, <2>2
<1>4. \/ d = c \/ d = Block(c, "hook") \/ d = Unanswered(c, answer)
      \/ HookRedacts(c, answer) /\ d = RedactedByHook(c)
  BY DEF IntegrationHookResult
<1>5. QED
  BY <1>1, <1>2, <1>3, <1>4, HookedRedaction

\* An integration asks the hook under a trigger.
LEMMA HookedIntegrationHooks ==
  ASSUME NEW c \in Calls, RuledFits(c), RuleStands(c), c.surface \in {"integration", "python"},
         NEW d \in IntegrationHookResults(c)
  PROVE  HookedFits(d) /\ Same(d, c)
<1>1. HookedFits(c) /\ Same(c, c)
  BY RuledIsHooked DEF Same
<1>2. \/ d = c
      \/ \E trigger \in Triggers, answer \in HookAnswers :
           ShouldRunHook(c, trigger) /\ d = IntegrationHookResult(c, answer)
  BY DEF IntegrationHookResults
<1>3. QED
  BY <1>1, <1>2, HookedIntegrationHook DEF ShouldRunHook

\* What asking the policy backend comes to.
LEMMA HookedBackend ==
  ASSUME NEW c \in Calls, HookedFits(c), NEW d \in BackendResults(c)
  PROVE  HookedFits(d) /\ Same(d, c)
<1>1. d = c \/ d = Block(c, "external_backend")
  BY DEF BackendResults, MergeBackend
<1>2. QED
  BY <1>1, HookedBlock DEF Layers, Same

\* A refusal of the last hook of evaluate().
LEMMA HookedRefusal ==
  ASSUME NEW c \in Calls, HookedFits(c), NEW layer \in Layers, NEW d \in MayRefuse(c, layer)
  PROVE  HookedFits(d) /\ Same(d, c)
BY HookedBlock DEF MayRefuse, Same

----------------------------------------------------------------------------
(* The conclusion.                                                         *)

\* The grant is looked at again.
LEMMA Revalidated ==
  ASSUME NEW c \in Calls, HookedFits(c), granted \in BOOLEAN
  PROVE  /\ HookedFits(Revalidate(c)) /\ Same(Revalidate(c), c)
         /\ Has(Revalidate(c), "claim") /\ ~Blocked(Revalidate(c)) => granted
<1>1. HookedFits(Block(c, "approval")) /\ Same(Block(c, "approval"), c) /\ Blocked(Block(c, "approval"))
  BY HookedBlock DEF Layers
<1>2. QED
  BY <1>1 DEF Revalidate, Same

\* Monitor mode converts a block that is a verdict.
LEMMA ConvertFields ==
  ASSUME NEW c \in Calls
  PROVE  /\ Same(Convert(c), c)
         /\ \/ Convert(c) = c
            \/ /\ HasVerdict(Convert(c), "allowed", c.reason, c.marks \cup {"converted"}, c.refusals, c.outbound)
               /\ Blocked(c) /\ config.monitor /\ ~gate
               /\ ~Has(c, "canary") /\ ~Has(c, "failedClosed") /\ ~Has(c, "degraded")
<1>1. CASE Convert(c) = c
  BY <1>1 DEF Same
<1>2. CASE Convert(c) # c
  <2>1. PICK a : a = [c EXCEPT !.action = "allowed"]
    OBVIOUS
  <2>2. Same(a, c) /\ HasVerdict(a, "allowed", c.reason, c.marks, c.refusals, c.outbound)
    BY <2>1, ActionFields DEF Actions
  <2>3. PICK d : d = With(a, "converted")
    OBVIOUS
  <2>4. Same(d, a) /\ HasVerdict(d, a.action, a.reason, a.marks \cup {"converted"}, a.refusals, a.outbound)
    BY <2>2, <2>3, WithFields DEF Same, Marks
  <2>5. /\ Convert(c) = d
        /\ Blocked(c) /\ ~Has(c, "canary") /\ ~Has(c, "failedClosed") /\ MonitorConversionApplies(c)
    BY <1>2, <2>1, <2>3 DEF Convert
  <2>6. QED
    BY <2>2, <2>4, <2>5 DEF Same, HasVerdict, MonitorConversionApplies
<1>3. QED
  BY <1>1, <1>2

\* The converted verdict fits.
LEMMA ConvertedFits ==
  ASSUME NEW c \in Calls, HookedFits(c), config.monitor \in BOOLEAN
  PROVE  /\ ConcludedFits(Convert(c)) /\ Same(Convert(c), c)
         /\ Has(Convert(c), "converted") => ~gate
         /\ ~Has(Convert(c), "abandoned")
<1>1. PICK d : d = Convert(c)
  OBVIOUS
<1>2. CASE d = c
  BY <1>1, <1>2 DEF HookedFits, RuleStands, ConcludedFits, Same, Has, OutboundFits, Blocked
<1>3. CASE /\ HasVerdict(d, "allowed", c.reason, c.marks \cup {"converted"}, c.refusals, c.outbound)
           /\ Blocked(c) /\ config.monitor /\ ~gate
           /\ ~Has(c, "canary") /\ ~Has(c, "failedClosed") /\ ~Has(c, "degraded")
  <2>1. Same(d, c)
    BY <1>1, ConvertFields
  <2>2. ConcludedFits(d)
    BY <1>3, <2>1 DEF HookedFits, RuleStands, ConcludedFits, Same, HasVerdict, Has, OutboundFits, Blocked
  <2>3. ~Has(d, "abandoned")
    BY <1>3 DEF HookedFits, RuleStands, HasVerdict, Has
  <2>4. QED
    BY <1>1, <1>3, <2>1, <2>2, <2>3
<1>4. QED
  BY <1>1, <1>2, <1>3, ConvertFields

\* Revalidation and conversion.
LEMMA ConclusionFits ==
  ASSUME NEW c \in Calls, HookedFits(c), config.monitor \in BOOLEAN, granted \in BOOLEAN
  PROVE  LET d == Convert(Revalidate(c))
         IN ConcludedFits(d) /\ Timely(d) /\ Same(d, c) /\ ~Has(d, "abandoned")
<1>1. PICK r : r = Revalidate(c)
  OBVIOUS
<1>2. /\ HookedFits(r) /\ Same(r, c) /\ r \in Calls
      /\ Has(r, "claim") /\ ~Blocked(r) => granted
  BY <1>1, Revalidated DEF Same
<1>3. PICK d : d = Convert(r)
  OBVIOUS
<1>4. /\ ConcludedFits(d) /\ Same(d, r) /\ ~Has(d, "abandoned")
      /\ Has(d, "converted") => ~gate
  BY <1>2, <1>3, ConvertedFits
<1>5. Has(d, "claim") /\ ~Blocked(d) => granted \/ Has(d, "converted")
  BY <1>2, <1>3, ConvertFields DEF HasVerdict, Has
<1>6. QED
  BY <1>1, <1>2, <1>3, <1>4, <1>5 DEF Same, Timely

\* A guard of an integration or of the Python SDK that fails ends the pipeline: closed
\* it blocks; open it gives up what was refused, and only the gate and the principal
\* can have refused by then.
LEMMA CaughtFits ==
  ASSUME NEW c \in Calls, EarlyFits(c), c.surface \in {"integration", "python"},
         config.failClosed \in BOOLEAN,
         Blocked(c) => c.refusals \subseteq {"gate", "principal"} /\ c.marks \subseteq {"degraded"},
         NEW layer, NEW malformed, NEW d, d = IntegrationCatch(c, layer, malformed)
  PROVE  ConcludedFits(d) /\ Timely(d) /\ Same(d, c) /\ d.action # "redacted"
<1>1. PICK n : n = With(c, "failureSeen")
  OBVIOUS
<1>2. /\ Same(n, c) /\ n \in Calls
      /\ HasVerdict(n, c.action, c.reason, c.marks \cup {"failureSeen"}, c.refusals, c.outbound)
  BY <1>1, WithFields DEF Same, Marks
<1>3. CASE FailsClosed(layer, malformed)
  <2>1. d = Block(n, "detector")
    BY <1>1, <1>3 DEF IntegrationCatch, PreCallFailure
  <2>2. /\ Same(d, n)
        /\ HasVerdict(d, "blocked", "policy_violation", n.marks, n.refusals \cup {"detector"}, n.outbound)
    BY <1>2, <2>1, BlockFields DEF Layers
  <2>3. /\ Same(d, c)
        /\ HasVerdict(d, "blocked", "policy_violation", c.marks \cup {"failureSeen"},
                   c.refusals \cup {"detector"}, c.outbound)
    BY <1>2, <2>2 DEF Same, HasVerdict
  <2>4. ConcludedFits(d)
    BY <2>3 DEF EarlyFits, ConcludedFits, RuleStands, Same, HasVerdict, Has, OutboundFits, Blocked
  <2>5. Timely(d) /\ d.action # "redacted"
    BY <2>3 DEF EarlyFits, Timely, HasVerdict, Has, Blocked
  <2>6. QED
    BY <2>3, <2>4, <2>5
<1>4. CASE ~FailsClosed(layer, malformed)
  <2>1. ~config.failClosed
    BY <1>4 DEF FailsClosed
  <2>2. PICK m : m = IF Blocked(n) THEN With(n, "abandoned") ELSE n
    OBVIOUS
  <2>3. PICK marks : marks = c.marks \cup {"failureSeen"} \cup (IF Blocked(c) THEN {"abandoned"} ELSE {})
    OBVIOUS
  <2>4. Same(m, n) /\ HasVerdict(m, n.action, n.reason, marks, n.refusals, n.outbound)
    <3>1. Blocked(n) <=> Blocked(c)
      BY <1>2 DEF HasVerdict, Blocked
    <3>2. CASE Blocked(c)
      BY <1>2, <2>2, <2>3, <3>1, <3>2, WithFields DEF Marks, Same, HasVerdict
    <3>3. CASE ~Blocked(c)
      BY <1>2, <2>2, <2>3, <3>1, <3>3 DEF Same, HasVerdict
    <3>4. QED
      BY <3>2, <3>3
  <2>5. m \in Calls
    BY <2>4 DEF Same
  <2>6. d = [m EXCEPT !.action = "allowed", !.reason = "none"]
    BY <1>1, <1>4, <2>2 DEF IntegrationCatch, PreCallFailure
  <2>7. Same(d, m) /\ HasVerdict(d, "allowed", "none", m.marks, m.refusals, m.outbound)
    BY <2>5, <2>6, ReasonFields DEF Actions, Reasons
  <2>8. Same(d, c) /\ HasVerdict(d, "allowed", "none", marks, c.refusals, c.outbound)
    BY <1>2, <2>4, <2>7 DEF Same, HasVerdict
  <2>9. Blocked(c) => Has(d, "abandoned")
    BY <2>3, <2>8 DEF HasVerdict, Has
  <2>10. c.refusals # {} => GivenUp(d)
    BY <2>1, <2>8, <2>9 DEF EarlyFits, GivenUp, Same, HasVerdict
  <2>11. ConcludedFits(d)
    BY <2>3, <2>8, <2>9, <2>10 DEF EarlyFits, ConcludedFits, RuleStands, Same, HasVerdict, Has, OutboundFits, Blocked
  <2>12. Timely(d) /\ d.action # "redacted"
    BY <2>3, <2>8 DEF EarlyFits, Timely, HasVerdict, Has, Blocked
  <2>13. QED
    BY <2>8, <2>11, <2>12
<1>5. QED
  BY <1>3, <1>4

----------------------------------------------------------------------------
(* Arriving at a place.                                                    *)

\* What a place is depends on its name only.
LEMMA PlacesApart ==
  /\ EarlyPlaces \cap (RuledPlaces \cup HookedPlaces \cup CarryPlaces \cup OutPlaces \cup {"sent", "done"}) = {}
  /\ RuledPlaces \cap (HookedPlaces \cup CarryPlaces \cup OutPlaces \cup {"sent", "done"}) = {}
  /\ HookedPlaces \cap (CarryPlaces \cup OutPlaces \cup {"sent", "done"}) = {}
  /\ CarryPlaces \cap (OutPlaces \cup {"sent", "done"}) = {}
  /\ OutPlaces \cap {"sent", "done"} = {}
BY DEF EarlyPlaces, RuledPlaces, HookedPlaces, CarryPlaces, OutPlaces, WrapPlaces, PythonPlaces

\* Within the places behind the sending.
LEMMA OutPlacesApart ==
  /\ BuiltPlaces \subseteq OutPlaces
  /\ WrapPlaces \cap (PythonPlaces \cup {"building"}) = {} /\ PythonPlaces \cap {"building"} = {}
  /\ WrapPlaces \subseteq OutPlaces /\ PythonPlaces \subseteq OutPlaces /\ "building" \in OutPlaces
BY DEF OutPlaces, WrapPlaces, PythonPlaces, BuiltPlaces

\* At a layer up to the rules.
LEMMA ArriveEarly ==
  ASSUME NEW c \in Calls, Untold(c), NoAnswer(c), NEW d, Same(d, c), EarlyFits(d),
         NEW place \in EarlyPlaces \ {"gate"},
         place = "session_taint" => d.refusals \subseteq {"gate", "principal"} /\ d.marks \subseteq {"degraded"}
  PROVE  Fits(At(d, place)) /\ At(d, place).at = place
<1>1. PICK e : e = At(d, place)
  OBVIOUS
<1>2. place \in Places /\ d \in Calls
  BY DEF Same, Places
<1>3. /\ e \in Calls /\ e.at = place /\ e.surface = d.surface
      /\ Kept(e, d) /\ KeptRecord(e, d)
  BY <1>1, <1>2, AtFields
<1>4. EarlyFits(e)
  BY <1>3 DEF EarlyFits, Kept, HasVerdict, Has, Blocked, OutboundFits
<1>5. Untold(e) /\ NoAnswer(e)
  BY <1>3 DEF Same, KeptRecord, Untold, NoAnswer
<1>6. place = "session_taint" => e.refusals \subseteq {"gate", "principal"} /\ e.marks \subseteq {"degraded"}
  BY <1>3 DEF Kept, HasVerdict
<1>7. /\ place \notin RuledPlaces \cup HookedPlaces \cup CarryPlaces \cup {"sent", "done"}
      /\ place \notin OutPlaces \cup WrapPlaces \cup PythonPlaces \cup BuiltPlaces \cup {"building"}
      /\ place \notin {"anonymizer", "caller", "hook"} /\ place # "gate"
  BY PlacesApart, OutPlacesApart DEF CarryPlaces, RuledPlaces
<1>8. QED
  BY <1>1, <1>3, <1>4, <1>5, <1>6, <1>7 DEF Fits

\* Behind the rules.
LEMMA ArriveRuled ==
  ASSUME NEW c \in Calls, Untold(c), NoAnswer(c), NEW d, Same(d, c), RuledFits(d), NEW place \in RuledPlaces,
         place = "hook" => RuleStands(d)
  PROVE  Fits(At(d, place)) /\ At(d, place).at = place
<1>1. PICK e : e = At(d, place)
  OBVIOUS
<1>2. place \in Places /\ d \in Calls
  BY DEF Same, Places
<1>3. /\ e \in Calls /\ e.at = place /\ e.surface = d.surface
      /\ Kept(e, d) /\ KeptRecord(e, d)
  BY <1>1, <1>2, AtFields
<1>4. RuledFits(e)
  BY <1>3 DEF RuledFits, Kept, HasVerdict, Has, Blocked, OutboundFits
<1>5. Untold(e) /\ NoAnswer(e)
  BY <1>3 DEF Same, KeptRecord, Untold, NoAnswer
<1>6. /\ place \notin EarlyPlaces \cup HookedPlaces \cup CarryPlaces \cup {"sent", "done"}
      /\ place \notin OutPlaces \cup WrapPlaces \cup PythonPlaces \cup BuiltPlaces \cup {"building"}
      /\ place \notin {"anonymizer", "caller", "gate", "session_taint"}
  BY PlacesApart, OutPlacesApart DEF CarryPlaces, EarlyPlaces
<1>7. place = "hook" => RuleStands(e)
  BY <1>3 DEF RuleStands, Kept, HasVerdict, Has
<1>8. QED
  BY <1>1, <1>3, <1>4, <1>5, <1>6, <1>7 DEF Fits

\* Behind the hook.
LEMMA ArriveHooked ==
  ASSUME NEW c \in Calls, Untold(c), NoAnswer(c), NEW d, Same(d, c), HookedFits(d), NEW place \in HookedPlaces
  PROVE  Fits(At(d, place)) /\ At(d, place).at = place
<1>1. PICK e : e = At(d, place)
  OBVIOUS
<1>2. place \in Places /\ d \in Calls
  BY DEF Same, Places
<1>3. /\ e \in Calls /\ e.at = place /\ e.surface = d.surface
      /\ Kept(e, d) /\ KeptRecord(e, d)
  BY <1>1, <1>2, AtFields
<1>4. HookedFits(e)
  BY <1>3 DEF HookedFits, RuleStands, Kept, HasVerdict, Has, Blocked, OutboundFits
<1>5. Untold(e) /\ NoAnswer(e)
  BY <1>3 DEF Same, KeptRecord, Untold, NoAnswer
<1>6. /\ place \notin EarlyPlaces \cup RuledPlaces \cup CarryPlaces \cup {"sent", "done"}
      /\ place \notin OutPlaces \cup WrapPlaces \cup PythonPlaces \cup BuiltPlaces \cup {"building"}
      /\ place \notin {"anonymizer", "caller", "gate", "session_taint", "hook"}
  BY PlacesApart, OutPlacesApart DEF CarryPlaces, EarlyPlaces, RuledPlaces
<1>7. QED
  BY <1>1, <1>3, <1>4, <1>5, <1>6 DEF Fits

\* At the anonymizer or the caller.
LEMMA ArriveCarry ==
  ASSUME NEW c \in Calls, Untold(c), NoAnswer(c), NEW d, Same(d, c), ConcludedFits(d), NEW place \in CarryPlaces,
         place = "anonymizer" => d.action = "redacted",
         place = "caller" => Timely(d)
  PROVE  Fits(At(d, place)) /\ At(d, place).at = place
<1>1. PICK e : e = At(d, place)
  OBVIOUS
<1>2. place \in Places /\ d \in Calls
  BY DEF Same, Places
<1>3. /\ e \in Calls /\ e.at = place /\ e.surface = d.surface
      /\ Kept(e, d) /\ KeptRecord(e, d)
  BY <1>1, <1>2, AtFields
<1>4. ConcludedFits(e)
  BY <1>3 DEF ConcludedFits, RuleStands, Kept, HasVerdict, Has, Blocked, OutboundFits, GivenUp
<1>5. Untold(e) /\ NoAnswer(e)
  BY <1>3 DEF Same, KeptRecord, Untold, NoAnswer
<1>6. /\ place = "anonymizer" => e.action = "redacted"
      /\ place = "caller" => Timely(e)
  BY <1>3 DEF Kept, HasVerdict, Timely, Has, Blocked
<1>7. /\ place \notin EarlyPlaces \cup RuledPlaces \cup HookedPlaces \cup {"sent", "done"}
      /\ place \notin OutPlaces \cup WrapPlaces \cup PythonPlaces \cup BuiltPlaces \cup {"building"}
      /\ place \notin {"gate", "session_taint", "hook"}
  BY PlacesApart, OutPlacesApart DEF CarryPlaces, EarlyPlaces, RuledPlaces
<1>8. QED
  BY <1>1, <1>3, <1>4, <1>5, <1>6, <1>7 DEF Fits

\* At the provider.
LEMMA ArriveSent ==
  ASSUME NEW e \in Calls, e.at = "sent", SentFits(e), NoAnswer(e)
  PROVE  Fits(e)
<1>1. /\ "sent" \notin EarlyPlaces \cup RuledPlaces \cup HookedPlaces \cup CarryPlaces
      /\ "sent" \notin OutPlaces \cup WrapPlaces \cup PythonPlaces \cup BuiltPlaces \cup {"building", "done"}
      /\ "sent" \notin {"gate", "session_taint", "anonymizer", "caller"}
  BY PlacesApart, OutPlacesApart
<1>2. QED
  BY <1>1 DEF Fits

\* Nothing but the record is asked of a settled call.
LEMMA ArriveDone ==
  ASSUME NEW e \in Calls, e.at = "done", DoneFits(e)
  PROVE  Fits(e)
<1>1. /\ "done" \notin EarlyPlaces \cup RuledPlaces \cup HookedPlaces \cup CarryPlaces
      /\ "done" \notin OutPlaces \cup WrapPlaces \cup PythonPlaces \cup BuiltPlaces \cup {"building", "sent"}
      /\ "done" \notin {"gate", "session_taint", "anonymizer", "caller"}
  BY PlacesApart, OutPlacesApart
<1>2. QED
  BY <1>1 DEF Fits

\* On the way to the event.
LEMMA ArriveOut ==
  ASSUME NEW e \in Calls, e.at \in OutPlaces, Untold(e), ~Has(e, "audited") => Quiet(e),
         e.at \notin BuiltPlaces => NoAnswer(e),
         e.at \in BuiltPlaces => BuiltFits(e),
         e.at \in WrapPlaces => e.surface = "wrap",
         e.at \in PythonPlaces => e.surface = "python",
         e.at = "building" => e.surface = "integration"
  PROVE  Fits(e)
<1>1. /\ e.at \notin EarlyPlaces \cup RuledPlaces \cup HookedPlaces \cup CarryPlaces \cup {"sent", "done"}
      /\ e.at \notin {"gate", "session_taint", "hook", "anonymizer", "caller"}
  BY PlacesApart DEF EarlyPlaces, RuledPlaces, CarryPlaces
<1>2. QED
  BY <1>1 DEF Fits

----------------------------------------------------------------------------
(* The steps before the call.                                              *)

\* What the invariant says of the call at its place.
LEMMA Placed ==
  ASSUME CallInv
  PROVE  /\ call \in Calls /\ Same(call, call)
         /\ config.failClosed \in BOOLEAN /\ config.monitor \in BOOLEAN
         /\ gate \in BOOLEAN /\ granted \in BOOLEAN
         /\ call.at \in EarlyPlaces \cup RuledPlaces \cup HookedPlaces \cup CarryPlaces =>
              Untold(call) /\ NoAnswer(call)
         /\ call.at \in EarlyPlaces => EarlyFits(call)
         /\ call.at = "gate" => call.marks = {} /\ call.refusals = {}
         /\ call.at = "session_taint" =>
              call.refusals \subseteq {"gate", "principal"} /\ call.marks \subseteq {"degraded"}
         /\ call.at \in RuledPlaces => RuledFits(call)
         /\ call.at = "hook" => RuleStands(call)
         /\ call.at \in HookedPlaces => HookedFits(call)
         /\ call.at \in CarryPlaces => ConcludedFits(call)
<1>1. Fits(call) /\ call \in Calls /\ Same(call, call)
  BY DEF CallInv, Fits, Same
<1>2. call.at \in EarlyPlaces \cup RuledPlaces \cup HookedPlaces \cup CarryPlaces =>
        Untold(call) /\ NoAnswer(call)
  BY <1>1, PlacesApart, OutPlacesApart DEF Fits
<1>3. QED
  BY <1>1, <1>2 DEF CallInv, Fits

\* A step to a call that fits.
LEMMA Land ==
  ASSUME CallInv, NEW d, Fits(d), call' = d, UNCHANGED <<config, gate, granted>>
  PROVE  CallInv'
<1>1. config' = config /\ gate' = gate /\ granted' = granted
  OBVIOUS
<1>2. Fits(call)'
  BY <1>1 DEF Fits, GivenUp, ConcludedFits, RuleStands, Timely, SentFits, EarlyFits, RuledFits, HookedFits, DoneFits,
     BuiltFits, Quiet, Untold, NoAnswer, TellsVerdict, CopyGoverned, OutboundFits, Withheld, Has, Blocked
<1>3. QED
  BY <1>1, <1>2 DEF CallInv

\* A layer up to the rules.
LEMMA StepEarly ==
  ASSUME CallInv, NEW place \in EarlyPlaces, NEW next \in EarlyPlaces \ {"gate", "session_taint"},
         NEW results, Step(place, next, results),
         \A d \in results : EarlyFits(d) /\ Same(d, call)
  PROVE  CallInv' /\ call'.at = next
<1>1. PICK d \in results : call' = At(d, next)
  BY DEF Step
<1>2. call.at = place /\ UNCHANGED <<config, gate, granted>>
  BY DEF Step
<1>3. Fits(At(d, next)) /\ At(d, next).at = next
  BY <1>2, Placed, ArriveEarly
<1>4. QED
  BY <1>1, <1>2, <1>3, Land

\* The first layer.
LEMMA StepGate ==
  ASSUME CallInv, NEW results, Step("gate", "session_taint", results),
         \A d \in results : /\ EarlyFits(d) /\ Same(d, call)
                            /\ d.refusals \subseteq {"gate", "principal"} /\ d.marks \subseteq {"degraded"}
  PROVE  CallInv' /\ call'.at = "session_taint"
<1>1. PICK d \in results : call' = At(d, "session_taint")
  BY DEF Step
<1>2. call.at = "gate" /\ UNCHANGED <<config, gate, granted>>
  BY DEF Step
<1>3. Fits(At(d, "session_taint")) /\ At(d, "session_taint").at = "session_taint"
  BY <1>2, Placed, ArriveEarly DEF EarlyPlaces
<1>4. QED
  BY <1>1, <1>2, <1>3, Land

\* A layer behind the rules.
LEMMA StepHooked ==
  ASSUME CallInv, NEW place \in RuledPlaces \cup HookedPlaces, NEW next \in HookedPlaces,
         NEW results, Step(place, next, results),
         \A d \in results : HookedFits(d) /\ Same(d, call)
  PROVE  CallInv' /\ call'.at = next
<1>1. PICK d \in results : call' = At(d, next)
  BY DEF Step
<1>2. call.at = place /\ UNCHANGED <<config, gate, granted>>
  BY DEF Step
<1>3. Fits(At(d, next)) /\ At(d, next).at = next
  BY <1>2, Placed, ArriveHooked
<1>4. QED
  BY <1>1, <1>2, <1>3, Land

\* The wait for an approval.
LEMMA StepHold ==
  ASSUME CallInv, Step("holding", "hook", HoldEndsWith(call))
  PROVE  CallInv' /\ call'.at = "hook"
<1>1. PICK d \in HoldEndsWith(call) : call' = At(d, "hook")
  BY DEF Step
<1>2. call.at = "holding" /\ UNCHANGED <<config, gate, granted>>
  BY DEF Step
<1>3. Fits(At(d, "hook")) /\ At(d, "hook").at = "hook"
  BY <1>2, Placed, RuledHold, ArriveRuled DEF RuledPlaces
<1>4. QED
  BY <1>1, <1>2, <1>3, Land

\* The gate and the principal, in the order of an integration.
LEMMA GateAndPrincipal ==
  ASSUME CallInv, call.at = "gate", NEW d \in MayRefuse(IntegrityGate(call), "principal")
  PROVE  /\ EarlyFits(d) /\ Same(d, call)
         /\ d.refusals \subseteq {"gate", "principal"} /\ d.marks \subseteq {"degraded"}
<1>1. PICK g : g = IntegrityGate(call)
  OBVIOUS
<1>2. /\ EarlyFits(g) /\ Same(g, call) /\ g \in Calls
      /\ g.refusals \subseteq {"gate"} /\ g.marks \subseteq {"degraded"}
  BY <1>1, Placed, EarlyGate DEF EarlyPlaces, Same
<1>3. EarlyFits(d) /\ Same(d, g) /\ d.refusals \subseteq g.refusals \cup {"principal"} /\ d.marks = g.marks
  BY <1>1, <1>2, EarlyRefusal DEF Layers
<1>4. QED
  BY <1>2, <1>3 DEF Same

\* The layers of a wrapped client.
LEMMA WrapLayersKeep ==
  ASSUME CallInv, WrapGate \/ WrapPrincipalAndTaint \/ WrapCanary \/ WrapPii \/ WrapMultiTurn \/ WrapFloor
  PROVE  CallInv' /\ call'.at # "sent"
<1>1. CASE WrapGate
  <2>1. Step("gate", "session_taint", {IntegrityGate(call)}) /\ call.at = "gate"
    BY <1>1 DEF WrapGate, Step
  <2>2. QED
    BY <2>1, Placed, EarlyGate, StepGate DEF EarlyPlaces
<1>2. CASE WrapPrincipalAndTaint
  <2>1. PICK results : results = UNION {MayRefuse(c, "session_taint") : c \in MayRefuse(call, "principal")}
    OBVIOUS
  <2>2. Step("session_taint", "canary", results) /\ call.at = "session_taint"
    BY <1>2, <2>1 DEF WrapPrincipalAndTaint, Step
  <2>3. ASSUME NEW d \in results PROVE EarlyFits(d) /\ Same(d, call)
    <3>1. PICK c \in MayRefuse(call, "principal") : d \in MayRefuse(c, "session_taint")
      BY <2>1
    <3>2. EarlyFits(c) /\ Same(c, call)
      BY <2>2, Placed, EarlyRefusal DEF EarlyPlaces, Layers
    <3>3. EarlyFits(d) /\ Same(d, c)
      BY <3>1, <3>2, EarlyRefusal DEF Layers, Same
    <3>4. QED
      BY <3>2, <3>3 DEF Same
  <2>4. QED
    BY <2>2, <2>3, StepEarly DEF EarlyPlaces
<1>3. CASE WrapCanary
  <2>1. Step("canary", "builtin_pii_scan", Canary(call)) /\ call.at = "canary"
    BY <1>3 DEF WrapCanary, Step
  <2>2. QED
    BY <2>1, Placed, EarlyCanary, StepEarly DEF EarlyPlaces
<1>4. CASE WrapPii
  <2>1. /\ Step("builtin_pii_scan", "multi_turn_injection", WrapScan(call))
        /\ call.at = "builtin_pii_scan" /\ call.surface = "wrap"
    BY <1>4 DEF WrapPii, Step, Wrap
  <2>2. QED
    BY <2>1, Placed, EarlyWrapScan, StepEarly DEF EarlyPlaces
<1>5. CASE WrapMultiTurn
  <2>1. /\ Step("multi_turn_injection", "policy_floor", MayRefuse(call, "multi_turn_injection"))
        /\ call.at = "multi_turn_injection"
    BY <1>5 DEF WrapMultiTurn, Step
  <2>2. QED
    BY <2>1, Placed, EarlyRefusal, StepEarly DEF EarlyPlaces, Layers
<1>6. CASE WrapFloor
  <2>1. Step("policy_floor", "policy_rules", Floor(call)) /\ call.at = "policy_floor"
    BY <1>6 DEF WrapFloor, Step
  <2>2. QED
    BY <2>1, Placed, EarlyFloor, StepEarly DEF EarlyPlaces
<1>7. QED
  BY <1>1, <1>2, <1>3, <1>4, <1>5, <1>6

\* The layers of an integration and of the Python SDK.
LEMMA IntegrationLayersKeep ==
  ASSUME CallInv,
         \/ IntegrationGate \/ IntegrationTaint \/ IntegrationCanary \/ IntegrationPii
         \/ IntegrationMultiTurn \/ IntegrationFloor
         \/ PythonGate \/ PythonTaint \/ PythonCanary \/ PythonPii \/ PythonMultiTurn \/ PythonFloor
  PROVE  CallInv' /\ call'.at # "sent"
<1>1. CASE IntegrationGate \/ PythonGate
  <2>1. PICK results : results = MayRefuse(IntegrityGate(call), "principal")
    OBVIOUS
  <2>2. Step("gate", "session_taint", results) /\ call.at = "gate"
    BY <1>1, <2>1 DEF IntegrationGate, PythonGate, Step
  <2>3. QED
    BY <2>1, <2>2, GateAndPrincipal, StepGate
<1>2. CASE IntegrationTaint \/ PythonTaint
  <2>1. Step("session_taint", "canary", MayRefuse(call, "session_taint")) /\ call.at = "session_taint"
    BY <1>2 DEF IntegrationTaint, PythonTaint, Step
  <2>2. QED
    BY <2>1, Placed, EarlyRefusal, StepEarly DEF EarlyPlaces, Layers
<1>3. CASE IntegrationCanary \/ PythonCanary
  <2>1. Step("canary", "builtin_pii_scan", Canary(call)) /\ call.at = "canary"
    BY <1>3 DEF IntegrationCanary, PythonCanary, Step
  <2>2. QED
    BY <2>1, Placed, EarlyCanary, StepEarly DEF EarlyPlaces
<1>4. CASE IntegrationPii \/ PythonPii
  <2>1. /\ Step("builtin_pii_scan", "multi_turn_injection", IntegrationScan(call))
        /\ call.at = "builtin_pii_scan" /\ call.surface \in {"integration", "python"}
    BY <1>4 DEF IntegrationPii, PythonPii, Step, Integration, Python
  <2>2. QED
    BY <2>1, Placed, EarlyIntegrationScan, StepEarly DEF EarlyPlaces
<1>5. CASE IntegrationMultiTurn \/ PythonMultiTurn
  <2>1. /\ Step("multi_turn_injection", "policy_floor", MayRefuse(call, "multi_turn_injection"))
        /\ call.at = "multi_turn_injection"
    BY <1>5 DEF IntegrationMultiTurn, PythonMultiTurn, Step
  <2>2. QED
    BY <2>1, Placed, EarlyRefusal, StepEarly DEF EarlyPlaces, Layers
<1>6. CASE IntegrationFloor \/ PythonFloor
  <2>1. Step("policy_floor", "policy_rules", Floor(call)) /\ call.at = "policy_floor"
    BY <1>6 DEF IntegrationFloor, PythonFloor, Step
  <2>2. QED
    BY <2>1, Placed, EarlyFloor, StepEarly DEF EarlyPlaces
<1>7. QED
  BY <1>1, <1>2, <1>3, <1>4, <1>5, <1>6

\* The layers of evaluate().
LEMMA EvaluateLayersKeep ==
  ASSUME CallInv, EvaluateGate \/ EvaluatePii \/ EvaluateFloorLayer \/ EvaluateRules \/ EvaluateHook
  PROVE  CallInv' /\ call'.at # "sent"
<1>1. CASE EvaluateGate
  <2>1. PICK results : results = MayRefuse(IntegrityGate(call), "principal")
    OBVIOUS
  <2>2. Step("gate", "builtin_pii_scan", results) /\ call.at = "gate"
    BY <1>1, <2>1 DEF EvaluateGate, Step
  <2>3. QED
    BY <2>1, <2>2, GateAndPrincipal, StepEarly DEF EarlyPlaces
<1>2. CASE EvaluatePii
  <2>1. PICK results : results = IF Blocked(call) THEN {call} ELSE {call, PiiBlock(call)}
    OBVIOUS
  <2>2. Step("builtin_pii_scan", "policy_floor", results) /\ call.at = "builtin_pii_scan"
    BY <1>2, <2>1 DEF EvaluatePii, Step
  <2>3. QED
    BY <2>1, <2>2, Placed, EarlyEvaluateScan, StepEarly DEF EarlyPlaces
<1>3. CASE EvaluateFloorLayer
  <2>1. Step("policy_floor", "policy_rules", Floor(call)) /\ call.at = "policy_floor"
    BY <1>3 DEF EvaluateFloorLayer, Step
  <2>2. QED
    BY <2>1, Placed, EarlyFloor, StepEarly DEF EarlyPlaces
<1>4. CASE EvaluateRules
  <2>1. call.at = "policy_rules" /\ UNCHANGED <<config, gate, granted>>
    BY <1>4 DEF EvaluateRules, Step
  <2>2. /\ RuledFits(call) /\ Same(call, call) /\ call \in Calls
        /\ RuleStands(call) /\ ~Has(call, "ruledOut")
    BY <2>1, Placed, EarlyIsRuled DEF EarlyPlaces, EarlyFits, Has
  <2>3. PICK d : /\ call' = At(d, "hook")
                 /\ \/ d = call
                    \/ \E rules \in RuleLists, denyWins \in BOOLEAN : d = EvaluateApplyRules(call, rules, denyWins)
    BY <1>4 DEF EvaluateRules, Step
  <2>4. RuledFits(d) /\ Same(d, call) /\ RuleStands(d)
    BY <2>2, <2>3, RuledEvaluate
  <2>5. QED
    BY <2>1, <2>3, <2>4, Placed, ArriveRuled, Land DEF RuledPlaces, EarlyPlaces
<1>5. CASE EvaluateHook
  <2>1. Step("hook", "conclude", MayRefuse(call, "hook")) /\ call.at = "hook"
    BY <1>5 DEF EvaluateHook, Step
  <2>2. HookedFits(call) /\ call \in Calls
    BY <2>1, Placed, RuledIsHooked DEF RuledPlaces
  <2>3. QED
    BY <2>1, <2>2, HookedRefusal, StepHooked DEF RuledPlaces, HookedPlaces, Layers
<1>6. QED
  BY <1>1, <1>2, <1>3, <1>4, <1>5

\* The rules.
LEMMA RulesKeep ==
  ASSUME CallInv, WrapRules \/ IntegrationRules \/ PythonRules
  PROVE  CallInv' /\ call'.at # "sent"
<1>1. call.at = "policy_rules" /\ UNCHANGED <<config, gate, granted>>
  BY DEF WrapRules, IntegrationRules, PythonRules
<1>2. /\ RuledFits(call) /\ Same(call, call) /\ call \in Calls /\ Untold(call) /\ NoAnswer(call)
      /\ RuleStands(call) /\ ~Has(call, "ruledOut")
  BY <1>1, Placed, EarlyIsRuled DEF EarlyPlaces, EarlyFits, Has
<1>3. CASE Blocked(call)
  <2>1. call' = At(call, "hook")
    BY <1>3 DEF WrapRules, IntegrationRules, PythonRules
  <2>2. QED
    BY <1>1, <1>2, <2>1, ArriveRuled, Land DEF RuledPlaces
<1>4. CASE ~Blocked(call)
  <2>1. PICK rules \in RuleLists, denyWins \in BOOLEAN :
          LET verdict == RulesVerdict(call, rules, denyWins)
          IN \/ call' = At(verdict.call, "holding")
             \/ call.surface = "wrap" /\ \E c \in WrapApplyRules(verdict) : call' = At(c, "hook")
             \/ call.surface \in {"integration", "python"} /\ call' = At(IntegrationApplyRules(verdict), "hook")
    BY <1>4 DEF WrapRules, IntegrationRules, PythonRules, Wrap, Integration, Python
  <2>2. PICK v : v = RulesVerdict(call, rules, denyWins)
    OBVIOUS
  <2>3. /\ RuledFits(v.call) /\ Same(v.call, call) /\ v.call \in Calls /\ ~Blocked(v.call)
        /\ Has(v.call, "ruledOut") => v.outcome.decision = "block"
    BY <1>2, <1>4, <2>2, RulesMark, RuledOutBlocks DEF Same, Blocked
  <2>4. CASE call' = At(v.call, "holding")
    BY <1>1, <1>2, <2>3, <2>4, ArriveRuled, Land DEF RuledPlaces
  <2>5. ASSUME call.surface = "wrap", NEW d \in WrapApplyRules(v), call' = At(d, "hook")
        PROVE  CallInv' /\ call'.at # "sent"
    <3>1. RuledFits(d) /\ Same(d, v.call) /\ RuleStands(d)
      BY <2>3, <2>5, RuledWrap DEF Same
    <3>2. RuledFits(d) /\ Same(d, call) /\ RuleStands(d)
      BY <2>3, <3>1 DEF Same
    <3>3. QED
      BY <1>1, <1>2, <2>5, <3>2, ArriveRuled, Land DEF RuledPlaces
  <2>6. ASSUME call.surface \in {"integration", "python"}, NEW d, d = IntegrationApplyRules(v), call' = At(d, "hook")
        PROVE  CallInv' /\ call'.at # "sent"
    <3>1. RuledFits(d) /\ Same(d, v.call) /\ RuleStands(d)
      BY <2>3, <2>6, RuledIntegration DEF Same
    <3>2. RuledFits(d) /\ Same(d, call) /\ RuleStands(d)
      BY <2>3, <3>1 DEF Same
    <3>3. QED
      BY <1>1, <1>2, <2>6, <3>2, ArriveRuled, Land DEF RuledPlaces
  <2>7. QED
    BY <2>1, <2>2, <2>4, <2>5, <2>6
<1>5. QED
  BY <1>3, <1>4

\* The hook and the backend.
LEMMA HooksKeep ==
  ASSUME CallInv,
         \/ AwaitApproval \/ PythonAwaitApproval \/ WrapHook \/ IntegrationHook \/ PythonHook
         \/ WrapBackend \/ IntegrationBackend \/ PythonBackend
  PROVE  CallInv' /\ call'.at # "sent"
<1>1. CASE AwaitApproval \/ PythonAwaitApproval
  BY <1>1, StepHold DEF AwaitApproval, PythonAwaitApproval
<1>2. CASE WrapHook
  <2>1. Step("hook", "external_backend", HookResults(call)) /\ call.at = "hook" /\ call.surface = "wrap"
    BY <1>2 DEF WrapHook, Step, Wrap
  <2>2. QED
    BY <2>1, Placed, HookedWrapHook, StepHooked DEF RuledPlaces, HookedPlaces
<1>3. CASE IntegrationHook
  <2>1. /\ Step("hook", "external_backend", IntegrationHookResults(call))
        /\ call.at = "hook" /\ call.surface = "integration"
    BY <1>3 DEF IntegrationHook, Step, Integration
  <2>2. QED
    BY <2>1, Placed, HookedIntegrationHooks, StepHooked DEF RuledPlaces, HookedPlaces
<1>4. CASE PythonHook
  <2>1. PICK results : results = {call} \cup IF Has(call, "degraded") THEN {}
                                            ELSE {IntegrationHookResult(call, answer) : answer \in HookAnswers}
    OBVIOUS
  <2>2. Step("hook", "external_backend", results) /\ call.at = "hook" /\ call.surface = "python"
    BY <1>4, <2>1 DEF PythonHook, Step, Python
  <2>3. ASSUME NEW d \in results PROVE HookedFits(d) /\ Same(d, call)
    <3>1. CASE d = call
      BY <2>2, <3>1, Placed, RuledIsHooked DEF RuledPlaces
    <3>2. CASE d # call
      <4>1. PICK answer \in HookAnswers : d = IntegrationHookResult(call, answer)
        BY <2>1, <3>2
      <4>2. ~Has(call, "degraded")
        BY <2>1, <3>2
      <4>3. QED
        BY <2>2, <4>1, <4>2, Placed, HookedIntegrationHook DEF RuledPlaces
    <3>3. QED
      BY <3>1, <3>2
  <2>4. QED
    BY <2>2, <2>3, StepHooked DEF RuledPlaces, HookedPlaces
<1>5. CASE WrapBackend \/ IntegrationBackend \/ PythonBackend
  <2>1. Step("external_backend", "conclude", BackendResults(call)) /\ call.at = "external_backend"
    BY <1>5 DEF WrapBackend, IntegrationBackend, PythonBackend, Step
  <2>2. QED
    BY <2>1, Placed, HookedBackend, StepHooked DEF HookedPlaces
<1>6. QED
  BY <1>1, <1>2, <1>3, <1>4, <1>5

\* A layer that throws before the call.
LEMMA ThrowsKeep ==
  ASSUME CallInv, WrapLayerThrows \/ IntegrationLayerThrows \/ PythonLayerThrows
  PROVE  CallInv' /\ call'.at # "sent"
<1>1. /\ call.at \in EarlyPlaces /\ UNCHANGED <<config, gate, granted>>
      /\ ~Blocked(call) \/ call.at = "session_taint"
  BY DEF WrapLayerThrows, IntegrationLayerThrows, PythonLayerThrows, WrapGuarded, EarlyPlaces
<1>2. EarlyFits(call) /\ call \in Calls /\ Untold(call) /\ NoAnswer(call) /\ config.failClosed \in BOOLEAN
  BY <1>1, Placed
<1>3. CASE WrapLayerThrows
  <2>1. PICK malformed \in BOOLEAN : call' = At(WrapCatch(call, call.at, malformed), "hook")
    BY <1>3 DEF WrapLayerThrows
  <2>2. PICK d : d = WrapCatch(call, call.at, malformed)
    OBVIOUS
  <2>3. RuledFits(d) /\ Same(d, call) /\ RuleStands(d)
    BY <1>2, <2>2, EarlyIsRuled, RuledWrapCatch DEF EarlyFits, Has
  <2>4. QED
    BY <1>1, <1>2, <2>1, <2>2, <2>3, ArriveRuled, Land DEF RuledPlaces
<1>4. CASE IntegrationLayerThrows \/ PythonLayerThrows
  <2>1. PICK malformed \in BOOLEAN : call' = At(IntegrationCatch(call, call.at, malformed), "caller")
    BY <1>4 DEF IntegrationLayerThrows, PythonLayerThrows
  <2>2. PICK d : d = IntegrationCatch(call, call.at, malformed)
    OBVIOUS
  <2>3. call.surface \in {"integration", "python"}
    BY <1>4 DEF IntegrationLayerThrows, PythonLayerThrows, Integration, Python
  <2>4. Blocked(call) => call.refusals \subseteq {"gate", "principal"} /\ call.marks \subseteq {"degraded"}
    BY <1>1, Placed
  <2>5. ConcludedFits(d) /\ Timely(d) /\ Same(d, call)
    BY <1>2, <2>2, <2>3, <2>4, CaughtFits
  <2>6. QED
    BY <1>1, <1>2, <2>1, <2>2, <2>5, ArriveCarry, Land DEF CarryPlaces
<1>5. QED
  BY <1>3, <1>4

----------------------------------------------------------------------------
(* The conclusion and the sending.                                         *)

\* What is carried out of c: its verdict, sent, perhaps marked to be audited.
Carries(e, c) ==
  /\ e \in Calls /\ e.at = "sent" /\ e.surface = c.surface /\ KeptRecord(e, c)
  /\ e.action = c.action /\ e.reason = c.reason /\ e.refusals = c.refusals
  /\ e.marks = c.marks \/ e.marks = c.marks \cup {"audited"}
  /\ e.action = "redacted" => e.outbound = "redacted"
  /\ e.outbound = "partial" => Has(c, "converted")

\* What the surfaces sample away.
Unsampled(c) ==
  /\ ~config.monitor /\ c.action # "redacted"
  /\ \/ c.surface = "integration"
     \/ /\ c.action = "allowed" /\ ~Has(c, "failureSeen")
        /\ c.surface = "python" => c.reason = "none"

\* A concluded call that is not blocked may be sent.
LEMMA SendFits ==
  ASSUME NEW c \in Calls, ConcludedFits(c), Untold(c), NoAnswer(c), ~Blocked(c),
         c.surface # "evaluate", NEW e, Carries(e, c), ~Has(e, "audited") => Unsampled(c)
  PROVE  Fits(e) /\ (Timely(c) => SendHolds(e))
<1>1. e \in Calls /\ e.at = "sent" /\ Untold(e) /\ NoAnswer(e)
  BY DEF Carries, KeptRecord, Untold, NoAnswer
<1>2. \A mark \in Marks \ {"audited"} : Has(e, mark) <=> Has(c, mark)
  BY DEF Carries, Has
<1>3. \A mark \in {"converted", "weakened", "abandoned", "failureSeen", "canary", "floor", "degraded",
                   "failedClosed", "claim", "ruledOut", "approved"} : Has(e, mark) <=> Has(c, mark)
  BY <1>2 DEF Marks
<1>4. e.refusals # {} => (config.monitor /\ Has(e, "converted")) \/ Has(e, "weakened") \/ GivenUp(e)
  BY <1>3 DEF ConcludedFits, RuleStands, GivenUp, Carries
<1>5. ~Has(e, "audited") => Quiet(e)
  <2>1. ASSUME ~Has(e, "audited"), c.action = "allowed", ~Has(c, "failureSeen") PROVE c.refusals = {}
    BY <2>1 DEF Unsampled, ConcludedFits, RuleStands, GivenUp, Blocked
  <2>2. QED
    BY <1>3, <2>1 DEF Unsampled, Quiet, Carries, Blocked
<1>6. RuleStands(e)
  BY <1>3 DEF ConcludedFits, RuleStands, Carries
<1>7. SentFits(e)
  <2>1. /\ e.action = "redacted" => e.outbound = "redacted"
        /\ e.outbound = "partial" => Has(e, "converted")
    BY <1>3 DEF Carries
  <2>2. QED
    BY <1>1, <1>4, <1>5, <1>6, <2>1 DEF SentFits, TellsVerdict, Untold
<1>8. Timely(c) => SendHolds(e)
  BY <1>3 DEF Timely, SendHolds, ConcludedFits, Carries, Blocked
<1>9. QED
  BY <1>1, <1>7, <1>8, ArriveSent

\* A refusal is recorded as one.
LEMMA BlockedEventFits ==
  ASSUME NEW c \in Calls
  PROVE  Fits(Event(c, "blocked")) /\ Event(c, "blocked").at = "done"
<1>1. PICK e : e = Event(c, "blocked")
  OBVIOUS
<1>2. /\ e \in Calls /\ e.at = "done" /\ Kept(e, c) /\ e.event = "blocked"
      /\ e.told = IF Has(c, "converted") THEN "would_block" ELSE c.action
  BY <1>1, EventFields
<1>3. DoneFits(e)
  BY <1>2 DEF DoneFits, TellsVerdict, Kept, HasVerdict, Has
<1>4. QED
  BY <1>1, <1>2, <1>3, ArriveDone

\* A wrapped client sends at once.
LEMMA WrapConcludeKeeps ==
  ASSUME CallInv, WrapConclude
  PROVE  CallInv' /\ (call'.at = "sent" => SendHolds(call'))
<1>1. /\ call.at = "conclude" /\ call.surface = "wrap" /\ UNCHANGED <<config, gate, granted>>
      /\ HookedFits(call) /\ call \in Calls /\ Untold(call) /\ NoAnswer(call)
      /\ config.monitor \in BOOLEAN /\ granted \in BOOLEAN
  BY Placed DEF WrapConclude, Wrap, HookedPlaces
<1>2. PICK c : c = Convert(Revalidate(call))
  OBVIOUS
<1>3. ConcludedFits(c) /\ Timely(c) /\ Same(c, call) /\ c \in Calls
  BY <1>1, <1>2, ConclusionFits DEF Same
<1>4. Untold(c) /\ NoAnswer(c) /\ c.surface = "wrap"
  BY <1>1, <1>3 DEF Same, Untold, NoAnswer
<1>5. CASE Blocked(c)
  <2>1. call' = Event(c, "blocked")
    BY <1>2, <1>5 DEF WrapConclude
  <2>2. QED
    BY <1>1, <1>3, <2>1, BlockedEventFits, Land
<1>6. CASE ~Blocked(c)
  <2>1. PICK sampled \in BOOLEAN :
          call' = At(IF AuditThisCall(c, sampled) THEN With(c, "audited") ELSE c, "sent")
    BY <1>2, <1>6 DEF WrapConclude
  <2>2. PICK m : m = IF AuditThisCall(c, sampled) THEN With(c, "audited") ELSE c
    OBVIOUS
  <2>3. /\ Same(m, c) /\ m \in Calls
        /\ \/ m = c /\ ~AuditThisCall(c, sampled)
           \/ HasVerdict(m, c.action, c.reason, c.marks \cup {"audited"}, c.refusals, c.outbound)
    BY <1>3, <2>2, WithFields DEF Same, Marks
  <2>4. PICK e : e = At(m, "sent")
    OBVIOUS
  <2>5. e \in Calls /\ e.at = "sent" /\ e.surface = m.surface /\ Kept(e, m) /\ KeptRecord(e, m)
    BY <2>3, <2>4, AtFields DEF Places
  <2>6. Carries(e, c)
    <3>1. c.action = "redacted" => c.outbound = "redacted"
      BY <1>3, <1>4 DEF ConcludedFits, RuleStands, OutboundFits
    <3>2. c.outbound = "partial" => Has(c, "converted")
      BY <1>3, <1>4, <1>6 DEF ConcludedFits, RuleStands, OutboundFits
    <3>3. QED
      BY <2>3, <2>5, <3>1, <3>2 DEF Carries, Same, Kept, HasVerdict, KeptRecord
  <2>7. ~Has(e, "audited") => Unsampled(c)
    BY <1>4, <2>3, <2>5 DEF Kept, HasVerdict, Has, Unsampled, AuditThisCall
  <2>8. Fits(e) /\ SendHolds(e)
    BY <1>3, <1>4, <1>6, <2>6, <2>7, SendFits
  <2>9. QED
    BY <1>1, <2>1, <2>2, <2>4, <2>8, Land
<1>7. QED
  BY <1>5, <1>6

\* The others hand their verdict to the caller.
LEMMA ConcludeKeeps ==
  ASSUME CallInv, IntegrationConclude \/ PythonConclude \/ Anonymized \/ PythonAnonymized
  PROVE  CallInv' /\ call'.at # "sent"
<1>1. CASE IntegrationConclude \/ PythonConclude
  <2>1. /\ call.at = "conclude" /\ UNCHANGED <<config, gate, granted>>
        /\ HookedFits(call) /\ call \in Calls /\ Untold(call) /\ NoAnswer(call)
        /\ config.monitor \in BOOLEAN /\ granted \in BOOLEAN
    BY <1>1, Placed DEF IntegrationConclude, PythonConclude, HookedPlaces
  <2>2. PICK c : c = Convert(Revalidate(call))
    OBVIOUS
  <2>3. ConcludedFits(c) /\ Timely(c) /\ Same(c, call)
    BY <2>1, <2>2, ConclusionFits
  <2>4. PICK place : place = IF c.action = "redacted" THEN "anonymizer" ELSE "caller"
    OBVIOUS
  <2>5. call' = At(c, place)
    BY <1>1, <2>2, <2>4 DEF IntegrationConclude, PythonConclude
  <2>6. Fits(At(c, place)) /\ At(c, place).at = place
    BY <2>1, <2>3, <2>4, ArriveCarry DEF CarryPlaces
  <2>7. QED
    BY <2>1, <2>4, <2>5, <2>6, Land
<1>2. CASE Anonymized \/ PythonAnonymized
  <2>1. /\ call.at = "anonymizer" /\ UNCHANGED <<config, gate, granted>> /\ call' = At(call, "caller")
    BY <1>2 DEF Anonymized, PythonAnonymized, Step
  <2>2. ConcludedFits(call) /\ Same(call, call) /\ Untold(call) /\ NoAnswer(call) /\ call \in Calls
    BY <2>1, Placed DEF CarryPlaces
  <2>3. Timely(call)
    <3>1. call.action = "redacted"
      BY <2>1 DEF CallInv, Fits
    <3>2. QED
      BY <2>2, <3>1 DEF ConcludedFits, RuleStands, Timely
  <2>4. QED
    BY <2>1, <2>2, <2>3, ArriveCarry, Land DEF CarryPlaces
<1>3. QED
  BY <1>1, <1>2

\* What the caller does with the verdict.
LEMMA CarryOutFits ==
  ASSUME NEW c \in Calls, c.surface \in {"integration", "python"}, ConcludedFits(c),
         NEW d \in CarryOut(c) \cup PythonCarryOut(c)
  PROVE  \/ Fits(d) /\ d.at = "done"
         \/ Carries(d, c) /\ ~Blocked(c)
<1>1. CASE c.action = "redacted"
  <2>1. PICK r \in ApplyRedaction(c) : d = IF Blocked(r) THEN Event(r, "blocked") ELSE At(r, "sent")
    BY <1>1 DEF CarryOut, PythonCarryOut, Blocked
  <2>2. /\ Same(r, c) /\ r \in Calls
        /\ \/ HasVerdict(r, c.action, c.reason, c.marks, c.refusals, "redacted")
           \/ HasVerdict(r, "blocked", "policy_violation", c.marks, c.refusals \cup {"redaction"}, "partial")
    BY RedactionFields DEF Same
  <2>3. CASE Blocked(r)
    BY <2>1, <2>2, <2>3, BlockedEventFits
  <2>4. CASE ~Blocked(r)
    <3>1. d = At(r, "sent") /\ HasVerdict(r, c.action, c.reason, c.marks, c.refusals, "redacted")
      BY <2>1, <2>2, <2>4 DEF HasVerdict, Blocked
    <3>2. d \in Calls /\ d.at = "sent" /\ d.surface = r.surface /\ Kept(d, r) /\ KeptRecord(d, r)
      BY <2>2, <3>1, AtFields DEF Places
    <3>3. Carries(d, c)
      BY <2>2, <3>1, <3>2 DEF Carries, Same, Kept, HasVerdict, KeptRecord
    <3>4. QED
      BY <1>1, <3>3 DEF Blocked
  <2>5. QED
    BY <2>3, <2>4
<1>2. CASE Blocked(c)
  <2>1. d = Event(c, "blocked")
    BY <1>2 DEF CarryOut, PythonCarryOut, Blocked
  <2>2. QED
    BY <2>1, BlockedEventFits
<1>3. CASE c.action # "redacted" /\ ~Blocked(c)
  <2>1. d = At(c, "sent")
    BY <1>3 DEF CarryOut, PythonCarryOut
  <2>2. d \in Calls /\ d.at = "sent" /\ d.surface = c.surface /\ Kept(d, c) /\ KeptRecord(d, c)
    BY <2>1, AtFields DEF Places
  <2>3. c.outbound = "raw"
    BY DEF ConcludedFits, RuleStands, OutboundFits
  <2>4. QED
    BY <1>3, <2>2, <2>3 DEF Carries, Kept, HasVerdict
<1>4. QED
  BY <1>1, <1>2, <1>3

\* The caller sends, or throws for a refusal.
LEMMA ResultKeeps ==
  ASSUME CallInv, IntegrationCaller \/ PythonCaller
  PROVE  CallInv' /\ (call'.at = "sent" => SendHolds(call'))
<1>1. /\ call.at = "caller" /\ call.surface \in {"integration", "python"}
      /\ UNCHANGED <<config, gate, granted>>
  BY DEF IntegrationCaller, PythonCaller, Integration, Python
<1>2. /\ ConcludedFits(call) /\ Untold(call) /\ NoAnswer(call) /\ call \in Calls /\ Timely(call)
  BY <1>1, Placed DEF CarryPlaces, CallInv, Fits
<1>3. PICK d \in CarryOut(call) \cup PythonCarryOut(call), sampled \in BOOLEAN :
        \/ /\ call.surface = "integration"
           /\ call' = IF d.at = "sent" /\ (config.monitor \/ sampled \/ d.action = "redacted")
                        THEN With(d, "audited") ELSE d
        \/ /\ call.surface = "python"
           /\ call' = IF d.at = "sent" /\ EmitAudit(d, sampled) THEN With(d, "audited") ELSE d
  BY DEF IntegrationCaller, PythonCaller, Integration, Python
<1>4. CASE Fits(d) /\ d.at = "done"
  BY <1>1, <1>3, <1>4, Land
<1>5. CASE Carries(d, call) /\ ~Blocked(call)
  <2>1. PICK e : e = call'
    OBVIOUS
  <2>2. d \in Calls /\ d.at = "sent"
    BY <1>5 DEF Carries
  <2>3. CASE e = With(d, "audited")
    <3>1. Same(e, d) /\ HasVerdict(e, d.action, d.reason, d.marks \cup {"audited"}, d.refusals, d.outbound)
      BY <2>2, <2>3, WithFields DEF Marks
    <3>2. Carries(e, call) /\ Has(e, "audited")
      BY <1>5, <3>1 DEF Carries, Same, HasVerdict, KeptRecord, Has
    <3>3. Fits(e) /\ SendHolds(e)
      BY <1>1, <1>2, <1>5, <3>2, SendFits
    <3>4. QED
      BY <1>1, <2>1, <3>3, Land
  <2>4. CASE e = d /\ ~Has(d, "audited") /\ e # With(d, "audited")
    <3>1. Unsampled(call)
      BY <1>1, <1>3, <1>5, <2>1, <2>2, <2>4 DEF Unsampled, EmitAudit, Carries, Has
    <3>2. Fits(e) /\ SendHolds(e)
      BY <1>1, <1>2, <1>5, <2>4, <3>1, SendFits
    <3>3. QED
      BY <1>1, <2>1, <3>2, Land
  <2>5. CASE e = d /\ Has(d, "audited")
    <3>1. Fits(e) /\ SendHolds(e)
      BY <1>1, <1>2, <1>5, <2>5, SendFits
    <3>2. QED
      BY <1>1, <2>1, <3>1, Land
  <2>6. QED
    BY <1>3, <2>1, <2>3, <2>4, <2>5
<1>6. QED
  BY <1>1, <1>2, <1>3, <1>4, <1>5, CarryOutFits

\* A throw inside evaluate() ends it: closed it refuses, open it permits.
LEMMA EvaluateThrowsKeep ==
  ASSUME CallInv, EvaluateLayerThrows
  PROVE  CallInv' /\ (call'.at = "sent" => SendHolds(call'))
<1>1. /\ call.at \in {"builtin_pii_scan", "policy_floor", "policy_rules", "hook"}
      /\ call.surface = "evaluate" /\ ~Blocked(call) /\ UNCHANGED <<config, gate, granted>>
  BY DEF EvaluateLayerThrows, Evaluates
<1>2. RuledFits(call) /\ RuleStands(call) /\ Untold(call) /\ NoAnswer(call) /\ call \in Calls
  BY <1>1, Placed, EarlyIsRuled DEF EarlyPlaces, RuledPlaces
<1>3. PICK n : n = With(call, "failureSeen")
  OBVIOUS
<1>4. RuledFits(n) /\ Same(n, call) /\ n \in Calls /\ n.action = call.action
  BY <1>2, <1>3, RuledMark DEF Same
<1>5. Has(n, "failureSeen") /\ ~Blocked(n)
  BY <1>1, <1>2, <1>3, <1>4, WithFields DEF HasVerdict, Has, Marks, Blocked
<1>5a. RuleStands(n)
  BY <1>2, <1>3, WithFields DEF RuleStands, HasVerdict, Has, Marks
<1>6. PICK b : b = Block(n, "detector")
  OBVIOUS
<1>7. Same(b, n) /\ b \in Calls /\ Blocked(b) /\ b.marks = n.marks
  BY <1>4, <1>6, BlockFields DEF Layers, Same, HasVerdict, Blocked
<1>8. \/ call' = At(b, "done")
      \/ call' = At(n, "sent")
  BY <1>3, <1>5, <1>6, <1>7 DEF EvaluateLayerThrows, EvaluateCatch
<1>9. CASE call' = At(b, "done")
  <2>1. PICK e : e = At(b, "done")
    OBVIOUS
  <2>2. e \in Calls /\ e.at = "done" /\ e.surface = b.surface /\ Kept(e, b) /\ KeptRecord(e, b)
    BY <1>7, <2>1, AtFields DEF Places
  <2>3. e.surface = "evaluate" /\ e.event = "none" /\ Has(e, "failureSeen")
    BY <1>1, <1>2, <1>4, <1>5, <1>7, <2>2 DEF Same, Untold, Kept, HasVerdict, KeptRecord, Has
  <2>4. DoneFits(e)
    BY <2>3 DEF DoneFits, TellsVerdict, Quiet
  <2>5. QED
    BY <1>1, <1>9, <2>1, <2>2, <2>4, ArriveDone, Land
<1>10. CASE call' = At(n, "sent")
  <2>1. PICK e : e = At(n, "sent")
    OBVIOUS
  <2>2. e \in Calls /\ e.at = "sent" /\ e.surface = n.surface /\ Kept(e, n) /\ KeptRecord(e, n)
    BY <1>4, <2>1, AtFields DEF Places
  <2>3. e.surface = "evaluate" /\ e.event = "none" /\ NoAnswer(e)
    BY <1>1, <1>2, <1>4, <2>2 DEF Same, Untold, NoAnswer, KeptRecord
  <2>4. RuledFits(e) /\ ~Blocked(e)
    BY <1>4, <1>5, <2>2 DEF RuledFits, Kept, HasVerdict, Has, Blocked, OutboundFits
  <2>4a. RuleStands(e)
    BY <1>5a, <2>2 DEF RuleStands, Kept, HasVerdict, Has
  <2>5. SentFits(e)
    BY <2>3, <2>4, <2>4a DEF RuledFits, SentFits, RuleStands, TellsVerdict, OutboundFits
  <2>6. SendHolds(e)
    BY <2>3, <2>4 DEF RuledFits, SendHolds, Has
  <2>7. QED
    BY <1>1, <1>10, <2>1, <2>2, <2>3, <2>5, <2>6, ArriveSent, Land
<1>11. QED
  BY <1>8, <1>9, <1>10

\* evaluate() converts, and permits or refuses.
LEMMA EvaluateConcludeKeeps ==
  ASSUME CallInv, EvaluateConclude
  PROVE  CallInv' /\ (call'.at = "sent" => SendHolds(call'))
<1>1. /\ call.at = "conclude" /\ call.surface = "evaluate" /\ UNCHANGED <<config, gate, granted>>
      /\ HookedFits(call) /\ call \in Calls /\ NoAnswer(call) /\ config.monitor \in BOOLEAN
  BY Placed DEF EvaluateConclude, Evaluates, HookedPlaces
<1>2. PICK c : c = Convert(call)
  OBVIOUS
<1>3. /\ ConcludedFits(c) /\ Same(c, call) /\ c \in Calls
      /\ Has(c, "converted") => ~gate
      /\ ~Has(c, "abandoned")
  BY <1>1, <1>2, ConvertedFits DEF Same
<1>4. CASE Blocked(c)
  <2>1. call' = Event(c, "blocked")
    BY <1>2, <1>4 DEF EvaluateConclude
  <2>2. QED
    BY <1>1, <1>3, <2>1, BlockedEventFits, Land
<1>5. CASE ~Blocked(c)
  <2>1. PICK r : r = Record(c, "completed")
    OBVIOUS
  <2>2. /\ r \in Calls /\ r.surface = "evaluate" /\ Kept(r, c) /\ r.truth = c.truth /\ r.stored = c.stored
        /\ r.told = IF Has(c, "converted") THEN "would_block" ELSE c.action
    BY <1>1, <1>3, <2>1, RecordFields DEF Same
  <2>3. PICK e : e = At(r, "sent")
    OBVIOUS
  <2>4. e \in Calls /\ e.at = "sent" /\ e.surface = r.surface /\ Kept(e, r) /\ KeptRecord(e, r)
    BY <2>2, <2>3, AtFields DEF Places
  <2>5. /\ e.surface = "evaluate" /\ Kept(e, c)
        /\ e.told = IF Has(c, "converted") THEN "would_block" ELSE c.action
    BY <2>2, <2>4 DEF Kept, HasVerdict, KeptRecord
  <2>6. NoAnswer(e)
    BY <1>1, <1>3, <2>2, <2>4 DEF Same, KeptRecord, NoAnswer
  <2>7. ConcludedFits(e) /\ ~Blocked(e)
    BY <1>1, <1>3, <1>5, <2>5 DEF ConcludedFits, RuleStands, GivenUp, Kept, HasVerdict, Same, Has, Blocked, OutboundFits
  <2>8. SentFits(e)
    <3>1. TellsVerdict(e)
      BY <2>5 DEF TellsVerdict, Kept, HasVerdict, Has
    <3>2. QED
      BY <2>5, <2>7, <3>1 DEF ConcludedFits, RuleStands, SentFits, OutboundFits
  <2>9. ~Has(e, "abandoned") /\ (Has(e, "converted") => ~gate)
    BY <1>3, <2>5 DEF Kept, HasVerdict, Has
  <2>10. SendHolds(e)
    BY <2>5, <2>7, <2>9 DEF ConcludedFits, RuleStands, SendHolds
  <2>11. call' = e
    BY <1>2, <1>5, <2>1, <2>3 DEF EvaluateConclude
  <2>12. QED
    BY <1>1, <2>4, <2>6, <2>8, <2>10, <2>11, ArriveSent, Land
<1>6. QED
  BY <1>4, <1>5

----------------------------------------------------------------------------
(* The answer and its event.                                               *)

\* A call nothing is recorded of.
LEMMA UnrecordedFits ==
  ASSUME NEW c \in Calls, Untold(c)
  PROVE  Fits(Unrecorded(c)) /\ Unrecorded(c).at = "done"
<1>1. PICK d : d = At(c, "done")
  OBVIOUS
<1>2. d \in Calls /\ d.at = "done" /\ d.event = "none"
  BY <1>1, AtFields DEF Places, KeptRecord, Untold
<1>3. PICK e : e = With(d, "unrecorded")
  OBVIOUS
<1>4. Same(e, d) /\ Has(e, "unrecorded")
  BY <1>2, <1>3, WithFields DEF Marks, HasVerdict, Has
<1>5. e \in Calls /\ e.at = "done" /\ DoneFits(e)
  BY <1>2, <1>4 DEF Same, DoneFits, TellsVerdict
<1>6. Unrecorded(c) = e
  BY <1>1, <1>3 DEF Unrecorded
<1>7. QED
  BY <1>5, <1>6, ArriveDone

\* A call that has nothing to tell.
LEMMA QuietDoneFits ==
  ASSUME NEW c \in Calls, Untold(c), Quiet(c)
  PROVE  Fits(At(c, "done")) /\ At(c, "done").at = "done"
<1>1. PICK e : e = At(c, "done")
  OBVIOUS
<1>2. e \in Calls /\ e.at = "done" /\ e.surface = c.surface /\ Kept(e, c) /\ KeptRecord(e, c)
  BY <1>1, AtFields DEF Places
<1>3. DoneFits(e)
  BY <1>2 DEF DoneFits, TellsVerdict, Quiet, Untold, Kept, HasVerdict, KeptRecord, Has, Blocked
<1>4. QED
  BY <1>1, <1>2, <1>3, ArriveDone

\* An event whose copy is governed.
LEMMA EventFits ==
  ASSUME NEW c \in Calls, NEW kind \in {"error", "completed"}, CopyGoverned(c, kind)
  PROVE  Fits(Event(c, kind)) /\ Event(c, kind).at = "done"
<1>1. kind \in {"blocked", "error", "completed"}
  OBVIOUS
<1>2. PICK e : e = Event(c, kind)
  OBVIOUS
<1>3. /\ e \in Calls /\ e.at = "done" /\ e.surface = c.surface /\ Kept(e, c) /\ e.event = kind
      /\ e.told = IF Has(c, "converted") THEN "would_block" ELSE c.action
      /\ e.truth = c.truth /\ e.stored = c.stored
  BY <1>1, <1>2, EventFields
<1>4. DoneFits(e)
  BY <1>3 DEF DoneFits, TellsVerdict, CopyGoverned, Withheld, Kept, HasVerdict, Has
<1>5. QED
  BY <1>2, <1>3, <1>4, ArriveDone

\* An event without an answer.
LEMMA EmptyEventFits ==
  ASSUME NEW c \in Calls, NoAnswer(c)
  PROVE  Fits(Event(c, "error")) /\ Event(c, "error").at = "done"
BY EventFits DEF NoAnswer, CopyGoverned

\* On the way to the event, before there is one.
LEMMA GoOut ==
  ASSUME NEW c \in Calls, Untold(c), NoAnswer(c), ~Has(c, "audited") => Quiet(c),
         NEW place \in OutPlaces \ BuiltPlaces,
         place \in WrapPlaces => c.surface = "wrap",
         place \in PythonPlaces => c.surface = "python",
         place = "building" => c.surface = "integration"
  PROVE  Fits(At(c, place)) /\ At(c, place).at = place
<1>1. PICK e : e = At(c, place)
  OBVIOUS
<1>2. e \in Calls /\ e.at = place /\ e.surface = c.surface /\ Kept(e, c) /\ KeptRecord(e, c)
  BY <1>1, AtFields DEF Places
<1>3. Untold(e) /\ NoAnswer(e) /\ (~Has(e, "audited") => Quiet(e))
  BY <1>2 DEF Untold, NoAnswer, Quiet, Kept, HasVerdict, KeptRecord, Has, Blocked
<1>4. QED
  BY <1>1, <1>2, <1>3, ArriveOut

\* What the invariant says of a call that was sent.
LEMMA PlacedOut ==
  ASSUME CallInv, call.at \in {"sent"} \cup OutPlaces, call.surface # "evaluate"
  PROVE  /\ call \in Calls /\ Untold(call) /\ (~Has(call, "audited") => Quiet(call))
         /\ call.at \notin BuiltPlaces => NoAnswer(call)
         /\ call.at \in BuiltPlaces => BuiltFits(call)
         /\ call.at \in WrapPlaces => call.surface = "wrap"
         /\ call.at \in PythonPlaces => call.surface = "python"
         /\ call.at = "building" => call.surface = "integration"
<1>1. CASE call.at = "sent"
  <2>1. SentFits(call) /\ NoAnswer(call) /\ call \in Calls
    BY <1>1, OutPlacesApart, PlacesApart DEF CallInv, Fits
  <2>2. "sent" \notin BuiltPlaces \cup WrapPlaces \cup PythonPlaces \cup {"building"}
    BY OutPlacesApart, PlacesApart
  <2>3. QED
    BY <1>1, <2>1, <2>2 DEF SentFits, RuleStands
<1>2. CASE call.at \in OutPlaces
  <2>1. call.at \notin {"sent", "done"}
    BY <1>2, PlacesApart
  <2>2. QED
    BY <1>2, <2>1 DEF CallInv, Fits
<1>3. QED
  BY <1>1, <1>2

\* The answer of the provider.
LEMMA AnswersKeep ==
  ASSUME CallInv,
         \/ StreamSkipped \/ ProviderFails \/ ProviderAnswers \/ ProviderStreams
         \/ IntegrationAnswered \/ PythonCallFails \/ PythonAnswers
  PROVE  CallInv' /\ call'.at # "sent"
<1>1. /\ call.at = "sent" /\ UNCHANGED <<config, gate, granted>>
      /\ call.surface \in {"wrap", "integration", "python"}
      /\ \/ call' = Unrecorded(call)
         \/ call' = Event(call, "error")
         \/ ~Has(call, "audited") /\ call' = At(call, "done")
         \/ call.surface = "wrap" /\ \E place \in {"value", "streaming"} : call' = At(call, place)
         \/ call.surface = "integration" /\ call' = At(call, "building")
         \/ call.surface = "python" /\ \E place \in {"py_answered", "py_streaming", "py_manager"} : call' = At(call, place)
  BY DEF StreamSkipped, ProviderFails, ProviderAnswers, ProviderStreams, IntegrationAnswered,
     PythonCallFails, PythonAnswers, Wrap, Integration, Python
<1>2. call \in Calls /\ Untold(call) /\ NoAnswer(call) /\ (~Has(call, "audited") => Quiet(call))
  BY <1>1, PlacedOut, OutPlacesApart, PlacesApart
<1>3. CASE call' = Unrecorded(call)
  BY <1>1, <1>2, <1>3, UnrecordedFits, Land
<1>4. CASE call' = Event(call, "error")
  BY <1>1, <1>2, <1>4, EmptyEventFits, Land
<1>5. CASE ~Has(call, "audited") /\ call' = At(call, "done")
  BY <1>1, <1>2, <1>5, QuietDoneFits, Land
<1>6. ASSUME NEW place \in {"value", "streaming"}, call.surface = "wrap", call' = At(call, place)
      PROVE  CallInv' /\ call'.at # "sent"
  <2>1. place \in OutPlaces \ BuiltPlaces /\ place \notin PythonPlaces \cup {"building"} /\ place # "sent"
    BY DEF OutPlaces, BuiltPlaces, WrapPlaces, PythonPlaces
  <2>2. QED
    BY <1>1, <1>2, <1>6, <2>1, GoOut, Land
<1>7. CASE call.surface = "integration" /\ call' = At(call, "building")
  <2>1. "building" \in OutPlaces \ BuiltPlaces /\ "building" \notin WrapPlaces \cup PythonPlaces
    BY DEF OutPlaces, BuiltPlaces, WrapPlaces, PythonPlaces
  <2>2. QED
    BY <1>1, <1>2, <1>7, <2>1, GoOut, Land
<1>8. ASSUME NEW place \in {"py_answered", "py_streaming", "py_manager"}, call.surface = "python",
             call' = At(call, place)
      PROVE  CallInv' /\ call'.at # "sent"
  <2>1. place \in OutPlaces \ BuiltPlaces /\ place \notin WrapPlaces \cup {"building"} /\ place # "sent"
    BY DEF OutPlaces, BuiltPlaces, WrapPlaces, PythonPlaces
  <2>2. QED
    BY <1>1, <1>2, <1>8, <2>1, GoOut, Land
<1>9. QED
  BY <1>1, <1>3, <1>4, <1>5, <1>6, <1>7, <1>8

\* The same call with an answer of its own.
AnswerOf(d, c) ==
  /\ d \in Calls /\ d.surface = c.surface /\ d.at = c.at /\ Kept(d, c)
  /\ d.event = c.event /\ d.told = c.told

\* An answer as it arrives.
Arrived(c, truth) == [c EXCEPT !.truth = truth, !.stored = "raw"]

\* It is all that changes.
LEMMA ArrivedFields ==
  ASSUME NEW c \in Calls, NEW truth \in Truths
  PROVE  /\ AnswerOf(Arrived(c, truth), c)
         /\ Arrived(c, truth).truth = truth /\ Arrived(c, truth).stored = "raw"
         /\ "view" \in truth => "pii" \in truth
<1>1. truth \in SUBSET Findings /\ ("view" \in truth => "pii" \in truth) /\ "raw" \in StoredCopies
  BY DEF Truths, StoredCopies
<1>2. QED
  BY <1>1 DEF Arrived, Calls, AnswerOf, Kept, HasVerdict

\* A copy in place of the stored one.
LEMMA CopyFields ==
  ASSUME NEW c \in Calls, NEW copy \in StoredCopies, NEW d, d = [c EXCEPT !.stored = copy]
  PROVE  AnswerOf(d, c) /\ d.truth = c.truth /\ d.stored = copy
BY DEF Calls, AnswerOf, Kept, HasVerdict

\* The net that keeps a canary out of the store.
LEMMA CanaryNetFields ==
  ASSUME NEW c \in Calls, NEW d \in CanaryNet(c)
  PROVE  /\ AnswerOf(d, c) /\ d.truth = c.truth
         /\ Withheld(d) \/ (d.stored = c.stored /\ ("canary" \in c.truth => c.stored # "raw"))
<1>1. \/ d = c /\ ("canary" \in c.truth => c.stored # "raw")
      \/ \E copy \in {"placeholder", "unscanned"} : d = [c EXCEPT !.stored = copy]
  BY DEF CanaryNet
<1>2. CASE d = c /\ ("canary" \in c.truth => c.stored # "raw")
  BY <1>2 DEF AnswerOf, Kept, HasVerdict
<1>3. ASSUME NEW copy \in {"placeholder", "unscanned"}, d = [c EXCEPT !.stored = copy]
      PROVE  AnswerOf(d, c) /\ d.truth = c.truth /\ Withheld(d)
  <2>1. copy \in StoredCopies
    BY DEF StoredCopies
  <2>2. QED
    BY <1>3, <2>1, CopyFields DEF Withheld
<1>4. QED
  BY <1>1, <1>2, <1>3

\* The net that keeps PII out of the store.
LEMMA PiiNetFields ==
  ASSUME NEW c \in Calls, NEW d \in PiiNet(c)
  PROVE  /\ AnswerOf(d, c) /\ d.truth = c.truth
         /\ \/ d.stored = c.stored /\ ("pii" \in c.truth => c.stored # "raw")
            \/ d.stored = "spans" /\ c.stored = "raw" /\ "view" \notin c.truth
            \/ Withheld(d)
<1>1. \/ d = c /\ "pii" \notin Seen(c)
      \/ c.stored = "raw" /\ "view" \notin c.truth /\ d = [c EXCEPT !.stored = "spans"]
      \/ \E copy \in {"placeholder", "unscanned"} : d = [c EXCEPT !.stored = copy]
  BY DEF PiiNet, Seen
<1>2. CASE d = c /\ "pii" \notin Seen(c)
  BY <1>2 DEF AnswerOf, Kept, HasVerdict, Seen
<1>3. CASE c.stored = "raw" /\ "view" \notin c.truth /\ d = [c EXCEPT !.stored = "spans"]
  <2>1. "spans" \in StoredCopies
    BY DEF StoredCopies
  <2>2. QED
    BY <1>3, <2>1, CopyFields
<1>4. ASSUME NEW copy \in {"placeholder", "unscanned"}, d = [c EXCEPT !.stored = copy]
      PROVE  AnswerOf(d, c) /\ d.truth = c.truth /\ Withheld(d)
  <2>1. copy \in StoredCopies
    BY DEF StoredCopies
  <2>2. QED
    BY <1>4, <2>1, CopyFields DEF Withheld
<1>5. QED
  BY <1>1, <1>2, <1>3, <1>4

\* Both nets over an answer.
LEMMA StoredByFits ==
  ASSUME NEW c \in Calls, NEW truth \in Truths, NEW d \in StoredBy(c, truth)
  PROVE  /\ AnswerOf(d, c) /\ d.truth = truth
         /\ "canary" \in truth => Withheld(d)
         /\ "pii" \in truth => d.stored # "raw"
         /\ "view" \in truth => Withheld(d) /\ "pii" \in truth
<1>1. PICK r : r = Arrived(c, truth)
  OBVIOUS
<1>2. AnswerOf(r, c) /\ r \in Calls /\ r.truth = truth /\ r.stored = "raw" /\ ("view" \in truth => "pii" \in truth)
  BY <1>1, ArrivedFields DEF AnswerOf
<1>3. PICK n \in CanaryNet(r) : d \in PiiNet(n)
  BY <1>1 DEF StoredBy, Arrived
<1>4. /\ AnswerOf(n, r) /\ n \in Calls /\ n.truth = truth
      /\ Withheld(n) \/ (n.stored = "raw" /\ "canary" \notin truth)
  BY <1>2, CanaryNetFields DEF AnswerOf
<1>5. /\ AnswerOf(d, n) /\ d.truth = truth
      /\ \/ d.stored = n.stored /\ ("pii" \in truth => n.stored # "raw")
         \/ d.stored = "spans" /\ n.stored = "raw" /\ "view" \notin truth
         \/ Withheld(d)
  BY <1>3, <1>4, PiiNetFields
<1>6. AnswerOf(d, c)
  BY <1>2, <1>4, <1>5 DEF AnswerOf, Kept, HasVerdict
<1>7. QED
  BY <1>2, <1>4, <1>5, <1>6 DEF Withheld

\* What the post-call policy leaves of the stored copy.
LEMMA PostOutcomeFields ==
  ASSUME NEW c \in Calls, c.stored = "raw" \/ Withheld(c), "view" \in c.truth => "pii" \in c.truth,
         NEW d \in PostCallOutcomes(c)
  PROVE  /\ d \in Calls /\ d.surface = c.surface /\ d.truth = c.truth
         /\ \/ Has(d, "unscanned") /\ d.stored = c.stored
            \/ /\ c.truth \cap {"canary", "floor", "view"} # {} => Withheld(d)
               /\ "pii" \in c.truth => d.stored # "raw"
<1>1. CASE d = Merge(ResponsePhaseFailure(c), "flag", "unscanned")
  <2>1. d = With(c, "unscanned")
    BY <1>1 DEF Merge, ResponsePhaseFailure
  <2>2. QED
    BY <2>1, WithFields DEF Marks, Same, HasVerdict, Has
<1>2. ASSUME NEW answer \in PostHookAnswers, d = Merge(c, PostDecision(Seen(c), answer), RedactedCopy(c))
      PROVE  /\ d \in Calls /\ d.surface = c.surface /\ d.truth = c.truth
             /\ c.truth \cap {"canary", "floor", "view"} # {} => Withheld(d)
             /\ "pii" \in c.truth => d.stored # "raw"
  <2>1. CASE PostDecision(Seen(c), answer) = "redact_response"
    <3>1. PICK copy : copy = RedactedCopy(c)
      OBVIOUS
    <3>2. /\ copy \in {"placeholder", "unscanned", "spans"}
          /\ c.truth \cap {"canary", "floor", "view"} # {} => copy \in {"placeholder", "unscanned"}
      BY <3>1 DEF RedactedCopy, Seen, Withheld
    <3>3. copy \in StoredCopies
      BY <3>2 DEF StoredCopies
    <3>4. d = [c EXCEPT !.stored = copy]
      BY <1>2, <2>1, <3>1 DEF Merge
    <3>5. AnswerOf(d, c) /\ d.truth = c.truth /\ d.stored = copy
      BY <3>3, <3>4, CopyFields
    <3>6. QED
      BY <3>2, <3>5 DEF AnswerOf, Withheld
  <2>2. CASE PostDecision(Seen(c), answer) # "redact_response"
    <3>1. d = c
      BY <1>2, <2>2 DEF Merge
    <3>2. Seen(c) \cap {"pii", "canary", "floor"} = {}
      BY <2>2 DEF PostDecision
    <3>3. c.stored = "raw" => c.truth \cap {"pii", "canary", "floor", "view"} = {}
      BY <3>2 DEF Seen
    <3>4. QED
      BY <3>1, <3>3 DEF Withheld
  <2>3. QED
    BY <2>1, <2>2
<1>3. QED
  BY <1>1, <1>2 DEF PostCallOutcomes

\* Building the event of an answer.
LEMMA BuildsKeep ==
  ASSUME CallInv, BuildEvent \/ BuildStreamEvent \/ PythonBuildsEvent \/ StreamEnds \/ PythonManager
  PROVE  CallInv' /\ call'.at # "sent"
<1>1. /\ call.at \in {"value", "drained", "streaming", "py_answered", "py_manager"}
      /\ UNCHANGED <<config, gate, granted>>
  BY DEF BuildEvent, BuildStreamEvent, PythonBuildsEvent, StreamEnds, PythonManager
<1>2. /\ call.at \in OutPlaces \ BuiltPlaces
      /\ call.at \in {"value", "drained", "streaming"} => call.at \in WrapPlaces
      /\ call.at \in {"py_answered", "py_manager"} => call.at \in PythonPlaces
  BY <1>1 DEF OutPlaces, BuiltPlaces, WrapPlaces, PythonPlaces
<1>3. /\ call \in Calls /\ Untold(call) /\ NoAnswer(call) /\ (~Has(call, "audited") => Quiet(call))
      /\ call.at \in WrapPlaces => call.surface = "wrap"
      /\ call.at \in PythonPlaces => call.surface = "python"
  <2>1. call.surface # "evaluate"
    BY <1>2 DEF CallInv, Fits, OutPlaces, WrapPlaces, PythonPlaces
  <2>2. QED
    BY <1>2, <2>1, PlacedOut
<1>4. CASE call' = Unrecorded(call)
  BY <1>1, <1>3, <1>4, UnrecordedFits, Land
<1>5. ASSUME NEW place \in {"drained", "py_streaming"}, call' = At(call, place),
             place = "drained" => call.surface = "wrap", place = "py_streaming" => call.surface = "python"
      PROVE  CallInv' /\ call'.at # "sent"
  <2>1. /\ place \in OutPlaces \ BuiltPlaces /\ place # "sent" /\ place # "building"
        /\ place = "drained" => place \notin PythonPlaces
        /\ place = "py_streaming" => place \notin WrapPlaces
    BY DEF OutPlaces, BuiltPlaces, WrapPlaces, PythonPlaces
  <2>2. QED
    BY <1>1, <1>3, <1>5, <2>1, GoOut, Land
<1>6. ASSUME NEW place \in BuiltPlaces, NEW d, AnswerOf(d, call), BuiltFits(At(d, place)), call' = At(d, place),
             place = "py_post_hook" => call.surface = "python",
             place # "py_post_hook" => call.surface = "wrap"
      PROVE  CallInv' /\ call'.at # "sent"
  <2>1. PICK e : e = At(d, place)
    OBVIOUS
  <2>2. /\ place \in OutPlaces /\ place # "building"
        /\ place \in WrapPlaces => place # "py_post_hook"
        /\ place \in PythonPlaces => place = "py_post_hook"
    BY DEF OutPlaces, BuiltPlaces, WrapPlaces, PythonPlaces
  <2>3. place \in Places /\ d \in Calls
    BY <1>6, <2>2 DEF AnswerOf, Places
  <2>4. e \in Calls /\ e.at = place /\ e.surface = d.surface /\ Kept(e, d) /\ KeptRecord(e, d)
    BY <2>1, <2>3, AtFields
  <2>5. e.surface = call.surface /\ Untold(e) /\ (~Has(e, "audited") => Quiet(e))
    BY <1>3, <1>6, <2>4 DEF AnswerOf, Untold, Quiet, Kept, HasVerdict, KeptRecord, Has, Blocked
  <2>6. Fits(e)
    BY <1>6, <2>1, <2>2, <2>4, <2>5, ArriveOut
  <2>7. QED
    BY <1>1, <1>6, <2>1, <2>2, <2>4, <2>6, PlacesApart, Land
<1>7. CASE BuildEvent
  <2>1. ASSUME NEW truth \in Truths, NEW r, r = Arrived(call, truth),
               NEW d \in CanaryNet(r), call' = At(d, "post_hook")
        PROVE  CallInv' /\ call'.at # "sent"
    <3>1. AnswerOf(r, call) /\ r \in Calls /\ r.truth = truth /\ r.stored = "raw" /\ ("view" \in truth => "pii" \in truth)
      BY <1>3, <2>1, ArrivedFields DEF AnswerOf
    <3>2. /\ AnswerOf(d, r) /\ d.truth = truth
          /\ Withheld(d) \/ (d.stored = "raw" /\ "canary" \notin truth)
      BY <2>1, <3>1, CanaryNetFields
    <3>3. AnswerOf(d, call) /\ d \in Calls
      BY <3>1, <3>2 DEF AnswerOf, Kept, HasVerdict
    <3>4. BuiltFits(At(d, "post_hook"))
      <4>1. "post_hook" \in Places
        BY DEF Places, OutPlaces, WrapPlaces
      <4>2. At(d, "post_hook").at = "post_hook" /\ KeptRecord(At(d, "post_hook"), d)
        BY <3>3, <4>1, AtFields
      <4>3. QED
        BY <3>1, <3>2, <4>2 DEF BuiltFits, Withheld, KeptRecord
    <3>5. call.surface = "wrap"
      BY <1>2, <1>3, <1>7 DEF BuildEvent
    <3>6. QED
      BY <1>6, <2>1, <3>3, <3>4, <3>5 DEF BuiltPlaces
  <2>2. \/ call' = Unrecorded(call)
        \/ \E truth \in Truths : \E d \in CanaryNet([call EXCEPT !.truth = truth, !.stored = "raw"]) :
             call' = At(d, "post_hook")
    BY <1>7 DEF BuildEvent
  <2>3. QED
    BY <1>4, <2>1, <2>2 DEF Arrived
<1>8. CASE BuildStreamEvent
  <2>1. call.at = "drained" /\ call.surface = "wrap"
    BY <1>2, <1>3, <1>8 DEF BuildStreamEvent
  <2>2. ASSUME NEW truth \in Truths, call' = [At(call, "post_stream_hook") EXCEPT !.truth = truth, !.stored = "raw"]
        PROVE  CallInv' /\ call'.at # "sent"
    <3>1. PICK d : d = Arrived(call, truth)
      OBVIOUS
    <3>2. AnswerOf(d, call) /\ d \in Calls /\ d.truth = truth /\ d.stored = "raw" /\ ("view" \in truth => "pii" \in truth)
      BY <1>3, <3>1, ArrivedFields DEF AnswerOf
    <3>3. call' = At(d, "post_stream_hook")
      BY <1>3, <2>2, <3>1 DEF At, Calls, Arrived
    <3>4. BuiltFits(At(d, "post_stream_hook"))
      <4>1. "post_stream_hook" \in Places
        BY DEF Places, OutPlaces, WrapPlaces
      <4>2. At(d, "post_stream_hook").at = "post_stream_hook" /\ KeptRecord(At(d, "post_stream_hook"), d)
        BY <3>2, <4>1, AtFields
      <4>3. QED
        BY <3>2, <4>2 DEF BuiltFits, KeptRecord
    <3>5. QED
      BY <1>6, <2>1, <3>2, <3>3, <3>4 DEF BuiltPlaces
  <2>3. QED
    BY <1>4, <1>8, <2>2 DEF BuildStreamEvent
<1>9. CASE PythonBuildsEvent
  <2>1. ASSUME NEW truth \in Truths, NEW d \in StoredBy(call, truth), call' = At(d, "py_post_hook")
        PROVE  CallInv' /\ call'.at # "sent"
    <3>1. /\ AnswerOf(d, call) /\ d \in Calls /\ d.truth = truth
          /\ "canary" \in truth => Withheld(d)
          /\ "pii" \in truth => d.stored # "raw"
          /\ "view" \in truth => Withheld(d) /\ "pii" \in truth
      BY <1>3, <2>1, StoredByFits DEF AnswerOf
    <3>2. BuiltFits(At(d, "py_post_hook"))
      <4>1. "py_post_hook" \in Places
        BY DEF Places, OutPlaces, PythonPlaces
      <4>2. At(d, "py_post_hook").at = "py_post_hook" /\ KeptRecord(At(d, "py_post_hook"), d)
        BY <3>1, <4>1, AtFields
      <4>3. QED
        BY <3>1, <4>2 DEF BuiltFits, Withheld, KeptRecord
    <3>3. call.surface = "python"
      BY <1>2, <1>3, <1>9 DEF PythonBuildsEvent
    <3>4. QED
      BY <1>6, <2>1, <3>1, <3>2, <3>3 DEF BuiltPlaces
  <2>2. QED
    BY <1>4, <1>9, <2>1 DEF PythonBuildsEvent
<1>10. CASE StreamEnds \/ PythonManager
  BY <1>4, <1>5, <1>10 DEF StreamEnds, PythonManager, Wrap, Python
<1>11. QED
  BY <1>7, <1>8, <1>9, <1>10

\* The copy is governed by what the post-call policy and the nets leave.
LEMMA GovernsKeep ==
  ASSUME CallInv, PostCallGovernance \/ StreamGovernance
  PROVE  CallInv' /\ call'.at # "sent"
<1>1. /\ call.at \in {"post_hook", "post_stream_hook"} /\ UNCHANGED <<config, gate, granted>>
  BY DEF PostCallGovernance, StreamGovernance
<1>2. call.at \in OutPlaces \cap BuiltPlaces \cap WrapPlaces
  BY <1>1 DEF OutPlaces, BuiltPlaces, WrapPlaces
<1>3. call \in Calls /\ BuiltFits(call) /\ call.surface = "wrap"
  <2>1. call.surface # "evaluate"
    BY <1>2 DEF CallInv, Fits
  <2>2. QED
    BY <1>2, <2>1, PlacedOut
<1>4. (call.stored = "raw" \/ Withheld(call)) /\ ("view" \in call.truth => "pii" \in call.truth)
  BY <1>1, <1>3 DEF BuiltFits
<1>5. CASE PostCallGovernance
  <2>1. call.at = "post_hook"
    BY <1>5 DEF PostCallGovernance
  <2>2. PICK d \in PostCallOutcomes(call) : call' = Event(d, "completed")
    BY <1>5 DEF PostCallGovernance
  <2>3. /\ d \in Calls /\ d.surface = "wrap" /\ d.truth = call.truth
        /\ \/ Has(d, "unscanned") /\ d.stored = call.stored
           \/ /\ call.truth \cap {"canary", "floor", "view"} # {} => Withheld(d)
              /\ "pii" \in call.truth => d.stored # "raw"
    BY <1>3, <1>4, PostOutcomeFields
  <2>4. "canary" \in call.truth => Withheld(call)
    BY <1>3, <2>1 DEF BuiltFits
  <2>5. CopyGoverned(d, "completed")
    BY <2>3, <2>4 DEF CopyGoverned, Withheld
  <2>6. QED
    BY <1>1, <2>2, <2>3, <2>5, EventFits, Land
<1>6. CASE StreamGovernance
  <2>1. PICK p \in PostCallOutcomes(call) : \E d \in CanaryNet(p) : call' = Event(d, "completed")
    BY <1>6 DEF StreamGovernance
  <2>2. PICK d \in CanaryNet(p) : call' = Event(d, "completed")
    BY <2>1
  <2>3. /\ p \in Calls /\ p.surface = "wrap" /\ p.truth = call.truth
        /\ \/ Has(p, "unscanned")
           \/ /\ call.truth \cap {"canary", "floor", "view"} # {} => Withheld(p)
              /\ "pii" \in call.truth => p.stored # "raw"
    BY <1>3, <1>4, PostOutcomeFields
  <2>4. /\ AnswerOf(d, p) /\ d.truth = p.truth
        /\ Withheld(d) \/ (d.stored = p.stored /\ ("canary" \in p.truth => p.stored # "raw"))
    BY <2>3, CanaryNetFields
  <2>5. d \in Calls /\ d.surface = "wrap" /\ (Has(p, "unscanned") => Has(d, "unscanned"))
    BY <2>3, <2>4 DEF AnswerOf, Kept, HasVerdict, Has
  <2>6. "canary" \in d.truth => Withheld(d)
    <3>1. p.stored \in StoredCopies
      BY <2>3 DEF Calls
    <3>2. call.stored = "raw"
      BY <1>3, <1>6 DEF BuiltFits, StreamGovernance
    <3>3. "canary" \in call.truth => p.stored = "raw" \/ Withheld(p)
      BY <1>3, <1>4, <2>3, <3>2, PostOutcomeFields DEF Withheld
    <3>4. QED
      BY <2>3, <2>4, <3>3 DEF Withheld
  <2>7. CopyGoverned(d, "completed")
    BY <2>3, <2>4, <2>5, <2>6 DEF CopyGoverned, Withheld
  <2>8. QED
    BY <1>1, <2>2, <2>5, <2>7, EventFits, Land
<1>7. QED
  BY <1>5, <1>6

\* The events that only the nets govern, and the event of the Python SDK.
LEMMA NetsKeep ==
  ASSUME CallInv, BuildIntegrationEvent \/ StreamBreaksOff \/ PythonStreamEnds \/ PythonPostCall
  PROVE  CallInv' /\ call'.at # "sent"
<1>1. /\ call.at \in {"building", "streaming", "py_streaming", "py_post_hook"}
      /\ UNCHANGED <<config, gate, granted>>
  BY DEF BuildIntegrationEvent, StreamBreaksOff, PythonStreamEnds, PythonPostCall
<1>2. /\ call.at \in OutPlaces
      /\ call.at \in BuiltPlaces <=> call.at = "py_post_hook"
      /\ call.at = "streaming" => call.at \in WrapPlaces
      /\ call.at \in {"py_streaming", "py_post_hook"} => call.at \in PythonPlaces
  BY <1>1 DEF OutPlaces, BuiltPlaces, WrapPlaces, PythonPlaces
<1>3. /\ call \in Calls /\ Untold(call) /\ (~Has(call, "audited") => Quiet(call))
      /\ call.at = "py_post_hook" => BuiltFits(call)
      /\ call.at = "building" => call.surface = "integration"
      /\ call.at = "streaming" => call.surface = "wrap"
      /\ call.at \in {"py_streaming", "py_post_hook"} => call.surface = "python"
  <2>1. call.surface # "evaluate"
    BY <1>1, <1>2 DEF CallInv, Fits
  <2>2. QED
    BY <1>2, <2>1, PlacedOut
<1>4. CASE call' = Unrecorded(call)
  BY <1>1, <1>3, <1>4, UnrecordedFits, Land
<1>5. CASE BuildIntegrationEvent
  <2>1. ASSUME NEW truth \in Truths, NEW d \in StoredBy(call, truth), call' = Event(d, "completed")
        PROVE  CallInv' /\ call'.at # "sent"
    <3>1. /\ AnswerOf(d, call) /\ d \in Calls /\ d.surface = call.surface /\ d.truth = truth
          /\ "canary" \in truth => Withheld(d)
          /\ "pii" \in truth => d.stored # "raw"
          /\ "view" \in truth => Withheld(d)
      BY <1>3, <2>1, StoredByFits DEF AnswerOf
    <3>2. call.surface = "integration"
      BY <1>3, <1>5 DEF BuildIntegrationEvent
    <3>3. CopyGoverned(d, "completed")
      BY <3>1, <3>2 DEF CopyGoverned
    <3>4. QED
      BY <1>1, <2>1, <3>1, <3>3, EventFits, Land
  <2>2. QED
    BY <1>4, <1>5, <2>1 DEF BuildIntegrationEvent, StoredBy
<1>6. CASE StreamBreaksOff
  <2>1. ASSUME NEW truth \in Truths, NEW r, r = Arrived(call, truth), NEW d \in CanaryNet(r),
               call' = Event(d, "error")
        PROVE  CallInv' /\ call'.at # "sent"
    <3>1. AnswerOf(r, call) /\ r \in Calls /\ r.truth = truth /\ r.stored = "raw"
      BY <1>3, <2>1, ArrivedFields DEF AnswerOf
    <3>2. /\ AnswerOf(d, r) /\ d \in Calls /\ d.truth = truth
          /\ "canary" \in truth => Withheld(d)
      BY <2>1, <3>1, CanaryNetFields DEF AnswerOf
    <3>3. d.surface = "wrap"
      BY <1>3, <1>6, <3>1, <3>2 DEF AnswerOf, StreamBreaksOff
    <3>4. CopyGoverned(d, "error")
      BY <3>2, <3>3 DEF CopyGoverned
    <3>5. QED
      BY <1>1, <2>1, <3>2, <3>4, EventFits, Land
  <2>2. \/ call' = Unrecorded(call)
        \/ \E truth \in Truths : \E d \in CanaryNet(Arrived(call, truth)) : call' = Event(d, "error")
    BY <1>6 DEF StreamBreaksOff, Arrived
  <2>3. QED
    BY <1>4, <2>1, <2>2
<1>7. CASE PythonStreamEnds
  <2>1. ASSUME NEW truth \in Truths, NEW d \in StoredBy(call, truth), call' = Event(d, "error")
        PROVE  CallInv' /\ call'.at # "sent"
    <3>1. /\ AnswerOf(d, call) /\ d \in Calls /\ d.truth = truth
          /\ "canary" \in truth => Withheld(d)
          /\ "pii" \in truth => d.stored # "raw"
      BY <1>3, <2>1, StoredByFits DEF AnswerOf
    <3>2. CopyGoverned(d, "error")
      BY <3>1 DEF CopyGoverned
    <3>3. QED
      BY <1>1, <2>1, <3>1, <3>2, EventFits, Land
  <2>2. CASE call' = At(call, "py_answered")
    <3>1. NoAnswer(call) /\ call.surface = "python"
      <4>1. call.at = "py_streaming" /\ call.surface # "evaluate"
        BY <1>3, <1>7 DEF PythonStreamEnds
      <4>2. QED
        BY <1>2, <1>3, <4>1, PlacedOut
    <3>2. "py_answered" \in OutPlaces \ BuiltPlaces /\ "py_answered" \notin WrapPlaces \cup {"building"}
      BY DEF OutPlaces, BuiltPlaces, WrapPlaces, PythonPlaces
    <3>3. QED
      BY <1>1, <1>3, <2>2, <3>1, <3>2, GoOut, Land
  <2>3. QED
    BY <1>4, <1>7, <2>1, <2>2 DEF PythonStreamEnds
<1>8. CASE PythonPostCall
  <2>1. call.at = "py_post_hook" /\ call.surface = "python" /\ BuiltFits(call)
    BY <1>3, <1>8 DEF PythonPostCall
  <2>2. CASE ~Has(call, "audited")
    <3>1. call' = At(call, "done")
      BY <1>8, <2>2 DEF PythonPostCall
    <3>2. QED
      BY <1>1, <1>3, <2>2, <3>1, QuietDoneFits, Land
  <2>3. ASSUME NEW answer \in PostHookAnswers,
               call' = Event(Merge(call, PostDecision(call.truth, answer), PythonRedactedCopy(call)), "completed")
        PROVE  CallInv' /\ call'.at # "sent"
    <3>1. PICK d : d = Merge(call, PostDecision(call.truth, answer), PythonRedactedCopy(call))
      OBVIOUS
    <3>2. "view" \in call.truth => "pii" \in call.truth
      BY <2>1 DEF BuiltFits
    <3>3. CASE PostDecision(call.truth, answer) = "redact_response"
      <4>1. PICK copy : copy = PythonRedactedCopy(call)
        OBVIOUS
      <4>2. /\ copy \in {"placeholder", "spans"}
            /\ call.truth \cap {"canary", "floor", "view"} # {} => copy = "placeholder"
        BY <4>1 DEF PythonRedactedCopy
      <4>3. copy \in StoredCopies
        BY <4>2 DEF StoredCopies
      <4>4. d = [call EXCEPT !.stored = copy]
        BY <3>1, <3>3, <4>1 DEF Merge
      <4>5. AnswerOf(d, call) /\ d \in Calls /\ d.truth = call.truth /\ d.stored = copy
        BY <1>3, <4>3, <4>4, CopyFields DEF AnswerOf
      <4>6. CopyGoverned(d, "completed")
        BY <4>2, <4>5 DEF CopyGoverned, Withheld
      <4>7. QED
        BY <1>1, <2>3, <3>1, <4>5, <4>6, EventFits, Land
    <3>4. CASE PostDecision(call.truth, answer) # "redact_response"
      <4>1. d = call
        BY <3>1, <3>4 DEF Merge
      <4>2. call.truth \cap {"pii", "canary", "floor", "view"} = {}
        BY <3>2, <3>4 DEF PostDecision
      <4>3. CopyGoverned(d, "completed")
        BY <4>1, <4>2 DEF CopyGoverned
      <4>4. QED
        BY <1>1, <1>3, <2>3, <3>1, <4>1, <4>3, EventFits, Land
    <3>5. QED
      BY <3>3, <3>4
  <2>4. CASE call' = [Event(With(call, "unscanned"), "completed") EXCEPT !.told = "allowed"]
    <3>1. PICK w : w = With(call, "unscanned")
      OBVIOUS
    <3>2. /\ Same(w, call) /\ w \in Calls /\ Has(w, "unscanned")
      BY <1>3, <3>1, WithFields DEF Marks, Same, HasVerdict, Has
    <3>3. PICK e : e = Event(w, "completed")
      OBVIOUS
    <3>4. /\ e \in Calls /\ e.at = "done" /\ e.surface = "python" /\ e.event = "completed"
          /\ e.truth = call.truth /\ e.stored = call.stored /\ Has(e, "unscanned")
      BY <2>1, <3>2, <3>3, EventFields DEF Same, Kept, HasVerdict, Has
    <3>5. PICK d : d = [e EXCEPT !.told = "allowed"]
      OBVIOUS
    <3>6. /\ d \in Calls /\ d.at = "done" /\ d.surface = "python" /\ d.event = "completed"
          /\ d.truth = call.truth /\ d.stored = call.stored /\ Has(d, "unscanned")
      BY <3>4, <3>5 DEF Calls, Actions, Has
    <3>7. DoneFits(d)
      BY <2>1, <3>6 DEF DoneFits, TellsVerdict, CopyGoverned, BuiltFits, Withheld
    <3>8. call' = d
      BY <2>4, <3>1, <3>3, <3>5
    <3>9. QED
      BY <1>1, <3>6, <3>7, <3>8, ArriveDone, Land
  <2>5. QED
    BY <1>8, <2>2, <2>3, <2>4 DEF PythonPostCall, PythonPostCallOutcomes
<1>9. QED
  BY <1>5, <1>6, <1>7, <1>8

----------------------------------------------------------------------------
(* Every step, and the theorems.                                           *)

\* A new call fits.
LEMMA FreshFits ==
  ASSUME NEW surface \in Surfaces
  PROVE  Fits(Fresh(surface)) /\ Fresh(surface).at = "gate"
<1>1. PICK e : e = Fresh(surface)
  OBVIOUS
<1>2. surface \in {"wrap", "integration", "evaluate", "python"}
  BY GovernedCallAssumption
<1>3. /\ e.surface = surface /\ e.at = "gate" /\ e.action = "allowed" /\ e.reason = "none"
      /\ e.marks = {} /\ e.refusals = {} /\ e.outbound = "raw"
      /\ e.event = "none" /\ e.told = "none" /\ e.truth = {} /\ e.stored = "none"
  BY <1>1 DEF Fresh
<1>4. e \in Calls
  BY <1>1, <1>2 DEF Fresh, Calls, Places, EarlyPlaces, Actions, Reasons, StoredCopies
<1>5. Untold(e) /\ NoAnswer(e) /\ EarlyFits(e)
  BY <1>3 DEF Untold, NoAnswer, EarlyFits, Has, OutboundFits
<1>6. /\ "gate" \notin RuledPlaces \cup HookedPlaces \cup CarryPlaces \cup {"sent", "done"}
      /\ "gate" \notin OutPlaces \cup WrapPlaces \cup PythonPlaces \cup BuiltPlaces \cup {"building"}
      /\ "gate" \notin {"anonymizer", "caller", "session_taint"}
  BY PlacesApart, OutPlacesApart DEF CarryPlaces, EarlyPlaces
<1>7. QED
  BY <1>1, <1>3, <1>4, <1>5, <1>6 DEF Fits

\* The first call.
LEMMA InitFits == Init => CallInv
BY FreshFits DEF Init, CallInv

\* The environment moves only while the call awaits something, and what a call that
\* awaits relies on does not move.
LEMMA EnvironmentKeeps ==
  ASSUME CallInv, EnvironmentMoves
  PROVE  CallInv' /\ call' = call
<1>1. call.at # "caller" /\ call' = call /\ config' = config /\ gate' \in BOOLEAN /\ granted' \in BOOLEAN
  BY DEF EnvironmentMoves, AwaitPlaces, CallInv
<1>2. Fits(call)'
  BY <1>1 DEF CallInv, Fits, GivenUp, ConcludedFits, RuleStands, SentFits, EarlyFits, RuledFits, HookedFits, DoneFits,
     BuiltFits, Quiet, Untold, NoAnswer, TellsVerdict, CopyGoverned, OutboundFits, Withheld, Has, Blocked
<1>3. QED
  BY <1>1, <1>2 DEF CallInv

\* Every step keeps the invariant, and sends only what may be sent.
LEMMA NextKeeps ==
  ASSUME CallInv, Next
  PROVE  CallInv' /\ (call.at # "sent" /\ call'.at = "sent" => SendHolds(call'))
<1>1. CASE EnvironmentMoves
  BY <1>1, EnvironmentKeeps
<1>2. CASE WrapNext
  BY <1>2, WrapLayersKeep, RulesKeep, HooksKeep, ThrowsKeep, WrapConcludeKeeps, AnswersKeep, BuildsKeep
  DEF WrapNext
<1>3. CASE IntegrationNext
  BY <1>3, IntegrationLayersKeep, RulesKeep, HooksKeep, ThrowsKeep, ConcludeKeeps, ResultKeeps, AnswersKeep
  DEF IntegrationNext
<1>4. CASE PythonNext
  BY <1>4, IntegrationLayersKeep, RulesKeep, HooksKeep, ThrowsKeep, ConcludeKeeps, ResultKeeps, AnswersKeep,
     BuildsKeep, NetsKeep
  DEF PythonNext
<1>5. CASE EvaluateNext
  BY <1>5, EvaluateLayersKeep, EvaluateThrowsKeep, EvaluateConcludeKeeps DEF EvaluateNext
<1>6. CASE PostNext
  BY <1>6, BuildsKeep, GovernsKeep, NetsKeep DEF PostNext
<1>7. CASE NextCall
  BY <1>7, FreshFits, Land DEF NextCall
<1>8. QED
  BY <1>1, <1>2, <1>3, <1>4, <1>5, <1>6, <1>7 DEF Next

\* Place by place, what the layers passed so far have left in the call.
THEOREM CallInvariant == Spec => []CallInv
<1>1. Init => CallInv
  BY InitFits
<1>2. CallInv /\ [Next]_vars => CallInv'
  <2>1. ASSUME CallInv, UNCHANGED vars PROVE CallInv'
    BY <2>1 DEF vars, CallInv, Fits, GivenUp, ConcludedFits, RuleStands, Timely, SentFits, EarlyFits, RuledFits, HookedFits,
       DoneFits, BuiltFits, Quiet, Untold, NoAnswer, TellsVerdict, CopyGoverned, OutboundFits, Withheld, Has, Blocked
  <2>2. QED
    BY <2>1, NextKeeps
<1>3. QED
  BY <1>1, <1>2, PTL DEF Spec

\* A refusal of any layer stands to the end, on every surface and under every list of
\* rules, unless monitor mode, a hook's redaction or a guard that failed open took its
\* place.
THEOREM RefusalsStand == Spec => []RefusalStands
<1>1. CallInv => RefusalStands
  BY DEF CallInv, Fits, SentFits, RuleStands, GivenUp, RefusalStands, Sent
<1>2. QED
  BY <1>1, CallInvariant, PTL

\* At the moment of sending: no canary, no floor block that was not converted, nothing
\* converted while the gate is closed, nothing a grant let through that is gone.
THEOREM SendsStand == Spec => SendStands
<1>1. ASSUME CallInv, [Next]_vars
      PROVE  call.at # "sent" /\ call'.at = "sent" => SendHolds(call')
  <2>1. CASE Next
    BY <1>1, <2>1, NextKeeps
  <2>2. CASE UNCHANGED vars
    BY <2>2 DEF vars
  <2>3. QED
    BY <1>1, <2>1, <2>2
<1>2. CallInv /\ [Next]_vars =>
        [call.at # "sent" /\ call'.at = "sent" =>
           /\ ~Has(call', "canary")
           /\ Has(call', "failedClosed") => Has(call', "weakened")
           /\ Has(call', "floor") => Has(call', "converted")
           /\ Has(call', "converted") => ~gate
           /\ Has(call', "degraded") => Has(call', "abandoned")
           /\ Has(call', "claim") /\ call'.surface # "evaluate" /\ call'.action # "redacted" =>
                granted \/ Has(call', "converted")]_vars
  BY <1>1 DEF SendHolds
<1>3. QED
  BY <1>2, CallInvariant, PTL DEF Spec, SendStands

\* What the record calls redacted went out redacted, and what a failed redaction left
\* half done goes out in monitor mode only.
THEOREM RedactionsCarriedOut == Spec => []CallRedaction
<1>1. CallInv => CallRedaction
  BY DEF CallInv, Fits, SentFits, RuleStands, CallRedaction, Sent
<1>2. QED
  BY <1>1, CallInvariant, PTL

\* Under deny_wins one rule that refuses keeps a call from the provider, wherever it
\* stands in whatever list, unless an approval lifted it, monitor mode converted it or
\* a hook's redaction took its place.
THEOREM RefusingRulePrevails == Spec => []StrongestRulePrevails
<1>1. CallInv => StrongestRulePrevails
  BY DEF CallInv, Fits, SentFits, RuleStands, GivenUp, StrongestRulePrevails, Sent, Has
<1>2. QED
  BY <1>1, CallInvariant, PTL

\* A call that enforcement touched leaves an event, and the event tells the verdict the
\* call went by.
THEOREM CallsOnRecord == Spec => []CallOnRecord
<1>1. CallInv => CallOnRecord
  <2>1. ASSUME CallInv PROVE TellsVerdict(call)
    <3>1. CASE call.at \notin {"sent", "done"}
      BY <2>1, <3>1 DEF CallInv, Fits, Untold, TellsVerdict
    <3>2. CASE call.at \in {"sent", "done"}
      BY <2>1, <3>2 DEF CallInv, Fits, SentFits, RuleStands, DoneFits
    <3>3. QED
      BY <3>1, <3>2
  <2>2. ASSUME CallInv, call.at = "done", call.event = "none", ~Has(call, "unrecorded") PROVE Quiet(call)
    BY <2>2 DEF CallInv, Fits, DoneFits
  <2>3. QED
    BY <2>1, <2>2 DEF CallOnRecord, TellsVerdict, Quiet
<1>2. QED
  BY <1>1, CallInvariant, PTL

\* The copy that is stored of an answer is governed by what the answer holds.
THEOREM CopiesGoverned == Spec => []CallStored
<1>1. CallInv => CallStored
  <2>1. ASSUME CallInv, call.event \in {"error", "completed"}, call.surface # "evaluate"
        PROVE  CopyGoverned(call, call.event)
    <3>1. CASE call.at = "done"
      BY <2>1, <3>1 DEF CallInv, Fits, DoneFits
    <3>2. CASE call.at # "done"
      BY <2>1, <3>2 DEF CallInv, Fits, SentFits, RuleStands, Untold
    <3>3. QED
      BY <3>1, <3>2
  <2>2. QED
    BY <2>1 DEF CallStored, CopyGoverned, Withheld
<1>2. QED
  BY <1>1, CallInvariant, PTL

----------------------------------------------------------------------------
(* Requests on their way through an adapter.                               *)

RequestPlaces == {"given", "judging", "redacting", "leaving", "sent", "streaming", "reading",
                  "refused", "answered", "failed", "left"}
SettledPlaces == {"refused", "answered", "failed", "left"}
Content == [Slots -> SUBSET Kinds]
AnswerParts == {"text", "tool"}
Tellings == {"none", "blocked", "error", "completed", "incomplete"}

RequestRecords ==
  [about : Requests, at : RequestPlaces, own : Content, out : Content,
   saw : SUBSET Secrets, named : SUBSET Secrets, by : {"none", "pii", "policy"}, audited : BOOLEAN,
   events : 0..1, told : Tellings, answer : SUBSET AnswerParts, heard : SUBSET AnswerParts,
   marks : SUBSET {"opaque", "grew", "shapeless"}]

\* What goes out is rid of what its redaction was for: of the spans of the built-in
\* redactor, and of the entities that Presidio was to find.
SpanGone(r, out) ==
  "span" \in Holds(out, Reads(r.about.adapter)) =>
    \/ "grew" \in r.marks
    \/ r.about.presidio = "both"
       /\ (r.about.adapter = "llamaindex" \/ (r.about.adapter = "vercel" /\ r.by = "policy"))
    \/ r.by = "policy" /\ "span" \in Holds(out, {"odd", "held", "fixed"})
EntityGone(r, out) ==
  "entity" \in Holds(out, Reads(r.about.adapter)) =>
    ~Wrapped(r) \/ r.by = "policy" \/ "entity" \notin r.named
Cleared(r, out) == SpanGone(r, out) /\ EntityGone(r, out)

\* Of the caller's own only what goes out itself is rewritten.
OwnKept(r, own) ==
  \A s \in Slots :
    \/ own[s] = r.about.content[s]
    \/ r.about.adapter \in Keepers /\ s = "held"
    \/ r.about.adapter \in {"converse", "invoke"}

\* The scan saw what there is, up to a history that grew since.
SawAll(r) ==
  "grew" \in r.marks \/ \A k \in Secrets : k \in r.saw <=> k \in Holds(r.own, Reads(r.about.adapter))

\* What PII policy found it named.
NamedFits(r) ==
  /\ r.by \in {"pii", "policy"}
  /\ r.by = "pii" /\ "span" \in r.saw => "span" \in r.named
  /\ r.by = "policy" => r.named = {}

\* The exceptions to a record of every request.
Untraced(r) ==
  \/ Unobserved(r) \/ "shapeless" \in r.marks
  \/ r.about.adapter = "vercel" /\ r.at = "failed"
  \/ r.at = "left"

RecordFits(r) ==
  /\ r.at = "refused" => r.told = IF "opaque" \in r.marks THEN "none" ELSE "blocked"
  /\ r.at = "failed" => r.told = "error" \/ Untraced(r)
  /\ r.at \in {"answered", "failed", "left"} /\ (r.by # "none" \/ r.about.monitor) =>
       r.events = 1 \/ Untraced(r)

HeardFits(r) ==
  r.told = "completed" =>
    \/ "text" \in r.heard \/ "text" \notin r.answer
    \/ r.about.streams /\ r.about.adapter \in {"workers", "gemini"}
    \/ "shapeless" \in r.marks
    \/ r.at = "left" /\ r.about.adapter \in {"converse", "invoke"}

\* What holds of a request, by its place.
RequestFits(r) ==
  /\ r \in RequestRecords
  /\ r.at \notin SettledPlaces => r.events = 0 /\ r.told = "none" /\ r.marks \subseteq {"grew"}
  /\ OwnKept(r, r.own)
  /\ r.at = "given" => r.marks = {}
  /\ r.at \in {"judging", "redacting"} => SawAll(r)
  /\ r.at \in {"given", "judging"} => r.by = "none" /\ r.named = {}
  /\ r.at = "redacting" => NamedFits(r)
  /\ r.at \notin {"given", "judging", "redacting", "refused"} /\ r.by # "none" => Cleared(r, r.out)
  /\ r.at \in {"leaving", "sent", "streaming", "reading"} /\ (r.by # "none" \/ r.about.monitor) => r.audited
  /\ r.at \in {"streaming", "reading"} => Watched(r) /\ r.about.streams
  /\ RecordFits(r)
  /\ HeardFits(r)

RequestInv == RequestFits(req)

\* The same request with the same verdict on the same content.
SameContent(d, r) == d.own = r.own /\ d.out = r.out
SameDecision(d, r) == d.about = r.about /\ d.saw = r.saw /\ d.named = r.named /\ d.by = r.by
SameAnswer(d, r) == d.answer = r.answer /\ d.heard = r.heard
SameTold(d, r) == d.events = r.events /\ d.told = r.told

\* A move.
LEMMA GoesFields ==
  ASSUME NEW r \in RequestRecords, NEW place \in RequestPlaces
  PROVE  /\ Goes(r, place) \in RequestRecords /\ Goes(r, place).at = place
         /\ SameContent(Goes(r, place), r) /\ SameDecision(Goes(r, place), r)
         /\ SameAnswer(Goes(r, place), r) /\ SameTold(Goes(r, place), r)
         /\ Goes(r, place).audited = r.audited /\ Goes(r, place).marks = r.marks
BY DEF RequestRecords, Goes, SameContent, SameDecision, SameAnswer, SameTold

\* A mark.
LEMMA MarkedFields ==
  ASSUME NEW r \in RequestRecords, NEW mark \in {"opaque", "grew", "shapeless"}
  PROVE  /\ Marked(r, mark) \in RequestRecords /\ Marked(r, mark).at = r.at
         /\ SameContent(Marked(r, mark), r) /\ SameDecision(Marked(r, mark), r)
         /\ SameAnswer(Marked(r, mark), r) /\ SameTold(Marked(r, mark), r)
         /\ Marked(r, mark).audited = r.audited /\ Marked(r, mark).marks = r.marks \cup {mark}
BY DEF RequestRecords, Marked, SameContent, SameDecision, SameAnswer, SameTold

\* An event.
LEMMA TellsFields ==
  ASSUME NEW r \in RequestRecords, r.events = 0, NEW what \in Tellings
  PROVE  /\ Tells(r, what) \in RequestRecords /\ Tells(r, what).at = r.at
         /\ Tells(r, what).events = 1 /\ Tells(r, what).told = what
         /\ SameContent(Tells(r, what), r) /\ SameDecision(Tells(r, what), r)
         /\ SameAnswer(Tells(r, what), r)
         /\ Tells(r, what).audited = r.audited /\ Tells(r, what).marks = r.marks
<1>1. PICK t : t = [r EXCEPT !.told = what]
  OBVIOUS
<1>2. /\ t \in RequestRecords /\ t.told = what /\ t.events = 0 /\ t.at = r.at
      /\ SameContent(t, r) /\ SameDecision(t, r) /\ SameAnswer(t, r)
      /\ t.audited = r.audited /\ t.marks = r.marks
  BY <1>1 DEF RequestRecords, SameContent, SameDecision, SameAnswer
<1>3. Tells(r, what) = [t EXCEPT !.events = 1]
  BY <1>1, <1>2 DEF Tells, RequestRecords
<1>4. QED
  BY <1>2, <1>3 DEF RequestRecords, SameContent, SameDecision, SameAnswer

\* The end of a request, with an event or without.
LEMMA EndsFields ==
  ASSUME NEW r \in RequestRecords, r.events = 0, r.told = "none",
         NEW place \in RequestPlaces, NEW says \in Tellings
  PROVE  /\ Ends(r, place, says) \in RequestRecords /\ Ends(r, place, says).at = place
         /\ Ends(r, place, says).told = says
         /\ Ends(r, place, says).events = IF says = "none" THEN 0 ELSE 1
         /\ SameContent(Ends(r, place, says), r) /\ SameDecision(Ends(r, place, says), r)
         /\ SameAnswer(Ends(r, place, says), r)
         /\ Ends(r, place, says).audited = r.audited /\ Ends(r, place, says).marks = r.marks
<1>1. CASE says = "none"
  BY <1>1, GoesFields DEF Ends, SameTold
<1>2. CASE says # "none"
  <2>1. PICK t : t = Tells(r, says)
    OBVIOUS
  <2>2. /\ t \in RequestRecords /\ t.events = 1 /\ t.told = says /\ t.audited = r.audited /\ t.marks = r.marks
        /\ SameContent(t, r) /\ SameDecision(t, r) /\ SameAnswer(t, r)
    BY <2>1, TellsFields
  <2>3. Ends(r, place, says) = Goes(t, place)
    BY <1>2, <2>1 DEF Ends
  <2>4. QED
    BY <1>2, <2>2, <2>3, GoesFields DEF SameContent, SameDecision, SameAnswer, SameTold
<1>3. QED
  BY <1>1, <1>2

\* An answer, and what the record hears of it.
LEMMA HearsFields ==
  ASSUME NEW r \in RequestRecords, NEW answer \in SUBSET AnswerParts, NEW heard \in SUBSET AnswerParts
  PROVE  /\ Hears(r, answer, heard) \in RequestRecords /\ Hears(r, answer, heard).at = r.at
         /\ Hears(r, answer, heard).answer = answer
         /\ Hears(r, answer, heard).heard = IF r.audited THEN heard ELSE {}
         /\ SameContent(Hears(r, answer, heard), r) /\ SameDecision(Hears(r, answer, heard), r)
         /\ SameTold(Hears(r, answer, heard), r)
         /\ Hears(r, answer, heard).audited = r.audited /\ Hears(r, answer, heard).marks = r.marks
<1>1. PICK told \in SUBSET AnswerParts : told = IF r.audited THEN heard ELSE {}
  OBVIOUS
<1>2. Hears(r, answer, heard) = [r EXCEPT !.answer = answer, !.heard = told]
  BY <1>1 DEF Hears
<1>3. QED
  BY <1>1, <1>2 DEF RequestRecords, SameContent, SameDecision, SameTold

\* What an adapter reads.
LEMMA ReadSlots ==
  ASSUME NEW adapter \in Adapters
  PROVE  /\ adapter \in Formats \cup {"vertex"} => Reads(adapter) = Slots
         /\ adapter = "workers" => Reads(adapter) = {"text", "tool", "odd"}
         /\ adapter \in {"vercel", "converse", "invoke"} => Reads(adapter) = {"text", "tool"}
         /\ adapter = "llamaindex" => Reads(adapter) = {"text"}
         /\ Reads(adapter) \subseteq Slots
<1>1. CASE adapter \in Formats
  <2>1. Reads(adapter) = RequestReads \cup GoogleContextReads
    BY <1>1 DEF Reads, Formats
  <2>2. QED
    BY <1>1, <2>1 DEF RequestReads, GoogleContextReads, Slots, Formats
<1>2. CASE adapter = "vertex"
  BY <1>2 DEF Reads, GeminiReads, VertexContextReads, Slots, Formats
<1>3. CASE adapter = "workers"
  BY <1>3 DEF Reads, WorkersReads, Slots, Formats
<1>4. CASE adapter = "vercel"
  BY <1>4 DEF Reads, VercelReads, Slots, Formats
<1>5. CASE adapter = "llamaindex"
  BY <1>5 DEF Reads, LlamaIndexReads, Slots, Formats
<1>6. CASE adapter = "converse"
  BY <1>6 DEF Reads, ConverseReads, Slots, Formats
<1>7. CASE adapter = "invoke"
  BY <1>7 DEF Reads, InvokeReads, Slots, Formats
<1>8. QED
  BY <1>1, <1>2, <1>3, <1>4, <1>5, <1>6, <1>7 DEF Adapters

\* What the requests considered are.
LEMMA RequestShape ==
  ASSUME NEW r \in Requests
  PROVE  /\ r.adapter \in Adapters /\ r.content \in Content
         /\ r.streams \in BOOLEAN /\ r.monitor \in BOOLEAN /\ r.skip \in BOOLEAN
         /\ r.adapter \notin Keepers => r.content["held"] = {} /\ r.content["fixed"] = {}
BY RequestAssumption DEF Content

\* A content without some kinds in some parts.
LEMMA WithoutFields ==
  ASSUME NEW content \in Content, NEW slots, NEW kinds
  PROVE  /\ Without(content, slots, kinds) \in Content
         /\ \A s \in Slots : Without(content, slots, kinds)[s] = IF s \in slots THEN content[s] \ kinds ELSE content[s]
BY DEF Without, Content

----------------------------------------------------------------------------
(* What a redaction makes of a request.                                    *)

\* A redaction carried out clears what goes out, and only what goes out is touched.
Redacted(r, o) ==
  /\ o.own \in Content /\ o.out \in Content /\ o.applied \in BOOLEAN
  /\ OwnKept(r, o.own)
  /\ o.applied => Cleared(r, o.out)

\* Before its redaction.
Redacting(r) ==
  /\ r \in RequestRecords /\ OwnKept(r, r.own) /\ SawAll(r) /\ NamedFits(r)

\* A redaction that fails keeps what the caller has.
LEMMA NotCarriedFits ==
  ASSUME NEW r, NEW own \in Content, OwnKept(r, own)
  PROVE  Redacted(r, NotCarriedOut(own))
BY DEF Redacted, NotCarriedOut

\* One that is carried out.
LEMMA CarriedFits ==
  ASSUME NEW r, NEW own \in Content, NEW out \in Content, OwnKept(r, own), Cleared(r, out)
  PROVE  Redacted(r, CarriedOut(own, out))
BY DEF Redacted, CarriedOut

\* Rewriting a Google chat's history, or Bedrock's command, touches what goes out itself;
\* no other request has a history.
LEMMA OwnRewritten ==
  ASSUME NEW r \in RequestRecords, OwnKept(r, r.own), NEW slots, NEW kinds,
         r.about.adapter \in {"converse", "invoke"} \/ slots = {"held"}
  PROVE  Without(r.own, slots, kinds) \in Content /\ OwnKept(r, Without(r.own, slots, kinds))
<1>1. r.own \in Content /\ r.about \in Requests
  BY DEF RequestRecords
<1>2. r.about.adapter \notin Keepers => r.about.content["held"] = {}
  BY <1>1, RequestShape
<1>3. PICK own : own = Without(r.own, slots, kinds)
  OBVIOUS
<1>4. own \in Content /\ \A s \in Slots : own[s] = IF s \in slots THEN r.own[s] \ kinds ELSE r.own[s]
  BY <1>1, <1>3 DEF Without, Content
<1>5. ASSUME NEW s \in Slots
      PROVE  \/ own[s] = r.about.content[s]
             \/ r.about.adapter \in Keepers /\ s = "held"
             \/ r.about.adapter \in {"converse", "invoke"}
  <2>1. CASE s \in slots
    BY <1>2, <1>4, <1>5, <2>1 DEF OwnKept
  <2>2. CASE s \notin slots
    BY <1>4, <1>5, <2>2 DEF OwnKept
  <2>3. QED
    BY <2>1, <2>2
<1>6. QED
  BY <1>3, <1>4, <1>5 DEF OwnKept

\* A redaction that is asserted: if it was named, the span is gone.
LEMMA AssertFits ==
  ASSUME NEW r, NEW own \in Content, NEW out \in Content, OwnKept(r, own), EntityGone(r, out),
         "span" \notin r.named => SpanGone(r, out), NEW o \in AssertApplied(r, own, out)
  PROVE  Redacted(r, o)
<1>1. CASE "span" \in r.named /\ "span" \in Holds(out, Reads(r.about.adapter))
  BY <1>1, NotCarriedFits DEF AssertApplied
<1>2. CASE ~("span" \in r.named /\ "span" \in Holds(out, Reads(r.about.adapter)))
  <2>1. SpanGone(r, out)
    BY <1>2 DEF SpanGone
  <2>2. o = CarriedOut(own, out)
    BY <1>2 DEF AssertApplied
  <2>3. QED
    BY <2>1, <2>2, CarriedFits DEF Cleared
<1>3. QED
  BY <1>1, <1>2

\* Where no span was named none is left in what holds no more than there was.
LEMMA NoSpanNamed ==
  ASSUME NEW r, Redacting(r), r.by = "pii", "span" \notin r.named, NEW out,
         "span" \in Holds(out, Reads(r.about.adapter)) => "span" \in Holds(r.own, Reads(r.about.adapter))
  PROVE  SpanGone(r, out)
BY DEF Redacting, NamedFits, SawAll, SpanGone, Secrets

\* What a rewriting of text and tools leaves of the spans, at adapters that read all slots.
LEMMA PolicySpan ==
  ASSUME NEW r, r.by = "policy", NEW content \in Content, Reads(r.about.adapter) \subseteq Slots
  PROVE  SpanGone(r, Without(content, {"text", "tool"}, {"span"}))
<1>1. PICK out : out = Without(content, {"text", "tool"}, {"span"})
  OBVIOUS
<1>2. \A s \in Slots : out[s] = IF s \in {"text", "tool"} THEN content[s] \ {"span"} ELSE content[s]
  BY <1>1 DEF Without, Content
<1>3. "span" \in Holds(out, Reads(r.about.adapter)) => "span" \in Holds(out, {"odd", "held", "fixed"})
  BY <1>2 DEF Holds, Slots
<1>4. QED
  BY <1>1, <1>3 DEF SpanGone

\* The adapter of a request, and what it reads.
LEMMA AdapterReads ==
  ASSUME NEW r \in RequestRecords
  PROVE  /\ r.about \in Requests /\ r.about.adapter \in Adapters /\ r.own \in Content
         /\ Reads(r.about.adapter) \subseteq Slots
BY RequestShape, ReadSlots DEF RequestRecords

\* A wrapped client that has PII taken out: rewritten twice, asserted, and verified.
LEMMA WrapPiiFits ==
  ASSUME NEW r, Redacting(r), r.by = "pii", NEW o \in WrapPiiRedactions(r)
  PROVE  Redacted(r, o)
<1>1. /\ r \in RequestRecords /\ OwnKept(r, r.own) /\ r.own \in Content
      /\ Reads(r.about.adapter) \subseteq Slots
  BY AdapterReads DEF Redacting
<1>2. CASE r.own.fixed # {}
  BY <1>1, <1>2, NotCarriedFits DEF WrapPiiRedactions
<1>3. CASE r.own.fixed = {}
  <2>1. PICK own : own = Without(r.own, GoogleContextRewrites, {"span"})
    OBVIOUS
  <2>2. own \in Content /\ OwnKept(r, own)
    BY <1>1, <2>1, OwnRewritten DEF GoogleContextRewrites
  <2>3. PICK slots, kinds :
          o \in WrapVerified(r, own, Without(Without(r.own, slots, kinds), GoogleContextRewrites, {"span"}))
    BY <1>3, <2>1 DEF WrapPiiRedactions
  <2>4. PICK rest : rest = Without(r.own, slots, kinds)
    OBVIOUS
  <2>5. PICK out : out = Without(rest, GoogleContextRewrites, {"span"})
    OBVIOUS
  <2>6. rest \in Content /\ \A s \in Slots : rest[s] \subseteq r.own[s]
    BY <1>1, <2>4 DEF Without, Content
  <2>7. out \in Content /\ \A s \in Slots : out[s] \subseteq rest[s]
    BY <2>5, <2>6 DEF Without, Content
  <2>8. "span" \in Holds(out, Reads(r.about.adapter)) => "span" \in Holds(r.own, Reads(r.about.adapter))
    BY <1>1, <2>6, <2>7 DEF Holds
  <2>9. "span" \notin r.named => SpanGone(r, out)
    BY <2>8, NoSpanNamed
  <2>10. CASE "entity" \in r.named /\ "entity" \in Holds(out, Reads(r.about.adapter))
    BY <2>2, <2>3, <2>4, <2>5, <2>10, NotCarriedFits DEF WrapVerified
  <2>11. CASE ~("entity" \in r.named /\ "entity" \in Holds(out, Reads(r.about.adapter)))
    <3>1. EntityGone(r, out)
      BY <2>11 DEF EntityGone
    <3>2. o = NotCarriedOut(own) \/ o \in AssertApplied(r, own, out)
      BY <2>3, <2>4, <2>5, <2>11 DEF WrapVerified
    <3>3. QED
      BY <2>2, <2>7, <2>9, <3>1, <3>2, NotCarriedFits, AssertFits
  <2>12. QED
    BY <2>10, <2>11
<1>4. QED
  BY <1>2, <1>3

\* A wrapped client.
LEMMA WrapFits ==
  ASSUME NEW r, Redacting(r), NEW o \in WrapRedactions(r)
  PROVE  Redacted(r, o)
<1>1. /\ r \in RequestRecords /\ OwnKept(r, r.own) /\ r.own \in Content
      /\ Reads(r.about.adapter) \subseteq Slots /\ r.by \in {"pii", "policy"}
  BY AdapterReads DEF Redacting, NamedFits
<1>2. CASE r.by = "pii"
  BY <1>2, WrapPiiFits DEF WrapRedactions
<1>3. CASE r.by = "policy"
  <2>1. PICK out : out = Without(r.own, RequestRewrites, {"span"})
    OBVIOUS
  <2>2. o = CarriedOut(r.own, out)
    BY <1>3, <2>1 DEF WrapRedactions
  <2>3. out \in Content /\ SpanGone(r, out)
    BY <1>1, <1>3, <2>1, PolicySpan, WithoutFields DEF RequestRewrites
  <2>4. EntityGone(r, out)
    BY <1>3 DEF EntityGone
  <2>5. QED
    BY <1>1, <2>2, <2>3, <2>4, CarriedFits DEF Cleared
<1>4. QED
  BY <1>1, <1>2, <1>3

\* An adapter that asserts what a rewriting of text and tools left.
LEMMA AssertedFits ==
  ASSUME NEW r, Redacting(r), ~Wrapped(r), NEW own \in Content, OwnKept(r, own),
         \A s \in Slots : own[s] \subseteq r.own[s],
         NEW o \in AssertApplied(r, own, Without(own, {"text", "tool"}, {"span"}))
  PROVE  Redacted(r, o)
<1>1. /\ r \in RequestRecords /\ r.own \in Content /\ r.by \in {"pii", "policy"}
      /\ Reads(r.about.adapter) \subseteq Slots
  BY AdapterReads DEF Redacting, NamedFits
<1>2. PICK out : out = Without(own, {"text", "tool"}, {"span"})
  OBVIOUS
<1>3. out \in Content /\ \A s \in Slots : out[s] \subseteq own[s]
  BY <1>2 DEF Without, Content
<1>4. "span" \in Holds(out, Reads(r.about.adapter)) => "span" \in Holds(r.own, Reads(r.about.adapter))
  BY <1>1, <1>3 DEF Holds
<1>5. "span" \notin r.named => SpanGone(r, out)
  BY <1>1, <1>2, <1>4, NoSpanNamed, PolicySpan
<1>6. EntityGone(r, out)
  BY DEF EntityGone
<1>7. QED
  BY <1>2, <1>3, <1>5, <1>6, AssertFits

\* Vertex rewrites the history in place first.
LEMMA VertexFits ==
  ASSUME NEW r, Redacting(r), r.about.adapter = "vertex", NEW o \in VertexRedactions(r)
  PROVE  Redacted(r, o)
<1>1. r \in RequestRecords /\ OwnKept(r, r.own) /\ r.own \in Content
  BY AdapterReads DEF Redacting
<1>2. PICK own : own = Without(r.own, {"held"}, {"span"})
  OBVIOUS
<1>3. own \in Content /\ OwnKept(r, own) /\ \A s \in Slots : own[s] \subseteq r.own[s]
  <2>1. own \in Content /\ OwnKept(r, own)
    BY <1>1, <1>2, OwnRewritten
  <2>2. \A s \in Slots : own[s] \subseteq r.own[s]
    BY <1>1, <1>2 DEF Without, Content
  <2>3. QED
    BY <2>1, <2>2
<1>4. CASE o = NotCarriedOut(r.own) \/ o = NotCarriedOut(own)
  BY <1>1, <1>3, <1>4, NotCarriedFits
<1>5. CASE o \in AssertApplied(r, own, Without(own, {"text", "tool"}, {"span"}))
  <2>1. ~Wrapped(r)
    BY DEF Wrapped, Formats
  <2>2. QED
    BY <1>3, <1>5, <2>1, AssertedFits
<1>6. QED
  BY <1>2, <1>4, <1>5 DEF VertexRedactions, VertexRewrites

\* Workers AI.
LEMMA WorkersFits ==
  ASSUME NEW r, Redacting(r), r.about.adapter = "workers", NEW o \in WorkersRedactions(r)
  PROVE  Redacted(r, o)
<1>1. OwnKept(r, r.own) /\ r.own \in Content /\ ~Wrapped(r)
  BY AdapterReads DEF Redacting, Wrapped, Formats
<1>2. QED
  BY <1>1, AssertedFits DEF WorkersRedactions, WorkersRewrites

\* A text in place of a prompt: what it holds a redactor left in it.
LEMMA CollapsedFields ==
  ASSUME NEW r \in RequestRecords, NEW left \in RedactedPrompts(r),
         NEW read \in SUBSET {"text", "tool"}, "text" \in read
  PROVE  /\ Collapsed(r, left) \in Content
         /\ "span" \in Holds(Collapsed(r, left), read) => "span" \in r.saw /\ r.about.presidio = "both"
<1>1. left \in SUBSET Secrets /\ left \subseteq r.saw
  BY DEF RedactedPrompts, RequestRecords, Secrets
<1>2. PICK text \in SUBSET Kinds : text = IF left # r.saw THEN left ELSE {}
  BY <1>1 DEF Kinds
<1>3. PICK out : out = Collapsed(r, left)
  OBVIOUS
<1>4. PICK texted : texted = [r.own EXCEPT !.text = text]
  OBVIOUS
<1>5. out = [texted EXCEPT !.tool = {}]
  BY <1>2, <1>3, <1>4 DEF Collapsed
<1>6. texted \in Content /\ texted["text"] = text
  BY <1>4 DEF RequestRecords, Content, Slots
<1>7. out \in Content /\ out["text"] = text /\ out["tool"] = {}
  BY <1>5, <1>6 DEF Content, Slots
<1>8. "span" \in Holds(out, read) => "span" \in text
  BY <1>7 DEF Holds
<1>9. "span" \in text => "span" \in left /\ left # r.saw
  BY <1>2
<1>10. "span" \in left => r.about.presidio = "both"
  BY DEF RedactedPrompts
<1>11. QED
  BY <1>1, <1>3, <1>7, <1>8, <1>9, <1>10

\* Vercel: part by part, or the whole prompt by one text; asserted.
LEMMA VercelFits ==
  ASSUME NEW r, Redacting(r), r.about.adapter = "vercel", NEW o \in VercelRedactions(r)
  PROVE  Redacted(r, o)
<1>1. /\ r \in RequestRecords /\ OwnKept(r, r.own) /\ r.own \in Content /\ ~Wrapped(r)
      /\ r.by \in {"pii", "policy"} /\ Reads(r.about.adapter) = {"text", "tool"}
  BY AdapterReads, ReadSlots DEF Redacting, NamedFits, Wrapped, Formats
<1>2. PICK left \in RedactedPrompts(r) :
        o \in AssertApplied(r, r.own, IF RequiresWholePrompt(r, left) THEN Collapsed(r, left)
                                      ELSE Without(r.own, VercelRewrites, {"span"}))
  BY DEF VercelRedactions
<1>3. CASE RequiresWholePrompt(r, left)
  <2>1. PICK out : out = Collapsed(r, left)
    OBVIOUS
  <2>2. out \in Content /\ ("span" \in Holds(out, {"text", "tool"}) => "span" \in r.saw /\ r.about.presidio = "both")
    BY <1>1, <2>1, CollapsedFields
  <2>3. EntityGone(r, out)
    BY <1>1 DEF EntityGone
  <2>4. "span" \notin r.named => SpanGone(r, out)
    BY <1>1, <2>2 DEF SpanGone, Redacting, NamedFits
  <2>5. QED
    BY <1>1, <1>2, <1>3, <2>1, <2>2, <2>3, <2>4, AssertFits
<1>4. CASE ~RequiresWholePrompt(r, left)
  BY <1>1, <1>2, <1>4, AssertedFits DEF VercelRewrites
<1>5. QED
  BY <1>3, <1>4

\* LlamaIndex: the whole prompt by one text, unasserted.
LEMMA LlamaIndexFits ==
  ASSUME NEW r, Redacting(r), r.about.adapter = "llamaindex", NEW o \in LlamaIndexRedactions(r)
  PROVE  Redacted(r, o)
<1>1. /\ r \in RequestRecords /\ OwnKept(r, r.own) /\ r.own \in Content /\ ~Wrapped(r)
      /\ Reads(r.about.adapter) = {"text"}
  BY AdapterReads, ReadSlots DEF Redacting, Wrapped, Formats
<1>2. PICK left \in RedactedPrompts(r) : o = CarriedOut(r.own, Collapsed(r, left))
  BY DEF LlamaIndexRedactions
<1>3. PICK out : out = Collapsed(r, left)
  OBVIOUS
<1>4. out \in Content /\ ("span" \in Holds(out, {"text"}) => r.about.presidio = "both")
  BY <1>1, <1>3, CollapsedFields
<1>5. Cleared(r, out)
  BY <1>1, <1>4 DEF Cleared, SpanGone, EntityGone
<1>6. QED
  BY <1>1, <1>2, <1>3, <1>4, <1>5, CarriedFits

\* Bedrock: its command is rewritten in place, as a whole or in part.
LEMMA BedrockFits ==
  ASSUME NEW r, Redacting(r), r.about.adapter \in {"converse", "invoke"},
         NEW o \in BedrockRedactions(r, {"text", "tool"})
  PROVE  Redacted(r, o)
<1>1. /\ r \in RequestRecords /\ OwnKept(r, r.own) /\ r.own \in Content /\ ~Wrapped(r)
      /\ Reads(r.about.adapter) = {"text", "tool"}
  BY AdapterReads, ReadSlots DEF Redacting, Wrapped, Formats
<1>2. CASE o = CarriedOut(Without(r.own, {"text", "tool"}, {"span"}), Without(r.own, {"text", "tool"}, {"span"}))
  <2>1. PICK whole : whole = Without(r.own, {"text", "tool"}, {"span"})
    OBVIOUS
  <2>2. whole \in Content /\ OwnKept(r, whole)
    BY <1>1, <2>1, OwnRewritten
  <2>3. "span" \notin Holds(whole, {"text", "tool"})
    BY <1>1, <2>1 DEF Without, Holds, Slots
  <2>4. Cleared(r, whole)
    BY <1>1, <2>3 DEF Cleared, SpanGone, EntityGone
  <2>5. QED
    BY <1>2, <2>1, <2>2, <2>4, CarriedFits
<1>3. CASE \E slots \in SUBSET {"text", "tool"} : o = NotCarriedOut(Without(r.own, slots, {"span"}))
  <2>1. PICK slots \in SUBSET {"text", "tool"} : o = NotCarriedOut(Without(r.own, slots, {"span"}))
    BY <1>3
  <2>2. PICK own : own = Without(r.own, slots, {"span"})
    OBVIOUS
  <2>3. own \in Content /\ OwnKept(r, own)
    BY <1>1, <2>2, OwnRewritten
  <2>4. QED
    BY <2>1, <2>2, <2>3, NotCarriedFits
<1>4. QED
  BY <1>2, <1>3 DEF BedrockRedactions

\* Every adapter.
LEMMA RedactionsFit ==
  ASSUME NEW r, Redacting(r), NEW o \in Redactions(r)
  PROVE  Redacted(r, o)
<1>1. r.about.adapter \in Adapters
  BY AdapterReads DEF Redacting
<1>2. CASE r.about.adapter \in Formats
  <2>1. Redactions(r) = WrapRedactions(r)
    BY <1>2 DEF Redactions, Wrapped, Formats
  <2>2. QED
    BY <2>1, WrapFits
<1>3. CASE r.about.adapter = "vertex"
  BY <1>3, VertexFits DEF Redactions, Wrapped, Formats
<1>4. CASE r.about.adapter = "workers"
  BY <1>4, WorkersFits DEF Redactions, Wrapped, Formats
<1>5. CASE r.about.adapter = "vercel"
  BY <1>5, VercelFits DEF Redactions, Wrapped, Formats
<1>6. CASE r.about.adapter = "llamaindex"
  BY <1>6, LlamaIndexFits DEF Redactions, Wrapped, Formats
<1>7. CASE r.about.adapter \in {"converse", "invoke"}
  <2>1. o \in BedrockRedactions(r, {"text", "tool"})
    BY <1>7 DEF Redactions, Wrapped, Formats, ConverseRewrites, InvokeRewrites
  <2>2. QED
    BY <1>7, <2>1, BedrockFits
<1>8. QED
  BY <1>1, <1>2, <1>3, <1>4, <1>5, <1>6, <1>7 DEF Adapters

----------------------------------------------------------------------------
(* What the events of an adapter say.                                      *)

\* Of a failed call an error, where the adapter watches it.
LEMMA SaysOfError ==
  ASSUME NEW r, r.about.adapter \in Adapters
  PROVE  Says(r, "error") = "error" \/ (Says(r, "error") = "none" /\ (Unobserved(r) \/ r.about.adapter = "vercel"))
<1>1. CASE r.about.adapter \in Formats
  <2>1. Says(r, "error") = WrapSays(r, "error")
    BY <1>1 DEF Says, Wrapped, Formats
  <2>2. QED
    BY <2>1 DEF WrapSays
<1>2. CASE r.about.adapter = "vertex"
  BY <1>2 DEF Says, Wrapped, Formats, VertexSays
<1>3. CASE r.about.adapter = "workers"
  BY <1>3 DEF Says, Wrapped, Formats, WorkersSays
<1>4. CASE r.about.adapter = "vercel"
  BY <1>4 DEF Says, Wrapped, Formats, VercelSays, Said
<1>5. CASE r.about.adapter = "llamaindex"
  BY <1>5 DEF Says, Wrapped, Formats, LlamaIndexSays
<1>6. CASE r.about.adapter \in {"converse", "invoke"}
  BY <1>6 DEF Says, Wrapped, Formats, BedrockSays
<1>7. QED
  BY <1>1, <1>2, <1>3, <1>4, <1>5, <1>6 DEF Adapters

\* Of a value that it is complete, if the call is audited.
LEMMA SaysOfValue ==
  ASSUME NEW r, r.about.adapter \in Adapters, ~r.about.streams
  PROVE  Says(r, "value") = Said(r, "completed")
<1>1. ~Unobserved(r)
  BY DEF Unobserved
<1>2. CASE r.about.adapter \in Formats
  <2>1. Says(r, "value") = WrapSays(r, "value")
    BY <1>2 DEF Says, Wrapped, Formats
  <2>2. QED
    BY <1>1, <2>1 DEF WrapSays
<1>3. CASE r.about.adapter = "vertex"
  BY <1>1, <1>3 DEF Says, Wrapped, Formats, VertexSays
<1>4. CASE r.about.adapter = "workers"
  BY <1>1, <1>4 DEF Says, Wrapped, Formats, WorkersSays
<1>5. CASE r.about.adapter = "vercel"
  BY <1>5 DEF Says, Wrapped, Formats, VercelSays
<1>6. CASE r.about.adapter = "llamaindex"
  BY <1>6 DEF Says, Wrapped, Formats, LlamaIndexSays
<1>7. CASE r.about.adapter \in {"converse", "invoke"}
  BY <1>7 DEF Says, Wrapped, Formats, BedrockSays
<1>8. QED
  BY <1>2, <1>3, <1>4, <1>5, <1>6, <1>7 DEF Adapters

\* Of a stream nothing yet; only Workers' are told at once.
LEMMA SaysOfStream ==
  ASSUME NEW r, r.about.adapter \in Adapters
  PROVE  /\ r.about.adapter # "workers" => Says(r, "stream") = "none"
         /\ r.about.adapter = "workers" =>
              Says(r, "stream") = IF Unobserved(r) THEN "none" ELSE Said(r, "completed")
<1>1. CASE r.about.adapter \in Formats
  <2>1. Says(r, "stream") = WrapSays(r, "stream")
    BY <1>1 DEF Says, Wrapped, Formats
  <2>2. QED
    BY <1>1, <2>1 DEF WrapSays, Formats
<1>2. CASE r.about.adapter = "vertex"
  BY <1>2 DEF Says, Wrapped, Formats, VertexSays
<1>3. CASE r.about.adapter = "workers"
  BY <1>3 DEF Says, Wrapped, Formats, WorkersSays
<1>4. CASE r.about.adapter = "vercel"
  BY <1>4 DEF Says, Wrapped, Formats, VercelSays
<1>5. CASE r.about.adapter = "llamaindex"
  BY <1>5 DEF Says, Wrapped, Formats, LlamaIndexSays
<1>6. CASE r.about.adapter \in {"converse", "invoke"}
  BY <1>6 DEF Says, Wrapped, Formats, BedrockSays
<1>7. QED
  BY <1>1, <1>2, <1>3, <1>4, <1>5, <1>6 DEF Adapters

\* Of something of an unexpected shape, anything but a block.
LEMMA SaysOfShapeless ==
  ASSUME NEW r, r.about.adapter \in Adapters
  PROVE  Says(r, "shapeless") \in {"none", "completed"}
<1>1. CASE r.about.adapter \in Formats
  <2>1. Says(r, "shapeless") = WrapSays(r, "shapeless")
    BY <1>1 DEF Says, Wrapped, Formats
  <2>2. QED
    BY <2>1 DEF WrapSays, Said
<1>2. CASE r.about.adapter = "vertex"
  BY <1>2 DEF Says, Wrapped, Formats, VertexSays, Said
<1>3. CASE r.about.adapter = "workers"
  BY <1>3 DEF Says, Wrapped, Formats, WorkersSays, Said
<1>4. CASE r.about.adapter = "vercel"
  BY <1>4 DEF Says, Wrapped, Formats, VercelSays, Said
<1>5. CASE r.about.adapter = "llamaindex"
  BY <1>5 DEF Says, Wrapped, Formats, LlamaIndexSays, Said
<1>6. CASE r.about.adapter \in {"converse", "invoke"}
  BY <1>6 DEF Says, Wrapped, Formats, BedrockSays, Said
<1>7. QED
  BY <1>1, <1>2, <1>3, <1>4, <1>5, <1>6 DEF Adapters

\* Of the end of a stream that was watched.
LEMMA SaysOfEnd ==
  ASSUME NEW r, r.about.adapter \in Adapters \ {"workers"}
  PROVE  /\ StreamSays(r, "drained") \in {"completed", Said(r, "completed")}
         /\ StreamSays(r, "broken") = IF r.about.adapter = "vercel" THEN "none" ELSE "error"
         /\ r.about.adapter # "vertex" =>
              /\ StreamSays(r, "unread") = "none"
              /\ StreamSays(r, "left") \in {"none", "incomplete", "completed"}
              /\ StreamSays(r, "left") = "completed" => r.about.adapter \in {"converse", "invoke"}
<1>1. CASE r.about.adapter \in Formats
  <2>1. \A ending : StreamSays(r, ending) = WrapStreamSays(ending)
    BY <1>1 DEF StreamSays, Wrapped, Formats
  <2>2. QED
    BY <1>1, <2>1 DEF WrapStreamSays, Wrapped, Formats
<1>2. CASE r.about.adapter = "vertex"
  <2>1. \A ending : StreamSays(r, ending) = VertexStreamSays(ending)
    BY <1>2 DEF StreamSays, Wrapped, Formats
  <2>2. QED
    BY <1>2, <2>1 DEF VertexStreamSays, Wrapped, Formats
<1>3. CASE r.about.adapter = "vercel"
  <2>1. \A ending : StreamSays(r, ending) = VercelStreamSays(ending)
    BY <1>3 DEF StreamSays, Wrapped, Formats
  <2>2. QED
    BY <1>3, <2>1 DEF VercelStreamSays, Wrapped, Formats
<1>4. CASE r.about.adapter = "llamaindex"
  <2>1. \A ending : StreamSays(r, ending) = LlamaIndexStreamSays(r, ending)
    BY <1>4 DEF StreamSays, Wrapped, Formats
  <2>2. QED
    BY <1>4, <2>1 DEF LlamaIndexStreamSays, Wrapped, Formats
<1>5. CASE r.about.adapter \in {"converse", "invoke"}
  <2>1. \A ending : StreamSays(r, ending) = BedrockStreamSays(ending)
    BY <1>5 DEF StreamSays, Wrapped, Formats
  <2>2. QED
    BY <1>5, <2>1 DEF BedrockStreamSays
<1>6. QED
  BY <1>1, <1>2, <1>3, <1>4, <1>5 DEF Adapters

\* What the extractors leave of a value is its text, if it has one.
LEMMA ValueHeard ==
  ASSUME NEW adapter \in Adapters, NEW answer \in SUBSET AnswerParts, NEW heard \in ExtractedFromValue(adapter, answer)
  PROVE  heard \in SUBSET AnswerParts /\ ("text" \in answer => "text" \in heard)
<1>1. CASE adapter \in {"openai", "anthropic", "converse"}
  BY <1>1 DEF ExtractedFromValue, OpenAIResponse, AnthropicResponse, ConverseResponse
<1>2. CASE adapter = "responses"
  BY <1>2 DEF ExtractedFromValue, ResponsesResponse, Text, AnswerParts
<1>3. CASE adapter = "invoke"
  BY <1>3 DEF ExtractedFromValue, InvokeResponse, Text, AnswerParts
<1>4. CASE adapter \in {"gemini", "vertex"}
  BY <1>4 DEF ExtractedFromValue, GeminiResponse, Text, AnswerParts
<1>5. CASE adapter \in {"workers", "vercel", "llamaindex"}
  BY <1>5 DEF ExtractedFromValue, WorkersResponse, VercelText, LlamaIndexText, Text, AnswerParts
<1>6. QED
  BY <1>1, <1>2, <1>3, <1>4, <1>5 DEF Adapters, Formats

\* And of a drained stream, but for Gemini's.
LEMMA StreamHeard ==
  ASSUME NEW adapter \in Adapters, adapter # "workers", NEW answer \in SUBSET AnswerParts,
         NEW heard \in ExtractedFromStream(adapter, answer)
  PROVE  heard \in SUBSET AnswerParts /\ ("text" \in answer /\ adapter # "gemini" => "text" \in heard)
<1>1. CASE adapter \in {"openai", "anthropic"}
  BY <1>1 DEF ExtractedFromStream, OpenAIStream, AnthropicStream, Text, AnswerParts
<1>2. CASE adapter \in {"converse", "invoke"}
  BY <1>2 DEF ExtractedFromStream, BedrockStream, Text, AnswerParts
<1>3. CASE adapter = "responses"
  BY <1>3 DEF ExtractedFromStream, ResponsesStream, Text, AnswerParts
<1>4. CASE adapter = "gemini"
  BY <1>4 DEF ExtractedFromStream, GeminiStream, Text, AnswerParts
<1>5. CASE adapter \in {"vertex", "vercel", "llamaindex"}
  BY <1>5 DEF ExtractedFromStream, GeminiResponse, VercelText, LlamaIndexText, Text, AnswerParts
<1>6. QED
  BY <1>1, <1>2, <1>3, <1>4, <1>5 DEF Adapters, Formats

----------------------------------------------------------------------------
(* The steps of a request.                                                 *)

\* A request that nothing was told of yet, and nothing marks but a grown history.
Pending(r) == r.events = 0 /\ r.told = "none" /\ r.marks \subseteq {"grew"}

\* A new request.
LEMMA NewRequestFits ==
  ASSUME NEW r \in Requests
  PROVE  RequestFits(NewRequest(r))
<1>1. PICK d : d = NewRequest(r)
  OBVIOUS
<1>2. /\ d \in RequestRecords /\ d.at = "given" /\ d.about = r /\ d.own = r.content /\ d.events = 0
      /\ d.told = "none" /\ d.by = "none" /\ d.named = {} /\ d.marks = {}
  BY <1>1, RequestShape DEF NewRequest, RequestRecords, RequestPlaces, Tellings
<1>3. QED
  BY <1>1, <1>2 DEF RequestFits, OwnKept, RecordFits, HeardFits, SettledPlaces

\* Refused: the record says so.
LEMMA RefusedFits ==
  ASSUME NEW r \in RequestRecords, Pending(r), OwnKept(r, r.own)
  PROVE  RequestFits(Refused(r))
<1>1. PICK t : t = Tells(r, "blocked")
  OBVIOUS
<1>2. /\ t \in RequestRecords /\ t.events = 1 /\ t.told = "blocked" /\ t.marks = r.marks
      /\ SameContent(t, r) /\ SameDecision(t, r)
  BY <1>1, TellsFields DEF Pending, Tellings
<1>3. PICK d : d = Goes(t, "refused")
  OBVIOUS
<1>4. /\ d \in RequestRecords /\ d.at = "refused" /\ d.events = 1 /\ d.told = "blocked" /\ d.marks = r.marks
      /\ SameContent(d, r) /\ SameDecision(d, r)
  BY <1>2, <1>3, GoesFields DEF RequestPlaces, SameContent, SameDecision, SameTold
<1>5. OwnKept(d, d.own)
  BY <1>4 DEF OwnKept, SameContent, SameDecision
<1>6. QED
  BY <1>1, <1>3, <1>4, <1>5 DEF Refused, RequestFits, RecordFits, HeardFits, Pending, SettledPlaces

\* On its way to the provider.
LEMMA OutFits ==
  ASSUME NEW r \in RequestRecords, Pending(r), OwnKept(r, r.own), NEW place \in {"leaving", "sent"},
         r.by # "none" => Cleared(r, r.out), r.by # "none" \/ r.about.monitor => r.audited
  PROVE  RequestFits(Goes(r, place))
<1>1. PICK d : d = Goes(r, place)
  OBVIOUS
<1>2. /\ d \in RequestRecords /\ d.at = place /\ d.marks = r.marks /\ d.audited = r.audited
      /\ SameContent(d, r) /\ SameDecision(d, r) /\ SameTold(d, r)
  BY <1>1, GoesFields DEF RequestPlaces
<1>3. OwnKept(d, d.own) /\ Pending(d)
  BY <1>2 DEF OwnKept, Pending, SameContent, SameDecision, SameTold
<1>4. d.by # "none" => Cleared(d, d.out)
  BY <1>2 DEF Cleared, SpanGone, EntityGone, Wrapped, SameContent, SameDecision
<1>5. d.by # "none" \/ d.about.monitor => d.audited
  BY <1>2 DEF SameDecision
<1>6. QED
  BY <1>1, <1>2, <1>3, <1>4, <1>5 DEF RequestFits, RecordFits, HeardFits, Pending, SettledPlaces

\* The scan reads the request, or cannot.
LEMMA ReadKeeps ==
  ASSUME RequestInv, ReadRequest
  PROVE  RequestInv'
<1>1. req \in RequestRecords /\ req.at = "given" /\ Pending(req) /\ OwnKept(req, req.own)
      /\ req.by = "none" /\ req.named = {} /\ req.marks = {}
  BY DEF RequestInv, RequestFits, ReadRequest, Pending, SettledPlaces
<1>2. CASE "opaque" \in Holds(req.own, Reads(Adapter))
  <2>1. PICK m : m = Marked(req, "opaque")
    OBVIOUS
  <2>2. /\ m \in RequestRecords /\ m.marks = {"opaque"} /\ m.told = "none" /\ m.events = 0
        /\ SameContent(m, req) /\ SameDecision(m, req)
    BY <1>1, <2>1, MarkedFields DEF Pending, SameTold
  <2>3. PICK d : d = Goes(m, "refused")
    OBVIOUS
  <2>4. /\ d \in RequestRecords /\ d.at = "refused" /\ d.marks = {"opaque"} /\ d.told = "none"
        /\ SameContent(d, req) /\ SameDecision(d, req)
    BY <2>2, <2>3, GoesFields DEF RequestPlaces, SameContent, SameDecision, SameTold
  <2>5. OwnKept(d, d.own)
    BY <1>1, <2>4 DEF OwnKept, SameContent, SameDecision
  <2>6. RequestFits(d)
    BY <2>4, <2>5 DEF RequestFits, RecordFits, HeardFits, SettledPlaces
  <2>7. QED
    BY <1>2, <2>1, <2>3, <2>6 DEF ReadRequest, RequestInv
<1>3. CASE "opaque" \notin Holds(req.own, Reads(Adapter))
  <2>1. PICK saw \in SUBSET Secrets : saw = Holds(req.own, Reads(Adapter)) \cap Secrets
    OBVIOUS
  <2>2. PICK s : s = [req EXCEPT !.saw = saw]
    OBVIOUS
  <2>3. /\ s \in RequestRecords /\ s.saw = saw /\ s.about = req.about /\ s.named = req.named /\ s.by = req.by
        /\ SameContent(s, req) /\ SameTold(s, req) /\ s.marks = req.marks
    BY <1>1, <2>2 DEF RequestRecords, SameContent, SameTold
  <2>4. PICK d : d = Goes(s, "judging")
    OBVIOUS
  <2>5. /\ d \in RequestRecords /\ d.at = "judging" /\ d.saw = saw /\ d.about = req.about /\ d.named = {}
        /\ d.by = "none" /\ SameContent(d, req) /\ Pending(d)
    BY <1>1, <2>3, <2>4, GoesFields DEF RequestPlaces, SameContent, SameDecision, SameTold, Pending
  <2>6. OwnKept(d, d.own) /\ SawAll(d)
    BY <1>1, <2>1, <2>5 DEF OwnKept, SawAll, SameContent, Adapter
  <2>7. RequestFits(d)
    BY <2>5, <2>6 DEF RequestFits, RecordFits, HeardFits, SettledPlaces, Pending
  <2>8. QED
    BY <1>3, <2>1, <2>2, <2>4, <2>7 DEF ReadRequest, RequestInv
<1>4. QED
  BY <1>2, <1>3

\* A history that grows marks the request, and brings no entity.
LEMMA GrowKeeps ==
  ASSUME RequestInv, HistoryGrows
  PROVE  RequestInv'
<1>1. /\ req \in RequestRecords /\ req.at \in {"judging", "leaving"} /\ Pending(req) /\ OwnKept(req, req.own)
      /\ req.about.adapter \in Keepers
      /\ req.at = "judging" => req.by = "none" /\ req.named = {}
      /\ req.at = "leaving" /\ req.by # "none" => Cleared(req, req.out)
      /\ req.at = "leaving" /\ (req.by # "none" \/ req.about.monitor) => req.audited
  BY DEF RequestInv, RequestFits, HistoryGrows, Pending, SettledPlaces, Adapter
<1>2. PICK own : own = [req.own EXCEPT !.held = @ \cup {"span"}]
  OBVIOUS
<1>3. PICK out : out = [req.out EXCEPT !.held = @ \cup {"span"}]
  OBVIOUS
<1>4. /\ own \in Content /\ \A s \in Slots \ {"held"} : own[s] = req.own[s]
      /\ out \in Content /\ \A s \in Slots : "entity" \in out[s] => "entity" \in req.out[s]
  BY <1>1, <1>2, <1>3 DEF RequestRecords, Content, Slots, Kinds, Secrets
<1>5. PICK g : g = [req EXCEPT !.own = own, !.out = out]
  OBVIOUS
<1>6. /\ g \in RequestRecords /\ g.own = own /\ g.out = out /\ g.at = req.at /\ g.marks = req.marks
      /\ g.audited = req.audited /\ SameDecision(g, req) /\ SameTold(g, req)
  BY <1>1, <1>4, <1>5 DEF RequestRecords, SameDecision, SameTold
<1>7. PICK d : d = Marked(g, "grew")
  OBVIOUS
<1>8. /\ d \in RequestRecords /\ d.own = own /\ d.out = out /\ d.at = req.at
      /\ d.marks = req.marks \cup {"grew"} /\ d.audited = req.audited
      /\ SameDecision(d, req) /\ SameTold(d, req)
  BY <1>6, <1>7, MarkedFields DEF SameContent, SameDecision, SameTold
<1>9. OwnKept(d, d.own) /\ Pending(d) /\ SawAll(d)
  BY <1>1, <1>4, <1>8 DEF OwnKept, Pending, SawAll, SameDecision, SameTold
<1>10. d.at = "leaving" /\ d.by # "none" => Cleared(d, d.out)
  <2>1. Reads(req.about.adapter) \subseteq Slots
    BY <1>1, AdapterReads
  <2>2. "entity" \in Holds(d.out, Reads(d.about.adapter)) => "entity" \in Holds(req.out, Reads(req.about.adapter))
    BY <1>4, <1>8, <2>1 DEF Holds, SameDecision
  <2>3. QED
    BY <1>1, <1>8, <2>2 DEF Cleared, SpanGone, EntityGone, Wrapped, SameDecision
<1>11. RequestFits(d)
  BY <1>1, <1>8, <1>9, <1>10 DEF RequestFits, RecordFits, HeardFits, SettledPlaces, Pending, SameDecision
<1>12. req' = d
  BY <1>1, <1>2, <1>3, <1>5, <1>7 DEF HistoryGrows, RequestRecords
<1>13. QED
  BY <1>11, <1>12 DEF RequestInv

\* The verdict on what was read.
LEMMA JudgeKeeps ==
  ASSUME RequestInv, Allow \/ RefuseRequest \/ DecideRedaction
  PROVE  RequestInv'
<1>1. /\ req \in RequestRecords /\ req.at = "judging" /\ Pending(req) /\ OwnKept(req, req.own)
      /\ SawAll(req) /\ req.by = "none" /\ req.named = {}
  BY DEF RequestInv, RequestFits, Allow, RefuseRequest, DecideRedaction, Pending, SettledPlaces
<1>2. CASE RefuseRequest
  BY <1>1, <1>2, RefusedFits DEF RefuseRequest, RequestInv
<1>3. CASE Allow
  <2>1. PICK sampled \in BOOLEAN :
          req' = Forwarded([req EXCEPT !.out = req.own, !.audited = AuditsThis(req, sampled)])
    BY <1>3 DEF Allow
  <2>2. PICK audited : audited = AuditsThis(req, sampled)
    OBVIOUS
  <2>3. audited \in BOOLEAN /\ (req.about.monitor => audited)
    <3>1. req.about.monitor \in BOOLEAN
      BY <1>1, RequestShape DEF RequestRecords
    <3>2. QED
      BY <2>2, <3>1 DEF AuditsThis
  <2>4. PICK r : r = [req EXCEPT !.out = req.own, !.audited = audited]
    OBVIOUS
  <2>5. /\ r \in RequestRecords /\ r.own = req.own /\ SameDecision(r, req) /\ SameTold(r, req)
        /\ r.marks = req.marks
    BY <1>1, <2>3, <2>4 DEF RequestRecords, SameDecision, SameTold
  <2>6. r.audited = audited
    BY <1>1, <2>3, <2>4 DEF RequestRecords
  <2>7. /\ Pending(r) /\ OwnKept(r, r.own) /\ r.by = "none"
        /\ r.about.monitor => r.audited
    BY <1>1, <2>3, <2>5, <2>6 DEF Pending, OwnKept, SameDecision, SameTold
  <2>8. \A place \in {"leaving", "sent"} : RequestFits(Goes(r, place))
    BY <2>5, <2>7, OutFits
  <2>9. QED
    BY <2>1, <2>2, <2>4, <2>8 DEF Forwarded, RequestInv
<1>4. CASE DecideRedaction
  <2>1. PICK by \in {"pii", "policy"}, named \in SUBSET Secrets :
          /\ req' = Goes([req EXCEPT !.by = by, !.named = named], "redacting")
          /\ by = "pii" /\ "span" \in req.saw => "span" \in named
          /\ by = "policy" => named = {}
    <3>1. CASE req' = Goes([req EXCEPT !.by = "policy"], "redacting")
      <4>1. [req EXCEPT !.by = "policy"] = [req EXCEPT !.by = "policy", !.named = {}]
        BY <1>1 DEF RequestRecords
      <4>2. QED
        BY <3>1, <4>1
    <3>2. CASE \E answered \in BOOLEAN :
                 req' = Goes([req EXCEPT !.by = "pii", !.named = Redactable(req, answered)], "redacting")
      <4>1. PICK answered \in BOOLEAN :
              req' = Goes([req EXCEPT !.by = "pii", !.named = Redactable(req, answered)], "redacting")
        BY <3>2
      <4>2. Redactable(req, answered) \in SUBSET Secrets /\ ("span" \in req.saw => "span" \in Redactable(req, answered))
        BY <1>1 DEF Redactable, RequestRecords
      <4>3. QED
        BY <4>1, <4>2
    <3>3. QED
      BY <1>4, <3>1, <3>2 DEF DecideRedaction
  <2>2. PICK r : r = [req EXCEPT !.by = by, !.named = named]
    OBVIOUS
  <2>3. /\ r \in RequestRecords /\ r.by = by /\ r.named = named /\ r.saw = req.saw /\ r.about = req.about
        /\ SameContent(r, req) /\ SameTold(r, req) /\ r.marks = req.marks
    BY <1>1, <2>2 DEF RequestRecords, SameContent, SameTold
  <2>4. PICK d : d = Goes(r, "redacting")
    OBVIOUS
  <2>5. /\ d \in RequestRecords /\ d.at = "redacting" /\ d.by = by /\ d.named = named /\ d.saw = req.saw
        /\ d.about = req.about /\ SameContent(d, req) /\ SameTold(d, req) /\ d.marks = req.marks
    BY <2>3, <2>4, GoesFields DEF RequestPlaces, SameContent, SameDecision, SameTold
  <2>6. OwnKept(d, d.own) /\ SawAll(d) /\ NamedFits(d) /\ Pending(d)
    BY <1>1, <2>1, <2>5 DEF OwnKept, SawAll, NamedFits, Pending, SameContent, SameTold
  <2>7. RequestFits(d)
    BY <2>5, <2>6 DEF RequestFits, RecordFits, HeardFits, SettledPlaces, Pending
  <2>8. QED
    BY <2>1, <2>2, <2>4, <2>7 DEF RequestInv
<1>5. QED
  BY <1>2, <1>3, <1>4

\* The redaction carried out, or the request refused.
LEMMA RedactKeeps ==
  ASSUME RequestInv, Redact
  PROVE  RequestInv'
<1>1. req \in RequestRecords /\ req.at = "redacting" /\ Pending(req) /\ Redacting(req)
  BY DEF RequestInv, RequestFits, Redact, Redacting, Pending, SettledPlaces
<1>2. PICK o \in Redactions(req) :
        LET r == [req EXCEPT !.own = o.own, !.out = o.out, !.audited = TRUE] IN
        req' = IF o.applied THEN Forwarded(r) ELSE Refused(r)
  BY DEF Redact
<1>3. Redacted(req, o)
  BY <1>1, <1>2, RedactionsFit
<1>4. PICK s : s = [req EXCEPT !.own = o.own, !.out = o.out]
  OBVIOUS
<1>5. /\ s \in RequestRecords /\ s.own = o.own /\ s.out = o.out /\ s.marks = req.marks
      /\ SameDecision(s, req) /\ SameTold(s, req)
  BY <1>1, <1>3, <1>4 DEF Redacted, RequestRecords, SameDecision, SameTold
<1>6. PICK r : r = [s EXCEPT !.audited = TRUE]
  OBVIOUS
<1>7. /\ r \in RequestRecords /\ r.own = o.own /\ r.out = o.out /\ r.marks = req.marks
      /\ SameDecision(r, req) /\ SameTold(r, req) /\ r.audited
  BY <1>5, <1>6 DEF RequestRecords, SameDecision, SameTold
<1>8. req' = IF o.applied THEN Forwarded(r) ELSE Refused(r)
  BY <1>2, <1>4, <1>6
<1>9. Pending(r) /\ OwnKept(r, r.own)
  BY <1>1, <1>3, <1>7 DEF Pending, Redacted, OwnKept, SameDecision, SameTold
<1>10. CASE o.applied
  <2>1. Cleared(r, r.out)
    BY <1>3, <1>7, <1>10 DEF Redacted, Cleared, SpanGone, EntityGone, Wrapped, SameDecision
  <2>2. \A place \in {"leaving", "sent"} : RequestFits(Goes(r, place))
    BY <1>7, <1>9, <2>1, OutFits
  <2>3. QED
    BY <1>8, <1>10, <2>2 DEF Forwarded, RequestInv
<1>11. CASE ~o.applied
  BY <1>7, <1>8, <1>9, <1>11, RefusedFits DEF RequestInv
<1>12. QED
  BY <1>10, <1>11

\* The plan of a wrapped client is consumed.
LEMMA LeaveKeeps ==
  ASSUME RequestInv, Leave
  PROVE  RequestInv'
<1>1. /\ req \in RequestRecords /\ Pending(req) /\ OwnKept(req, req.own)
      /\ req.by # "none" => Cleared(req, req.out)
      /\ req.by # "none" \/ req.about.monitor => req.audited
  BY DEF RequestInv, RequestFits, Leave, Pending, SettledPlaces
<1>2. QED
  BY <1>1, OutFits DEF Leave, RequestInv

\* A request that the provider has, or whose stream is read.
Given(r) ==
  /\ r \in RequestRecords /\ Pending(r) /\ OwnKept(r, r.own)
  /\ r.by # "none" => Cleared(r, r.out)
  /\ r.by # "none" \/ r.about.monitor => r.audited

\* The same request as it ends.
Ended(d, r) ==
  /\ d \in RequestRecords /\ SameContent(d, r) /\ SameDecision(d, r) /\ d.audited = r.audited
  /\ d.marks \subseteq {"grew", "shapeless"} /\ r.marks \subseteq d.marks
  /\ d.at \in {"answered", "failed", "left"}
  /\ d.told \in {"none", "error", "completed", "incomplete"}
  /\ d.events = IF d.told = "none" THEN 0 ELSE 1

\* It ends well if the record is right.
LEMMA EndedFits ==
  ASSUME NEW r, Given(r), NEW d, Ended(d, r),
         d.at = "failed" => d.told = "error" \/ Untraced(d),
         r.by # "none" \/ r.about.monitor => d.told # "none" \/ Untraced(d),
         HeardFits(d)
  PROVE  RequestFits(d)
<1>1. OwnKept(d, d.own)
  BY DEF Given, Ended, OwnKept, SameContent, SameDecision
<1>2. d.by # "none" => Cleared(d, d.out)
  <2>1. "grew" \in r.marks => "grew" \in d.marks
    BY DEF Ended
  <2>2. QED
    BY <2>1 DEF Given, Ended, Cleared, SpanGone, EntityGone, Wrapped, SameContent, SameDecision
<1>3. RecordFits(d)
  BY DEF Given, Ended, RecordFits, SameDecision
<1>4. QED
  BY <1>1, <1>2, <1>3 DEF RequestFits, Ended, SettledPlaces

\* What ends a request, with an answer or without.
LEMMA EndsEnded ==
  ASSUME NEW r, Given(r), NEW h \in RequestRecords, SameContent(h, r), SameDecision(h, r), SameTold(h, r),
         h.audited = r.audited, h.marks \in {r.marks, r.marks \cup {"shapeless"}},
         NEW place \in {"answered", "failed", "left"}, NEW says \in {"none", "error", "completed", "incomplete"}
  PROVE  /\ Ended(Ends(h, place, says), r)
         /\ Ends(h, place, says).at = place /\ Ends(h, place, says).told = says
         /\ Ends(h, place, says).marks = h.marks /\ SameAnswer(Ends(h, place, says), h)
<1>1. h.events = 0 /\ h.told = "none" /\ h.marks \subseteq {"grew", "shapeless"} /\ r.marks \subseteq h.marks
  BY DEF Given, Pending, SameTold
<1>2. place \in RequestPlaces /\ says \in Tellings
  BY DEF RequestPlaces, Tellings
<1>3. PICK d : d = Ends(h, place, says)
  OBVIOUS
<1>4. /\ d \in RequestRecords /\ d.at = place /\ d.told = says /\ d.events = IF says = "none" THEN 0 ELSE 1
      /\ SameContent(d, h) /\ SameDecision(d, h) /\ SameAnswer(d, h) /\ d.audited = h.audited /\ d.marks = h.marks
  BY <1>1, <1>2, <1>3, EndsFields
<1>5. QED
  BY <1>1, <1>3, <1>4 DEF Ended, SameContent, SameDecision

\* The provider fails.
LEMMA ProviderRefusesKeeps ==
  ASSUME RequestInv, ProviderRefuses
  PROVE  RequestInv'
<1>1. Given(req) /\ req.about.adapter \in Adapters
  BY AdapterReads DEF RequestInv, RequestFits, ProviderRefuses, Given, Pending, SettledPlaces
<1>2. PICK says : says = Says(req, "error")
  OBVIOUS
<1>3. says = "error" \/ (says = "none" /\ (Unobserved(req) \/ req.about.adapter = "vercel"))
  BY <1>1, <1>2, SaysOfError
<1>4. PICK d : d = Ends(req, "failed", says)
  OBVIOUS
<1>5. Ended(d, req) /\ d.at = "failed" /\ d.told = says
  BY <1>1, <1>3, <1>4, EndsEnded DEF Given, SameContent, SameDecision, SameTold
<1>6. d.told = "error" \/ Untraced(d)
  BY <1>3, <1>5 DEF Untraced, Unobserved, Wrapped, Ended, SameDecision
<1>7. HeardFits(d)
  BY <1>3, <1>5 DEF HeardFits
<1>8. RequestFits(d)
  BY <1>1, <1>5, <1>6, <1>7, EndedFits
<1>9. QED
  BY <1>2, <1>4, <1>8 DEF ProviderRefuses, RequestInv

\* The provider answers with a value.
LEMMA ProviderReturnsKeeps ==
  ASSUME RequestInv, ProviderReturns
  PROVE  RequestInv'
<1>1. Given(req) /\ req.about.adapter \in Adapters /\ ~req.about.streams
  BY AdapterReads DEF RequestInv, RequestFits, ProviderReturns, Given, Pending, SettledPlaces
<1>2. PICK answer \in Answers : \E heard \in ExtractedFromValue(Adapter, answer) :
        req' = Ends(Hears(req, answer, heard), "answered", Says(req, "value"))
  BY DEF ProviderReturns
<1>3. PICK heard \in ExtractedFromValue(Adapter, answer) :
        req' = Ends(Hears(req, answer, heard), "answered", Says(req, "value"))
  BY <1>2
<1>4. /\ answer \in SUBSET AnswerParts /\ heard \in SUBSET AnswerParts
      /\ "text" \in answer => "text" \in heard
  <2>1. answer \in SUBSET AnswerParts
    BY DEF Answers, AnswerParts
  <2>2. QED
    BY <1>1, <2>1, ValueHeard DEF Adapter
<1>5. PICK h : h = Hears(req, answer, heard)
  OBVIOUS
<1>6. /\ h \in RequestRecords /\ h.answer = answer /\ h.heard = IF req.audited THEN heard ELSE {}
      /\ SameContent(h, req) /\ SameDecision(h, req) /\ SameTold(h, req)
      /\ h.audited = req.audited /\ h.marks = req.marks
  BY <1>1, <1>4, <1>5, HearsFields DEF Given
<1>7. PICK says : says = IF req.audited THEN "completed" ELSE "none"
  OBVIOUS
<1>8. Says(req, "value") = says
  BY <1>1, <1>7, SaysOfValue DEF Said
<1>9. PICK d : d = Ends(h, "answered", says)
  OBVIOUS
<1>10. Ended(d, req) /\ d.at = "answered" /\ d.told = says /\ SameAnswer(d, h)
  BY <1>1, <1>6, <1>7, <1>9, EndsEnded
<1>11. HeardFits(d)
  BY <1>4, <1>6, <1>7, <1>10 DEF HeardFits, SameAnswer
<1>12. RequestFits(d)
  BY <1>1, <1>7, <1>10, <1>11, EndedFits DEF Given
<1>13. QED
  BY <1>3, <1>5, <1>8, <1>9, <1>12 DEF RequestInv

\* The provider opens a stream.
LEMMA ProviderOpensStreamKeeps ==
  ASSUME RequestInv, ProviderOpensStream
  PROVE  RequestInv'
<1>1. Given(req) /\ req.about.adapter \in Adapters /\ req.about.streams
  BY AdapterReads DEF RequestInv, RequestFits, ProviderOpensStream, Given, Pending, SettledPlaces
<1>2. PICK answer \in Answers :
        LET r == Hears(req, answer, {}) IN
        \/ req' = Ends(r, IF Watched(r) THEN "streaming" ELSE "answered", Says(r, "stream"))
        \/ Adapter # "llamaindex" /\ req' = Ends(Marked(r, "shapeless"), "answered", Says(r, "shapeless"))
  BY DEF ProviderOpensStream
<1>3. PICK h : h = Hears(req, answer, {})
  OBVIOUS
<1>4. /\ h \in RequestRecords /\ SameContent(h, req) /\ SameDecision(h, req) /\ SameTold(h, req)
      /\ h.audited = req.audited /\ h.marks = req.marks
  <2>1. answer \in SUBSET AnswerParts /\ {} \in SUBSET AnswerParts
    BY DEF Answers, AnswerParts
  <2>2. QED
    BY <1>1, <1>3, <2>1, HearsFields DEF Given
<1>5. h.about.adapter \in Adapters /\ h.about = req.about
  BY <1>1, <1>4 DEF SameDecision
<1>6. CASE Watched(h) /\ req' = Ends(h, "streaming", Says(h, "stream"))
  <2>1. Says(h, "stream") = "none"
    BY <1>5, <1>6, SaysOfStream DEF Watched
  <2>2. PICK d : d = Goes(h, "streaming")
    OBVIOUS
  <2>3. req' = d
    BY <1>6, <2>1, <2>2 DEF Ends
  <2>4. /\ d \in RequestRecords /\ d.at = "streaming" /\ SameContent(d, req) /\ SameDecision(d, req)
        /\ SameTold(d, req) /\ d.audited = req.audited /\ d.marks = req.marks
    BY <1>4, <2>2, GoesFields DEF RequestPlaces, SameContent, SameDecision, SameTold
  <2>5. Watched(d) /\ d.about.streams
    BY <1>1, <1>4, <1>5, <1>6, <2>4 DEF Watched, Unobserved, Wrapped, SameDecision
  <2>6. OwnKept(d, d.own) /\ Pending(d) /\ (d.by # "none" => Cleared(d, d.out))
    BY <1>1, <2>4 DEF Given, OwnKept, Pending, Cleared, SpanGone, EntityGone, Wrapped, SameContent, SameDecision, SameTold
  <2>7. RequestFits(d)
    BY <1>1, <2>4, <2>5, <2>6 DEF RequestFits, RecordFits, HeardFits, SettledPlaces, Pending, Given, SameDecision
  <2>8. QED
    BY <2>3, <2>7 DEF RequestInv
<1>7. CASE ~Watched(h) /\ req' = Ends(h, "answered", Says(h, "stream"))
  <2>1. PICK says : says = Says(h, "stream")
    OBVIOUS
  <2>2. /\ says \in {"none", "completed"}
        /\ says = "completed" => req.about.adapter = "workers"
        /\ req.about.adapter = "workers" /\ req.audited => says = "completed" \/ Unobserved(req)
    BY <1>4, <1>5, <2>1, SaysOfStream DEF Said, Unobserved, Wrapped
  <2>3. PICK d : d = Ends(h, "answered", says)
    OBVIOUS
  <2>4. Ended(d, req) /\ d.at = "answered" /\ d.told = says
    BY <1>1, <1>4, <2>2, <2>3, EndsEnded
  <2>5. HeardFits(d)
    BY <1>1, <2>2, <2>4 DEF HeardFits, Ended, SameDecision
  <2>6. req.about.adapter = "workers" \/ Unobserved(req) \/ ~req.audited
    BY <1>4, <1>5, <1>7 DEF Watched, Unobserved, Wrapped
  <2>7. req.by # "none" \/ req.about.monitor => d.told # "none" \/ Untraced(d)
    BY <1>1, <2>2, <2>4, <2>6 DEF Given, Untraced, Unobserved, Wrapped, Ended, SameDecision
  <2>8. RequestFits(d)
    BY <1>1, <2>4, <2>5, <2>7, EndedFits
  <2>9. QED
    BY <1>7, <2>1, <2>3, <2>8 DEF RequestInv
<1>8. CASE req' = Ends(Marked(h, "shapeless"), "answered", Says(h, "shapeless"))
  <2>1. PICK m : m = Marked(h, "shapeless")
    OBVIOUS
  <2>2. /\ m \in RequestRecords /\ SameContent(m, req) /\ SameDecision(m, req) /\ SameTold(m, req)
        /\ m.audited = req.audited /\ m.marks = req.marks \cup {"shapeless"}
    BY <1>4, <2>1, MarkedFields DEF SameContent, SameDecision, SameTold
  <2>3. PICK says : says = Says(h, "shapeless")
    OBVIOUS
  <2>4. says \in {"none", "completed"}
    BY <1>5, <2>3, SaysOfShapeless
  <2>5. PICK d : d = Ends(m, "answered", says)
    OBVIOUS
  <2>6. Ended(d, req) /\ d.at = "answered" /\ d.told = says /\ d.marks = m.marks
    BY <1>1, <2>2, <2>4, <2>5, EndsEnded
  <2>7. Untraced(d) /\ HeardFits(d)
    BY <2>2, <2>6 DEF Untraced, HeardFits
  <2>8. RequestFits(d)
    BY <1>1, <2>6, <2>7, EndedFits
  <2>9. QED
    BY <1>8, <2>1, <2>3, <2>5, <2>8 DEF RequestInv
<1>9. QED
  BY <1>2, <1>3, <1>6, <1>7, <1>8

\* The caller begins to read a stream.
LEMMA StreamReadKeeps ==
  ASSUME RequestInv, StreamRead
  PROVE  RequestInv'
<1>1. Given(req) /\ Watched(req) /\ req.about.streams
  BY DEF RequestInv, RequestFits, StreamRead, Given, Pending, SettledPlaces
<1>2. PICK d : d = Goes(req, "reading")
  OBVIOUS
<1>3. /\ d \in RequestRecords /\ d.at = "reading" /\ SameContent(d, req) /\ SameDecision(d, req)
      /\ SameTold(d, req) /\ d.audited = req.audited /\ d.marks = req.marks
  BY <1>1, <1>2, GoesFields DEF RequestPlaces, Given
<1>4. Watched(d) /\ d.about.streams
  BY <1>1, <1>3 DEF Watched, Unobserved, Wrapped, SameDecision
<1>5. OwnKept(d, d.own) /\ Pending(d) /\ (d.by # "none" => Cleared(d, d.out))
  BY <1>1, <1>3 DEF Given, OwnKept, Pending, Cleared, SpanGone, EntityGone, Wrapped, SameContent, SameDecision, SameTold
<1>6. RequestFits(d)
  BY <1>1, <1>3, <1>4, <1>5 DEF RequestFits, RecordFits, HeardFits, SettledPlaces, Pending, Given, SameDecision
<1>7. QED
  BY <1>2, <1>6 DEF StreamRead, RequestInv

\* It is read to the end.
LEMMA StreamDrainedKeeps ==
  ASSUME RequestInv, StreamDrained
  PROVE  RequestInv'
<1>1. Given(req) /\ req.about.adapter \in Adapters \ {"workers"} /\ req.about.streams
      /\ (req.audited \/ req.about.adapter = "llamaindex")
  BY AdapterReads DEF RequestInv, RequestFits, StreamDrained, Given, Pending, SettledPlaces, Watched
<1>2. PICK heard \in ExtractedFromStream(Adapter, req.answer) :
        req' = Ends(Hears(req, req.answer, heard), "answered", StreamSays(req, "drained"))
  BY DEF StreamDrained
<1>3. /\ req.answer \in SUBSET AnswerParts /\ heard \in SUBSET AnswerParts
      /\ "text" \in req.answer /\ req.about.adapter # "gemini" => "text" \in heard
  <2>1. req.answer \in SUBSET AnswerParts
    BY <1>1 DEF Given, RequestRecords
  <2>2. QED
    BY <1>1, <1>2, <2>1, StreamHeard DEF Adapter
<1>4. PICK h : h = Hears(req, req.answer, heard)
  OBVIOUS
<1>5. /\ h \in RequestRecords /\ h.answer = req.answer /\ h.heard = IF req.audited THEN heard ELSE {}
      /\ SameContent(h, req) /\ SameDecision(h, req) /\ SameTold(h, req)
      /\ h.audited = req.audited /\ h.marks = req.marks
  BY <1>1, <1>3, <1>4, HearsFields DEF Given
<1>6. PICK says : says = StreamSays(req, "drained")
  OBVIOUS
<1>7. /\ says \in {"none", "completed"}
      /\ req.audited => says = "completed"
      /\ says = "completed" => req.audited \/ req.about.adapter # "llamaindex"
  <2>1. req.about.adapter = "llamaindex" => StreamSays(req, "drained") = Said(req, "completed")
    <3>1. ASSUME req.about.adapter = "llamaindex"
          PROVE  StreamSays(req, "drained") = LlamaIndexStreamSays(req, "drained")
      BY <3>1 DEF StreamSays, Wrapped, Formats
    <3>2. QED
      BY <3>1 DEF LlamaIndexStreamSays
  <2>2. StreamSays(req, "drained") \in {"completed", Said(req, "completed")}
    BY <1>1, SaysOfEnd
  <2>3. QED
    BY <1>6, <2>1, <2>2 DEF Said
<1>8. PICK d : d = Ends(h, "answered", says)
  OBVIOUS
<1>9. Ended(d, req) /\ d.at = "answered" /\ d.told = says /\ SameAnswer(d, h)
  BY <1>1, <1>5, <1>7, <1>8, EndsEnded
<1>10. HeardFits(d)
  BY <1>1, <1>3, <1>5, <1>7, <1>9 DEF HeardFits, SameAnswer, Ended, SameDecision
<1>11. RequestFits(d)
  BY <1>1, <1>7, <1>9, <1>10, EndedFits DEF Given
<1>12. QED
  BY <1>2, <1>4, <1>6, <1>8, <1>11 DEF RequestInv

\* It breaks off.
LEMMA StreamBreaksKeeps ==
  ASSUME RequestInv, StreamBreaks
  PROVE  RequestInv'
<1>1. Given(req) /\ req.about.adapter \in Adapters \ {"workers"}
  BY AdapterReads DEF RequestInv, RequestFits, StreamBreaks, Given, Pending, SettledPlaces, Watched
<1>2. PICK says : says = StreamSays(req, "broken")
  OBVIOUS
<1>3. says = "error" \/ (says = "none" /\ req.about.adapter = "vercel")
  BY <1>1, <1>2, SaysOfEnd
<1>4. PICK d : d = Ends(req, "failed", says)
  OBVIOUS
<1>5. Ended(d, req) /\ d.at = "failed" /\ d.told = says
  BY <1>1, <1>3, <1>4, EndsEnded DEF Given, SameContent, SameDecision, SameTold
<1>6. d.told = "error" \/ Untraced(d)
  BY <1>3, <1>5 DEF Untraced, Ended, SameDecision
<1>7. HeardFits(d)
  BY <1>3, <1>5 DEF HeardFits
<1>8. RequestFits(d)
  BY <1>1, <1>5, <1>6, <1>7, EndedFits
<1>9. QED
  BY <1>2, <1>4, <1>8 DEF StreamBreaks, RequestInv

\* It is left by its caller, read or unread.
LEMMA StreamLeftKeeps ==
  ASSUME RequestInv, StreamLeft
  PROVE  RequestInv'
<1>1. Given(req) /\ req.about.adapter \in Adapters \ {"workers", "vertex"}
  BY AdapterReads DEF RequestInv, RequestFits, StreamLeft, Given, Pending, SettledPlaces, Watched, Adapter
<1>2. CASE req.at = "streaming"
  <2>1. StreamSays(req, "unread") = "none"
    BY <1>1, SaysOfEnd
  <2>2. PICK d : d = Ends(req, "left", "none")
    OBVIOUS
  <2>3. Ended(d, req) /\ d.at = "left" /\ d.told = "none"
    BY <1>1, <2>2, EndsEnded DEF Given, SameContent, SameDecision, SameTold
  <2>4. Untraced(d) /\ HeardFits(d)
    BY <2>3 DEF Untraced, HeardFits
  <2>5. RequestFits(d)
    BY <1>1, <2>3, <2>4, EndedFits
  <2>6. QED
    BY <1>2, <2>1, <2>2, <2>5 DEF StreamLeft, RequestInv
<1>3. CASE req.at # "streaming"
  <2>1. PICK heard \in {{}, Text(req.answer)} :
          req' = Ends(Hears(req, req.answer, heard), "left", StreamSays(req, "left"))
    BY <1>3 DEF StreamLeft
  <2>2. req.answer \in SUBSET AnswerParts /\ heard \in SUBSET AnswerParts
    BY <1>1, <2>1 DEF Given, RequestRecords, Text
  <2>3. PICK h : h = Hears(req, req.answer, heard)
    OBVIOUS
  <2>4. /\ h \in RequestRecords /\ SameContent(h, req) /\ SameDecision(h, req) /\ SameTold(h, req)
        /\ h.audited = req.audited /\ h.marks = req.marks
    BY <1>1, <2>2, <2>3, HearsFields DEF Given
  <2>5. PICK says : says = StreamSays(req, "left")
    OBVIOUS
  <2>6. /\ says \in {"none", "incomplete", "completed"}
        /\ says = "completed" => req.about.adapter \in {"converse", "invoke"}
    BY <1>1, <2>5, SaysOfEnd
  <2>7. PICK d : d = Ends(h, "left", says)
    OBVIOUS
  <2>8. Ended(d, req) /\ d.at = "left" /\ d.told = says
    BY <1>1, <2>4, <2>6, <2>7, EndsEnded
  <2>9. Untraced(d) /\ HeardFits(d)
    BY <2>6, <2>8 DEF Untraced, HeardFits, Ended, SameDecision
  <2>10. RequestFits(d)
    BY <1>1, <2>8, <2>9, EndedFits
  <2>11. QED
    BY <2>1, <2>3, <2>5, <2>7, <2>10 DEF RequestInv
<1>4. QED
  BY <1>2, <1>3

\* Every step.
LEMMA RequestStep ==
  ASSUME RequestInv, [RequestNext]_req
  PROVE  RequestInv'
<1>1. CASE UNCHANGED req
  BY <1>1 DEF RequestInv
<1>2. CASE RequestNext
  BY <1>1, <1>2, ReadKeeps, GrowKeeps, JudgeKeeps, RedactKeeps, LeaveKeeps, ProviderRefusesKeeps,
     ProviderReturnsKeeps, ProviderOpensStreamKeeps, StreamReadKeeps, StreamDrainedKeeps,
     StreamBreaksKeeps, StreamLeftKeeps
  DEF RequestNext, RequestDone
<1>3. QED
  BY <1>1, <1>2

----------------------------------------------------------------------------
(* Calls and requests as parts of the one system.                          *)

\* The calls of the system are those of GovernedCalls, whatever part is at work.
THEOREM CallsGoverned == GovernanceSpec => Spec
<1>1. GovernanceInit => Init
  BY DEF GovernanceInit
<1>2. [GovernanceNext]_governanceVars => [Next]_vars
  BY DEF GovernanceNext, governanceVars
<1>3. QED
  BY <1>1, <1>2, PTL DEF GovernanceSpec, Spec

\* And its tool calls are those of AgentTools.
THEOREM ToolsGoverned == GovernanceSpec => ToolsSpec
<1>1. GovernanceInit => ToolsInit
  BY DEF GovernanceInit
<1>2. [GovernanceNext]_governanceVars => [ToolsNext]_toolVars
  BY DEF GovernanceNext, governanceVars
<1>3. QED
  BY <1>1, <1>2, PTL DEF GovernanceSpec, ToolsSpec

\* By its place, what a request was read for, rewritten for, audited for and told of.
THEOREM RequestInvariant == GovernanceSpec => []RequestInv
<1>1. GovernanceInit => RequestInv
  BY NewRequestFits DEF GovernanceInit, RequestInit, RequestInv
<1>2. RequestInv /\ [GovernanceNext]_governanceVars => RequestInv'
  <2>1. [GovernanceNext]_governanceVars => [RequestNext]_req
    BY DEF GovernanceNext, governanceVars
  <2>2. QED
    BY <2>1, RequestStep
<1>3. QED
  BY <1>1, <1>2, PTL DEF GovernanceSpec

\* What the record calls redacted went out without what the policy found, and the caller's
\* own objects are as they were, on every surface, on every adapter and for every content.
THEOREM RedactionsHold == GovernanceSpec => []RedactedMeansRedacted
<1>1. RequestInv => RequestRedaction /\ CallerKeeps
  <2>1. ASSUME RequestInv
        PROVE  RequestRedaction
    BY <2>1 DEF RequestInv, RequestFits, Cleared, SpanGone, EntityGone, RequestRedaction, Adapter
  <2>2. ASSUME RequestInv
        PROVE  CallerKeeps
    BY <2>2 DEF RequestInv, RequestFits, OwnKept, CallerKeeps, Adapter
  <2>3. QED
    BY <2>1, <2>2
<1>2. CallRedaction /\ RequestRedaction /\ CallerKeeps => RedactedMeansRedacted
  BY DEF RedactedMeansRedacted
<1>3. QED
  BY <1>1, <1>2, CallsGoverned, RedactionsCarriedOut, RequestInvariant, PTL

\* What enforcement did is on the record, once, on every surface and every adapter.
THEOREM EnforcementRecorded == GovernanceSpec => []EnforcementAudited
<1>1. RequestInv => RequestOnRecord
  <2>1. ASSUME RequestInv
        PROVE  req.events <= 1
    BY <2>1 DEF RequestInv, RequestFits, RequestRecords
  <2>2. QED
    BY <2>1 DEF RequestInv, RequestFits, RecordFits, Untraced, RequestOnRecord, Adapter
<1>2. CallOnRecord /\ RequestOnRecord => EnforcementAudited
  BY DEF EnforcementAudited
<1>3. QED
  BY <1>1, <1>2, CallsGoverned, CallsOnRecord, RequestInvariant, PTL

\* The stored copy is governed, and it is a copy of the answer that was given.
THEOREM StoredCopiesHold == GovernanceSpec => []StoredCopyGoverned
<1>1. RequestInv => AnswerHeard
  BY DEF RequestInv, RequestFits, HeardFits, AnswerHeard, Adapter
<1>2. CallStored /\ AnswerHeard => StoredCopyGoverned
  BY DEF StoredCopyGoverned
<1>3. QED
  BY <1>1, <1>2, CallsGoverned, CopiesGoverned, RequestInvariant, PTL
=============================================================================
