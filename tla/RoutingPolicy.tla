---------------------------- MODULE RoutingPolicy ----------------------------
(***************************************************************************)
(* The pure decisions of the orchestrator: which roles serve a request and *)
(* in which order (routing.py), which models are good enough for it        *)
(* (capability_routing.py), and how observed quality and latency move the  *)
(* price by which the candidates of a role are ranked (adaptive.py).       *)
(*                                                                         *)
(* A request is a record: task, risk, urgency, complexity, impact and      *)
(* confidence in percent, size (tokens of its context), deterministic and  *)
(* remote.                                                                 *)
(***************************************************************************)
EXTENDS Integers, FiniteSetsExt, SequencesExt

CONSTANTS MediumConfidence, HighConfidence,    \* thresholds, in percent
          SimpleComplexity, ComplexComplexity,
          MaxContextTokens

Risks == <<"LOW", "MEDIUM", "HIGH", "CRITICAL">>
Tasks == {"OBSERVE", "SUMMARIZE", "ANALYZE", "PLAN", "CODE", "EMBED", "RERANK"}
Tiers == <<"TINY", "LOCAL_OPS", "REASONING", "PREMIUM">>

\* _important_task: the result needs an independent verification.
Important(q) == q.risk \in {"HIGH", "CRITICAL"} \/ q.impact >= 75

-----------------------------------------------------------------------------
(* RoutingPolicy.plan                                                      *)

\* High stakes, doubt or difficulty: expert reasoning comes first.
NeedsExpert(q) ==
  \/ q.risk = "HIGH"
  \/ q.impact >= 75
  \/ q.size >= (MaxContextTokens * 3) \div 4
  \/ q.confidence < MediumConfidence
  \/ q.complexity >= ComplexComplexity
  \/ q.urgency = "EMERGENCY" /\ q.complexity > SimpleComplexity

IsSimple(q) ==
  /\ q.confidence >= HighConfidence
  /\ q.complexity <= SimpleComplexity
  /\ q.impact <= 25
  /\ q.risk = "LOW"

\* The tiers that are tried for a request that is not code or data work.
TiersFor(q) ==
  IF q.risk = "CRITICAL" THEN <<"PREMIUM">>
  ELSE IF NeedsExpert(q) THEN <<"REASONING", "PREMIUM">>
  ELSE IF IsSimple(q)    THEN Tiers
  ELSE <<"LOCAL_OPS", "REASONING", "PREMIUM">>

\* The roles that are tried, in order; none when a deterministic tool will do.
Plan(q) ==
  IF q.deterministic THEN <<>>
  ELSE CASE q.task = "EMBED"  -> <<"EMBEDDING">>
         [] q.task = "RERANK" -> <<"RERANKER">>
         [] q.task = "CODE"   -> <<"CODER", "PREMIUM">>
         [] OTHER             -> TiersFor(q)

-----------------------------------------------------------------------------
(* requirements_for and capability_check                                   *)

Reliability == [LOW |-> 5, MEDIUM |-> 6, HIGH |-> 8, CRITICAL |-> 9]

\* Mutant: the extra margin for doubtful requests is given to sure ones.
UncertaintySwapped(q) == IF q.confidence < 60 THEN 0 ELSE 1

Uncertainty(q) == IF q.confidence < 60 THEN 1 ELSE 0

\* One dictionary updated by another one of other keys.
Joined(f, g) ==
  [dim \in DOMAIN f \union DOMAIN g |-> IF dim \in DOMAIN f THEN f[dim] ELSE g[dim]]

\* Hard minimums, by dimension; a dimension that is absent has no minimum.
RequirementsFor(q) ==
  LET cx   == (q.complexity * 3 + 50) \div 100
      rel  == Reliability[q.risk]
      all  == [instructions |-> Min({9, 5 + cx \div 2}), reliability |-> rel]
      own  == CASE q.task = "OBSERVE"   -> [general |-> 4 + cx, factuality |-> rel]
                [] q.task = "SUMMARIZE" -> [general |-> 5 + cx, factuality |-> rel,
                                            multilingual |-> 6]
                [] q.task = "CODE" ->
                     [reasoning |-> Min({9, 5 + cx + Uncertainty(q)}),
                      code |-> Min({10, 7 + cx}), tools |-> 7,
                      agentic |-> Min({9, 6 + cx})]
                [] q.task = "PLAN" ->
                     [reasoning |-> Min({10, 5 + cx + Uncertainty(q)}),
                      tools |-> Min({9, 6 + cx}), agentic |-> Min({9, 6 + cx}),
                      factuality |-> rel]
                [] OTHER ->
                     [reasoning |-> Min({10, 4 + cx + Uncertainty(q)}),
                      factuality |-> rel, general |-> Min({9, 4 + cx})]
      fast == IF q.urgency = "EMERGENCY" THEN [speed |-> 4] ELSE <<>>
  IN IF q.task \in {"EMBED", "RERANK"} THEN <<>> ELSE Joined(Joined(all, own), fast)

\* A profile scores each dimension; one it does not score is missing.
Capable(profile, need) ==
  \A dim \in DOMAIN need : dim \in DOMAIN profile /\ profile[dim] >= need[dim]

-----------------------------------------------------------------------------
(* candidate_score                                                         *)

LatencyPolicy == [ROUTINE   |-> [target |-> 12000, most |-> 25000],
                  NORMAL    |-> [target |-> 8000,  most |-> 50000],
                  URGENT    |-> [target |-> 4000,  most |-> 100000],
                  EMERGENCY |-> [target |-> 2000,  most |-> 150000]]

Clamp(x, bound) == IF x > bound THEN bound ELSE IF x < -bound THEN -bound ELSE x

\* The k-th of the times in ascending order.
Kth(times, k) ==
  Min({x \in ToSet(times) : Cardinality({i \in DOMAIN times : times[i] <= x}) >= k})

Median(times) ==
  LET k == Len(times) \div 2
  IN IF Len(times) % 2 = 1 THEN Kth(times, k + 1)
     ELSE (Kth(times, k) + Kth(times, k + 1)) \div 2

\* What one validated outcome counts for.
Points(v) ==
  LET base == IF v.succeeded THEN v.quality ELSE Min({v.quality, 250})
  IN Max({0, base - Min({v.corrections, 5}) * 40})

\* h is the history of a candidate: validations (a sequence), attempts,
\* completed, and times, the latencies of the completed calls.
QualityAdjustment(h) ==
  LET n   == Len(h.validations)
      den == 48 + n * 4 + h.attempts
      num == 48 * 750 + h.completed * 750
               + 4 * SumFunctionOnSet([i \in 1 .. n |-> Points(h.validations[i])], 1 .. n)
      quality == Max({0, Min({1000, (num + den \div 2) \div den})})
  IN IF n >= 5 \/ h.attempts >= 8 THEN Clamp((750 - quality) * 500, 150000) ELSE 0

LatencyAdjustment(h, urgency) ==
  LET p   == LatencyPolicy[urgency]
      \* integer division of Python rounds down, as \div does here
      gap == ((Median(h.times) - p.target) * 1000) \div (p.target \div 1000)
  IN IF Len(h.times) >= 5
     THEN (Clamp(gap, 1000000) * (p.most \div 1000)) \div 1000 ELSE 0

\* The cost by which a candidate is ranked.
AdaptiveCost(h, urgency, cost) ==
  LET adjustment == Clamp(QualityAdjustment(h) + LatencyAdjustment(h, urgency), 150000)
  IN (cost * (1000000 + adjustment) + 999999) \div 1000000

-----------------------------------------------------------------------------
(* Properties                                                              *)

\* A request with high stakes is never answered by a tiny or local model,
\* whatever else it says of itself.
StakesReachExperts(q) ==
  Important(q) => \A i \in DOMAIN Plan(q) : Plan(q)[i] \notin {"TINY", "LOCAL_OPS"}

\* Of two requests for the same task, the one that is as risky, as complex and
\* as doubtful or more asks for as much in every dimension.
DoubtRaisesTheBar(q, harder) ==
  LET need == RequirementsFor(q) more == RequirementsFor(harder) IN
  (/\ q.task = harder.task /\ q.urgency = harder.urgency
   /\ Reliability[q.risk] <= Reliability[harder.risk]
   /\ q.complexity <= harder.complexity /\ q.confidence >= harder.confidence)
  => \A dim \in DOMAIN need : dim \in DOMAIN more /\ more[dim] >= need[dim]

\* When every validated result of a model failed, its record does not lower the price
\* by which it is ranked, however the results were graded and however many calls it
\* completed.  Its speed may: by at most what the urgency allows for, and only when at
\* least five calls took, in the median, less than the target.
FailuresEarnNothing(h, urgency, cost) ==
  LET policy == LatencyPolicy[urgency]
      price  == AdaptiveCost(h, urgency, cost)
      quick  == Len(h.times) >= 5 /\ Median(h.times) < policy.target IN
  (/\ h.validations # <<>> /\ \A i \in DOMAIN h.validations : ~ h.validations[i].succeeded
   /\ h.completed <= h.attempts)
  => /\ QualityAdjustment(h) >= 0
     /\ price * 1000 >= cost * (1000 - policy.most \div 1000)
     /\ price >= cost \/ quick
=============================================================================
