--------------------------- MODULE RolloutPlanner ---------------------------
(***************************************************************************)
(* RolloutPlanner (rollout/planner.py) as a session calls it: candidates   *)
(* are a sequence of records [ref, viability, valence, ...], the signals   *)
(* in quarters, so that a session that passes 0.25 * n passes n here.      *)
(* build_candidates keeps their number, order and fields; its one failure, *)
(* the router's role check, cannot happen in the role "rollout".           *)
(***************************************************************************)
EXTENDS Integers, FiniteSets

CONSTANT BiasUnit   \* 0.05 in the unit of scores

ASSUME BiasUnitAssumption == BiasUnit \in Nat \ {0}

\* RolloutWeights' defaults, 0.6 and 0.4, in fifths.
Weights == [viability |-> 3, valence |-> 2]

\* signal_overrides is keyed by trajectory_reference: the last of several
\* candidates with one reference gives the signals of all of them.
SignalsOf(candidates, i) ==
  candidates[CHOOSE j \in DOMAIN candidates :
    /\ candidates[j].ref = candidates[i].ref
    /\ \A k \in DOMAIN candidates : candidates[k].ref = candidates[i].ref => k <= j]

Valid(signals) == signals.viability \in 0 .. 4 /\ signals.valence \in 0 .. 4

\* The weighted mean: four quarters of five fifths are 20 units of 0.05.
RankingScore(candidates, i) ==
  LET signals == SignalsOf(candidates, i)
  IN  (signals.viability * Weights.viability + signals.valence * Weights.valence) * BiasUnit

Ahead(candidates, i, j) ==
  \/ RankingScore(candidates, i) > RankingScore(candidates, j)
  \/ RankingScore(candidates, i) = RankingScore(candidates, j) /\ i < j

\* rank_candidates: highest score first, those of one score in their order.
RankCandidates(candidates) ==
  [k \in DOMAIN candidates |->
     CHOOSE i \in DOMAIN candidates :
       Cardinality({j \in DOMAIN candidates : Ahead(candidates, j, i)}) = k - 1]

RankRaises(candidates) == \E i \in DOMAIN candidates : ~ Valid(SignalsOf(candidates, i))
==============================================================================
