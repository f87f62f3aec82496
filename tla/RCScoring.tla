------------------------------ MODULE RCScoring ------------------------------
(***************************************************************************)
(* How conflict signals become a score (rc/scoring.py): their weighted     *)
(* mean, held inside the unit interval.  A signal is an integer with Unit  *)
(* steps to 1.0, or NaN.  The division is one of floats: what comes out    *)
(* may be off the exact mean, here by one step of the grid, and a mean of  *)
(* zero is exact.                                                          *)
(***************************************************************************)
EXTENDS RCHysteresis, FiniteSets

CONSTANTS Weights,   \* RCConflictWeights: signal -> weight
          Unit       \* the signal 1.0

SignalNames == {"provenance_mismatch", "identity_capability_inconsistency",
                "temporal_discontinuity", "tool_output_inconsistency"}

Sum(f) ==
  f.provenance_mismatch + f.identity_capability_inconsistency
    + f.temporal_discontinuity + f.tool_output_inconsistency

TotalWeight == Sum(Weights)

\* RCConflictWeights.validate; and the grid holds every mean.
ASSUME WeightsAssumption ==
  /\ Weights \in [SignalNames -> Nat]
  /\ TotalWeight > 0
  /\ Unit \in Nat \ {0} /\ Scale % (Unit * TotalWeight) = 0

\* RCConflictSignals.validate: what it does not raise ValueError for.
Valid(signals) == \A n \in SignalNames : ~ Below(signals[n], 0) /\ ~ Above(signals[n], Unit)

Nonzero(signals) == {n \in SignalNames : signals[n] # 0}

Clamped(score) == IF score < 0 THEN 0 ELSE IF score > Scale THEN Scale ELSE score

MeanOver(signals, total) ==
  Sum([n \in SignalNames |-> Weights[n] * signals[n] * (Scale \div Unit)]) \div total

\* The scores a mean may come out as.
Rounded(mean) == {Clamped(mean + hair) : hair \in IF mean = 0 THEN {0} ELSE {-1, 0, 1}}

\* Signals that are zero left out of the total (not the code's).
ScoresOfHeard(signals) ==
  IF \E n \in SignalNames : signals[n] = NaN THEN {NaN}
  ELSE IF Nonzero(signals) = {} THEN {0}
  ELSE Rounded(MeanOver(signals, Sum([n \in SignalNames |-> IF signals[n] = 0 THEN 0 ELSE Weights[n]])))

\* RCConflictScorer.score; min and max let NaN through.
ScoresOf(signals) ==
  IF \E n \in SignalNames : signals[n] = NaN THEN {NaN}
  ELSE Rounded(MeanOver(signals, TotalWeight))
==============================================================================
