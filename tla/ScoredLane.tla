------------------------------ MODULE ScoredLane ------------------------------
(***************************************************************************)
(* The RC lane as run_cycle drives it (runtime/pipeline.py): by the        *)
(* override a caller gives, or by what the scorer makes of the conflict    *)
(* signals.  `heard' is history: which signals were behind the last number *)
(* the lane accepted, all of them behind an override.                      *)
(***************************************************************************)
EXTENDS RCLane, RCScoring

CONSTANT Signals   \* the RCConflictSignals callers give
ASSUME SignalsAssumption == Signals \subseteq [SignalNames -> Float]

VARIABLE heard

scoredVars == <<vars, heard>>

\* What signals may tell the lane; those that do not validate raise before it
\* is asked.
Reports ==
  UNION {{[score |-> s, signals |-> Nonzero(signals)] : s \in ScoresOf(signals)} :
           signals \in {sig \in Signals : Valid(sig)}}

ScoredInit == Init /\ heard = {}

Hear(signals) == heard' = IF score' = NaN THEN heard ELSE signals

\* A cycle with an rc_conflict_score of its own.
CycleOverridden(s) == Update(s) /\ Hear(SignalNames)

CycleOverriddenRaises(s) == UpdateRaises(s) /\ UNCHANGED heard

\* A cycle whose score is made of its signals.
CycleSignalled(report) == Update(report.score) /\ Hear(report.signals)

ScoredNext ==
  \/ \E s \in Scores : CycleOverridden(s) \/ CycleOverriddenRaises(s)
  \/ \E report \in Reports : CycleSignalled(report)

ScoredSpec == ScoredInit /\ [][ScoredNext]_scoredVars

-----------------------------------------------------------------------------
(* Properties *)

\* Weights that no single signal takes to t_high, nor any three to t_lock, even
\* when the division rounds up: those of the code, against its thresholds.
Corroborating ==
  \A n \in SignalNames :
    /\ (Weights[n] * Scale) \div TotalWeight + 1 < THigh
    /\ ((TotalWeight - Weights[n]) * Scale) \div TotalWeight + 1 < TLock

\* No signal by itself ends NORMAL, whatever its strength and however the
\* division rounds, and LOCKDOWN is entered on all four signals or on an
\* override (the default weights against the default thresholds).
StrictPostureCorroborated ==
  [][/\ state = "NORMAL" /\ state' # "NORMAL" => Cardinality(heard') >= 2
     /\ state # "LOCKDOWN" /\ state' = "LOCKDOWN" => heard' = SignalNames]_scoredVars
==============================================================================
