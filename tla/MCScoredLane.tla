----------------------------- MODULE MCScoredLane -----------------------------
(***************************************************************************)
(* The default configuration and weights.  0.05 is four steps of the grid, *)
(* so that a signal of one half counts in whole steps, two at least, and a *)
(* mean that is rounded comes out between two exact ones.  Every grid      *)
(* point is an override, with one on either side of the unit interval, and *)
(* so is NaN; a signal is 0, a half or 1, or is not valid, or NaN.         *)
(***************************************************************************)
EXTENDS ScoredLane

MCScores == (-1 .. Scale + 1) \cup {NaN}

MCWeights == [provenance_mismatch |-> 7, identity_capability_inconsistency |-> 6,
              temporal_discontinuity |-> 4, tool_output_inconsistency |-> 3]

Silent == [n \in SignalNames |-> 0]

MCSignals ==
  [SignalNames -> 0 .. Unit]
    \cup {[Silent EXCEPT !.provenance_mismatch = v] : v \in {Unit + 1, NaN}}

ASSUME DefaultsCorroborate == Corroborating
==============================================================================
