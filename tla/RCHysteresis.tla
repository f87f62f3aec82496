---------------------------- MODULE RCHysteresis ----------------------------
(***************************************************************************)
(* The risk/conflict thresholds and the transition function of the RC lane *)
(* (rc/hysteresis.py).  Scores are floats in the code; here they are       *)
(* integers on a grid of Scale steps to the unit, and NaN is a value apart *)
(* that every comparison with a number answers FALSE for, as IEEE 754      *)
(* does.                                                                   *)
(***************************************************************************)
EXTENDS Integers

CONSTANTS Scale,   \* the score 1.0
          TLow, THigh, TLock,
          NaN

\* RCHysteresisConfig.validate, on the grid.
ASSUME ThresholdsAssumption ==
  /\ {Scale, TLow, THigh, TLock} \subseteq Int
  /\ 0 <= TLow /\ TLow < THigh /\ THigh < TLock /\ TLock <= Scale
  /\ NaN \notin Int

RCStates == {"NORMAL", "VERIFY", "LOCKDOWN"}

\* A float: a grid point, inside the unit interval or not, or NaN.
Float == Int \cup {NaN}
UnitInterval == 0 .. Scale

\* Python's comparisons of a float with a number.
AtLeast(score, bound) == score # NaN /\ score >= bound
AtMost(score, bound)  == score # NaN /\ score <= bound
Above(score, bound)   == score # NaN /\ score > bound
Below(score, bound)   == score # NaN /\ score < bound

\* A range check with one side missing (not the code's).
AcceptsUnbounded(score) == ~ Below(score, 0)

\* The range check update opens with: what it does not raise ValueError for.
Accepts(score) == ~ Below(score, 0) /\ ~ Above(score, Scale)

\* Slips update could have (the code has neither): LOCKDOWN latched until
\* t_low; the exit from VERIFY tested against t_high.
NextStateLatched(state, score) ==
  CASE AtLeast(score, TLock) -> "LOCKDOWN"
    [] state = "NORMAL" /\ AtLeast(score, THigh) /\ Below(score, TLock) -> "VERIFY"
    [] state # "NORMAL" /\ AtMost(score, TLow) -> "NORMAL"
    [] OTHER -> state
NextStateNoBand(state, score) ==
  CASE AtLeast(score, TLock) -> "LOCKDOWN"
    [] AtLeast(score, THigh) /\ Below(score, TLock) -> "VERIFY"
    [] Below(score, THigh) -> "NORMAL"
    [] OTHER -> state

\* The state update leaves the lane in, for a score it accepts.
NextState(state, score) ==
  CASE AtLeast(score, TLock) -> "LOCKDOWN"
    [] state = "NORMAL" /\ AtLeast(score, THigh) /\ Below(score, TLock) -> "VERIFY"
    [] state # "NORMAL" /\ AtMost(score, TLow) -> "NORMAL"
    [] state = "LOCKDOWN" /\ Above(score, TLow) /\ Below(score, TLock) -> "VERIFY"
    [] OTHER -> state
=============================================================================
