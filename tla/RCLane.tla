------------------------------- MODULE RCLane -------------------------------
(***************************************************************************)
(* One RCHysteresis object: the posture of one OpenClawRuntime, moved by   *)
(* each cycle's conflict score.  `score', `raised', `reading' and `edge'  *)
(* are history: the code keeps only `state'.                               *)
(***************************************************************************)
EXTENDS RCHysteresis

CONSTANT Scores      \* the scores a caller passes: an override is any float
ASSUME ScoresAssumption == Scores \subseteq Float

VARIABLES state,     \* self.state
          score,     \* the argument of the last call of update
          raised,    \* whether that call raised ValueError
          reading,   \* the last number (not NaN) the lane accepted
          edge       \* the reading that last moved it in or out of NORMAL

vars == <<state, score, raised, reading, edge>>

TypeOK ==
  /\ state \in RCStates
  /\ score \in Float
  /\ raised \in BOOLEAN
  /\ reading \in UnitInterval
  /\ edge \in UnitInterval

Init ==
  /\ state = "NORMAL"
  /\ score = 0
  /\ raised = FALSE
  /\ reading = 0 /\ edge = 0

CrossesNormal == (state = "NORMAL") # (state' = "NORMAL")

Update(s) ==
  /\ Accepts(s)
  /\ state' = NextState(state, s)
  /\ score' = s
  /\ raised' = FALSE
  /\ reading' = IF s = NaN THEN reading ELSE s
  /\ edge' = IF CrossesNormal THEN s ELSE edge

UpdateRaises(s) ==
  /\ ~ Accepts(s)
  /\ score' = s
  /\ raised' = TRUE
  /\ UNCHANGED <<state, reading, edge>>

Next == \E s \in Scores : Update(s) \/ UpdateRaises(s)

Spec == Init /\ [][Next]_vars

-----------------------------------------------------------------------------
(* Properties *)

\* Outside NORMAL the lane was driven there by a reading at or above t_high,
\* and no later reading fell to t_low; in NORMAL the last crossing was at or
\* below t_low, and nothing since reached t_high.
EdgesOutsideBand ==
  IF state = "NORMAL" THEN edge <= TLow /\ reading < THigh
                      ELSE edge >= THigh /\ reading > TLow

\* The lane implements the abstract latch.
Latch == INSTANCE PostureLatch
           WITH Readings <- UnitInterval,
                Low <- TLow, High <- THigh, Lock <- TLock,
                elevated <- (state # "NORMAL"), locked <- (state = "LOCKDOWN")
ImplementsLatch == Latch!Spec

\* "score must be in [0, 1]" (rc/hysteresis.py:32): a call that does not
\* raise was given a number of the unit interval.
AcceptedScoreInRange == ~ raised => score \in UnitInterval

=============================================================================
