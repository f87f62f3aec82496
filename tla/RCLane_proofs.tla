--------------------------- MODULE RCLane_proofs ---------------------------
(***************************************************************************)
(* Proofs about the RC lane, for every grid, every admissible thresholds   *)
(* and every set of scores, and about the same lane driven by the scorer,  *)
(* for every weights and signals too.  The inductive invariant is the type *)
(* invariant with what ties the state to the history: the last crossing of *)
(* the normal boundary and the last reading lie outside the band.          *)
(***************************************************************************)
EXTENDS ScoredLane, FiniteSetTheorems, TLAPS

IInv == TypeOK /\ EdgesOutsideBand

LEMMA InitIInv == Init => IInv
<1> SUFFICES ASSUME Init PROVE IInv
  OBVIOUS
<1>1. 0 \in UnitInterval /\ 0 <= TLow /\ 0 < THigh /\ 0 < TLock
  BY ThresholdsAssumption DEF UnitInterval
<1>2. TypeOK
  <2>1. 0 \in Float /\ FALSE \in BOOLEAN /\ "NORMAL" \in RCStates
    BY DEF Float, RCStates
  <2> QED
    BY <1>1, <2>1, Zenon DEF Init, TypeOK
<1>3. EdgesOutsideBand
  BY <1>1, ThresholdsAssumption DEF Init, EdgesOutsideBand
<1> QED
  BY <1>2, <1>3 DEF IInv

(***************************************************************************)
(* What one accepted score does, with NaN told apart: it moves nothing.    *)
(***************************************************************************)
LEMMA NaNHolds == \A st \in RCStates : NextState(st, NaN) = st
BY DEF NextState, AtLeast, AtMost, Above, Below, RCStates

LEMMA NumberInRange ==
  ASSUME NEW s \in Float, Accepts(s), s # NaN
  PROVE  s \in UnitInterval
BY ThresholdsAssumption DEF Accepts, Above, Below, Float, UnitInterval

LEMMA NextStateOfNumber ==
  ASSUME NEW st \in RCStates, NEW s \in UnitInterval
  PROVE  /\ NextState(st, s) \in RCStates
         /\ NextState(st, s) = "LOCKDOWN" <=> s >= TLock
         /\ st = "NORMAL" => (NextState(st, s) # "NORMAL" <=> s >= THigh)
         /\ st # "NORMAL" => (NextState(st, s) # "NORMAL" <=> s > TLow)
<1>1. s # NaN /\ s \in Int
  BY ThresholdsAssumption DEF UnitInterval
<1>2. TLow \in Int /\ THigh \in Int /\ TLock \in Int /\ TLow < THigh /\ THigh < TLock
  BY ThresholdsAssumption
<1>3. CASE st = "NORMAL"
  BY <1>1, <1>2, <1>3 DEF NextState, AtLeast, AtMost, Above, Below, RCStates
<1>4. CASE st = "VERIFY"
  BY <1>1, <1>2, <1>4 DEF NextState, AtLeast, AtMost, Above, Below, RCStates
<1>5. CASE st = "LOCKDOWN"
  BY <1>1, <1>2, <1>5 DEF NextState, AtLeast, AtMost, Above, Below, RCStates
<1> QED
  BY <1>3, <1>4, <1>5 DEF RCStates

LEMMA UpdateIInv ==
  ASSUME IInv, NEW s \in Float, Update(s)
  PROVE  IInv'
<1>1. s \in Float
  OBVIOUS
<1>2. CASE s = NaN
  <2>1. state' = state /\ reading' = reading
    BY <1>2, NaNHolds DEF Update, IInv, TypeOK
  <2>2. edge' = edge
    BY <2>1 DEF Update, CrossesNormal
  <2> QED
    BY <1>1, <2>1, <2>2 DEF Update, IInv, TypeOK, EdgesOutsideBand
<1>3. CASE s # NaN
  <2>1. s \in UnitInterval
    BY <1>1, <1>3, NumberInRange DEF Update
  <2>2. reading' = s /\ state' = NextState(state, s)
    BY <1>3 DEF Update
  <2>3. /\ state' \in RCStates
        /\ state' = "LOCKDOWN" <=> s >= TLock
        /\ state = "NORMAL" => (state' # "NORMAL" <=> s >= THigh)
        /\ state # "NORMAL" => (state' # "NORMAL" <=> s > TLow)
    BY <2>1, <2>2, NextStateOfNumber DEF IInv, TypeOK
  <2>4. TypeOK'
    BY <1>1, <2>1, <2>2, <2>3 DEF TypeOK, IInv, Update
  <2>5. EdgesOutsideBand'
    <3>1. edge' = IF CrossesNormal THEN s ELSE edge
      BY DEF Update
    <3>2. s \in Int /\ edge \in Int
      BY <2>1, ThresholdsAssumption DEF UnitInterval, IInv, TypeOK
    <3>3. TLow \in Int /\ THigh \in Int /\ TLow < THigh
      BY ThresholdsAssumption
    <3> QED
      BY <2>2, <2>3, <3>1, <3>2, <3>3 DEF EdgesOutsideBand, CrossesNormal, IInv
  <2> QED
    BY <2>4, <2>5 DEF IInv
<1> QED
  BY <1>2, <1>3

\* A call of update with any float, whoever makes it.
Call == \E s \in Float : Update(s) \/ UpdateRaises(s)

LEMMA NextCalls == [Next]_vars => [Call]_vars
BY ScoresAssumption DEF Next, Call

LEMMA CallIInv == IInv /\ [Call]_vars => IInv'
<1> SUFFICES ASSUME IInv, [Call]_vars PROVE IInv'
  OBVIOUS
<1>1. ASSUME NEW s \in Float, Update(s) PROVE IInv'
  BY <1>1, UpdateIInv
<1>2. ASSUME NEW s \in Float, UpdateRaises(s) PROVE IInv'
  BY <1>2 DEF UpdateRaises, IInv, TypeOK, EdgesOutsideBand
<1>3. CASE UNCHANGED vars
  BY <1>3 DEF vars, IInv, TypeOK, EdgesOutsideBand
<1> QED
  BY <1>1, <1>2, <1>3 DEF Call

THEOREM Invariance == Spec => []IInv
<1> QED
  BY InitIInv, NextCalls, CallIInv, PTL DEF Spec

(***************************************************************************)
(* The lane always has one of its three states and its history variables   *)
(* stay numbers of the unit interval.                                      *)
(***************************************************************************)
THEOREM TypeCorrect == Spec => []TypeOK
BY Invariance, PTL DEF IInv

(***************************************************************************)
(* The normal boundary is crossed outside the band, up at t_high and down  *)
(* at t_low, and not crossed back by anything inside it.                   *)
(***************************************************************************)
THEOREM EdgesStayOutside == Spec => []EdgesOutsideBand
BY Invariance, PTL DEF IInv

(***************************************************************************)
(* Refinement: the three-state lane is the abstract latch.                 *)
(***************************************************************************)
LEMMA InitLatch == Init => Latch!Init
BY DEF Init, Latch!Init

LEMMA StepLatch == IInv /\ [Call]_vars => [Latch!Next]_(Latch!vars)
<1> SUFFICES ASSUME IInv, Call PROVE Latch!Next \/ UNCHANGED Latch!vars
  BY DEF vars, Latch!vars
<1>1. ASSUME NEW s \in Float, Update(s) PROVE Latch!Next \/ UNCHANGED Latch!vars
  <2>1. CASE s = NaN
    BY <1>1, <2>1, NaNHolds DEF Update, IInv, TypeOK, Latch!vars
  <2>2. CASE s # NaN
    <3>1. s \in UnitInterval
      BY <1>1, <2>2, NumberInRange DEF Update
    <3>2. reading' = s /\ state' = NextState(state, s)
      BY <1>1, <2>2 DEF Update
    <3>3. /\ state' = "LOCKDOWN" <=> s >= TLock
          /\ state = "NORMAL" => (state' # "NORMAL" <=> s >= THigh)
          /\ state # "NORMAL" => (state' # "NORMAL" <=> s > TLow)
      BY <3>1, <3>2, NextStateOfNumber DEF IInv, TypeOK
    <3>4. (state' # "NORMAL") = IF state # "NORMAL" THEN s > TLow ELSE s >= THigh
      BY <3>3
    <3>5. Latch!Read(s)
      BY <3>2, <3>3, <3>4 DEF Latch!Read
    <3> QED
      BY <3>1, <3>5 DEF Latch!Next
  <2> QED
    BY <2>1, <2>2
<1>2. ASSUME NEW s \in Float, UpdateRaises(s) PROVE UNCHANGED Latch!vars
  BY <1>2 DEF UpdateRaises, Latch!vars
<1> QED
  BY <1>1, <1>2 DEF Call

THEOREM LaneImplementsLatch == Spec => ImplementsLatch
BY Invariance, InitLatch, NextCalls, StepLatch, PTL DEF Spec, Latch!Spec, ImplementsLatch

-----------------------------------------------------------------------------
(* The lane as run_cycle drives it: every cycle, overridden or signalled, is a *)
(* call of update, so what is proved of the lane holds of it.                  *)

LEMMA Floor ==
  ASSUME NEW a \in Int, NEW b \in Nat \ {0}
  PROVE  /\ a \div b \in Int
         /\ b * (a \div b) <= a /\ a < b * (a \div b) + b
OBVIOUS

LEMMA FloorMonotone ==
  ASSUME NEW a \in Int, NEW c \in Int, NEW b \in Nat \ {0}, a <= c
  PROVE  a \div b <= c \div b
<1> DEFINE qa == a \div b
           qc == c \div b
<1>1. qa \in Int /\ qc \in Int /\ b * qa <= a /\ c < b * qc + b
  BY Floor
<1> HIDE DEF qa, qc
<1>2. CASE qc + 1 <= qa
  <2>1. b * (qc + 1) <= b * qa
    BY <1>1, <1>2
  <2>2. b * (qc + 1) = b * qc + b
    BY <1>1
  <2> QED
    BY <1>1, <2>1, <2>2
<1> QED
  BY <1>1, <1>2 DEF qa, qc

LEMMA TotalIsNat == TotalWeight \in Nat \ {0} /\ \A n \in SignalNames : Weights[n] \in Nat
BY WeightsAssumption DEF TotalWeight, Sum, SignalNames

LEMMA GridOfUnit == Scale \div Unit \in Nat /\ Unit * (Scale \div Unit) = Scale
<1> DEFINE q == Scale \div (Unit * TotalWeight)
           h == TotalWeight * q
<1>1. Scale \in Nat /\ Unit \in Nat \ {0} /\ TotalWeight \in Nat \ {0}
  BY TotalIsNat, WeightsAssumption, ThresholdsAssumption
<1>2. Unit * TotalWeight \in Nat \ {0}
  BY <1>1
<1>3. q \in Nat /\ Scale = (Unit * TotalWeight) * q
  BY <1>1, <1>2, WeightsAssumption
<1> HIDE DEF q
<1>4. h \in Nat /\ Scale = Unit * h
  BY <1>1, <1>3
<1> HIDE DEF h
<1>5. Scale \div Unit = h
  <2> DEFINE d == Scale \div Unit
  <2>1. d \in Int /\ Unit * d <= Unit * h /\ Unit * h < Unit * d + Unit
    BY <1>1, <1>4, Floor
  <2> HIDE DEF d
  <2>2. Unit * (d - h) <= 0 /\ 0 < Unit * (d - h + 1)
    BY <1>1, <1>4, <2>1
  <2>3. d - h <= 0 /\ 0 < d - h + 1
    BY <1>1, <1>4, <2>1, <2>2
  <2> QED
    BY <1>4, <2>1, <2>3 DEF d
<1> QED
  BY <1>4, <1>5

\* What one signal adds to the weighted sum.
Part(signals, n) == Weights[n] * signals[n] * (Scale \div Unit)

LEMMA PartBounds ==
  ASSUME NEW signals, NEW n \in SignalNames, signals[n] \in 0 .. Unit
  PROVE  /\ Part(signals, n) \in Nat /\ Part(signals, n) <= Weights[n] * Scale
         /\ signals[n] = 0 => Part(signals, n) = 0
<1> DEFINE w == Weights[n]
           v == signals[n]
           h == Scale \div Unit
<1>1. w \in Nat /\ v \in Nat /\ h \in Nat /\ Unit \in Nat /\ v <= Unit /\ Unit * h = Scale
  BY TotalIsNat, GridOfUnit, WeightsAssumption
<1>2. Part(signals, n) = w * v * h
  BY DEF Part
<1> HIDE DEF w, v, h
<1>3. v * h \in Nat /\ v * h <= Unit * h
  BY <1>1
<1>4. w * v * h = w * (v * h) /\ w * (v * h) \in Nat /\ w * (v * h) <= w * (Unit * h)
  BY <1>1, <1>3
<1>5. w * (Unit * h) = w * Scale
  BY <1>1
<1>6. v = 0 => w * v * h = 0
  BY <1>1
<1> QED
  BY <1>2, <1>4, <1>5, <1>6 DEF w, v

\* The mean of signals of which all but those in S are zero.
LEMMA MeanBound ==
  ASSUME NEW signals, \A n \in SignalNames : signals[n] \in 0 .. Unit,
         NEW S \in SUBSET SignalNames, Nonzero(signals) \subseteq S
  PROVE  MeanOver(signals, TotalWeight) <=
           (Sum([n \in SignalNames |-> IF n \in S THEN Weights[n] ELSE 0]) * Scale) \div TotalWeight
<1> DEFINE part == [n \in SignalNames |-> Part(signals, n)]
           heavy == [n \in SignalNames |-> IF n \in S THEN Weights[n] ELSE 0]
<1>1. MeanOver(signals, TotalWeight) = Sum(part) \div TotalWeight
  BY DEF MeanOver, Part
<1>2. Scale \in Nat
  BY ThresholdsAssumption
<1>3. \A n \in SignalNames : part[n] \in Nat /\ heavy[n] \in Nat /\ part[n] <= heavy[n] * Scale
  <2> TAKE n \in SignalNames
  <2>1. /\ part[n] \in Nat /\ part[n] <= Weights[n] * Scale
        /\ signals[n] = 0 => part[n] = 0
    BY PartBounds
  <2>2. n \notin S => signals[n] = 0
    BY DEF Nonzero
  <2>3. heavy[n] = IF n \in S THEN Weights[n] ELSE 0
    OBVIOUS
  <2>4. Weights[n] \in Nat
    BY TotalIsNat
  <2> HIDE DEF part, heavy
  <2> QED
    BY <1>2, <2>1, <2>2, <2>3, <2>4
<1> HIDE DEF part, heavy
<1>4. Sum(part) \in Int /\ Sum(heavy) * Scale \in Int /\ Sum(part) <= Sum(heavy) * Scale
  BY <1>2, <1>3 DEF Sum, SignalNames
<1> QED
  BY <1>1, <1>4, TotalIsNat, FloorMonotone DEF heavy

LEMMA MeanIsInt ==
  ASSUME NEW signals, \A n \in SignalNames : signals[n] \in 0 .. Unit
  PROVE  MeanOver(signals, TotalWeight) \in Int
<1>1. \A n \in SignalNames : Part(signals, n) \in Int
  BY PartBounds
<1> QED
  BY <1>1, TotalIsNat, Floor DEF MeanOver, Sum, Part, SignalNames

LEMMA LoneSignal ==
  ASSUME Corroborating, NEW signals, \A n \in SignalNames : signals[n] \in 0 .. Unit,
         NEW one \in SignalNames, Nonzero(signals) \subseteq {one}
  PROVE  MeanOver(signals, TotalWeight) + 1 < THigh
<1>1. MeanOver(signals, TotalWeight) \in Int
  BY MeanIsInt
<1>2. Sum([n \in SignalNames |-> IF n \in {one} THEN Weights[n] ELSE 0]) = Weights[one]
  BY TotalIsNat DEF Sum, SignalNames
<1>3. MeanOver(signals, TotalWeight) <= (Weights[one] * Scale) \div TotalWeight
  BY <1>2, MeanBound
<1> QED
  BY <1>1, <1>3, TotalIsNat, ThresholdsAssumption DEF Corroborating

LEMMA MissingSignal ==
  ASSUME Corroborating, NEW signals, \A n \in SignalNames : signals[n] \in 0 .. Unit,
         NEW one \in SignalNames, signals[one] = 0
  PROVE  MeanOver(signals, TotalWeight) + 1 < TLock
<1> DEFINE S == SignalNames \ {one}
<1>1. MeanOver(signals, TotalWeight) \in Int
  BY MeanIsInt
<1>2. Sum([n \in SignalNames |-> IF n \in S THEN Weights[n] ELSE 0]) = TotalWeight - Weights[one]
  BY TotalIsNat DEF Sum, TotalWeight, SignalNames
<1>3. S \in SUBSET SignalNames /\ Nonzero(signals) \subseteq S
  BY DEF Nonzero
<1> HIDE DEF S
<1>4. MeanOver(signals, TotalWeight) <= ((TotalWeight - Weights[one]) * Scale) \div TotalWeight
  BY <1>2, <1>3, MeanBound
<1> QED
  BY <1>1, <1>4, TotalIsNat, ThresholdsAssumption DEF Corroborating

LEMMA ScoreOfReport ==
  ASSUME NEW report \in Reports
  PROVE  \E signals \in Signals :
           /\ Valid(signals) /\ signals \in [SignalNames -> Float]
           /\ report.signals = Nonzero(signals) /\ report.score \in ScoresOf(signals)
BY SignalsAssumption DEF Reports

\* A score that is a number comes of signals that are numbers.
LEMMA NumbersBehind ==
  ASSUME NEW signals \in [SignalNames -> Float], Valid(signals),
         NEW s \in ScoresOf(signals), s # NaN
  PROVE  /\ \A n \in SignalNames : signals[n] \in 0 .. Unit
         /\ s \in Rounded(MeanOver(signals, TotalWeight))
<1>1. ~ \E n \in SignalNames : signals[n] = NaN
  BY DEF ScoresOf
<1>2. \A n \in SignalNames : signals[n] \in 0 .. Unit
  BY <1>1, WeightsAssumption, ThresholdsAssumption DEF Valid, Below, Above, Float
<1> QED
  BY <1>1, <1>2 DEF ScoresOf

LEMMA RoundedBelow ==
  ASSUME NEW mean \in Int, NEW bound \in Int, 0 < bound, mean + 1 < bound,
         NEW s \in Rounded(mean)
  PROVE  s < bound
<1>1. PICK hair \in {-1, 0, 1} : s = Clamped(mean + hair)
  BY DEF Rounded
<1>2. mean + hair \in Int /\ mean + hair < bound
  BY <1>1
<1> QED
  BY <1>1, <1>2, ThresholdsAssumption DEF Clamped

LEMMA ScoreIsFloat ==
  ASSUME NEW signals \in [SignalNames -> Float], Valid(signals),
         NEW s \in ScoresOf(signals)
  PROVE  s \in Float
<1>1. CASE s = NaN
  BY <1>1 DEF Float
<1>2. CASE s # NaN
  <2> DEFINE mean == MeanOver(signals, TotalWeight)
  <2>1. mean \in Int /\ s \in Rounded(mean)
    BY <1>2, NumbersBehind, MeanIsInt
  <2> HIDE DEF mean
  <2>2. PICK hair \in {-1, 0, 1} : s = Clamped(mean + hair)
    BY <2>1 DEF Rounded
  <2>3. mean + hair \in Int
    BY <2>1
  <2> QED
    BY <2>2, <2>3, ThresholdsAssumption DEF Clamped, Float
<1> QED
  BY <1>1, <1>2

LEMMA ScoredCalls == [ScoredNext]_scoredVars => [Call]_vars
<1> SUFFICES ASSUME [ScoredNext]_scoredVars PROVE [Call]_vars
  OBVIOUS
<1>1. ASSUME NEW s \in Scores, CycleOverridden(s) \/ CycleOverriddenRaises(s) PROVE Call
  BY <1>1, ScoresAssumption DEF CycleOverridden, CycleOverriddenRaises, Call
<1>2. ASSUME NEW report \in Reports, CycleSignalled(report) PROVE Call
  <2>1. report.score \in Float
    BY ScoreOfReport, ScoreIsFloat
  <2> QED
    BY <1>2, <2>1 DEF CycleSignalled, Call
<1>3. CASE UNCHANGED scoredVars
  BY <1>3 DEF scoredVars
<1> QED
  BY <1>1, <1>2, <1>3 DEF ScoredNext

(***************************************************************************)
(* What a lane promises, it promises to run_cycle: whatever overrides are  *)
(* given and whatever signals are scored, by any weights.                  *)
(***************************************************************************)
THEOREM ScoredLaneKeeps ==
  ScoredSpec => []TypeOK /\ []EdgesOutsideBand /\ ImplementsLatch
<1>1. ScoredSpec => []IInv
  BY InitIInv, ScoredCalls, CallIInv, PTL DEF ScoredSpec, ScoredInit
<1>2. ScoredSpec => []TypeOK /\ []EdgesOutsideBand
  BY <1>1, PTL DEF IInv
<1>3. ScoredSpec => ImplementsLatch
  BY <1>1, InitLatch, ScoredCalls, StepLatch, PTL
     DEF ScoredSpec, ScoredInit, Latch!Spec, ImplementsLatch
<1> QED
  BY <1>2, <1>3

\* No number behind which stands one signal at most is at or above t_high,
\* and none behind which one is missing is at or above t_lock.
LEMMA SignalsNeeded ==
  ASSUME Corroborating, NEW signals \in [SignalNames -> Float], Valid(signals),
         NEW s \in ScoresOf(signals), s # NaN
  PROVE  /\ s \in Int
         /\ s >= THigh => Cardinality(Nonzero(signals)) >= 2
         /\ s >= TLock => Nonzero(signals) = SignalNames
<1> DEFINE mean == MeanOver(signals, TotalWeight)
           heardNow == Nonzero(signals)
<1>1. /\ \A n \in SignalNames : signals[n] \in 0 .. Unit
      /\ s \in Rounded(mean) /\ mean \in Int
  BY NumbersBehind, MeanIsInt
<1>2. s \in Int
  BY ScoreIsFloat DEF Float
<1>3. heardNow \subseteq SignalNames /\ IsFiniteSet(heardNow) /\ Cardinality(heardNow) \in Nat
  <2>1. heardNow \subseteq SignalNames
    BY DEF Nonzero
  <2>2. IsFiniteSet(SignalNames)
    <3>1. SignalNames = ({"provenance_mismatch"} \cup {"identity_capability_inconsistency"})
                          \cup ({"temporal_discontinuity"} \cup {"tool_output_inconsistency"})
      BY DEF SignalNames
    <3> QED
      BY <3>1, FS_Singleton, FS_Union
  <2> QED
    BY <2>1, <2>2, FS_Subset, FS_CardinalityType
<1>4. ASSUME s >= THigh PROVE Cardinality(heardNow) >= 2
  <2>1. \A one \in SignalNames : ~ heardNow \subseteq {one}
    <3> SUFFICES ASSUME NEW one \in SignalNames, heardNow \subseteq {one} PROVE FALSE
      OBVIOUS
    <3>1. mean + 1 < THigh
      BY <1>1, LoneSignal
    <3> QED
      BY <1>1, <1>2, <1>4, <3>1, RoundedBelow, ThresholdsAssumption
  <2>2. "provenance_mismatch" \in SignalNames
    BY DEF SignalNames
  <2>3. PICK a : a \in heardNow
    BY <2>1, <2>2
  <2>4. PICK b : b \in heardNow /\ b # a
    BY <1>3, <2>1, <2>3
  <2> HIDE DEF heardNow
  <2>5. Cardinality({a, b}) = 2
    <3>1. IsFiniteSet({a}) /\ Cardinality({a}) = 1
      BY FS_Singleton
    <3>2. {a, b} = {a} \cup {b} /\ b \notin {a}
      BY <2>4
    <3>3. Cardinality({a} \cup {b}) = Cardinality({a}) + 1
      BY <3>1, <3>2, FS_AddElement
    <3> QED
      BY <3>1, <3>2, <3>3
  <2>6. Cardinality({a, b}) <= Cardinality(heardNow)
    BY <1>3, <2>3, <2>4, FS_Subset
  <2> QED
    BY <1>3, <2>5, <2>6
<1>5. ASSUME s >= TLock PROVE heardNow = SignalNames
  <2>1. \A one \in SignalNames : signals[one] # 0
    <3> SUFFICES ASSUME NEW one \in SignalNames, signals[one] = 0 PROVE FALSE
      OBVIOUS
    <3>1. mean + 1 < TLock
      BY <1>1, MissingSignal
    <3> QED
      BY <1>1, <1>2, <1>5, <3>1, RoundedBelow, ThresholdsAssumption
  <2> QED
    BY <2>1 DEF Nonzero
<1> QED
  BY <1>2, <1>4, <1>5

LEMMA FourSignals == Cardinality(SignalNames) >= 2
<1> DEFINE S1 == {"provenance_mismatch"}
           S2 == S1 \cup {"identity_capability_inconsistency"}
           S3 == S2 \cup {"temporal_discontinuity"}
<1>1. IsFiniteSet(S1) /\ Cardinality(S1) = 1
  BY FS_Singleton
<1>2. IsFiniteSet(S2) /\ Cardinality(S2) = 2
  BY <1>1, FS_AddElement
<1>3. IsFiniteSet(S3) /\ Cardinality(S3) = 3
  BY <1>2, FS_AddElement
<1>4. SignalNames = S3 \cup {"tool_output_inconsistency"}
  BY DEF SignalNames
<1>5. Cardinality(SignalNames) = 4
  BY <1>3, <1>4, FS_AddElement
<1> QED
  BY <1>5

LEMMA StepCorroborated ==
  ASSUME Corroborating, IInv, ScoredNext
  PROVE  /\ state = "NORMAL" /\ state' # "NORMAL" => Cardinality(heard') >= 2
         /\ state # "LOCKDOWN" /\ state' = "LOCKDOWN" => heard' = SignalNames
<1>1. ASSUME NEW s \in Float, Update(s), state' # state
      PROVE  /\ s # NaN /\ s \in Int
             /\ state = "NORMAL" /\ state' # "NORMAL" => s >= THigh
             /\ state # "LOCKDOWN" /\ state' = "LOCKDOWN" => s >= TLock
             /\ score' = s
  <2>1. s # NaN /\ state' = NextState(state, s) /\ score' = s
    BY <1>1, NaNHolds DEF Update, IInv, TypeOK
  <2>2. s \in UnitInterval
    BY <1>1, <2>1, NumberInRange DEF Update
  <2>3. state' = "LOCKDOWN" <=> s >= TLock
    BY <2>1, <2>2, NextStateOfNumber DEF IInv, TypeOK
  <2>4. state = "NORMAL" => (state' # "NORMAL" <=> s >= THigh)
    BY <2>1, <2>2, NextStateOfNumber DEF IInv, TypeOK
  <2>5. s \in Int
    BY <2>1 DEF Float
  <2> QED
    BY <2>1, <2>3, <2>4, <2>5
<1>2. ASSUME NEW s \in Scores, CycleOverridden(s), state' # state
      PROVE  Cardinality(heard') >= 2 /\ heard' = SignalNames
  <2>1. s # NaN /\ score' = s
    BY <1>1, <1>2, ScoresAssumption DEF CycleOverridden
  <2> QED
    BY <1>2, <2>1, FourSignals DEF CycleOverridden, Hear
<1>3. ASSUME NEW report \in Reports, CycleSignalled(report), state' # state
      PROVE  /\ state = "NORMAL" /\ state' # "NORMAL" => Cardinality(heard') >= 2
             /\ state # "LOCKDOWN" /\ state' = "LOCKDOWN" => heard' = SignalNames
  <2> DEFINE s == report.score
  <2>1. PICK signals \in Signals :
           /\ Valid(signals) /\ signals \in [SignalNames -> Float]
           /\ report.signals = Nonzero(signals) /\ s \in ScoresOf(signals)
    BY ScoreOfReport
  <2>2. s \in Float
    BY <2>1, ScoreIsFloat
  <2> HIDE DEF s
  <2>3. Update(s) /\ Hear(report.signals)
    BY <1>3 DEF CycleSignalled, s
  <2>4. /\ s # NaN
        /\ state = "NORMAL" /\ state' # "NORMAL" => s >= THigh
        /\ state # "LOCKDOWN" /\ state' = "LOCKDOWN" => s >= TLock
        /\ score' = s
    BY <1>1, <1>3, <2>2, <2>3
  <2>5. heard' = Nonzero(signals)
    BY <2>1, <2>3, <2>4 DEF Hear
  <2> QED
    BY <2>1, <2>4, <2>5, SignalsNeeded
<1>4. ASSUME NEW s \in Scores, CycleOverriddenRaises(s) PROVE state' = state
  BY <1>4 DEF CycleOverriddenRaises, UpdateRaises
<1> QED
  BY <1>2, <1>3, <1>4 DEF ScoredNext

(***************************************************************************)
(* With weights that no signal alone takes to t_high, nor three to t_lock, *)
(* NORMAL is left on two signals at least and LOCKDOWN entered on all.     *)
(***************************************************************************)
THEOREM StrictIsCorroborated ==
  Corroborating => (ScoredSpec => StrictPostureCorroborated)
<1> SUFFICES ASSUME Corroborating PROVE ScoredSpec => StrictPostureCorroborated
  OBVIOUS
<1>1. ScoredSpec => []IInv
  BY InitIInv, ScoredCalls, CallIInv, PTL DEF ScoredSpec, ScoredInit
<1>2. IInv /\ [ScoredNext]_scoredVars
        => [/\ state = "NORMAL" /\ state' # "NORMAL" => Cardinality(heard') >= 2
            /\ state # "LOCKDOWN" /\ state' = "LOCKDOWN" => heard' = SignalNames]_scoredVars
  BY StepCorroborated
<1> QED
  BY <1>1, <1>2, PTL DEF ScoredSpec, StrictPostureCorroborated
=============================================================================
