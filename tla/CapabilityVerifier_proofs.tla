---------------------- MODULE CapabilityVerifier_proofs ----------------------
(***************************************************************************)
(* Proofs about the verifier, for every manifest, threshold, set of        *)
(* requests and bound.  The invariant behind them: the log is in the order *)
(* of time, and each record holds the decision of its request at its time; *)
(* the rest follows from what VerifierRules_proofs says of the decision.   *)
(***************************************************************************)
EXTENDS CapabilityVerifier, VerifierRules_proofs, SequenceTheorems

Records == [request : Requests, time : Nat, decision : Decisions]

Logged ==
  /\ now \in Nat
  /\ calls \in Seq(Records)
  /\ \A i \in 1 .. Len(calls) :
       /\ calls[i].time <= now
       /\ calls[i].decision = Decision(calls[i].request, calls[i].time)
  /\ \A i, j \in 1 .. Len(calls) : i < j => calls[i].time <= calls[j].time

-----------------------------------------------------------------------------
(* The log *)

LEMMA InitLogged == Init => Logged
BY EmptySeq DEF Init, Logged

LEMMA VerifyLogged ==
  ASSUME Logged, NEW r \in Requests, Verify(r)
  PROVE  Logged'
<1> DEFINE c == Call(r, now)
<1>1. c \in Records /\ c.request = r /\ c.time = now /\ c.decision = Decision(r, now)
  BY DecisionType DEF Logged, Records, Call
<1>2. calls' = Append(calls, c) /\ now' = now
  BY DEF Verify
<1> HIDE DEF c
<1>3. /\ calls' \in Seq(Records) /\ Len(calls') = Len(calls) + 1
      /\ \A i \in 1 .. Len(calls) : calls'[i] = calls[i]
      /\ calls'[Len(calls) + 1] = c
  BY <1>1, <1>2, AppendProperties DEF Logged
<1>4. Len(calls) \in Nat
  BY LenProperties DEF Logged
<1>5. ASSUME NEW i \in 1 .. Len(calls')
      PROVE  /\ calls'[i].time <= now'
             /\ calls'[i].decision = Decision(calls'[i].request, calls'[i].time)
  BY <1>1, <1>2, <1>3, <1>4 DEF Logged
<1>6. ASSUME NEW i \in 1 .. Len(calls'), NEW j \in 1 .. Len(calls'), i < j
      PROVE  calls'[i].time <= calls'[j].time
  <2>1. i \in 1 .. Len(calls)
    BY <1>3, <1>4, <1>6
  <2>2. CASE j = Len(calls) + 1
    BY <1>1, <1>3, <2>1, <2>2 DEF Logged
  <2>3. CASE j # Len(calls) + 1
    <3>1. j \in 1 .. Len(calls)
      BY <1>3, <1>4, <2>3
    <3> QED
      BY <1>3, <1>6, <2>1, <3>1 DEF Logged
  <2> QED
    BY <2>2, <2>3
<1> QED
  BY <1>2, <1>3, <1>5, <1>6 DEF Logged

LEMMA TickLogged ==
  ASSUME Logged, Tick
  PROVE  Logged'
<1>1. now \in Nat /\ now' = now + 1 /\ calls' = calls
  BY DEF Logged, Tick
<1>2. ASSUME NEW i \in 1 .. Len(calls) PROVE calls[i].time <= now + 1
  <2>1. calls[i] \in Records
    BY ElementOfSeq DEF Logged
  <2>2. calls[i].time \in Nat
    BY <2>1 DEF Records
  <2> QED
    BY <1>1, <2>2 DEF Logged
<1> QED
  BY <1>1, <1>2 DEF Logged

LEMMA LoggedInvariant == Spec => []Logged
<1>1. Logged /\ [Next]_vars => Logged'
  <2> SUFFICES ASSUME Logged, [Next]_vars PROVE Logged'
    OBVIOUS
  <2>1. CASE Tick
    BY <2>1, TickLogged
  <2>2. ASSUME NEW r \in Requests, Verify(r) PROVE Logged'
    BY <2>2, VerifyLogged
  <2>3. CASE UNCHANGED vars
    BY <2>3 DEF vars, Logged
  <2> QED
    BY <2>1, <2>2, <2>3 DEF Next
<1> QED
  BY InitLogged, <1>1, PTL DEF Spec

-----------------------------------------------------------------------------
(* The theorems *)

(***************************************************************************)
(* A request that is allowed is allowed under any laxer posture and lower  *)
(* score, and was allowed at any earlier time.                             *)
(***************************************************************************)
LEMMA LaxerAllowed ==
  ASSUME NEW r1 \in Requests, NEW r2 \in Requests, NEW t1 \in Nat, NEW t2 \in Nat,
         SameProposal(r1, r2), NoLaxer(r1, r2), t1 <= t2,
         Reason(r2, t2) = "allowed"
  PROVE  Reason(r1, t1) = "allowed"
<1>1. r1.rc_state \in RCStates /\ r2.rc_state \in RCStates /\ r1.score \in Float /\ r2.score \in Float
  BY RequestsAssumption
<1>2. r1.rc_state # "NORMAL" => r2.rc_state # "NORMAL"
  BY <1>1 DEF NoLaxer, PostureRank, RCStates
<1>3. r1.rc_state = "LOCKDOWN" => r2.rc_state = "LOCKDOWN"
  BY <1>1 DEF NoLaxer, PostureRank, RCStates
<1>4. AtLeast(r1.score, HighThreshold) => AtLeast(r2.score, HighThreshold)
  BY <1>1, PolicyAssumption DEF NoLaxer, AtLeast, Float
<1>5. StrictMode(r1) => StrictMode(r2)
  BY <1>1, <1>2, <1>4 DEF StrictMode, RCStates
<1>6. RequiresConsent(r1) => RequiresConsent(r2)
  BY <1>5 DEF RequiresConsent, SameProposal
<1>7. HasConsent(r2, t2) => HasConsent(r1, t1)
  <2> SUFFICES ASSUME NEW token \in r2.consent_token,
                      IsValidFor(token, r2.action, r2.scope, t2)
               PROVE  IsValidFor(token, r1.action, r1.scope, t1) /\ token \in r1.consent_token
    BY DEF HasConsent
  <2>1. \A e \in token.expires_at : e > t1
    BY RequestsAssumption DEF IsValidFor
  <2> QED
    BY <2>1 DEF IsValidFor, SameProposal
<1> QED
  BY <1>3, <1>5, <1>6, <1>7, ReasonAllowed, Zenon DEF SameProposal

LEMMA Recorded ==
  ASSUME Logged, NEW i \in 1 .. Len(calls)
  PROVE  /\ calls[i].request \in Requests /\ calls[i].time \in Nat
         /\ calls[i].decision \in Decisions
         /\ calls[i].decision.allowed
              <=> Reason(calls[i].request, calls[i].time) = "allowed"
<1>1. calls[i] \in Records
  BY ElementOfSeq DEF Logged
<1>2. calls[i].decision = Decision(calls[i].request, calls[i].time)
  BY DEF Logged
<1> QED
  BY <1>1, <1>2, AllowedReason DEF Records

THEOREM MonotoneInPosture == Spec => []PostureMonotone
<1>1. Logged => PostureMonotone
  <2> SUFFICES ASSUME Logged, NEW i \in 1 .. Len(calls), NEW j \in 1 .. Len(calls), i < j,
                      SameProposal(calls[i].request, calls[j].request),
                      NoLaxer(calls[i].request, calls[j].request),
                      calls[j].decision.allowed
               PROVE  calls[i].decision.allowed
    BY DEF PostureMonotone
  <2>1. calls[i].time <= calls[j].time
    BY DEF Logged
  <2> QED
    BY <2>1, Recorded, LaxerAllowed
<1> QED
  BY LoggedInvariant, <1>1, PTL

(***************************************************************************)
(* The order of the checks does not matter to what is released: verify     *)
(* allows the releasable requests and no other.                            *)
(***************************************************************************)
THEOREM ReleasesByPolicy == Spec => []AllowsExactlyReleasable
<1>1. ASSUME NEW r \in Requests, NEW t
      PROVE  Reason(r, t) = "allowed" <=> Releasable(r, t)
  <2>1. r.rc_state \in RCStates
    BY RequestsAssumption
  <2>2. StrictMode(r) <=> AtLeast(r.score, HighThreshold) \/ r.rc_state # "NORMAL"
    BY <2>1 DEF StrictMode, RCStates
  <2>3. ASSUME NEW required, NEW provenance
        PROVE  MissingBindings(required, provenance) = {} <=> required \subseteq provenance
    BY DEF MissingBindings
  <2>4. /\ r.effect = "privileged" => r.rc_state # "LOCKDOWN"
        /\ r.effect = "destructive" => r.rc_state = "NORMAL" /\ ~ AtLeast(r.score, HighThreshold)
        <=> /\ ~ (r.rc_state = "LOCKDOWN" /\ r.effect \in {"privileged", "destructive"})
            /\ ~ (StrictMode(r) /\ r.effect = "destructive")
    BY <2>2
  <2> QED
    BY <2>3, <2>4, ReasonAllowed, Zenon DEF Releasable, RequiresConsent
<1>2. Logged => AllowsExactlyReleasable
  BY <1>1, Recorded DEF AllowsExactlyReleasable
<1> QED
  BY LoggedInvariant, <1>2, PTL

(***************************************************************************)
(* A consent that was needed was for what it let through, and had not      *)
(* lapsed: two calls it let through are alike in action class and scope.   *)
(***************************************************************************)
THEOREM ConsentIsBinding == Spec => []ConsentBinds
<1>1. ASSUME NEW r \in Requests, NEW t, Decision(r, t).allowed, Decision(r, t).requires_consent
      PROVE  HasConsent(r, t)
  <2>1. RequiresConsent(r)
    BY <1>1 DEF Decision
  <2> QED
    BY <1>1, <2>1, AllowedReason, ReasonAllowed
<1>2. ASSUME NEW r \in Requests, NEW t, HasConsent(r, t), NEW token \in r.consent_token
      PROVE  IsValidFor(token, r.action, r.scope, t)
  BY <1>2, RequestsAssumption DEF HasConsent
<1>3. ASSUME Logged, NEW i \in 1 .. Len(calls),
             calls[i].decision.allowed, calls[i].decision.requires_consent
      PROVE  LET r == calls[i].request
             IN  /\ r.consent_token # {}
                 /\ \A token \in r.consent_token :
                      IsValidFor(token, r.action, r.scope, calls[i].time)
  <2>1. calls[i].request \in Requests /\ HasConsent(calls[i].request, calls[i].time)
    BY <1>1, <1>3, Recorded DEF Logged
  <2> QED
    BY <1>2, <2>1 DEF HasConsent
<1>4. Logged => ConsentBinds
  BY <1>3 DEF ConsentBinds, IsValidFor
<1> QED
  BY LoggedInvariant, <1>4, PTL

(***************************************************************************)
(* The log keeps its type and its bounds.                                  *)
(***************************************************************************)
THEOREM TypeCorrect == Spec => []TypeOK
<1> DEFINE Bounded == now <= MaxTime /\ Len(calls) <= MaxCalls
<1>1. Init => Bounded
  BY BoundsAssumption, EmptySeq DEF Init
<1>2. Logged /\ Bounded /\ [Next]_vars => Bounded'
  <2> SUFFICES ASSUME Logged, Bounded, [Next]_vars PROVE Bounded'
    OBVIOUS
  <2>1. Len(calls) \in Nat /\ now \in Nat
    BY LenProperties DEF Logged
  <2>2. CASE Tick
    BY <2>1, <2>2, BoundsAssumption DEF Tick
  <2>3. ASSUME NEW r \in Requests, Verify(r) PROVE Bounded'
    <3>1. Len(calls') = Len(calls) + 1
      BY <2>3, AppendProperties DEF Verify, Logged, Call, Records
    <3> QED
      BY <2>1, <2>3, <3>1, BoundsAssumption DEF Verify
  <2>4. CASE UNCHANGED vars
    BY <2>4 DEF vars
  <2> QED
    BY <2>2, <2>3, <2>4 DEF Next
<1>3. Logged /\ Bounded => TypeOK
  <2> SUFFICES ASSUME Logged, Bounded PROVE TypeOK
    OBVIOUS
  <2> DEFINE Timely == [request : Requests, time : 0 .. now, decision : Decisions]
  <2>1. ASSUME NEW i \in 1 .. Len(calls) PROVE calls[i] \in Timely
    <3>1. calls[i] \in Records /\ calls[i].time <= now
      BY ElementOfSeq DEF Logged
    <3> QED
      BY <3>1 DEF Records, Logged
  <2>2. calls \in [1 .. Len(calls) -> Timely] /\ Len(calls) \in Nat
    <3>1. calls \in [1 .. Len(calls) -> Records] /\ Len(calls) \in Nat
      BY LenProperties DEF Logged
    <3> QED
      BY <2>1, <3>1
  <2>3. calls \in Seq(Timely)
    BY <2>2, SeqDef
  <2>4. now \in 0 .. MaxTime
    BY BoundsAssumption DEF Logged
  <2> QED
    BY <2>3, <2>4 DEF TypeOK
<1> QED
  BY <1>1, <1>2, <1>3, LoggedInvariant, PTL DEF Spec
==============================================================================
