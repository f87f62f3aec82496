---------------------- MODULE AutonomousSession_proofs ----------------------
(***************************************************************************)
(* Proofs about sessions over run_cycle, for any number of processes, any  *)
(* calls, faults and bounds.  Every step of a session is one of Runtime's  *)
(* or leaves its variables alone, except that an idle process dies, so     *)
(* Runtime's invariant holds of it; and what a cycle was asked and         *)
(* answered stays (LastsTo), so what a session knows of its cycles stays   *)
(* true while other processes go on.                                       *)
(*                                                                         *)
(* In this order: the guards, the reasons and the consent; the memory that *)
(* does not parse; the choice near the best; types; what is proved of      *)
(* run_cycle, carried over; and the records against cycles and ledger.     *)
(***************************************************************************)
EXTENDS AutonomousSession, Runtime_proofs

-----------------------------------------------------------------------------
(* What stays of the cycles cs when they come to be ct *)

LastsTo(cs, ct) ==
  /\ Len(cs) \in Nat /\ Len(ct) \in Nat /\ Len(cs) <= Len(ct)
  /\ \A c \in 1 .. Len(cs) :
       /\ ct[c].proposal = cs[c].proposal
       /\ ct[c].decision = cs[c].decision
       /\ cs[c].outcome # "pending" => ct[c] = cs[c]

LEMMA LastsToSame ==
  ASSUME IInv, cycles' = cycles
  PROVE  LastsTo(cycles, cycles')
BY CyclesLength DEF LastsTo, IInv, CycleInv

LEMMA TouchLasts ==
  ASSUME IInv, NEW p \in Procs, InCycle(p), NEW r \in CycleRecord,
         cycles' = [cycles EXCEPT ![cycle[p]] = r],
         r.proposal = cycles[cycle[p]].proposal, r.decision = cycles[cycle[p]].decision
  PROVE  LastsTo(cycles, cycles')
<1>1. /\ cycles \in Seq(CycleRecord) /\ Len(cycles) \in Nat
      /\ cycle[p] \in 1 .. Len(cycles) /\ cycles[cycle[p]].outcome = "pending"
  BY CyclesLength DEF IInv, CycleInv, Typed, Owned
<1>2. /\ Len(cycles') = Len(cycles)
      /\ \A c \in 1 .. Len(cycles) : cycles'[c] = IF c = cycle[p] THEN r ELSE cycles[c]
  BY <1>1, ExceptSeq
<1> QED
  BY <1>1, <1>2 DEF LastsTo

LEMMA EndLasts ==
  ASSUME IInv, NEW p \in Procs, InCycle(p), NEW o \in Outcomes, End(p, o)
  PROVE  LastsTo(cycles, cycles')
<1> DEFINE r == [cycles[cycle[p]] EXCEPT !.outcome = o]
<1>1. cycles[cycle[p]] \in CycleRecord
  BY CyclesLength DEF IInv, CycleInv, Typed, Owned
<1>2. /\ r \in CycleRecord /\ r.proposal = cycles[cycle[p]].proposal
      /\ r.decision = cycles[cycle[p]].decision
  BY <1>1 DEF CycleRecord
<1>3. cycles' = [cycles EXCEPT ![cycle[p]] = r]
  BY DEF End
<1> HIDE DEF r
<1> QED
  BY <1>2, <1>3, TouchLasts

LEMMA ProceedLasts ==
  ASSUME IInv, NEW p \in Procs, Proceed(p)
  PROVE  LastsTo(cycles, cycles') /\ cycle' = cycle
<1>1. CASE Release(p)
  <2> DEFINE r == [cycles[cycle[p]] EXCEPT !.released = TRUE]
  <2>1. InCycle(p) /\ cycles[cycle[p]] \in CycleRecord
    BY <1>1, CyclesLength DEF Release, InCycle, IInv, CycleInv, Typed, Owned
  <2>2. /\ r \in CycleRecord /\ r.proposal = cycles[cycle[p]].proposal
        /\ r.decision = cycles[cycle[p]].decision
    BY <2>1 DEF CycleRecord
  <2>3. cycles' = [cycles EXCEPT ![cycle[p]] = r] /\ cycle' = cycle
    BY <1>1 DEF Release
  <2> HIDE DEF r
  <2> QED
    BY <2>1, <2>2, <2>3, TouchLasts
<1>2. CASE Finish(p) \/ ReadLedger(p)
  BY <1>2, LastsToSame DEF Finish, ReadLedger
<1>3. CASE ReleaseRaises(p) \/ Expire(p) \/ ReadLedgerRaises(p)
  <2>1. InCycle(p) /\ End(p, "raised") /\ cycle' = cycle /\ "raised" \in Outcomes
    BY <1>3 DEF ReleaseRaises, Expire, ReadLedgerRaises, InCycle, Recording, Outcomes
  <2> QED
    BY <2>1, EndLasts
<1>4. CASE WriteLedger(p)
  <2>1. /\ InCycle(p) /\ cycle' = cycle
        /\ \E o \in Outcomes : End(p, o)
    BY <1>4 DEF WriteLedger, InCycle, Recording, Outcomes
  <2> QED
    BY <2>1, EndLasts
<1> QED
  BY <1>1, <1>2, <1>3, <1>4 DEF Proceed

\* An append that fails, or is not answered.
Lost(p, outcome) == TearLedger(p, outcome) \/ LoseAnswer(p, outcome)

LEMMA LostLasts ==
  ASSUME IInv, NEW p \in Procs, NEW outcome \in {"raised", "lost"}, Lost(p, outcome)
  PROVE  IInv' /\ LastsTo(cycles, cycles') /\ cycle' = cycle
<1>1. IInv'
  BY StepKept DEF Kept, Next, Lost
<1>2. InCycle(p) /\ End(p, outcome) /\ cycle' = cycle /\ outcome \in Outcomes
  BY DEF Lost, TearLedger, LoseAnswer, Break, Recording, InCycle, Outcomes
<1> QED
  BY <1>1, <1>2, EndLasts

LEMMA FailsLasts ==
  ASSUME IInv, NEW p \in Procs, RuntimeFails(p)
  PROVE  IInv' /\ LastsTo(cycles, cycles') /\ cycle' = cycle
BY LostLasts DEF RuntimeFails, Lost

\* What the death of a session does to the runtime's state.
IdleDies(p) ==
  /\ "crash" \in Faults /\ pc[p] = "idle"
  /\ Goto(p, "dead")
  /\ UNCHANGED <<lane, cycle, cycles, file>>

CrashOrDie(p) == Crash(p) \/ Lost(p, "lost") \/ IdleDies(p)

LEMMA DieKept ==
  ASSUME IInv, NEW p \in Procs, CrashOrDie(p)
  PROVE  IInv' /\ LastsTo(cycles, cycles') /\ cycle' = cycle
<1>1. CASE Crash(p)
  <2>1. IInv'
    BY <1>1, StepKept DEF Kept, Next
  <2>2. InCycle(p) /\ End(p, "lost") /\ cycle' = cycle /\ "lost" \in Outcomes
    BY <1>1 DEF Crash, InCycle, Outcomes
  <2> QED
    BY <2>1, <2>2, EndLasts
<1>2. CASE IdleDies(p)
  <2>1. /\ pc' \in [Procs -> PCs] /\ pc'[p] = "dead"
        /\ \A q \in Procs \ {p} : pc'[q] = pc[q]
    BY <1>2 DEF IdleDies, IInv, CycleInv, Typed, Goto, PCs
  <2>2. UNCHANGED <<lane, cycle, cycles>> /\ UNCHANGED file /\ Len(cycles) \in Nat
    BY <1>2, CyclesLength DEF IdleDies, IInv, CycleInv
  <2>3. \A q \in Procs : Ledger!Appending(q)' <=> Ledger!Appending(q)
    BY <2>2 DEF file, Ledger!Appending
  <2>4. ~ Ledger!Appending(p)
    BY <1>2 DEF IdleDies, IInv, CycleInv, Owned, Recording
  <2>5. Typed' /\ Decided' /\ Remembers'
    BY <2>1, <2>2 DEF IInv, CycleInv, Typed, Decided, Remembers, Cycles
  <2>6. Owned'
    BY <2>1, <2>2, <2>3, <2>4 DEF IInv, CycleInv, Owned, InCycle, Recording
  <2>7. Ledger!IInv' /\ Traces' /\ Counted'
    BY <2>2, <2>5, KeptFile, UntouchedLedger DEF file, IInv
  <2> QED
    BY <2>2, <2>5, <2>6, <2>7, LastsToSame DEF IInv, CycleInv
<1>3. CASE Lost(p, "lost")
  BY <1>3, LostLasts
<1> QED
  BY <1>1, <1>2, <1>3 DEF CrashOrDie

LEMMA DecideLasts ==
  ASSUME IInv, NEW p \in Procs, NEW prop \in Proposals, Decides(p, prop)
  PROVE  /\ IInv' /\ LastsTo(cycles, cycles')
         /\ Len(cycles) \in Nat /\ Len(cycles') = Len(cycles) + 1
         /\ cycle'[p] = Len(cycles) + 1 /\ \A q \in Procs \ {p} : cycle'[q] = cycle[q]
         /\ cycles'[Len(cycles) + 1].proposal = prop
<1>1. /\ IInv' /\ Len(cycles) \in Nat /\ Len(cycles') = Len(cycles) + 1
      /\ \A c \in 1 .. Len(cycles) : cycles'[c] = cycles[c]
  BY DecidesKept, DecidesCycleInv DEF Kept, IInv
<1>2. LastsTo(cycles, cycles')
  BY <1>1 DEF LastsTo
<1>3. PICK outcome : Verify(p, prop, outcome)
  BY DEF Decides, Decide, DecideRaises
<1>4. cycle'[p] = Len(cycles) + 1 /\ \A q \in Procs \ {p} : cycle'[q] = cycle[q]
  BY <1>3 DEF Verify, IInv, CycleInv, Typed
<1> DEFINE r == [proc |-> p, proposal |-> prop, rc_state |-> Posture(p, prop),
                 decision |-> Verdict(p, prop), released |-> FALSE, outcome |-> outcome]
<1>5. cycles' = Append(cycles, r) /\ r.proposal = prop
  BY <1>3 DEF Verify
<1> HIDE DEF r
<1>6. cycles \in Seq(CycleRecord)
  BY DEF IInv, CycleInv, Typed
<1> QED
  BY <1>1, <1>2, <1>4, <1>5, <1>6, AppendProperties

-----------------------------------------------------------------------------
(* What is true of a session x while the cycles are cs *)

Shaped(x) ==
  /\ DOMAIN x = {"call", "stage", "elapsed", "scores", "runs", "late", "reason"}
  /\ x.call \in DOMAIN Calls /\ x.stage \in Stages
  /\ x.runs \in Seq([plan : Nat, cycle : Nat]) /\ x.late \in Seq(BOOLEAN)

Looping == {"loop", "ranking"}
Closed == {"closing", "summarising", "finished"}

\* The guards, counted in cycles that were started.
Guarded(x) ==
  LET n    == Len(x.runs)
      done == Len(x.late)
  IN  /\ n \in {done, done + 1}
      /\ x.stage = "cycle" => n = done + 1
      /\ x.stage \in Looping \cup Closed => n = done
      /\ n <= Policy(x).max_steps /\ n <= Len(Goal(x))
      /\ \A limit \in Policy(x).max_command_count : n <= limit
      /\ x.stage = "ranking" => StopBefore(x) = "none"

Consentless(x, cs) ==
  \A i \in 1 .. Len(x.runs) :
    /\ x.runs[i].cycle \in 1 .. Len(cs)
    /\ cs[x.runs[i].cycle].proposal.consent_token = {}

GoesOn(x, cs, i) ==
  /\ Policy(x).stop_on_reject => cs[x.runs[i].cycle].decision.allowed
  /\ ~ x.late[i]

\* The cycles that came back, and those the session went on after.
CameBack(x, cs) ==
  \A i \in 1 .. Len(x.late) :
    /\ cs[x.runs[i].cycle].outcome \in {"executed", "rejected"}
    /\ i < Len(x.runs) \/ x.stage \in Looping \cup {"cycle"} => GoesOn(x, cs, i)

\* Why a session x stops that has not ended yet.
Held(x, cs) ==
  LET done == Len(x.late)
  IN  /\ x.reason \in Reasons
      /\ x.reason = "completed" => done = Len(Goal(x))
      /\ x.reason = "max_steps_reached" => done = Policy(x).max_steps /\ done < Len(Goal(x))
      /\ x.reason = "max_command_count_reached" => Policy(x).max_command_count = {done}
      /\ x.reason = "max_wall_clock_reached" => TimeOut(x)
      /\ x.reason = "rejected_step" => ~ cs[x.runs[done].cycle].decision.allowed
      /\ x.reason = "no_candidates" => Goal(x)[done + 1] = <<>>
      /\ x.reason = "rejected_step" => done > 0
      /\ done > 0 /\ x.late[done] => x.reason \in {"max_wall_clock_reached", "rejected_step"}

Good(x, cs) ==
  /\ Shaped(x) /\ Guarded(x) /\ Consentless(x, cs) /\ CameBack(x, cs)
  /\ x.stage \in Closed => Held(x, cs)

LEMMA Lengths ==
  ASSUME NEW x, Shaped(x)
  PROVE  /\ Len(x.runs) \in Nat /\ Len(x.late) \in Nat
         /\ \A i \in 1 .. Len(x.runs) : x.runs[i] \in [plan : Nat, cycle : Nat]
         /\ \A i \in 1 .. Len(x.late) : x.late[i] \in BOOLEAN
BY LenProperties, ElementOfSeq DEF Shaped

LEMMA CallTypes ==
  ASSUME NEW x, Shaped(x)
  PROVE  /\ Policy(x).max_steps \in Nat
         /\ Policy(x).max_command_count \subseteq Nat
         /\ \A limit, other \in Policy(x).max_command_count : limit = other
         /\ Len(Goal(x)) \in Nat
         /\ \A i \in 1 .. Len(Goal(x)) :
              /\ IsSequence(Goal(x)[i]) /\ Len(Goal(x)[i]) \in Nat
              /\ DOMAIN Goal(x)[i] = 1 .. Len(Goal(x)[i])
              /\ \A j \in 1 .. Len(Goal(x)[i]) :
                   Goal(x)[i][j].proposal \in Proposals /\ Goal(x)[i][j].proposal.consent_token = {}
<1>1. x.call \in DOMAIN Calls
  BY DEF Shaped
<1>2. IsSequence(Goal(x))
  BY <1>1, SessionAssumption DEF Goal
<1>3. Len(Goal(x)) \in Nat /\ DOMAIN Goal(x) = 1 .. Len(Goal(x))
  BY <1>2, RuntimeAssumption, Ledger!SequenceLength DEF IsSequence, Ledger!IsSequence
<1>4. ASSUME NEW i \in 1 .. Len(Goal(x))
      PROVE  /\ IsSequence(Goal(x)[i]) /\ Len(Goal(x)[i]) \in Nat
             /\ DOMAIN Goal(x)[i] = 1 .. Len(Goal(x)[i])
             /\ \A j \in 1 .. Len(Goal(x)[i]) :
                  Goal(x)[i][j].proposal \in Proposals /\ Goal(x)[i][j].proposal.consent_token = {}
  <2>1. /\ IsSequence(Goal(x)[i])
        /\ \A j \in DOMAIN Goal(x)[i] :
             Goal(x)[i][j].proposal \in Proposals /\ Goal(x)[i][j].proposal.consent_token = {}
    BY <1>1, <1>3, SessionAssumption DEF Goal
  <2>2. Len(Goal(x)[i]) \in Nat /\ DOMAIN Goal(x)[i] = 1 .. Len(Goal(x)[i])
    BY <2>1, RuntimeAssumption, Ledger!SequenceLength DEF IsSequence, Ledger!IsSequence
  <2> QED
    BY <2>1, <2>2
<1> QED
  BY <1>1, <1>3, <1>4, SessionAssumption DEF Policy

\* It stays true while the session itself does nothing.
LEMMA GoodLasts ==
  ASSUME NEW x, NEW cs, NEW ct, LastsTo(cs, ct), Good(x, cs)
  PROVE  Good(x, ct)
<1>1. /\ Len(x.runs) \in Nat /\ Len(x.late) \in Nat
      /\ \A i \in 1 .. Len(x.late) : i \in 1 .. Len(x.runs)
  <2>1. Len(x.runs) \in Nat /\ Len(x.late) \in Nat
    BY Lengths DEF Good
  <2>2. Len(x.late) <= Len(x.runs)
    BY <2>1 DEF Good, Guarded
  <2> QED
    BY <2>1, <2>2
<1>2. \A i \in 1 .. Len(x.runs) :
        LET c == x.runs[i].cycle
        IN  /\ c \in 1 .. Len(cs) /\ c \in 1 .. Len(ct)
            /\ ct[c].proposal = cs[c].proposal /\ ct[c].decision = cs[c].decision
            /\ cs[c].outcome # "pending" => ct[c].outcome = cs[c].outcome
  BY DEF Good, Consentless, LastsTo
<1>3. Consentless(x, ct)
  BY <1>2 DEF Good, Consentless
<1>4. CameBack(x, ct)
  BY <1>1, <1>2 DEF Good, CameBack, GoesOn
<1>5. ASSUME x.stage \in Closed PROVE Held(x, ct)
  <2>1. Held(x, cs)
    BY <1>5 DEF Good
  <2>2. CASE x.reason = "rejected_step"
    <3>1. Len(x.late) \in 1 .. Len(x.late)
      BY <1>1, <2>1, <2>2 DEF Held
    <3>2. ct[x.runs[Len(x.late)].cycle].decision = cs[x.runs[Len(x.late)].cycle].decision
      BY <1>1, <1>2, <3>1
    <3> QED
      BY <2>1, <3>2 DEF Held
  <2>3. CASE x.reason # "rejected_step"
    BY <2>1, <2>3 DEF Held
  <2> QED
    BY <2>2, <2>3
<1> QED
  BY <1>3, <1>4, <1>5 DEF Good

-----------------------------------------------------------------------------
(* What the steps of a session make of it *)

LEMMA BegunGood ==
  ASSUME NEW call \in DOMAIN Calls, NEW stage \in {"loop", "raised"}, NEW cs
  PROVE  Good([call |-> call, stage |-> stage, elapsed |-> 0, scores |-> <<>>, runs |-> <<>>,
               late |-> <<>>, reason |-> "completed"], cs)
<1> DEFINE x == [call |-> call, stage |-> stage, elapsed |-> 0, scores |-> <<>>, runs |-> <<>>,
                 late |-> <<>>, reason |-> "completed"]
<1>1. Len(<<>>) = 0 /\ <<>> \in Seq([plan : Nat, cycle : Nat]) /\ <<>> \in Seq(BOOLEAN)
  BY EmptySeq
<1>2. x.call = call /\ x.stage = stage /\ x.runs = <<>> /\ x.late = <<>>
  OBVIOUS
<1>3. Shaped(x)
  <2>1. DOMAIN x = {"call", "stage", "elapsed", "scores", "runs", "late", "reason"}
    OBVIOUS
  <2> HIDE DEF x
  <2>2. x.stage \in Stages
    BY <1>2 DEF Stages, Over
  <2> QED
    BY <1>1, <1>2, <2>1, <2>2 DEF Shaped
<1>4. /\ Policy(x).max_steps \in Nat /\ Len(Goal(x)) \in Nat
      /\ Policy(x).max_command_count \subseteq Nat
  BY <1>3, CallTypes
<1> HIDE DEF x
<1>5. Guarded(x)
  BY <1>1, <1>2, <1>4 DEF Guarded, Looping, Closed
<1>6. Consentless(x, cs) /\ CameBack(x, cs) /\ x.stage \notin Closed
  BY <1>1, <1>2 DEF Consentless, CameBack, Closed
<1>7. Good(x, cs)
  BY <1>3, <1>5, <1>6 DEF Good
<1> QED
  BY <1>7 DEF x

\* Two records of one session that differ in scores and stage.
Agree(x, y) ==
  /\ Shaped(x) /\ Shaped(y)
  /\ y.call = x.call /\ y.runs = x.runs /\ y.late = x.late

LEMMA AgreeGood ==
  ASSUME NEW x, NEW y, NEW cs, Good(x, cs), Agree(x, y),
         \/ y.stage \in {"raised", "lost"}
         \/ /\ x.stage \in Looping \cup Closed
            /\ y.stage = x.stage \/ x.stage \in Looping \/ y.stage \in Closed
            /\ y.stage \in Looping \cup Closed
            /\ y.stage = "ranking" => StopBefore(y) = "none"
            /\ y.stage \in Closed => Held(y, cs)
         \/ x.stage = "cycle" /\ y.stage = "cycle"
  PROVE  Good(y, cs)
<1>1. /\ Policy(y) = Policy(x) /\ Goal(y) = Goal(x)
      /\ Len(y.runs) = Len(x.runs) /\ Len(y.late) = Len(x.late)
  BY DEF Agree, Policy, Goal
<1>2. Guarded(y)
  BY <1>1 DEF Good, Guarded, Agree, Looping, Closed
<1>3. Consentless(y, cs)
  BY DEF Good, Consentless, Agree
<1>4. CameBack(y, cs)
  BY <1>1 DEF Good, CameBack, GoesOn, Agree, Looping, Closed
<1>5. y.stage \in Closed => Held(y, cs)
  BY DEF Closed, Looping
<1> QED
  BY <1>2, <1>3, <1>4, <1>5 DEF Good, Agree

\* StopLoop, with the reason the guards give.
LEMMA StoppedGood ==
  ASSUME NEW x, NEW cs, Good(x, cs), x.stage = "loop", StopBefore(x) # "none"
  PROVE  Good([x EXCEPT !.stage = "closing", !.reason = StopBefore(x)], cs)
<1> DEFINE y == [x EXCEPT !.stage = "closing", !.reason = StopBefore(x)]
           done == Len(x.late)
<1>0. y = [x EXCEPT !.stage = "closing", !.reason = StopBefore(x)]
  OBVIOUS
<1> HIDE DEF y
<1>1. /\ Shaped(y) /\ y.stage = "closing" /\ y.reason = StopBefore(x) /\ y.call = x.call
      /\ y.runs = x.runs /\ y.late = x.late /\ y.elapsed = x.elapsed
  <2>1. Shaped(x) /\ "closing" \in Stages
    BY DEF Good, Stages, Over
  <2> QED
    BY <1>0, <2>1 DEF Shaped
<1>2. /\ Policy(y) = Policy(x) /\ Goal(y) = Goal(x) /\ (TimeOut(y) <=> TimeOut(x))
      /\ Len(y.late) = done
  BY <1>1 DEF Policy, Goal, TimeOut
<1>3. /\ done \in Nat /\ Policy(x).max_steps \in Nat /\ Len(Goal(x)) \in Nat
      /\ Policy(x).max_command_count \subseteq Nat
      /\ \A limit, other \in Policy(x).max_command_count : limit = other
  BY CallTypes, Lengths DEF Good
<1>4. /\ done <= Policy(x).max_steps /\ done <= Len(Goal(x))
      /\ \A limit \in Policy(x).max_command_count : done <= limit
  BY DEF Good, Guarded, Looping
<1>5. done > 0 => ~ x.late[done]
  BY <1>3 DEF Good, CameBack, GoesOn, Looping
<1>6. /\ StopBefore(x) \in {"completed", "max_steps_reached", "max_wall_clock_reached",
                             "max_command_count_reached", "no_candidates"}
      /\ StopBefore(x) = "completed" => LoopEnds(x) /\ ~ (Len(Goal(x)) > Policy(x).max_steps)
      /\ StopBefore(x) = "max_steps_reached" => LoopEnds(x) /\ Len(Goal(x)) > Policy(x).max_steps
      /\ StopBefore(x) = "max_wall_clock_reached" => TimeOut(x)
      /\ StopBefore(x) = "max_command_count_reached" => CommandsSpent(x)
      /\ StopBefore(x) = "no_candidates" => Candidates(x) = <<>>
  BY DEF StopBefore
<1>7. StopBefore(x) = "completed" => done = Len(Goal(x))
  BY <1>3, <1>4, <1>6 DEF LoopEnds
<1>8. StopBefore(x) = "max_steps_reached" => done = Policy(x).max_steps /\ done < Len(Goal(x))
  BY <1>3, <1>4, <1>6 DEF LoopEnds
<1>9. StopBefore(x) = "max_command_count_reached" => Policy(x).max_command_count = {done}
  <2> SUFFICES ASSUME CommandsSpent(x) PROVE Policy(x).max_command_count = {done}
    BY <1>6
  <2>1. PICK limit \in Policy(x).max_command_count : done >= limit
    BY DEF CommandsSpent
  <2>2. limit = done
    BY <1>3, <1>4, <2>1
  <2> QED
    BY <1>3, <2>2
<1>10. Held(y, cs)
  BY <1>1, <1>2, <1>5, <1>6, <1>7, <1>8, <1>9 DEF Held, Reasons, Candidates
<1>11. Agree(x, y)
  BY <1>1 DEF Agree, Good
<1>12. Good(y, cs)
  BY <1>1, <1>10, <1>11, AgreeGood DEF Looping, Closed
<1> QED
  BY <1>12 DEF y

\* The guards that let a step through.
LEMMA PassedGuards ==
  ASSUME NEW x, Shaped(x), StopBefore(x) = "none"
  PROVE  /\ Len(x.late) < Policy(x).max_steps /\ Len(x.late) < Len(Goal(x))
         /\ \A limit \in Policy(x).max_command_count : Len(x.late) < limit
         /\ ~ TimeOut(x) /\ Candidates(x) # <<>>
<1>1. ~ LoopEnds(x) /\ ~ TimeOut(x) /\ ~ CommandsSpent(x) /\ Candidates(x) # <<>>
  BY DEF StopBefore
<1>2. /\ Len(x.late) \in Nat /\ Policy(x).max_steps \in Nat /\ Len(Goal(x)) \in Nat
      /\ Policy(x).max_command_count \subseteq Nat
  BY CallTypes, Lengths
<1> QED
  BY <1>1, <1>2 DEF LoopEnds, CommandsSpent

\* StartCycle: cycle c is the session's next.
LEMMA StartedGood ==
  ASSUME NEW x, NEW cs, NEW ct, NEW y, NEW plan \in Nat, NEW c \in 1 .. Len(ct),
         Good(x, cs), LastsTo(cs, ct), x.stage = "ranking", ct[c].proposal.consent_token = {},
         DOMAIN y = DOMAIN x, y.stage = "cycle", y.call = x.call, y.late = x.late,
         y.runs = Append(x.runs, [plan |-> plan, cycle |-> c])
  PROVE  Good(y, ct) /\ y.runs[Len(y.runs)].cycle = c
<1> DEFINE run == [plan |-> plan, cycle |-> c]
           n == Len(x.runs)
<1>1. Good(x, ct) /\ Shaped(x)
  BY GoodLasts DEF Good
<1>2. c \in Nat /\ Len(ct) \in Nat
  BY DEF LastsTo
<1>3. /\ x.runs \in Seq([plan : Nat, cycle : Nat]) /\ run \in [plan : Nat, cycle : Nat]
      /\ run.cycle = c
  BY <1>1, <1>2 DEF Shaped
<1> HIDE DEF run
<1>4. /\ y.runs \in Seq([plan : Nat, cycle : Nat]) /\ Len(y.runs) = n + 1 /\ n \in Nat
      /\ \A i \in 1 .. n : y.runs[i] = x.runs[i]
      /\ y.runs[n + 1] = run
  BY <1>1, <1>3, AppendProperties, Lengths DEF run
<1>5. Shaped(y)
  BY <1>1, <1>4 DEF Shaped, Stages
<1>6. Policy(y) = Policy(x) /\ Goal(y) = Goal(x) /\ Len(y.late) = n
  BY <1>1 DEF Policy, Goal, Good, Guarded, Looping
<1>7. n < Policy(x).max_steps /\ n < Len(Goal(x)) /\ \A limit \in Policy(x).max_command_count : n < limit
  BY <1>1, PassedGuards DEF Good, Guarded, Looping
<1>8. /\ Policy(x).max_steps \in Nat /\ Policy(x).max_command_count \subseteq Nat
      /\ Len(Goal(x)) \in Nat
  BY <1>1, CallTypes
<1>9. Guarded(y)
  BY <1>4, <1>6, <1>7, <1>8 DEF Guarded, Looping, Closed
<1>10. \A i \in 1 .. n + 1 : i \in 1 .. n \/ i = n + 1
  BY <1>4
<1>11. Consentless(y, ct)
  BY <1>1, <1>3, <1>4, <1>10 DEF Good, Consentless
<1>12. CameBack(y, ct)
  <2>1. \A i \in 1 .. n : y.runs[i] = x.runs[i] /\ y.late[i] = x.late[i]
    BY <1>4
  <2>2. Len(x.late) = n
    BY <1>6
  <2> QED
    BY <1>1, <1>6, <2>1, <2>2 DEF Good, CameBack, GoesOn, Looping
<1> QED
  BY <1>3, <1>4, <1>5, <1>9, <1>11, <1>12 DEF Good, Closed

\* CycleReturns: the step counts, and the guards after it are looked at.
LEMMA ReturnedGood ==
  ASSUME NEW x, NEW cs, NEW y, NEW reason, Good(x, cs), x.stage = "cycle",
         cs[x.runs[Len(x.runs)].cycle].outcome \in {"executed", "rejected"},
         reason = IF ~ cs[x.runs[Len(x.runs)].cycle].decision.allowed /\ Policy(x).stop_on_reject
                  THEN "rejected_step"
                  ELSE IF TimeOut(x) THEN "max_wall_clock_reached" ELSE "none",
         DOMAIN y = DOMAIN x, y.call = x.call, y.runs = x.runs, y.elapsed = x.elapsed,
         y.late = Append(x.late, TimeOut(x)),
         y.stage = IF reason = "none" THEN "loop" ELSE "closing",
         reason # "none" => y.reason = reason
  PROVE  Good(y, cs)
<1> DEFINE n == Len(x.runs)
           late == TimeOut(x)
<1>1. Shaped(x) /\ n \in Nat /\ Len(x.late) \in Nat /\ Len(x.late) + 1 = n
  BY Lengths DEF Good, Guarded
<1>2. late \in BOOLEAN
  BY DEF TimeOut
<1>3. x.late \in Seq(BOOLEAN)
  BY <1>1 DEF Shaped
<1> HIDE DEF late
<1>4. /\ y.late \in Seq(BOOLEAN) /\ Len(y.late) = n
      /\ \A i \in 1 .. Len(x.late) : y.late[i] = x.late[i]
      /\ y.late[n] = late
  <2>1. y.late = Append(x.late, late)
    BY DEF late
  <2> QED
    BY <1>1, <1>2, <1>3, <2>1, AppendProperties
<1>5. y.stage \in {"loop", "closing"} /\ y.stage = (IF reason = "none" THEN "loop" ELSE "closing")
  OBVIOUS
<1>6. Shaped(y)
  BY <1>1, <1>4, <1>5 DEF Shaped, Stages
<1>7. Policy(y) = Policy(x) /\ Goal(y) = Goal(x) /\ (TimeOut(y) <=> late)
  BY DEF Policy, Goal, TimeOut, late
<1>8. Guarded(y)
  BY <1>1, <1>4, <1>5, <1>7 DEF Good, Guarded, Looping, Closed
<1>9. Consentless(y, cs)
  BY DEF Good, Consentless
<1>10. \A i \in 1 .. n : i \in 1 .. Len(x.late) \/ i = n
  BY <1>1
<1>11. CameBack(y, cs)
  <2>1. \A i \in 1 .. Len(x.late) :
          cs[x.runs[i].cycle].outcome \in {"executed", "rejected"} /\ GoesOn(x, cs, i)
    BY DEF Good, CameBack
  <2>2. reason = "none" => (Policy(x).stop_on_reject => cs[x.runs[n].cycle].decision.allowed) /\ ~ late
    BY DEF late
  <2>3. \A i \in 1 .. Len(x.late) : GoesOn(y, cs, i)
    BY <1>4, <1>7, <2>1 DEF GoesOn
  <2>4. reason = "none" => GoesOn(y, cs, n)
    BY <1>4, <1>7, <2>2 DEF GoesOn
  <2> QED
    BY <1>1, <1>4, <1>5, <1>10, <2>1, <2>3, <2>4 DEF CameBack, Looping
<1>12. y.stage \in Closed => Held(y, cs)
  <2> SUFFICES ASSUME reason # "none" PROVE Held(y, cs)
    BY <1>5 DEF Closed
  <2>1. /\ reason \in {"rejected_step", "max_wall_clock_reached"} /\ y.reason = reason
        /\ reason = "rejected_step" => ~ cs[x.runs[n].cycle].decision.allowed
        /\ reason = "max_wall_clock_reached" => late
    BY DEF late
  <2> QED
    BY <1>1, <1>4, <1>7, <2>1 DEF Held, Reasons
<1> QED
  BY <1>6, <1>8, <1>9, <1>11, <1>12 DEF Good

-----------------------------------------------------------------------------
(* The invariant: every session is good, no two processes have one session *)
(* and a session in a cycle is in its process's.                           *)

Linked ==
  \A p \in Procs : session[p] # 0 =>
    /\ \A q \in Procs : session[q] = session[p] => q = p
    /\ At(p, "cycle") =>
         LET runs == sessions[session[p]].runs IN runs[Len(runs)].cycle = cycle[p]

SInv ==
  /\ IInv
  /\ IsSequence(sessions) /\ session \in [Procs -> 0 .. Len(sessions)]
  /\ \A i \in Sessions : Good(sessions[i], cycles)
  /\ Linked

LEMMA SessionsLength ==
  ASSUME IsSequence(sessions)
  PROVE  Len(sessions) \in Nat /\ DOMAIN sessions = 1 .. Len(sessions)
BY RuntimeAssumption, Ledger!SequenceLength DEF IsSequence, Ledger!IsSequence

LEMMA ReplaceItem ==
  ASSUME NEW s, IsSequence(s), NEW i \in 1 .. Len(s), NEW e
  PROVE  /\ IsSequence([s EXCEPT ![i] = e]) /\ Len([s EXCEPT ![i] = e]) = Len(s)
         /\ \A j \in 1 .. Len(s) : [s EXCEPT ![i] = e][j] = IF j = i THEN e ELSE s[j]
<1> DEFINE S == {s[j] : j \in 1 .. Len(s)} \cup {e}
           t == [s EXCEPT ![i] = e]
<1>1. Len(s) \in Nat /\ DOMAIN s = 1 .. Len(s)
  BY RuntimeAssumption, Ledger!SequenceLength DEF IsSequence, Ledger!IsSequence
<1>2. \A j \in 1 .. Len(s) : t[j] = IF j = i THEN e ELSE s[j]
  BY <1>1
<1>3. t \in [1 .. Len(s) -> {t[j] : j \in 1 .. Len(s)}]
  BY <1>1
<1> HIDE DEF t
<1>4. t \in Seq({t[j] : j \in 1 .. Len(s)}) /\ Len(t) = Len(s)
  BY <1>1, <1>3, MappedSequence
<1>5. IsSequence(t)
  BY <1>4 DEF IsSequence
<1> QED
  BY <1>2, <1>4, <1>5 DEF t

\* A session of p goes from one record to the next.
LEMMA Moved ==
  ASSUME SInv, IInv', LastsTo(cycles, cycles'), NEW p \in Procs, NEW y,
         session[p] # 0, Update(p, y), session' = session, Good(y, cycles'),
         \A q \in Procs \ {p} : cycle'[q] = cycle[q],
         y.stage = "cycle" => y.runs[Len(y.runs)].cycle = cycle'[p]
  PROVE  SInv'
<1>1. session[p] \in 1 .. Len(sessions) /\ Len(sessions) \in Nat
  BY SessionsLength DEF SInv
<1>2. /\ IsSequence(sessions') /\ Len(sessions') = Len(sessions)
      /\ \A i \in 1 .. Len(sessions) :
           sessions'[i] = IF i = session[p] THEN y ELSE sessions[i]
  <2>1. sessions' = [sessions EXCEPT ![session[p]] = y] /\ IsSequence(sessions)
    BY DEF Update, SInv
  <2>2. \A e : LET t == [sessions EXCEPT ![session[p]] = e]
               IN  /\ IsSequence(t) /\ Len(t) = Len(sessions)
                   /\ \A i \in 1 .. Len(sessions) :
                        t[i] = IF i = session[p] THEN e ELSE sessions[i]
    BY <1>1, <2>1, ReplaceItem
  <2> QED
    BY <2>1, <2>2
<1>3. \A i \in 1 .. Len(sessions) : Good(sessions'[i], cycles')
  BY <1>2, GoodLasts DEF SInv, Sessions
<1>4. Linked'
  <2> SUFFICES ASSUME NEW q \in Procs, session[q] # 0
               PROVE  /\ \A r \in Procs : session[r] = session[q] => r = q
                      /\ sessions'[session[q]].stage = "cycle" =>
                           LET runs == sessions'[session[q]].runs
                           IN runs[Len(runs)].cycle = cycle'[q]
    BY DEF Linked, At
  <2>1. session[q] \in 1 .. Len(sessions)
    BY <1>1 DEF SInv
  <2>2. CASE q = p
    BY <1>1, <1>2, <2>2 DEF SInv, Linked
  <2>3. CASE q # p
    <3>1. sessions'[session[q]] = sessions[session[q]] /\ cycle'[q] = cycle[q]
      BY <1>2, <2>1, <2>3 DEF SInv, Linked
    <3> QED
      BY <2>1, <3>1 DEF SInv, Linked, At
  <2> QED
    BY <2>2, <2>3
<1> QED
  BY <1>2, <1>3, <1>4 DEF SInv, Sessions

\* The steps that leave the runtime alone.
LEMMA QuietMoved ==
  ASSUME SInv, NEW p \in Procs, NEW y, session[p] # 0, Update(p, y),
         UNCHANGED vars, session' = session, Good(y, cycles),
         y.stage = "cycle" => y.runs = sessions[session[p]].runs /\ At(p, "cycle")
  PROVE  SInv'
<1>1. cycles' = cycles /\ cycle' = cycle /\ IInv'
  BY StepKept DEF vars, SInv, Kept
<1>2. LastsTo(cycles, cycles')
  BY <1>1, LastsToSame DEF SInv
<1> QED
  BY <1>1, <1>2, Moved DEF SInv, Linked

LEMMA InitSInv == SessionInit => SInv
<1> SUFFICES ASSUME SessionInit PROVE SInv
  OBVIOUS
<1>1. IInv
  BY InitIInv DEF SessionInit
<1>2. Len(sessions) = 0 /\ IsSequence(sessions)
  BY EmptySeq DEF SessionInit, IsSequence
<1>3. session \in [Procs -> 0 .. Len(sessions)] /\ \A p \in Procs : session[p] = 0
  BY <1>2 DEF SessionInit
<1> QED
  BY <1>1, <1>2, <1>3 DEF SInv, Linked, Sessions

LEMMA BeginSInv ==
  ASSUME SInv, NEW p \in Procs, NEW call \in DOMAIN Calls, NEW stage \in {"loop", "raised"},
         Begin(p, call, stage)
  PROVE  SInv'
<1> DEFINE x == [call |-> call, stage |-> stage, elapsed |-> 0, scores |-> <<>>, runs |-> <<>>,
                 late |-> <<>>, reason |-> "completed"]
           n == Len(sessions)
<1>1. /\ sessions' = Append(sessions, x) /\ session' = [session EXCEPT ![p] = n + 1]
      /\ UNCHANGED vars
  BY DEF Begin
<1>2. Good(x, cycles) /\ x.stage # "cycle"
  BY BegunGood
<1> HIDE DEF x
<1>3. /\ IsSequence(sessions') /\ n \in Nat /\ Len(sessions') = n + 1
      /\ \A i \in 1 .. n : sessions'[i] = sessions[i]
      /\ sessions'[n + 1] = x
  BY <1>1, RuntimeAssumption, Ledger!AppendLine DEF SInv, IsSequence, Ledger!IsSequence
<1>4. IInv' /\ cycles' = cycles /\ cycle' = cycle
  BY <1>1, StepKept DEF SInv, Kept, vars
<1>5. /\ session' \in [Procs -> 0 .. n + 1] /\ session'[p] = n + 1
      /\ \A q \in Procs \ {p} : session'[q] = session[q] /\ session[q] \in 0 .. n
  BY <1>1, <1>3 DEF SInv
<1>6. \A i \in 1 .. n + 1 : Good(sessions'[i], cycles')
  BY <1>2, <1>3, <1>4 DEF SInv, Sessions
<1>7. Linked'
  <2> SUFFICES ASSUME NEW q \in Procs, session'[q] # 0
               PROVE  /\ \A r \in Procs : session'[r] = session'[q] => r = q
                      /\ sessions'[session'[q]].stage = "cycle" =>
                           LET runs == sessions'[session'[q]].runs
                           IN runs[Len(runs)].cycle = cycle'[q]
    BY DEF Linked, At
  <2>1. CASE q = p
    BY <1>2, <1>3, <1>5, <2>1
  <2>2. CASE q # p
    <3>1. session'[q] = session[q] /\ session[q] \in 1 .. n /\ sessions'[session[q]] = sessions[session[q]]
      BY <1>3, <1>5, <2>2
    <3>2. \A r \in Procs : session'[r] = session'[q] => r = q
      BY <1>3, <1>5, <2>2, <3>1 DEF SInv, Linked
    <3> QED
      BY <1>4, <3>1, <3>2 DEF SInv, Linked, At
  <2> QED
    BY <2>1, <2>2
<1> QED
  BY <1>3, <1>4, <1>5, <1>6, <1>7 DEF SInv, Sessions

-----------------------------------------------------------------------------
(* The steps *)

LEMMA OwnSession ==
  ASSUME SInv, NEW p \in Procs, session[p] # 0
  PROVE  /\ session[p] \in Sessions /\ Good(sessions[session[p]], cycles)
         /\ Shaped(sessions[session[p]])
<1>1. session[p] \in Sessions
  BY SessionsLength DEF SInv, Sessions
<1> QED
  BY <1>1 DEF SInv, Good

\* The ends of a session that are no return.
LEMMA OverSInv ==
  ASSUME SInv, NEW p \in Procs, NEW stage \in {"raised", "lost"}, session[p] # 0,
         Update(p, [sessions[session[p]] EXCEPT !.stage = stage]), session' = session,
         IInv', LastsTo(cycles, cycles'), cycle' = cycle
  PROVE  SInv'
<1> DEFINE x == sessions[session[p]]
           y == [x EXCEPT !.stage = stage]
<1>1. Good(x, cycles) /\ Shaped(x)
  BY OwnSession
<1>2. /\ DOMAIN y = DOMAIN x /\ y.stage = stage
      /\ y.call = x.call /\ y.runs = x.runs /\ y.late = x.late
  BY <1>1 DEF Shaped
<1>3. Update(p, y)
  OBVIOUS
<1> HIDE DEF x, y
<1>4. Agree(x, y)
  BY <1>1, <1>2 DEF Agree, Shaped, Stages, Over
<1>5. Good(y, cycles')
  BY <1>1, <1>2, <1>4, AgreeGood, GoodLasts
<1> QED
  BY <1>2, <1>3, <1>5, Moved

LEMMA RaiseSInv ==
  ASSUME SInv, NEW p \in Procs, session[p] # 0, Fail(p), UNCHANGED vars
  PROVE  SInv'
<1>1. IInv' /\ LastsTo(cycles, cycles') /\ cycle' = cycle
  BY StepKept, LastsToSame DEF SInv, Kept, vars
<1> QED
  BY <1>1, OverSInv DEF Fail

LEMMA StopLoopSInv ==
  ASSUME SInv, NEW p \in Procs, StopLoop(p)
  PROVE  SInv'
<1> DEFINE x == sessions[session[p]]
           y == [x EXCEPT !.stage = "closing", !.reason = StopBefore(x)]
<1>1. /\ session[p] # 0 /\ x.stage = "loop" /\ StopBefore(x) # "none" /\ Update(p, y)
      /\ UNCHANGED vars /\ session' = session
  BY DEF StopLoop, At
<1>2. Good(x, cycles) /\ Shaped(x)
  BY <1>1, OwnSession
<1>3. Good(y, cycles)
  BY <1>1, <1>2, StoppedGood
<1>4. y.stage = "closing"
  BY <1>2 DEF Shaped
<1> HIDE DEF y
<1> QED
  BY <1>1, <1>3, <1>4, QuietMoved

\* A step that changes scores, clock or, within the loop, the stage.
LEMMA RestagedSInv ==
  ASSUME SInv, NEW p \in Procs, session[p] # 0, NEW y, Update(p, y), UNCHANGED vars,
         session' = session,
         DOMAIN y = DOMAIN sessions[session[p]],
         y.call = sessions[session[p]].call, y.runs = sessions[session[p]].runs,
         y.late = sessions[session[p]].late, y.stage \in Stages,
         \/ y.stage = sessions[session[p]].stage /\ y.stage \in {"loop", "cycle"}
         \/ /\ sessions[session[p]].stage \in Looping /\ y.stage = "ranking"
            /\ StopBefore(y) = "none"
  PROVE  SInv'
<1>1. Good(sessions[session[p]], cycles) /\ Shaped(sessions[session[p]])
  BY OwnSession
<1>2. Agree(sessions[session[p]], y)
  BY <1>1 DEF Agree, Shaped
<1>3. Good(y, cycles)
  BY <1>1, <1>2, AgreeGood DEF Looping, Closed
<1> QED
  BY <1>3, QuietMoved DEF Looping, At

LEMMA SameGuards ==
  ASSUME NEW x, NEW y, y.call = x.call, y.late = x.late, y.elapsed = x.elapsed
  PROVE  StopBefore(y) = StopBefore(x)
BY DEF StopBefore, LoopEnds, TimeOut, CommandsSpent, Candidates, Goal, Policy

LEMMA LoopSInv ==
  ASSUME SInv, NEW p \in Procs, PlanRollouts(p) \/ ScoreNext(p) \/ Tick(p)
  PROVE  SInv'
<1> DEFINE x == sessions[session[p]]
<1>1. session[p] # 0 /\ UNCHANGED vars /\ session' = session
  BY DEF PlanRollouts, ScoreNext, Tick, At
<1>2. Good(x, cycles) /\ Shaped(x)
  BY <1>1, OwnSession
<1>3. CASE PlanRollouts(p)
  <2> DEFINE y == [x EXCEPT !.stage = "ranking", !.scores = <<>>]
  <2>1. x.stage = "loop" /\ StopBefore(x) = "none" /\ Update(p, y)
    BY <1>3 DEF PlanRollouts, At
  <2>2. /\ DOMAIN y = DOMAIN x /\ y.stage = "ranking" /\ y.call = x.call /\ y.runs = x.runs
        /\ y.late = x.late /\ y.elapsed = x.elapsed
    BY <1>2 DEF Shaped
  <2> HIDE DEF y
  <2>3. StopBefore(y) = "none"
    BY <2>1, <2>2, SameGuards
  <2> QED
    BY <1>1, <2>1, <2>2, <2>3, RestagedSInv DEF Looping, Stages
<1>4. CASE ScoreNext(p)
  <2> DEFINE candidates == Candidates(x)
             i == Ranked(x)[Len(x.scores) + 1]
             y == [x EXCEPT !.scores =
                     Append(@, RankingScore(candidates, i) + Bias(candidates[i].ref))]
  <2>1. x.stage = "ranking" /\ Update(p, y)
    BY <1>4 DEF ScoreNext, At
  <2>2. /\ DOMAIN y = DOMAIN x /\ y.stage = x.stage /\ y.call = x.call /\ y.runs = x.runs
        /\ y.late = x.late /\ y.elapsed = x.elapsed
    BY <1>2 DEF Shaped
  <2> HIDE DEF y
  <2>3. StopBefore(y) = "none"
    BY <1>2, <2>1, <2>2, SameGuards DEF Good, Guarded
  <2> QED
    BY <1>1, <2>1, <2>2, <2>3, RestagedSInv DEF Looping, Stages
<1>5. CASE Tick(p)
  <2> DEFINE y == [x EXCEPT !.elapsed = @ + 1]
  <2>1. x.stage \in {"loop", "cycle"} /\ Update(p, y)
    BY <1>5 DEF Tick, At
  <2>2. /\ DOMAIN y = DOMAIN x /\ y.stage = x.stage /\ y.call = x.call /\ y.runs = x.runs
        /\ y.late = x.late
    BY <1>2 DEF Shaped
  <2> HIDE DEF y
  <2> QED
    BY <1>1, <2>1, <2>2, RestagedSInv DEF Stages
<1> QED
  BY <1>3, <1>4, <1>5

LEMMA StartCycleSInv ==
  ASSUME SInv, NEW p \in Procs, StartCycle(p)
  PROVE  SInv'
<1> DEFINE x == sessions[session[p]]
<1>1. PICK plan \in Chosen(p), prop \in Proposals :
        /\ prop = Candidates(x)[plan].proposal
        /\ Decides(p, prop)
        /\ Update(p, [x EXCEPT !.stage = "cycle",
                               !.runs = Append(@, [plan |-> plan, cycle |-> cycle'[p]])])
        /\ session' = session
  BY DEF StartCycle, Decides
<1>2. session[p] # 0 /\ x.stage = "ranking" /\ plan \in DOMAIN Candidates(x)
  BY DEF Chosen, At
<1>3. Good(x, cycles) /\ Shaped(x)
  BY <1>2, OwnSession
<1>4. /\ IInv' /\ LastsTo(cycles, cycles')
      /\ Len(cycles) \in Nat /\ Len(cycles') = Len(cycles) + 1
      /\ cycle'[p] = Len(cycles) + 1 /\ \A q \in Procs \ {p} : cycle'[q] = cycle[q]
      /\ cycles'[Len(cycles) + 1].proposal = prop
  BY <1>1, DecideLasts DEF SInv
<1>5. plan \in Nat /\ prop.consent_token = {}
  <2>1. Len(x.late) < Len(Goal(x)) /\ Len(x.late) \in Nat /\ Len(Goal(x)) \in Nat
    BY <1>2, <1>3, PassedGuards, Lengths, CallTypes DEF Good, Guarded
  <2>2. Len(x.late) + 1 \in 1 .. Len(Goal(x))
    BY <2>1
  <2>3. /\ DOMAIN Candidates(x) = 1 .. Len(Candidates(x)) /\ Len(Candidates(x)) \in Nat
        /\ \A j \in 1 .. Len(Candidates(x)) : Candidates(x)[j].proposal.consent_token = {}
    BY <1>3, <2>2, CallTypes DEF Candidates
  <2> QED
    BY <1>1, <1>2, <2>3
<1> DEFINE c == Len(cycles) + 1
           y == [x EXCEPT !.stage = "cycle", !.runs = Append(@, [plan |-> plan, cycle |-> c])]
<1>6. Update(p, y)
  BY <1>1, <1>4
<1>7. /\ DOMAIN y = DOMAIN x /\ y.stage = "cycle" /\ y.call = x.call /\ y.late = x.late
      /\ y.runs = Append(x.runs, [plan |-> plan, cycle |-> c])
  BY <1>3 DEF Shaped
<1>8. c \in 1 .. Len(cycles') /\ cycles'[c].proposal.consent_token = {}
  BY <1>4, <1>5
<1> HIDE DEF y, c
<1>9. Good(y, cycles') /\ y.runs[Len(y.runs)].cycle = c
  <2> HIDE DEF x
  <2>1. \A plan1 \in Nat, c1 \in 1 .. Len(cycles') :
          (/\ cycles'[c1].proposal.consent_token = {}
           /\ y.runs = Append(x.runs, [plan |-> plan1, cycle |-> c1]))
            => Good(y, cycles') /\ y.runs[Len(y.runs)].cycle = c1
    BY <1>2, <1>3, <1>4, <1>7, StartedGood
  <2> QED
    BY <1>5, <1>7, <1>8, <2>1
<1>10. y.runs[Len(y.runs)].cycle = cycle'[p]
  BY <1>4, <1>9 DEF c
<1> QED
  BY <1>1, <1>2, <1>4, <1>6, <1>9, <1>10, Moved

LEMMA CycleReturnsSInv ==
  ASSUME SInv, NEW p \in Procs, CycleReturns(p)
  PROVE  SInv'
<1> DEFINE x == sessions[session[p]]
           reason == StopAfter(p, x)
           y == [x EXCEPT !.late = Append(@, TimeOut(x)),
                          !.stage = IF reason = "none" THEN "loop" ELSE "closing",
                          !.reason = IF reason = "none" THEN @ ELSE reason]
<1>1. /\ session[p] # 0 /\ x.stage = "cycle"
      /\ cycles[cycle[p]].outcome \in {"executed", "rejected"}
      /\ Update(p, y) /\ UNCHANGED vars /\ session' = session
  BY DEF CycleReturns, Returned, At
<1>2. Good(x, cycles) /\ Shaped(x)
  BY <1>1, OwnSession
<1>3. x.runs[Len(x.runs)].cycle = cycle[p]
  BY <1>1 DEF SInv, Linked, At
<1>4. /\ DOMAIN y = DOMAIN x /\ y.call = x.call /\ y.runs = x.runs /\ y.elapsed = x.elapsed
      /\ y.late = Append(x.late, TimeOut(x))
      /\ y.stage = (IF reason = "none" THEN "loop" ELSE "closing")
      /\ reason # "none" => y.reason = reason
  BY <1>2 DEF Shaped
<1>5. reason = IF ~ cycles[cycle[p]].decision.allowed /\ Policy(x).stop_on_reject
               THEN "rejected_step"
               ELSE IF TimeOut(x) THEN "max_wall_clock_reached" ELSE "none"
  BY DEF StopAfter
<1> HIDE DEF y, reason
<1>6. Good(y, cycles)
  BY <1>1, <1>2, <1>3, <1>4, <1>5, ReturnedGood
<1> QED
  BY <1>1, <1>4, <1>6, QuietMoved

LEMMA CloseSInv ==
  ASSUME SInv, NEW p \in Procs, Finalize(p) \/ Summarize(p)
  PROVE  SInv'
<1> DEFINE x == sessions[session[p]]
<1>1. /\ session[p] # 0 /\ UNCHANGED vars /\ session' = session
      /\ x.stage \in {"closing", "summarising"}
      /\ \E stage \in {"summarising", "finished"} : Update(p, [x EXCEPT !.stage = stage])
  BY DEF Finalize, Summarize, At
<1>2. PICK stage \in {"summarising", "finished"} : Update(p, [x EXCEPT !.stage = stage])
  BY <1>1
<1> DEFINE y == [x EXCEPT !.stage = stage]
<1>3. Good(x, cycles) /\ Shaped(x) /\ Held(x, cycles)
  BY <1>1, OwnSession DEF Good, Closed
<1>4. /\ DOMAIN y = DOMAIN x /\ y.stage = stage /\ y.call = x.call /\ y.runs = x.runs
      /\ y.late = x.late /\ y.elapsed = x.elapsed /\ y.reason = x.reason
  BY <1>3 DEF Shaped
<1>5. Update(p, y)
  BY <1>2
<1> HIDE DEF y
<1>6. Agree(x, y)
  BY <1>3, <1>4 DEF Agree, Shaped, Stages, Over
<1>7. Held(y, cycles)
  BY <1>3, <1>4 DEF Held, Goal, Policy, TimeOut
<1>8. Good(y, cycles)
  BY <1>1, <1>3, <1>4, <1>6, <1>7, AgreeGood DEF Looping, Closed
<1> QED
  BY <1>1, <1>4, <1>5, <1>8, QuietMoved

LEMMA ProceedSInv ==
  ASSUME SInv, NEW p \in Procs, RuntimeProceeds(p) \/ RuntimeFails(p)
  PROVE  SInv'
<1>1. sessions' = sessions /\ session' = session
  BY DEF RuntimeProceeds, RuntimeFails, sessionVars
<1>2. IInv' /\ LastsTo(cycles, cycles') /\ cycle' = cycle
  BY StepKept, ProceedLasts, FailsLasts DEF SInv, Kept, Next, RuntimeProceeds
<1>3. Linked'
  BY <1>1, <1>2 DEF SInv, Linked, At
<1> QED
  BY <1>1, <1>2, <1>3, GoodLasts DEF SInv, Sessions

LEMMA NextSInv == SInv /\ [SessionNext]_allVars => SInv'
<1> SUFFICES ASSUME SInv, [SessionNext]_allVars PROVE SInv'
  OBVIOUS
<1>1. CASE UNCHANGED allVars
  <2>1. UNCHANGED vars /\ sessions' = sessions /\ session' = session
    BY <1>1 DEF allVars, sessionVars
  <2>2. IInv' /\ cycles' = cycles /\ cycle' = cycle
    BY <2>1, StepKept DEF SInv, Kept, vars
  <2> QED
    BY <2>1, <2>2 DEF SInv, Sessions, Linked, At
<1>2. ASSUME NEW p \in Procs, NEW call \in DOMAIN Calls,
             StartSession(p, call) \/ StartSessionRaises(p, call)
      PROVE  SInv'
  BY <1>2, BeginSInv DEF StartSession, StartSessionRaises
<1>3. ASSUME NEW p \in Procs, Advance(p) PROVE SInv'
  <2>1. session[p] # 0
    BY <1>3 DEF Advance, InSession
  <2>2. CASE PlanRolloutsRaises(p) \/ ScoreNextRaises(p) \/ CycleRaises(p) \/ CycleReturnsTorn(p)
               \/ FinalizeTorn(p) \/ SummarizeRaises(p)
    BY <2>1, <2>2, RaiseSInv DEF PlanRolloutsRaises, ScoreNextRaises, CycleRaises,
         CycleReturnsTorn, FinalizeTorn, SummarizeRaises, Raise
  <2>3. CASE CycleRefused(p)
    <3>1. Fail(p) /\ UNCHANGED vars
      BY <2>3 DEF CycleRefused, Refuse, Raise
    <3> QED
      BY <2>1, <3>1, RaiseSInv
  <2>4. CASE StopLoop(p) \/ PlanRollouts(p) \/ ScoreNext(p)
    BY <2>4, StopLoopSInv, LoopSInv
  <2>5. CASE StartCycle(p) \/ RuntimeProceeds(p) \/ CycleReturns(p)
    BY <2>5, StartCycleSInv, ProceedSInv, CycleReturnsSInv
  <2>6. CASE Finalize(p) \/ Summarize(p)
    BY <2>6, CloseSInv
  <2> QED
    BY <1>3, <2>2, <2>3, <2>4, <2>5, <2>6 DEF Advance
<1>4. ASSUME NEW p \in Procs, Tick(p) PROVE SInv'
  BY <1>4, LoopSInv
<1>5. ASSUME NEW p \in Procs, Die(p) PROVE SInv'
  <2>1. /\ session[p] # 0 /\ CrashOrDie(p) /\ session' = session
        /\ Update(p, [sessions[session[p]] EXCEPT !.stage = "lost"])
    BY <1>5 DEF Die, InSession, CrashOrDie, Lost, IdleDies
  <2>2. IInv' /\ LastsTo(cycles, cycles') /\ cycle' = cycle
    BY <2>1, DieKept DEF SInv
  <2> QED
    BY <2>1, <2>2, OverSInv
<1>6. ASSUME NEW p \in Procs, RuntimeFails(p) PROVE SInv'
  BY <1>6, ProceedSInv
<1> QED
  BY <1>1, <1>2, <1>3, <1>4, <1>5, <1>6 DEF SessionNext

LEMMA SessionInvariance == SessionSpec => []SInv
BY InitSInv, NextSInv, PTL DEF SessionSpec

-----------------------------------------------------------------------------
(* The theorems *)

LEMMA EarlierCameBack ==
  ASSUME SInv, NEW s \in Sessions, NEW i \in 1 .. Len(sessions[s].runs) - 1
  PROVE  CycleOf(s, i).outcome \in {"executed", "rejected"} /\ GoesOn(sessions[s], cycles, i)
<1> DEFINE x == sessions[s]
<1>1. Good(x, cycles) /\ Shaped(x)
  BY DEF SInv, Good
<1>2. i \in 1 .. Len(x.late) /\ i < Len(x.runs)
  BY <1>1, Lengths DEF Good, Guarded
<1> QED
  BY <1>1, <1>2 DEF Good, CameBack, CycleOf

(***************************************************************************)
(* A session starts no more cycles than its policy allows, and none after  *)
(* one that raised or, under stop_on_reject, was rejected: the guards of   *)
(* AutonomousSessionRunner.run, whatever other processes do and whatever   *)
(* the memory holds.                                                       *)
(***************************************************************************)
THEOREM GuardsHold == SessionSpec => []WithinLimits
<1>1. SInv => WithinLimits
  <2> SUFFICES ASSUME SInv, NEW s \in Sessions
               PROVE  LET policy == Policy(sessions[s])
                          count  == Len(sessions[s].runs)
                      IN  /\ count <= policy.max_steps
                          /\ \A limit \in policy.max_command_count : count <= limit
                          /\ \A i \in 1 .. count - 1 :
                               /\ CycleOf(s, i).outcome \in {"executed", "rejected"}
                               /\ policy.stop_on_reject => CycleOf(s, i).decision.allowed
    BY DEF WithinLimits
  <2>1. Guarded(sessions[s])
    BY DEF SInv, Good
  <2> QED
    BY <2>1, EarlierCameBack DEF Guarded, GoesOn, CycleOf
<1> QED
  BY <1>1, SessionInvariance, PTL

(***************************************************************************)
(* The reason a session gives is the one that held, and its wall clock is  *)
(* overrun by one cycle at most.                                           *)
(***************************************************************************)
THEOREM ReasonsHold == SessionSpec => []StopsForItsReason
<1>1. SInv => StopsForItsReason
  <2> SUFFICES ASSUME SInv, NEW s \in Sessions
               PROVE  LET x == sessions[s]
                          done == Len(x.late)
                          held ==
                            CASE x.reason = "completed"         -> done = Len(Goal(x))
                              [] x.reason = "max_steps_reached" -> done = Policy(x).max_steps /\ done < Len(Goal(x))
                              [] x.reason = "max_command_count_reached" -> Policy(x).max_command_count = {done}
                              [] x.reason = "max_wall_clock_reached" -> TimeOut(x)
                              [] x.reason = "rejected_step"  -> ~ CycleOf(s, done).decision.allowed
                              [] x.reason = "no_candidates"  -> Goal(x)[done + 1] = <<>>
                      IN  /\ \A i \in 1 .. Len(x.runs) - 1 : ~ x.late[i]
                          /\ x.stage = "finished" =>
                               /\ held
                               /\ done > 0 /\ x.late[done] =>
                                    x.reason \in {"max_wall_clock_reached", "rejected_step"}
    BY Zenon DEF StopsForItsReason
  <2>1. \A i \in 1 .. Len(sessions[s].runs) - 1 : ~ sessions[s].late[i]
    BY EarlierCameBack DEF GoesOn
  <2>2. sessions[s].stage = "finished" => Held(sessions[s], cycles)
    BY DEF SInv, Good, Closed
  <2> QED
    BY <2>1, <2>2 DEF Held, Reasons, CycleOf
<1> QED
  BY <1>1, SessionInvariance, PTL

(***************************************************************************)
(* run_command_cycle passes no consent, so whatever candidates a session   *)
(* is given and whatever it remembers, it releases nothing that needs any, *)
(* nor anything with an effect while its lane is strict.                   *)
(***************************************************************************)
THEOREM ConsentNeverBypassed == SessionSpec => []ReleasesWithoutConsent
<1>1. SInv => ReleasesWithoutConsent
  <2> SUFFICES ASSUME SInv, NEW s \in Sessions, NEW i \in 1 .. Len(sessions[s].runs),
                      NEW c, c = sessions[s].runs[i].cycle, cycles[c].released
               PROVE  /\ ~ Capabilities[cycles[c].proposal.action].requires_consent
                      /\ Effect(c) # "none" =>
                           \A b \in 1 .. c :
                             SameProcess(b, c) /\ AtLeast(Score(b), THigh) => Recovered(b, c)
    BY Zenon DEF ReleasesWithoutConsent
  <2> DEFINE prop == cycles[c].proposal
             r == RequestOf(prop, cycles[c].rc_state)
  <2>1. c \in Cycles /\ prop.consent_token = {} /\ IInv
    BY DEF SInv, Good, Consentless, Cycles
  <2>2. /\ cycles[c].rc_state \in RCStates
        /\ cycles[c].decision = Decision(r, c - 1) /\ cycles[c].decision.allowed
    <3>1. cycles[c] \in CycleRecord
      BY <2>1, CyclesLength DEF IInv, CycleInv, Cycles
    <3> QED
      BY <2>1, <3>1 DEF IInv, CycleInv, Decided, CycleRecord
  <2>3. /\ r.rc_state = cycles[c].rc_state /\ r.effect = Effect(c) /\ r.action = prop.action
        /\ r.consent_token = {}
    BY <2>1 DEF RequestOf, Effect
  <2> HIDE DEF r
  <2>4. RequiresConsent(r) => HasConsent(r, c - 1)
    <3>1. Reason(r, c - 1) = "allowed"
      BY <2>2, AllowedReason
    <3> QED
      BY <3>1, ReasonAllowed
  <2>5. ~ RequiresConsent(r)
    BY <2>3, <2>4 DEF HasConsent
  <2>6. ~ Capabilities[prop.action].requires_consent
    BY <2>3, <2>5 DEF RequiresConsent
  <2>7. ASSUME Effect(c) # "none"
        PROVE  \A b \in 1 .. c :
                 SameProcess(b, c) /\ AtLeast(Score(b), THigh) => Recovered(b, c)
    <3>1. cycles[c].rc_state = "NORMAL"
      BY <2>2, <2>3, <2>5, <2>7 DEF RequiresConsent, StrictMode, RCStates
    <3>2. StrictAfter(cycles, cycles[c].proc, c, cycles[c].rc_state)
      BY <2>1 DEF IInv, CycleInv, Remembers, Remembered
    <3>3. ASSUME NEW b \in 1 .. c, SameProcess(b, c), AtLeast(Score(b), THigh), ~ Recovered(b, c)
          PROVE  FALSE
      <4>1. \A d \in b + 1 .. c : cycles[d].proc = cycles[c].proc
              => ~ AtMost(cycles[d].proposal.score, TLow)
        BY <3>3 DEF Recovered, SameProcess, Score
      <4> QED
        BY <3>1, <3>2, <3>3, <4>1 DEF StrictAfter, SameProcess, Score
    <3> QED
      BY <3>3
  <2> QED
    BY <2>6, <2>7
<1> QED
  BY <1>1, SessionInvariance, PTL

-----------------------------------------------------------------------------
(* A torn memory                                                           *)
(*                                                                         *)
(* Once a line does not parse no session reads the memory, so the only one *)
(* that still starts a cycle has read all it wanted (Ready), and then it   *)
(* is not ready any more.                                                  *)

Ready(x) == x.stage = "ranking" /\ Len(x.scores) = Len(Candidates(x))

\* Session s, whose record is x, since the torn line.
HaltedBy(line, s, x) ==
  /\ \A k \in 1 .. Len(x.runs) :
       x.runs[k].cycle > line.cycles => k = Len(x.runs) /\ ~ Ready(x)
  /\ s > line.sessions =>
       /\ ~ Ready(x) /\ x.stage # "finished"
       /\ \A k \in 1 .. Len(x.runs) : ~ (x.runs[k].cycle > line.cycles)

Halted(line, ss) ==
  /\ line.sessions <= Len(ss)
  /\ \A s \in 1 .. Len(ss) : HaltedBy(line, s, ss[s])

MemoryInv ==
  /\ IsSequence(memory) /\ (memoryOpen => memory # <<>>)
  /\ \A i \in 1 .. Len(memory) : memory[i].event = "torn" =>
       memory[i].sessions \in Nat /\ Halted(memory[i], sessions)

\* What a step makes of a session while the memory does not parse.
Calm(x, y) ==
  \/ y.runs = x.runs /\ (Ready(y) => Ready(x)) /\ (y.stage = "finished" => x.stage = "finished")
  \/ /\ Ready(x) /\ y.stage = "cycle"
     /\ \E run \in [plan : Nat, cycle : Nat] : y.runs = Append(x.runs, run)

LEMMA CalmHalted ==
  ASSUME NEW line, NEW s, NEW x, NEW y, Shaped(x), HaltedBy(line, s, x), Calm(x, y)
  PROVE  HaltedBy(line, s, y)
<1>1. CASE /\ y.runs = x.runs /\ (Ready(y) => Ready(x))
           /\ y.stage = "finished" => x.stage = "finished"
  BY <1>1 DEF HaltedBy
<1>2. ASSUME Ready(x), y.stage = "cycle",
             NEW run \in [plan : Nat, cycle : Nat], y.runs = Append(x.runs, run)
      PROVE  HaltedBy(line, s, y)
  <2>1. /\ Len(x.runs) \in Nat /\ Len(y.runs) = Len(x.runs) + 1
        /\ \A k \in 1 .. Len(x.runs) : y.runs[k] = x.runs[k]
    BY <1>2, AppendProperties, Lengths DEF Shaped
  <2>2. \A k \in 1 .. Len(y.runs) : k \in 1 .. Len(x.runs) \/ k = Len(y.runs)
    BY <2>1
  <2> QED
    BY <1>2, <2>1, <2>2 DEF HaltedBy, Ready
<1> QED
  BY <1>1, <1>2 DEF Calm

\* The sessions before and after a step: none is lost, and a new one has done
\* nothing yet.
Fresh(x) == x.runs = <<>> /\ x.stage \in {"loop", "raised"}

Grown ==
  /\ Len(sessions) \in Nat /\ Len(sessions') \in Nat /\ Len(sessions) <= Len(sessions')
  /\ \A s \in 1 .. Len(sessions') : s > Len(sessions) => Fresh(sessions'[s])

Calmed ==
  \A s \in 1 .. Len(sessions) : Calm(sessions[s], sessions'[s])

LEMMA SameCalm ==
  ASSUME NEW x
  PROVE  Calm(x, x)
BY DEF Calm

LEMMA UpdatedGrown ==
  ASSUME SInv, NEW p \in Procs, session[p] # 0, NEW y, Update(p, y)
  PROVE  /\ Grown
         /\ Calm(sessions[session[p]], y) => Calmed
<1>1. session[p] \in 1 .. Len(sessions) /\ Len(sessions) \in Nat /\ IsSequence(sessions)
  BY SessionsLength DEF SInv
<1>2. sessions' = [sessions EXCEPT ![session[p]] = y]
  BY DEF Update
<1>3. \A e : LET t == [sessions EXCEPT ![session[p]] = e]
             IN  /\ Len(t) = Len(sessions)
                 /\ \A i \in 1 .. Len(sessions) :
                      t[i] = IF i = session[p] THEN e ELSE sessions[i]
  BY <1>1, ReplaceItem
<1>4. /\ Len(sessions') = Len(sessions)
      /\ \A i \in 1 .. Len(sessions) :
           sessions'[i] = IF i = session[p] THEN y ELSE sessions[i]
  BY <1>2, <1>3
<1>5. Grown
  BY <1>1, <1>4 DEF Grown
<1>6. Calm(sessions[session[p]], y) => Calmed
  BY <1>4, SameCalm DEF Calmed
<1> QED
  BY <1>5, <1>6

LEMMA UnchangedGrown ==
  ASSUME SInv, sessions' = sessions
  PROVE  Grown /\ Calmed
BY SessionsLength, SameCalm DEF SInv, Grown, Calmed

LEMMA BeginGrown ==
  ASSUME SInv, NEW p \in Procs, NEW call \in DOMAIN Calls, NEW stage \in {"loop", "raised"},
         Begin(p, call, stage)
  PROVE  Grown /\ Calmed
<1> DEFINE x == [call |-> call, stage |-> stage, elapsed |-> 0, scores |-> <<>>, runs |-> <<>>,
                 late |-> <<>>, reason |-> "completed"]
           n == Len(sessions)
<1>1. sessions' = Append(sessions, x)
  BY DEF Begin
<1>2. Fresh(x)
  BY DEF Fresh
<1> HIDE DEF x
<1>3. /\ n \in Nat /\ Len(sessions') = n + 1
      /\ \A i \in 1 .. n : sessions'[i] = sessions[i]
      /\ sessions'[n + 1] = x
  BY <1>1, RuntimeAssumption, Ledger!AppendLine DEF SInv, IsSequence, Ledger!IsSequence
<1>4. \A s \in 1 .. n + 1 : s > n => s = n + 1
  BY <1>3
<1> QED
  BY <1>2, <1>3, <1>4, SameCalm DEF Grown, Calmed

\* The steps that do not look at the memory, or were done looking.
LEMMA RestagedCalm ==
  ASSUME SInv, NEW p \in Procs, session[p] # 0, NEW y, Update(p, y),
         y.runs = sessions[session[p]].runs,
         y.stage \notin {"ranking", "finished"}
  PROVE  Grown /\ Calmed
BY UpdatedGrown DEF Calm, Ready

LEMMA TickCalm ==
  ASSUME SInv, NEW p \in Procs, Tick(p)
  PROVE  Grown /\ Calmed
<1> DEFINE x == sessions[session[p]]
           y == [x EXCEPT !.elapsed = @ + 1]
<1>1. session[p] # 0 /\ x.stage \in {"loop", "cycle"} /\ Update(p, y)
  BY DEF Tick, At
<1>2. y.runs = x.runs /\ y.stage = x.stage
  BY <1>1, OwnSession DEF Shaped
<1> HIDE DEF y
<1> QED
  BY <1>1, <1>2, RestagedCalm

\* A step that has candidates is ready when all of them have a score.
LEMMA PlannedUnready ==
  ASSUME NEW x, Shaped(x), StopBefore(x) = "none"
  PROVE  LET y == [x EXCEPT !.stage = "ranking", !.scores = <<>>]
         IN  y.runs = x.runs /\ y.stage = "ranking" /\ ~ Ready(y)
<1> DEFINE y == [x EXCEPT !.stage = "ranking", !.scores = <<>>]
<1>1. y.runs = x.runs /\ y.stage = "ranking" /\ y.scores = <<>> /\ y.call = x.call /\ y.late = x.late
  BY DEF Shaped
<1> HIDE DEF y
<1>2. Candidates(y) = Candidates(x)
  BY <1>1 DEF Candidates, Goal
<1>3. Len(Candidates(x)) # 0
  <2>1. Len(x.late) < Len(Goal(x)) /\ Candidates(x) # <<>>
    BY PassedGuards
  <2>2. Len(x.late) \in Nat /\ Len(Goal(x)) \in Nat
    BY Lengths, CallTypes
  <2>3. Len(x.late) + 1 \in 1 .. Len(Goal(x))
    BY <2>1, <2>2
  <2>4. IsSequence(Candidates(x))
    BY <2>3, CallTypes DEF Candidates
  <2> QED
    BY <2>1, <2>4, RuntimeAssumption, Ledger!SequenceLength DEF IsSequence, Ledger!IsSequence
<1>4. ~ Ready(y)
  BY <1>1, <1>2, <1>3, EmptySeq DEF Ready
<1> QED
  BY <1>1, <1>4 DEF y

LEMMA PlanCalm ==
  ASSUME SInv, NEW p \in Procs, PlanRollouts(p)
  PROVE  Grown /\ Calmed
<1> DEFINE x == sessions[session[p]]
           y == [x EXCEPT !.stage = "ranking", !.scores = <<>>]
<1>1. session[p] # 0 /\ StopBefore(x) = "none" /\ Update(p, y)
  BY DEF PlanRollouts, At
<1>2. y.runs = x.runs /\ y.stage = "ranking" /\ ~ Ready(y)
  BY <1>1, OwnSession, PlannedUnready
<1> HIDE DEF y
<1> QED
  BY <1>1, <1>2, UpdatedGrown DEF Calm

LEMMA StartCycleCalm ==
  ASSUME SInv, NEW p \in Procs, StartCycle(p)
  PROVE  Grown /\ Calmed
<1> DEFINE x == sessions[session[p]]
<1>1. PICK plan \in Chosen(p), prop \in Proposals :
        /\ Decides(p, prop)
        /\ Update(p, [x EXCEPT !.stage = "cycle",
                               !.runs = Append(@, [plan |-> plan, cycle |-> cycle'[p]])])
  BY DEF StartCycle, Decides
<1>2. /\ session[p] # 0 /\ Ready(x) /\ plan \in DOMAIN Candidates(x)
  BY DEF Chosen, At, Ready
<1>3. Good(x, cycles) /\ Shaped(x)
  BY <1>2, OwnSession
<1>4. cycle'[p] \in Nat
  BY <1>1, DecideLasts DEF SInv
<1>5. plan \in Nat
  <2>1. Len(x.late) < Len(Goal(x)) /\ Len(x.late) \in Nat /\ Len(Goal(x)) \in Nat
    BY <1>2, <1>3, PassedGuards, Lengths, CallTypes DEF Good, Guarded, Ready
  <2>2. Len(x.late) + 1 \in 1 .. Len(Goal(x))
    BY <2>1
  <2>3. DOMAIN Candidates(x) = 1 .. Len(Candidates(x)) /\ Len(Candidates(x)) \in Nat
    BY <1>3, <2>2, CallTypes DEF Candidates
  <2> QED
    BY <1>2, <2>3
<1> DEFINE run == [plan |-> plan, cycle |-> cycle'[p]]
           y == [x EXCEPT !.stage = "cycle", !.runs = Append(@, run)]
<1>6. Update(p, y)
  BY <1>1
<1>7. y.stage = "cycle" /\ y.runs = Append(x.runs, run)
  BY <1>3 DEF Shaped
<1>8. run \in [plan : Nat, cycle : Nat]
  BY <1>4, <1>5
<1> HIDE DEF y, run
<1>9. Calm(x, y)
  BY <1>2, <1>7, <1>8 DEF Calm
<1> QED
  BY <1>2, <1>6, <1>9, UpdatedGrown

\* The two steps that read the memory.
LEMMA ReadersGrown ==
  ASSUME SInv, NEW p \in Procs, ScoreNext(p) \/ Summarize(p)
  PROVE  Grown /\ MemoryReadable
<1>1. session[p] # 0 /\ MemoryReadable /\ \E y : Update(p, y)
  BY Zenon DEF ScoreNext, Summarize, At
<1> QED
  BY <1>1, UpdatedGrown

LEMMA StepGrown ==
  ASSUME SInv, [SessionNext]_allVars
  PROVE  Grown /\ (~ MemoryReadable => Calmed)
<1>1. CASE UNCHANGED allVars
  BY <1>1, UnchangedGrown DEF allVars, sessionVars
<1>2. ASSUME NEW p \in Procs, NEW call \in DOMAIN Calls,
             StartSession(p, call) \/ StartSessionRaises(p, call)
      PROVE  Grown /\ Calmed
  BY <1>2, BeginGrown DEF StartSession, StartSessionRaises
<1>3. ASSUME NEW p \in Procs, session[p] # 0, Fail(p)
      PROVE  Grown /\ Calmed
  <2> DEFINE x == sessions[session[p]]
             y == [x EXCEPT !.stage = "raised"]
  <2>1. Update(p, y)
    BY <1>3 DEF Fail
  <2>2. y.runs = x.runs /\ y.stage = "raised"
    BY <1>3, OwnSession DEF Shaped
  <2> HIDE DEF y
  <2> QED
    BY <1>3, <2>1, <2>2, RestagedCalm
<1>4. ASSUME NEW p \in Procs, NEW stage \in {"summarising", "lost"}, session[p] # 0,
             Update(p, [sessions[session[p]] EXCEPT !.stage = stage])
      PROVE  Grown /\ Calmed
  <2> DEFINE x == sessions[session[p]]
             y == [x EXCEPT !.stage = stage]
  <2>1. Update(p, y)
    BY <1>4
  <2>2. y.runs = x.runs /\ y.stage = stage
    BY <1>4, OwnSession DEF Shaped
  <2> HIDE DEF y
  <2> QED
    BY <1>4, <2>1, <2>2, RestagedCalm
<1>5. ASSUME NEW p \in Procs, StopLoop(p) PROVE Grown /\ Calmed
  <2> DEFINE x == sessions[session[p]]
             y == [x EXCEPT !.stage = "closing", !.reason = StopBefore(x)]
  <2>1. session[p] # 0 /\ Update(p, y)
    BY <1>5 DEF StopLoop, At
  <2>2. y.runs = x.runs /\ y.stage = "closing"
    BY <2>1, OwnSession DEF Shaped
  <2> HIDE DEF y
  <2> QED
    BY <2>1, <2>2, RestagedCalm
<1>6. ASSUME NEW p \in Procs, CycleReturns(p) PROVE Grown /\ Calmed
  <2> DEFINE x == sessions[session[p]]
             reason == StopAfter(p, x)
             y == [x EXCEPT !.late = Append(@, TimeOut(x)),
                            !.stage = IF reason = "none" THEN "loop" ELSE "closing",
                            !.reason = IF reason = "none" THEN @ ELSE reason]
  <2>1. session[p] # 0 /\ Update(p, y)
    BY <1>6 DEF CycleReturns, Returned, At
  <2>2. y.runs = x.runs /\ y.stage \in {"loop", "closing"}
    BY <2>1, OwnSession DEF Shaped
  <2> HIDE DEF y
  <2> QED
    BY <2>1, <2>2, RestagedCalm
<1>7. ASSUME NEW p \in Procs, Advance(p) PROVE Grown /\ (~ MemoryReadable => Calmed)
  <2>1. session[p] # 0
    BY <1>7 DEF Advance, InSession
  <2>2. CASE PlanRolloutsRaises(p) \/ ScoreNextRaises(p) \/ CycleRaises(p) \/ CycleReturnsTorn(p)
               \/ FinalizeTorn(p) \/ SummarizeRaises(p)
    BY <1>3, <2>1, <2>2 DEF PlanRolloutsRaises, ScoreNextRaises, CycleRaises,
       CycleReturnsTorn, FinalizeTorn, SummarizeRaises, Raise
  <2>3. CASE CycleRefused(p)
    <3>1. Fail(p)
      BY <2>3 DEF CycleRefused, Raise
    <3> QED
      BY <1>3, <2>1, <3>1
  <2>4. CASE StopLoop(p) \/ CycleReturns(p)
    BY <1>5, <1>6, <2>4
  <2>5. CASE PlanRollouts(p) \/ StartCycle(p)
    BY <2>5, PlanCalm, StartCycleCalm
  <2>6. CASE ScoreNext(p) \/ Summarize(p)
    BY <2>6, ReadersGrown
  <2>7. CASE Finalize(p)
    BY <1>4, <2>1, <2>7 DEF Finalize
  <2>8. CASE RuntimeProceeds(p)
    BY <2>8, UnchangedGrown DEF RuntimeProceeds, sessionVars
  <2> QED
    BY <1>7, <2>2, <2>3, <2>4, <2>5, <2>6, <2>7, <2>8 DEF Advance
<1>8. ASSUME NEW p \in Procs, Tick(p) PROVE Grown /\ Calmed
  BY <1>8, TickCalm
<1>9. ASSUME NEW p \in Procs, Die(p) PROVE Grown /\ Calmed
  BY <1>4, <1>9 DEF Die, InSession
<1>10. ASSUME NEW p \in Procs, RuntimeFails(p) PROVE Grown /\ Calmed
  BY <1>10, UnchangedGrown DEF RuntimeFails, sessionVars
<1> QED
  BY <1>1, <1>2, <1>7, <1>8, <1>9, <1>10 DEF SessionNext

\* What a step does to the memory.
MemoryStep ==
  \/ memory' = memory /\ (memoryOpen' => memoryOpen \/ memory # <<>>)
  \/ /\ cycles' = cycles
     /\ \E line : /\ line = TornLine \/ line.event # "torn"
                 /\ memory' = Append(memory, line)
  \/ /\ cycles' = cycles
     /\ memory # <<>> /\ memory' = WithLast(memory, TornLine)

LEMMA RememberStep ==
  ASSUME MemoryInv, UNCHANGED vars, NEW record, record.event # "torn",
         Remember(record) \/ RememberTorn(record)
  PROVE  MemoryStep
<1>1. cycles' = cycles
  BY DEF vars
<1>2. CASE ~ memoryOpen
  BY <1>1, <1>2 DEF MemoryStep, Remember, RememberTorn, memoryVars
<1>3. CASE memoryOpen
  <2>1. memory # <<>> /\ (memory' = memory \/ memory' = WithLast(memory, TornLine))
    BY <1>3, Zenon DEF MemoryInv, Remember, RememberTorn, RunOn, memoryVars
  <2> QED
    BY <1>1, <2>1 DEF MemoryStep
<1> QED
  BY <1>2, <1>3 DEF MemoryInv, IsSequence

LEMMA StepMemory ==
  ASSUME SInv, MemoryInv, [SessionNext]_allVars
  PROVE  MemoryStep
<1>1. CASE UNCHANGED allVars
  BY <1>1 DEF allVars, sessionVars, memoryVars, MemoryStep
<1>2. ASSUME NEW p \in Procs, NEW call \in DOMAIN Calls,
             StartSession(p, call) \/ StartSessionRaises(p, call)
      PROVE  MemoryStep
  <2>1. UNCHANGED vars /\ (Remember(StartRecord) \/ RememberTorn(StartRecord))
    BY <1>2 DEF StartSession, StartSessionRaises, Begin
  <2>2. StartRecord.event # "torn"
    BY DEF StartRecord
  <2> QED
    BY <2>1, <2>2, RememberStep
<1>3. ASSUME NEW p \in Procs, Advance(p) PROVE MemoryStep
  <2>1. CASE StopLoop(p) \/ PlanRollouts(p) \/ PlanRolloutsRaises(p) \/ ScoreNext(p)
               \/ ScoreNextRaises(p) \/ CycleRaises(p) \/ Summarize(p) \/ SummarizeRaises(p)
    BY <2>1 DEF MemoryStep, StopLoop, PlanRollouts, PlanRolloutsRaises, ScoreNext,
       ScoreNextRaises, CycleRaises, Summarize, SummarizeRaises, Raise, memoryVars
  <2>2. CASE StartCycle(p) \/ CycleRefused(p) \/ RuntimeProceeds(p)
    BY <2>2, Zenon DEF MemoryStep, StartCycle, CycleRefused, RuntimeProceeds, Raise, sessionVars,
       memoryVars
  <2>3. CASE CycleReturns(p) \/ CycleReturnsTorn(p)
    <3> DEFINE record == StepRecord(p, sessions[session[p]])
    <3>1. UNCHANGED vars /\ (Remember(record) \/ RememberTorn(record))
      BY <2>3, Zenon DEF CycleReturns, CycleReturnsTorn
    <3>2. record.event # "torn"
      BY DEF StepRecord
    <3> QED
      BY <3>1, <3>2, RememberStep
  <2>4. CASE Finalize(p) \/ FinalizeTorn(p)
    <3>1. UNCHANGED vars /\ (Remember(FinishRecord(p)) \/ RememberTorn(FinishRecord(p)))
      BY <2>4, Zenon DEF Finalize, FinalizeTorn
    <3>2. FinishRecord(p).event # "torn"
      BY DEF FinishRecord
    <3> QED
      BY <3>1, <3>2, RememberStep
  <2> QED
    BY <1>3, <2>1, <2>2, <2>3, <2>4 DEF Advance
<1>4. ASSUME NEW p \in Procs, Tick(p) \/ Die(p) \/ RuntimeFails(p) PROVE MemoryStep
  BY <1>4 DEF MemoryStep, Tick, Die, RuntimeFails, sessionVars, memoryVars
<1> QED
  BY <1>1, <1>2, <1>3, <1>4 DEF SessionNext

\* A line that was there.
LEMMA StillHalted ==
  ASSUME SInv, NEW line, line.sessions \in Nat, Halted(line, sessions), Grown, Calmed
  PROVE  Halted(line, sessions')
<1>1. ASSUME NEW s \in 1 .. Len(sessions') PROVE HaltedBy(line, s, sessions'[s])
  <2>1. CASE s \in 1 .. Len(sessions)
    <3>1. /\ Shaped(sessions[s]) /\ HaltedBy(line, s, sessions[s])
          /\ Calm(sessions[s], sessions'[s])
      BY <2>1 DEF SInv, Good, Sessions, Halted, Calmed
    <3> QED
      BY <3>1, CalmHalted
  <2>2. CASE s \notin 1 .. Len(sessions)
    <3>1. Fresh(sessions'[s]) /\ Len(<<>>) = 0
      BY <2>2, EmptySeq DEF Grown
    <3> QED
      BY <3>1 DEF HaltedBy, Ready, Fresh
  <2> QED
    BY <2>1, <2>2
<1> QED
  BY <1>1 DEF Halted, Grown

\* A line that came to be torn in this step.
LEMMA NewlyHalted ==
  ASSUME SInv, SInv', cycles' = cycles, Grown
  PROVE  /\ TornLine.sessions \in Nat
         /\ Halted(TornLine, sessions')
<1>1. /\ TornLine.cycles = Len(cycles) /\ TornLine.sessions = Len(sessions)
      /\ Len(cycles) \in Nat /\ Len(sessions) \in Nat
  BY CyclesLength DEF TornLine, Grown, SInv, IInv, CycleInv
<1>2. ASSUME NEW s \in 1 .. Len(sessions') PROVE HaltedBy(TornLine, s, sessions'[s])
  <2>1. Consentless(sessions'[s], cycles)
    BY DEF SInv, Good, Sessions
  <2>2. \A k \in 1 .. Len(sessions'[s].runs) :
          ~ (sessions'[s].runs[k].cycle > TornLine.cycles)
    BY <1>1, <2>1 DEF Consentless
  <2>3. s > TornLine.sessions => Fresh(sessions'[s])
    BY <1>1 DEF Grown
  <2> QED
    BY <2>2, <2>3 DEF HaltedBy, Fresh, Ready
<1> QED
  BY <1>1, <1>2 DEF Halted, Grown

LEMMA NextMemoryInv ==
  ASSUME SInv, MemoryInv, [SessionNext]_allVars
  PROVE  MemoryInv'
<1>1. SInv' /\ Grown /\ (~ MemoryReadable => Calmed) /\ MemoryStep
  BY NextSInv, StepGrown, StepMemory
<1> DEFINE n == Len(memory)
<1>2. n \in Nat /\ DOMAIN memory = 1 .. n /\ (n = 0 <=> memory = <<>>) /\ IsSequence(memory)
  BY RuntimeAssumption, Ledger!SequenceLength DEF MemoryInv, IsSequence, Ledger!IsSequence
<1>3. ASSUME NEW i \in 1 .. n, memory[i].event = "torn"
      PROVE  memory[i].sessions \in Nat /\ Halted(memory[i], sessions')
  <2>1. /\ memory[i].sessions \in Nat /\ Halted(memory[i], sessions) /\ Calmed
    BY <1>1, <1>2, <1>3 DEF MemoryInv, MemoryReadable
  <2> QED
    BY <1>1, <2>1, StillHalted
<1>4. CASE memory' = memory /\ (memoryOpen' => memoryOpen \/ memory # <<>>)
  BY <1>2, <1>3, <1>4 DEF MemoryInv
<1>5. ASSUME cycles' = cycles, NEW line, line = TornLine \/ line.event # "torn",
             memory' = Append(memory, line)
      PROVE  MemoryInv'
  <2>1. /\ IsSequence(memory') /\ Len(memory') = n + 1
        /\ \A i \in 1 .. n : memory'[i] = memory[i]
        /\ memory'[n + 1] = line
    BY <1>2, <1>5, RuntimeAssumption, Ledger!AppendLine DEF IsSequence, Ledger!IsSequence
  <2>2. line.event = "torn" => line.sessions \in Nat /\ Halted(line, sessions')
    BY <1>1, <1>5, NewlyHalted
  <2>3. \A i \in 1 .. n + 1 : i \in 1 .. n \/ i = n + 1
    BY <1>2
  <2>4. memory' # <<>>
    BY <1>2, <2>1, EmptySeq
  <2> QED
    BY <1>3, <2>1, <2>2, <2>3, <2>4 DEF MemoryInv
<1>6. ASSUME cycles' = cycles, memory # <<>>, memory' = WithLast(memory, TornLine)
      PROVE  MemoryInv'
  <2>1. n \in 1 .. n
    BY <1>2, <1>6
  <2>2. \A e : LET t == [memory EXCEPT ![n] = e]
               IN  /\ IsSequence(t) /\ Len(t) = n
                   /\ \A i \in 1 .. n : t[i] = IF i = n THEN e ELSE memory[i]
    BY <1>2, <2>1, ReplaceItem
  <2>3. memory' = [memory EXCEPT ![n] = TornLine]
    BY <1>6 DEF WithLast
  <2>4. /\ IsSequence(memory') /\ Len(memory') = n
        /\ \A i \in 1 .. n : memory'[i] = IF i = n THEN TornLine ELSE memory[i]
    BY <2>2, <2>3
  <2>5. TornLine.sessions \in Nat /\ Halted(TornLine, sessions')
    BY <1>1, <1>6, NewlyHalted
  <2>6. memory' # <<>>
    <3>1. Len(memory') # 0 /\ Len(<<>>) = 0
      BY <1>2, <1>6, <2>4, EmptySeq
    <3> QED
      BY <3>1
  <2> QED
    BY <1>3, <2>4, <2>5, <2>6 DEF MemoryInv
<1> QED
  BY <1>1, <1>4, <1>5, <1>6 DEF MemoryStep

LEMMA InitMemoryInv == SessionInit => MemoryInv
BY EmptySeq DEF SessionInit, MemoryInv, IsSequence

(***************************************************************************)
(* From the moment a line of session_memory.jsonl does not parse, sessions *)
(* that begin run nothing, and one that was under way runs at most the     *)
(* command it had chosen, for any number of sessions and processes.        *)
(***************************************************************************)
THEOREM TornMemoryHolds == SessionSpec => []TornMemoryStops
<1>1. SInv /\ MemoryInv => TornMemoryStops
  <2> SUFFICES ASSUME SInv, MemoryInv, NEW i \in DOMAIN memory, memory[i].event = "torn",
                      NEW s \in Sessions
               PROVE  LET after == {k \in DOMAIN sessions[s].runs :
                                      sessions[s].runs[k].cycle > memory[i].cycles}
                      IN  /\ Cardinality(after) <= 1
                          /\ s > memory[i].sessions => after = {} /\ sessions[s].stage # "finished"
    BY DEF TornMemoryStops
  <2> DEFINE x == sessions[s]
             after == {k \in DOMAIN x.runs : x.runs[k].cycle > memory[i].cycles}
  <2>1. i \in 1 .. Len(memory)
    BY RuntimeAssumption, Ledger!SequenceLength DEF MemoryInv, IsSequence, Ledger!IsSequence
  <2>2. HaltedBy(memory[i], s, x)
    BY <2>1 DEF MemoryInv, Halted, Sessions
  <2>3. DOMAIN x.runs = 1 .. Len(x.runs)
    BY LenProperties DEF SInv, Good, Shaped, Sessions
  <2>4. after \in SUBSET {Len(x.runs)}
    BY <2>2, <2>3 DEF HaltedBy
  <2>5. Cardinality(after) <= 1
    <3>1. IsFiniteSet({Len(x.runs)}) /\ Cardinality({Len(x.runs)}) = 1
      BY FS_Singleton
    <3> HIDE DEF after
    <3> QED
      BY <2>4, <3>1, FS_Subset
  <2>6. s > memory[i].sessions => after = {} /\ x.stage # "finished"
    BY <2>2, <2>3 DEF HaltedBy
  <2> QED
    BY <2>5, <2>6
<1> QED
  BY <1>1, InitSInv, InitMemoryInv, NextSInv, NextMemoryInv, PTL DEF SessionSpec

-----------------------------------------------------------------------------
(* The planner's scores and the bias, as numbers *)

Ratable(candidates) ==
  /\ Len(candidates) \in Nat /\ DOMAIN candidates = 1 .. Len(candidates)
  /\ \A j \in 1 .. Len(candidates) :
       candidates[j].viability \in Int /\ candidates[j].valence \in Int

LEMMA CallRatable ==
  ASSUME NEW x, Shaped(x), NEW i \in 1 .. Len(Goal(x))
  PROVE  Ratable(Goal(x)[i])
<1>1. /\ Len(Goal(x)[i]) \in Nat /\ DOMAIN Goal(x)[i] = 1 .. Len(Goal(x)[i])
      /\ IsSequence(Goal(x))
  BY CallTypes, SessionAssumption DEF Goal, Shaped
<1>2. i \in DOMAIN Goal(x)
  BY <1>1, RuntimeAssumption, Ledger!SequenceLength DEF IsSequence, Ledger!IsSequence
<1>3. \A j \in DOMAIN Goal(x)[i] :
        Goal(x)[i][j].viability \in Int /\ Goal(x)[i][j].valence \in Int
  BY <1>2, SessionAssumption DEF Goal, Shaped
<1> QED
  BY <1>1, <1>3 DEF Ratable

\* A set of places has a last one.
LEMMA LastPlace ==
  ASSUME NEW n \in Nat, NEW T \in SUBSET (1 .. n), T # {}
  PROVE  \E j \in T : \A k \in T : k <= j
<1> DEFINE S == {n - j : j \in T}
<1>1. S \in SUBSET Nat /\ S # {}
  <2>1. \A j \in T : j \in 1 .. n /\ n - j \in Nat
    OBVIOUS
  <2>2. S \in SUBSET Nat
    BY <2>1
  <2>3. PICK j \in T : TRUE
    OBVIOUS
  <2>4. n - j \in S
    OBVIOUS
  <2> QED
    BY <2>2, <2>4
<1>2. \E x \in S : \A y \in S : x <= y
  <2> HIDE DEF S
  <2> QED
    BY <1>1, RuntimeAssumption, Ledger!LeastNumber
<1>3. PICK j \in T : \A y \in S : n - j <= y
  BY <1>2
<1>4. \A k \in T : n - j <= n - k
  BY <1>3
<1> QED
  BY <1>3, <1>4

LEMMA ScoreType ==
  ASSUME NEW candidates, Ratable(candidates), NEW i \in 1 .. Len(candidates)
  PROVE  RankingScore(candidates, i) \in Int
<1> DEFINE n == Len(candidates)
           T == {j \in 1 .. n : candidates[j].ref = candidates[i].ref}
<1>1. n \in Nat /\ DOMAIN candidates = 1 .. n
  BY DEF Ratable
<1>2. PICK j \in T : \A k \in T : k <= j
  <2>1. T \in SUBSET (1 .. n) /\ T # {}
    OBVIOUS
  <2> HIDE DEF T
  <2> QED
    BY <1>1, <2>1, LastPlace
<1>3. \E m \in 1 .. n : SignalsOf(candidates, i) = candidates[m]
  <2>1. \E m \in DOMAIN candidates :
          /\ candidates[m].ref = candidates[i].ref
          /\ \A k \in DOMAIN candidates : candidates[k].ref = candidates[i].ref => k <= m
    BY <1>1, <1>2
  <2> QED
    BY <1>1, <2>1 DEF SignalsOf
<1>4. SignalsOf(candidates, i).viability \in Int /\ SignalsOf(candidates, i).valence \in Int
  BY <1>3 DEF Ratable
<1>5. Weights.viability = 3 /\ Weights.valence = 2 /\ BiasUnit \in Int
  BY BiasUnitAssumption DEF Weights
<1> QED
  BY <1>4, <1>5 DEF RankingScore

\* Candidates with one reference have one score.
LEMMA ScoreOfRef ==
  ASSUME NEW candidates, NEW i, NEW j, candidates[i].ref = candidates[j].ref
  PROVE  RankingScore(candidates, i) = RankingScore(candidates, j)
BY DEF RankingScore, SignalsOf

LEMMA TimesMonotone ==
  ASSUME NEW a \in Nat, NEW b \in Int, NEW c \in Int, b <= c
  PROVE  a * b <= a * c
<1>1. a * c - a * b = a * (c - b)
  OBVIOUS
<1>2. c - b \in Nat
  OBVIOUS
<1>3. a * (c - b) \in Nat
  BY <1>2
<1> QED
  BY <1>1, <1>3

LEMMA QuotientBound ==
  ASSUME NEW b \in Nat, NEW n \in Nat \ {0}, NEW x \in Int, - (b * n) <= x, x <= b * n
  PROVE  x \div n \in - b .. b
<1> DEFINE q == x \div n
<1>1. q \in Int /\ n * q <= x /\ x < n * q + n
  OBVIOUS
<1>2. q <= b
  <2> SUFFICES ASSUME b + 1 <= q PROVE FALSE
    BY <1>1
  <2>1. n * (b + 1) <= n * q
    BY <1>1, TimesMonotone
  <2>2. n * (b + 1) = b * n + n
    OBVIOUS
  <2> QED
    BY <1>1, <2>1, <2>2
<1>3. - b <= q
  <2> SUFFICES ASSUME q + 1 <= - b PROVE FALSE
    BY <1>1
  <2>1. n * (q + 1) <= n * (- b)
    BY <1>1, TimesMonotone
  <2>2. n * (q + 1) = n * q + n /\ n * (- b) = - (b * n)
    BY <1>1
  <2> QED
    BY <1>1, <2>1, <2>2
<1> QED
  BY <1>1, <1>2, <1>3

\* The bias is within its unit: the clamp of trajectory_bias never bites.
LEMMA BiasBound ==
  ASSUME IsSequence(memory), NEW ref
  PROVE  Bias(ref) \in - BiasUnit .. BiasUnit
<1> DEFINE records == RecordsOf(ref)
           n == Cardinality(records)
           a == Successes(records)
<1>1. BiasUnit \in Nat /\ 0 \in - BiasUnit .. BiasUnit
  BY BiasUnitAssumption
<1>2. DOMAIN memory = 1 .. Len(memory) /\ Len(memory) \in Nat
  BY RuntimeAssumption, Ledger!SequenceLength DEF IsSequence, Ledger!IsSequence
<1>3. IsFiniteSet(records) /\ n \in Nat
  BY <1>2, OverFinite DEF RecordsOf
<1>4. a \in Nat /\ a <= n
  <2>1. {k \in records : memory[k].allowed} \in SUBSET records
    OBVIOUS
  <2> QED
    BY <1>3, <2>1, FS_Subset, FS_CardinalityType DEF Successes
<1>5. ASSUME records # {}
      PROVE  (BiasUnit * (2 * a - n)) \div n \in - BiasUnit .. BiasUnit
  <2>1. n \in Nat \ {0}
    BY <1>3, <1>5, FS_EmptySet
  <2> HIDE DEF a, n
  <2>2. 2 * a - n \in Int /\ - n <= 2 * a - n /\ 2 * a - n <= n
    BY <1>3, <1>4
  <2>3. BiasUnit * (- n) <= BiasUnit * (2 * a - n) /\ BiasUnit * (2 * a - n) <= BiasUnit * n
    BY <1>1, <2>1, <2>2, TimesMonotone
  <2>4. BiasUnit * (- n) = - (BiasUnit * n) /\ BiasUnit * (2 * a - n) \in Int
    BY <1>1, <2>1, <2>2
  <2> QED
    BY <1>1, <2>1, <2>3, <2>4, QuotientBound
<1> HIDE DEF a, n, records
<1>6. Bias(ref) = IF records = {} THEN 0 ELSE (BiasUnit * (2 * a - n)) \div n
  BY DEF Bias, a, n, records
<1> QED
  BY <1>1, <1>5, <1>6

-----------------------------------------------------------------------------
(* The order rank_candidates gives *)

\* How many candidates are ahead of the i-th.
PlaceOf(candidates, i) == Cardinality({j \in DOMAIN candidates : Ahead(candidates, j, i)})

LEMMA PlaceGrows ==
  ASSUME NEW candidates, Ratable(candidates), NEW i \in 1 .. Len(candidates)
  PROVE  /\ PlaceOf(candidates, i) \in 0 .. Len(candidates) - 1
         /\ \A k \in 1 .. Len(candidates) :
              Ahead(candidates, i, k) => PlaceOf(candidates, i) < PlaceOf(candidates, k)
<1> DEFINE n == Len(candidates)
           Before(k) == {j \in DOMAIN candidates : Ahead(candidates, j, k)}
<1>1. n \in Nat /\ DOMAIN candidates = 1 .. n
  BY DEF Ratable
<1>2. \A j \in 1 .. n : RankingScore(candidates, j) \in Int
  BY ScoreType
<1>3. ~ Ahead(candidates, i, i)
  BY <1>2 DEF Ahead
<1>4. \A k \in 1 .. n : /\ IsFiniteSet(Before(k)) /\ Cardinality(Before(k)) \in Nat
                        /\ Cardinality(Before(k)) <= n
  BY <1>1, OverFinite
<1>5. IsFiniteSet(1 .. n) /\ Cardinality(1 .. n) = n
  BY <1>1, FS_Interval
<1>6. Cardinality(Before(i)) # n
  <2>1. Before(i) \in SUBSET (1 .. n) /\ i \notin Before(i)
    BY <1>1, <1>3
  <2> HIDE DEF Before
  <2> QED
    BY <1>5, <2>1, FS_Subset
<1>7. ASSUME NEW k \in 1 .. n, Ahead(candidates, i, k)
      PROVE  Cardinality(Before(i)) < Cardinality(Before(k))
  <2>1. \A j \in 1 .. n : Ahead(candidates, j, i) => Ahead(candidates, j, k)
    BY <1>2, <1>7 DEF Ahead
  <2>2. Before(i) \in SUBSET Before(k) /\ i \in Before(k) /\ i \notin Before(i)
    BY <1>1, <1>3, <1>7, <2>1
  <2> HIDE DEF Before
  <2>3. Cardinality(Before(i)) <= Cardinality(Before(k)) /\ Cardinality(Before(i)) # Cardinality(Before(k))
    BY <1>4, <2>2, FS_Subset
  <2> QED
    BY <1>4, <2>3
<1>8. \A k : PlaceOf(candidates, k) = Cardinality(Before(k))
  BY DEF PlaceOf
<1> HIDE DEF Before
<1> QED
  BY <1>1, <1>4, <1>6, <1>7, <1>8

LEMMA PlaceDiffers ==
  ASSUME NEW candidates, Ratable(candidates),
         NEW i \in 1 .. Len(candidates), NEW k \in 1 .. Len(candidates),
         PlaceOf(candidates, i) = PlaceOf(candidates, k)
  PROVE  i = k
<1>1. RankingScore(candidates, i) \in Int /\ RankingScore(candidates, k) \in Int
  BY ScoreType
<1>2. Len(candidates) \in Nat
  BY DEF Ratable
<1>3. i # k => Ahead(candidates, i, k) \/ Ahead(candidates, k, i)
  BY <1>1, <1>2 DEF Ahead
<1>4. PlaceOf(candidates, i) \in Int /\ PlaceOf(candidates, k) \in Int
  BY <1>2, PlaceGrows
<1> QED
  BY <1>3, <1>4, PlaceGrows

\* Every candidate has its place in the ranking, and every place its candidate.
LEMMA RankedOnce ==
  ASSUME NEW candidates, Ratable(candidates)
  PROVE  /\ \A j \in 1 .. Len(candidates) :
              \E m \in 1 .. Len(candidates) : RankCandidates(candidates)[m] = j
         /\ \A m \in 1 .. Len(candidates) : RankCandidates(candidates)[m] \in 1 .. Len(candidates)
<1> DEFINE n == Len(candidates)
           f == [i \in 1 .. n |-> PlaceOf(candidates, i)]
<1>1. n \in Nat /\ DOMAIN candidates = 1 .. n
  BY DEF Ratable
<1>2. \A m \in 1 .. n :
        RankCandidates(candidates)[m] = CHOOSE i \in 1 .. n : PlaceOf(candidates, i) = m - 1
  BY <1>1 DEF RankCandidates, PlaceOf
<1>3. ASSUME NEW j \in 1 .. n
      PROVE  \E m \in 1 .. n : RankCandidates(candidates)[m] = j
  <2> DEFINE m == PlaceOf(candidates, j) + 1
  <2>1. m \in 1 .. n /\ PlaceOf(candidates, j) = m - 1
    BY <1>1, PlaceGrows
  <2>2. \A i \in 1 .. n : PlaceOf(candidates, i) = m - 1 <=> i = j
    BY <2>1, PlaceDiffers
  <2> HIDE DEF m
  <2> QED
    BY <1>2, <2>1, <2>2
<1>4. f \in Surjection(1 .. n, 0 .. n - 1)
  <2>1. f \in Injection(1 .. n, 0 .. n - 1)
    BY PlaceGrows, PlaceDiffers DEF Injection, IsInjective
  <2>2. /\ IsFiniteSet(1 .. n) /\ Cardinality(1 .. n) = n
        /\ IsFiniteSet(0 .. n - 1) /\ Cardinality(0 .. n - 1) = n
    <3>1. n \in Int /\ n - 1 \in Int /\ (1 > n <=> n = 0) /\ (0 > n - 1 <=> n = 0)
      BY <1>1
    <3>2. n - 1 + 1 = n /\ (n - 1) - 0 + 1 = n
      BY <1>1
    <3> HIDE DEF n
    <3> QED
      BY <3>1, <3>2, FS_Interval
  <2> HIDE DEF f
  <2> QED
    BY <2>1, <2>2, FS_Injection
<1>5. ASSUME NEW m \in 1 .. n
      PROVE  RankCandidates(candidates)[m] \in 1 .. n
  <2>1. m - 1 \in 0 .. n - 1
    BY <1>1
  <2>2. \E i \in 1 .. n : f[i] = m - 1
    BY <1>4, <2>1 DEF Surjection
  <2>3. \E i \in 1 .. n : PlaceOf(candidates, i) = m - 1
    BY <2>2
  <2> QED
    BY <1>2, <2>3
<1> QED
  BY <1>3, <1>5

-----------------------------------------------------------------------------
(* A session's record, step by step *)

IsFcn(x) == x = [f \in DOMAIN x |-> x[f]]

SameBut(x, y, fields) ==
  \A f \in {"call", "elapsed", "scores", "runs", "late", "reason"} \ fields : y[f] = x[f]

\* What a step makes of the record x of a session: it stops, comes back or
\* ends; its clock moves; it ranks, scores, or starts a cycle.
Moves(x, y) ==
  /\ IsFcn(y)
  /\ \/ /\ SameBut(x, y, {"late", "reason"}) /\ y.stage # "ranking"
        /\ y.reason \in Reasons \cup {x.reason}
     \/ /\ SameBut(x, y, {"elapsed"}) /\ y.stage \in {"loop", "cycle"}
        /\ y.elapsed = x.elapsed + 1
     \/ SameBut(x, y, {"scores"}) /\ y.stage = "ranking" /\ y.scores = <<>>
     \/ /\ SameBut(x, y, {"scores"}) /\ x.stage = "ranking" /\ y.stage = "ranking"
        /\ Len(x.scores) < Len(Candidates(x))
        /\ \E b \in - BiasUnit .. BiasUnit :
             y.scores = Append(x.scores, RankingScore(Candidates(x), Ranked(x)[Len(x.scores) + 1]) + b)
     \/ /\ SameBut(x, y, {"runs"}) /\ Ready(x) /\ y.stage = "cycle"
        /\ \E plan \in DOMAIN Candidates(x), c \in Nat :
             IsPlan(x, plan) /\ y.runs = Append(x.runs, [plan |-> plan, cycle |-> c])

LEMMA EndMoves ==
  ASSUME NEW x, Shaped(x), NEW stage, stage # "ranking"
  PROVE  Moves(x, [x EXCEPT !.stage = stage])
<1> DEFINE y == [x EXCEPT !.stage = stage]
<1>1. IsFcn(y)
  BY DEF IsFcn
<1>2. SameBut(x, y, {"late", "reason"}) /\ y.stage = stage /\ y.reason = x.reason
  BY DEF Shaped, SameBut
<1> QED
  BY <1>1, <1>2 DEF Moves

\* What a step makes of the sessions there were.
Motion ==
  \A s \in 1 .. Len(sessions) : sessions'[s] = sessions[s] \/ Moves(sessions[s], sessions'[s])

LEMMA UpdatedMoves ==
  ASSUME SInv, NEW p \in Procs, session[p] # 0, NEW y, Update(p, y), Moves(sessions[session[p]], y)
  PROVE  Motion
<1>1. session[p] \in 1 .. Len(sessions) /\ IsSequence(sessions)
  BY SessionsLength DEF SInv
<1>2. sessions' = [sessions EXCEPT ![session[p]] = y]
  BY DEF Update
<1>3. \A s \in 1 .. Len(sessions) : sessions'[s] = IF s = session[p] THEN y ELSE sessions[s]
  BY <1>1, <1>2, ReplaceItem
<1> QED
  BY <1>3 DEF Motion

LEMMA StepMoves ==
  ASSUME SInv, IsSequence(memory), [SessionNext]_allVars
  PROVE  Motion
<1>1. ASSUME sessions' = sessions PROVE Motion
  BY <1>1 DEF Motion
<1>2. ASSUME NEW p \in Procs, NEW call \in DOMAIN Calls,
             StartSession(p, call) \/ StartSessionRaises(p, call)
      PROVE  Motion
  <2>1. \E x : sessions' = Append(sessions, x)
    BY <1>2 DEF StartSession, StartSessionRaises, Begin
  <2>2. \A s \in 1 .. Len(sessions) : sessions'[s] = sessions[s]
    BY <2>1, RuntimeAssumption, Ledger!AppendLine DEF SInv, IsSequence, Ledger!IsSequence
  <2> QED
    BY <2>2 DEF Motion
<1>3. ASSUME NEW p \in Procs, NEW stage \in Stages, session[p] # 0, stage # "ranking",
             Update(p, [sessions[session[p]] EXCEPT !.stage = stage])
      PROVE  Motion
  BY <1>3, OwnSession, EndMoves, UpdatedMoves
<1>4. ASSUME NEW p \in Procs, StopLoop(p) PROVE Motion
  <2> DEFINE x == sessions[session[p]]
             y == [x EXCEPT !.stage = "closing", !.reason = StopBefore(x)]
  <2>1. session[p] # 0 /\ Update(p, y) /\ StopBefore(x) # "none"
    BY <1>4 DEF StopLoop, At
  <2>2. IsFcn(y) /\ SameBut(x, y, {"late", "reason"}) /\ y.stage = "closing" /\ y.reason = StopBefore(x)
    BY <2>1, OwnSession DEF Shaped, SameBut, IsFcn
  <2>3. StopBefore(x) \in Reasons
    BY <2>1 DEF StopBefore, Reasons
  <2> HIDE DEF y
  <2> QED
    BY <2>1, <2>2, <2>3, UpdatedMoves DEF Moves
<1>5. ASSUME NEW p \in Procs, CycleReturns(p) PROVE Motion
  <2> DEFINE x == sessions[session[p]]
             reason == StopAfter(p, x)
             y == [x EXCEPT !.late = Append(@, TimeOut(x)),
                            !.stage = IF reason = "none" THEN "loop" ELSE "closing",
                            !.reason = IF reason = "none" THEN @ ELSE reason]
  <2>1. session[p] # 0 /\ Update(p, y)
    BY <1>5 DEF CycleReturns, Returned, At
  <2>2. /\ IsFcn(y) /\ SameBut(x, y, {"late", "reason"}) /\ y.stage \in {"loop", "closing"}
        /\ y.reason = IF reason = "none" THEN x.reason ELSE reason
    BY <2>1, OwnSession DEF Shaped, SameBut, IsFcn
  <2>3. reason \in Reasons \cup {"none"}
    BY DEF StopAfter, Reasons
  <2> HIDE DEF y, reason
  <2> QED
    BY <2>1, <2>2, <2>3, UpdatedMoves DEF Moves
<1>6. ASSUME NEW p \in Procs, PlanRollouts(p) PROVE Motion
  <2> DEFINE x == sessions[session[p]]
             y == [x EXCEPT !.stage = "ranking", !.scores = <<>>]
  <2>1. session[p] # 0 /\ Update(p, y)
    BY <1>6 DEF PlanRollouts, At
  <2>2. IsFcn(y) /\ SameBut(x, y, {"scores"}) /\ y.stage = "ranking" /\ y.scores = <<>>
    BY <2>1, OwnSession DEF Shaped, SameBut, IsFcn
  <2> HIDE DEF y
  <2> QED
    BY <2>1, <2>2, UpdatedMoves DEF Moves
<1>7. ASSUME NEW p \in Procs, ScoreNext(p) PROVE Motion
  <2> DEFINE x == sessions[session[p]]
             i == Ranked(x)[Len(x.scores) + 1]
             b == Bias(Candidates(x)[i].ref)
             y == [x EXCEPT !.scores = Append(@, RankingScore(Candidates(x), i) + b)]
  <2>1. /\ session[p] # 0 /\ Update(p, y) /\ x.stage = "ranking"
        /\ Len(x.scores) < Len(Candidates(x))
    BY <1>7 DEF ScoreNext, At
  <2>2. /\ IsFcn(y) /\ SameBut(x, y, {"scores"}) /\ y.stage = x.stage
        /\ y.scores = Append(x.scores, RankingScore(Candidates(x), i) + b)
    BY <2>1, OwnSession DEF Shaped, SameBut, IsFcn
  <2>3. b \in - BiasUnit .. BiasUnit
    BY BiasBound
  <2> HIDE DEF y, b
  <2> QED
    BY <2>1, <2>2, <2>3, UpdatedMoves DEF Moves
<1>8. ASSUME NEW p \in Procs, StartCycle(p) PROVE Motion
  <2> DEFINE x == sessions[session[p]]
  <2>1. PICK plan \in Chosen(p), prop \in Proposals :
          /\ Decides(p, prop)
          /\ Update(p, [x EXCEPT !.stage = "cycle",
                                 !.runs = Append(@, [plan |-> plan, cycle |-> cycle'[p]])])
    BY <1>8 DEF StartCycle, Decides
  <2>2. /\ session[p] # 0 /\ Ready(x) /\ plan \in DOMAIN Candidates(x) /\ IsPlan(x, plan)
    BY DEF Chosen, At, Ready
  <2>3. cycle'[p] \in Nat
    BY <2>1, DecideLasts DEF SInv
  <2> DEFINE y == [x EXCEPT !.stage = "cycle", !.runs = Append(@, [plan |-> plan, cycle |-> cycle'[p]])]
  <2>4. Update(p, y)
    BY <2>1
  <2>5. /\ IsFcn(y) /\ SameBut(x, y, {"runs"}) /\ y.stage = "cycle"
        /\ y.runs = Append(x.runs, [plan |-> plan, cycle |-> cycle'[p]])
    BY <2>2, OwnSession DEF Shaped, SameBut, IsFcn
  <2> HIDE DEF y
  <2>6. Moves(x, y)
    BY <2>2, <2>3, <2>5 DEF Moves
  <2> QED
    BY <2>2, <2>4, <2>6, UpdatedMoves
<1>9. ASSUME NEW p \in Procs, Tick(p) PROVE Motion
  <2> DEFINE x == sessions[session[p]]
             y == [x EXCEPT !.elapsed = @ + 1]
  <2>1. session[p] # 0 /\ x.stage \in {"loop", "cycle"} /\ Update(p, y)
    BY <1>9 DEF Tick, At
  <2>2. IsFcn(y) /\ SameBut(x, y, {"elapsed"}) /\ y.stage = x.stage /\ y.elapsed = x.elapsed + 1
    BY <2>1, OwnSession DEF Shaped, SameBut, IsFcn
  <2> HIDE DEF y
  <2> QED
    BY <2>1, <2>2, UpdatedMoves DEF Moves
<1>10. ASSUME NEW p \in Procs, Advance(p) PROVE Motion
  <2>1. session[p] # 0
    BY <1>10 DEF Advance, InSession
  <2>2. CASE PlanRolloutsRaises(p) \/ ScoreNextRaises(p) \/ CycleRaises(p) \/ CycleReturnsTorn(p)
               \/ FinalizeTorn(p) \/ SummarizeRaises(p)
    BY <1>3, <2>1, <2>2 DEF PlanRolloutsRaises, ScoreNextRaises, CycleRaises,
       CycleReturnsTorn, FinalizeTorn, SummarizeRaises, Raise, Fail, Stages, Over
  <2>3. CASE CycleRefused(p)
    <3>1. Fail(p)
      BY <2>3 DEF CycleRefused, Raise
    <3> QED
      BY <1>3, <2>1, <3>1 DEF Fail, Stages, Over
  <2>4. CASE Finalize(p) \/ Summarize(p)
    BY <1>3, <2>1, <2>4 DEF Finalize, Summarize, Stages, Over
  <2>5. CASE RuntimeProceeds(p)
    BY <1>1, <2>5 DEF RuntimeProceeds, sessionVars
  <2> QED
    BY <1>4, <1>5, <1>6, <1>7, <1>8, <1>10, <2>2, <2>3, <2>4, <2>5 DEF Advance
<1>11. ASSUME NEW p \in Procs, Die(p) PROVE Motion
  BY <1>3, <1>11 DEF Die, InSession, Stages, Over
<1>12. ASSUME NEW p \in Procs, RuntimeFails(p) PROVE Motion
  BY <1>1, <1>12 DEF RuntimeFails, sessionVars
<1>13. CASE UNCHANGED allVars
  BY <1>1, <1>13 DEF allVars, sessionVars
<1> QED
  BY <1>2, <1>9, <1>10, <1>11, <1>12, <1>13 DEF SessionNext

-----------------------------------------------------------------------------
(* The choice *)

NearBest(x, i, plan) ==
  \A j \in DOMAIN Goal(x)[i] :
    RankingScore(Goal(x)[i], j) - RankingScore(Goal(x)[i], plan) <= 2 * BiasUnit

\* A session's numbers: each score so far is the candidate's own within the
\* unit of bias, and so no cycle's plan is far behind another.
Near(x) ==
  /\ IsFcn(x) /\ x.scores \in Seq(Int) /\ x.elapsed \in Nat /\ x.reason \in Reasons
  /\ x.stage = "ranking" =>
       \A m \in 1 .. Len(x.scores) : \E b \in - BiasUnit .. BiasUnit :
         x.scores[m] = RankingScore(Candidates(x), Ranked(x)[m]) + b
  /\ \A i \in 1 .. Len(x.runs) : NearBest(x, i, x.runs[i].plan)

\* While it ranks, a session has its candidates and their order.
LEMMA RankingFacts ==
  ASSUME NEW x, Shaped(x), Guarded(x), x.stage = "ranking"
  PROVE  /\ Ratable(Candidates(x)) /\ Ranked(x) = RankCandidates(Candidates(x))
         /\ Len(x.late) = Len(x.runs) /\ Candidates(x) = Goal(x)[Len(x.runs) + 1]
<1>1. Len(x.late) < Len(Goal(x)) /\ Len(x.late) \in Nat /\ Len(Goal(x)) \in Nat
  BY PassedGuards, Lengths, CallTypes DEF Guarded
<1>2. Len(x.late) + 1 \in 1 .. Len(Goal(x))
  BY <1>1
<1>3. x.call \in DOMAIN Calls /\ IsSequence(Goal(x))
  BY SessionAssumption DEF Shaped, Goal
<1>4. Len(x.late) + 1 \in DOMAIN Calls[x.call].goal
  BY <1>2, <1>3, RuntimeAssumption, Ledger!SequenceLength DEF IsSequence, Ledger!IsSequence, Goal
<1>5. Ranked(x) = RankCandidates(Candidates(x))
  BY <1>3, <1>4 DEF Ranked, Rankings, Candidates, Goal
<1>6. Len(x.late) = Len(x.runs)
  BY DEF Guarded, Looping
<1> QED
  BY <1>2, <1>5, <1>6, CallRatable DEF Candidates

LEMMA PlanNear ==
  ASSUME NEW x, Shaped(x), Guarded(x), Near(x), Ready(x),
         NEW plan \in DOMAIN Candidates(x), IsPlan(x, plan)
  PROVE  NearBest(x, Len(x.runs) + 1, plan)
<1> DEFINE c == Candidates(x)
           n == Len(c)
<1>1. /\ Ratable(c) /\ Ranked(x) = RankCandidates(c) /\ c = Goal(x)[Len(x.runs) + 1]
      /\ n \in Nat /\ DOMAIN c = 1 .. n
  BY RankingFacts DEF Ready, Ratable
<1>2. x.scores \in Seq(Int) /\ Len(x.scores) = n /\ DOMAIN x.scores = 1 .. n
  BY LenProperties DEF Near, Ready
<1>3. \A m \in 1 .. n : /\ x.scores[m] \in Int
                        /\ \E b \in - BiasUnit .. BiasUnit :
                             x.scores[m] = RankingScore(c, Ranked(x)[m]) + b
  BY <1>2, ElementOfSeq DEF Near, Ready
<1>4. PICK k \in 1 .. n : IsBest(x.scores, k) /\ c[Ranked(x)[k]].ref = c[plan].ref
  BY <1>2 DEF IsPlan
<1>5. RankingScore(c, Ranked(x)[k]) = RankingScore(c, plan)
  BY <1>4, ScoreOfRef
<1>6. RankingScore(c, plan) \in Int /\ BiasUnit \in Nat
  BY <1>1, ScoreType, BiasUnitAssumption
<1>7. ASSUME NEW j \in 1 .. n
      PROVE  RankingScore(c, j) - RankingScore(c, plan) <= 2 * BiasUnit
  <2>1. PICK m \in 1 .. n : Ranked(x)[m] = j
    BY <1>1, RankedOnce
  <2>2. RankingScore(c, j) \in Int
    BY <1>1, ScoreType
  <2>3. x.scores[m] <= x.scores[k]
    <3>1. x.scores[m] < x.scores[k] \/ x.scores[m] = x.scores[k]
      BY <1>2, <1>4 DEF IsBest
    <3>2. x.scores[m] \in Int /\ x.scores[k] \in Int
      BY <1>3
    <3> QED
      BY <3>1, <3>2
  <2>4. PICK b \in - BiasUnit .. BiasUnit : x.scores[m] = RankingScore(c, j) + b
    BY <1>3, <2>1
  <2>5. PICK d \in - BiasUnit .. BiasUnit : x.scores[k] = RankingScore(c, plan) + d
    BY <1>3, <1>5
  <2> QED
    BY <1>6, <2>2, <2>3, <2>4, <2>5
<1> QED
  BY <1>1, <1>7 DEF NearBest

LEMMA MovesNear ==
  ASSUME NEW x, NEW y, Shaped(x), Guarded(x), Near(x), Moves(x, y)
  PROVE  Near(y)
<1>0. IsFcn(y)
  BY DEF Moves
<1>1. /\ y.call = x.call /\ Goal(y) = Goal(x)
      /\ y.late = x.late => Candidates(y) = Candidates(x) /\ Ranked(y) = Ranked(x)
  <2>1. y.call = x.call
    BY DEF Moves, SameBut
  <2> QED
    BY <2>1 DEF Goal, Candidates, Ranked
<1>2. \A i, plan : NearBest(y, i, plan) <=> NearBest(x, i, plan)
  BY <1>1 DEF NearBest
<1>3. ASSUME y.runs = x.runs
      PROVE  \A i \in 1 .. Len(y.runs) : NearBest(y, i, y.runs[i].plan)
  BY <1>2, <1>3 DEF Near
<1>4. ASSUME SameBut(x, y, {"late", "reason"}), y.stage # "ranking",
             y.reason \in Reasons \cup {x.reason}
      PROVE  Near(y)
  BY <1>0, <1>3, <1>4 DEF SameBut, Near
<1>5. ASSUME SameBut(x, y, {"elapsed"}), y.stage \in {"loop", "cycle"}, y.elapsed = x.elapsed + 1
      PROVE  Near(y)
  BY <1>0, <1>3, <1>5 DEF SameBut, Near
<1>6. ASSUME SameBut(x, y, {"scores"}), y.stage = "ranking", y.scores = <<>>
      PROVE  Near(y)
  <2>1. y.scores \in Seq(Int) /\ Len(y.scores) = 0
    BY <1>6, EmptySeq
  <2> QED
    BY <1>0, <1>3, <1>6, <2>1 DEF SameBut, Near
<1>7. ASSUME SameBut(x, y, {"scores"}), x.stage = "ranking", y.stage = "ranking",
             Len(x.scores) < Len(Candidates(x)),
             NEW b \in - BiasUnit .. BiasUnit,
             y.scores = Append(x.scores, RankingScore(Candidates(x), Ranked(x)[Len(x.scores) + 1]) + b)
      PROVE  Near(y)
  <2> DEFINE c == Candidates(x)
             n == Len(x.scores)
             new == RankingScore(c, Ranked(x)[n + 1]) + b
  <2>1. Ratable(c) /\ Ranked(x) = RankCandidates(c) /\ Len(c) \in Nat
    BY <1>7, RankingFacts DEF Ratable
  <2>2. x.scores \in Seq(Int) /\ n \in Nat /\ n + 1 \in 1 .. Len(c)
    BY <1>7, <2>1, LenProperties DEF Near
  <2>3. RankingScore(c, Ranked(x)[n + 1]) \in Int
    BY <2>1, <2>2, RankedOnce, ScoreType
  <2>4. new \in Int
    BY <2>3, BiasUnitAssumption
  <2>5. y.scores = Append(x.scores, new)
    BY <1>7
  <2> HIDE DEF new
  <2>6. /\ y.scores \in Seq(Int) /\ Len(y.scores) = n + 1
        /\ \A m \in 1 .. n : y.scores[m] = x.scores[m]
        /\ y.scores[n + 1] = new
    BY <2>2, <2>4, <2>5, AppendProperties
  <2>7. Candidates(y) = c /\ Ranked(y) = Ranked(x)
    BY <1>1, <1>7 DEF SameBut
  <2>8. \A m \in 1 .. n + 1 : m \in 1 .. n \/ m = n + 1
    BY <2>2
  <2>9. ASSUME NEW m \in 1 .. n + 1
        PROVE  \E d \in - BiasUnit .. BiasUnit : y.scores[m] = RankingScore(c, Ranked(x)[m]) + d
    <3>1. CASE m \in 1 .. n
      BY <1>7, <2>6, <3>1 DEF Near
    <3>2. CASE m = n + 1
      BY <2>6, <3>2 DEF new
    <3> QED
      BY <2>8, <3>1, <3>2
  <2>10. y.elapsed = x.elapsed /\ y.reason = x.reason /\ y.runs = x.runs
    BY <1>7 DEF SameBut
  <2> QED
    BY <1>0, <1>3, <2>1, <2>2, <2>6, <2>7, <2>9, <2>10 DEF Near
<1>8. ASSUME SameBut(x, y, {"runs"}), Ready(x), y.stage = "cycle",
             NEW plan \in DOMAIN Candidates(x), NEW c \in Nat, IsPlan(x, plan),
             y.runs = Append(x.runs, [plan |-> plan, cycle |-> c])
      PROVE  Near(y)
  <2> DEFINE run == [plan |-> plan, cycle |-> c]
             n == Len(x.runs)
  <2>1. plan \in Nat
    BY <1>8, RankingFacts DEF Ready, Ratable
  <2>2. run \in [plan : Nat, cycle : Nat] /\ run.plan = plan
    BY <2>1
  <2>3. y.runs = Append(x.runs, run)
    BY <1>8
  <2> HIDE DEF run
  <2>4. /\ Len(y.runs) = n + 1 /\ n \in Nat
        /\ \A i \in 1 .. n : y.runs[i] = x.runs[i]
        /\ y.runs[n + 1] = run
    BY <2>2, <2>3, AppendProperties, Lengths DEF Shaped
  <2>5. \A i \in 1 .. n + 1 : i \in 1 .. n \/ i = n + 1
    BY <2>4
  <2>6. \A i \in 1 .. n : NearBest(x, i, x.runs[i].plan)
    BY DEF Near
  <2>7. NearBest(x, n + 1, plan)
    BY <1>8, PlanNear
  <2>8. \A i \in 1 .. Len(y.runs) : NearBest(y, i, y.runs[i].plan)
    BY <1>2, <2>2, <2>4, <2>5, <2>6, <2>7
  <2> QED
    BY <1>0, <1>8, <2>8 DEF SameBut, Near
<1> QED
  BY <1>4, <1>5, <1>6, <1>7, <1>8 DEF Moves

NearInv == \A s \in Sessions : Near(sessions[s])

LEMMA BegunNear ==
  ASSUME NEW p \in Procs, NEW call \in DOMAIN Calls, NEW stage \in {"loop", "raised"},
         SInv, Begin(p, call, stage)
  PROVE  /\ Len(sessions') = Len(sessions) + 1
         /\ Near(sessions'[Len(sessions) + 1])
<1> DEFINE x == [call |-> call, stage |-> stage, elapsed |-> 0, scores |-> <<>>, runs |-> <<>>,
                 late |-> <<>>, reason |-> "completed"]
<1>1. sessions' = Append(sessions, x)
  BY DEF Begin
<1>2. /\ x.scores = <<>> /\ x.runs = <<>> /\ x.elapsed = 0 /\ x.reason = "completed"
      /\ x.stage # "ranking" /\ IsFcn(x)
  BY DEF IsFcn
<1> HIDE DEF x
<1>3. Near(x)
  <2>1. Len(<<>>) = 0 /\ <<>> \in Seq(Int)
    BY EmptySeq
  <2> QED
    BY <1>2, <2>1 DEF Near, Reasons
<1> QED
  BY <1>1, <1>3, RuntimeAssumption, Ledger!AppendLine DEF SInv, IsSequence, Ledger!IsSequence

\* The sessions of a step: those there were, and the one it begins.
LEMMA StepLength ==
  ASSUME SInv, [SessionNext]_allVars
  PROVE  \/ Len(sessions') = Len(sessions)
         \/ /\ \E p \in Procs, call \in DOMAIN Calls, stage \in {"loop", "raised"} :
                 Begin(p, call, stage)
            /\ Len(sessions') = Len(sessions) + 1
<1>1. ASSUME NEW p \in Procs, session[p] # 0, NEW y, Update(p, y)
      PROVE  Len(sessions') = Len(sessions)
  <2>1. session[p] \in 1 .. Len(sessions) /\ IsSequence(sessions)
    BY <1>1, SessionsLength DEF SInv
  <2>2. sessions' = [sessions EXCEPT ![session[p]] = y]
    BY <1>1 DEF Update
  <2> QED
    BY <2>1, <2>2, ReplaceItem
<1>2. CASE \E p \in Procs, call \in DOMAIN Calls :
             StartSession(p, call) \/ StartSessionRaises(p, call)
  <2>1. PICK p \in Procs, call \in DOMAIN Calls, stage \in {"loop", "raised"} :
          Begin(p, call, stage)
    BY <1>2 DEF StartSession, StartSessionRaises
  <2> QED
    BY <2>1, BegunNear
<1>3. ASSUME NEW p \in Procs, Advance(p) \/ Tick(p) \/ Die(p)
      PROVE  Len(sessions') = Len(sessions)
  <2>1. session[p] # 0
    BY <1>3 DEF Advance, Tick, Die, InSession, At
  <2>2. sessions' = sessions \/ \E y : Update(p, y)
    BY <1>3, Zenon DEF Advance, Tick, Die, StopLoop, PlanRollouts, PlanRolloutsRaises, ScoreNext,
       ScoreNextRaises, StartCycle, CycleRefused, RuntimeProceeds, CycleReturns, CycleReturnsTorn,
       CycleRaises, Finalize, FinalizeTorn, Summarize, SummarizeRaises, Raise, Fail, sessionVars
  <2> QED
    BY <1>1, <2>1, <2>2
<1>4. CASE UNCHANGED allVars \/ \E p \in Procs : RuntimeFails(p)
  BY <1>4 DEF RuntimeFails, allVars, sessionVars
<1> QED
  BY <1>2, <1>3, <1>4 DEF SessionNext

LEMMA NextNearInv ==
  ASSUME SInv, MemoryInv, NearInv, [SessionNext]_allVars
  PROVE  NearInv'
<1>1. Motion
  BY StepMoves DEF MemoryInv
<1>2. Len(sessions) \in Nat
  BY SessionsLength DEF SInv
<1>3. ASSUME NEW s \in 1 .. Len(sessions) PROVE Near(sessions'[s])
  <2>1. Shaped(sessions[s]) /\ Guarded(sessions[s]) /\ Near(sessions[s])
    BY DEF SInv, Good, NearInv, Sessions
  <2> QED
    BY <1>1, <2>1, MovesNear DEF Motion
<1>4. CASE Len(sessions') = Len(sessions)
  BY <1>3, <1>4 DEF NearInv, Sessions
<1>5. ASSUME NEW p \in Procs, NEW call \in DOMAIN Calls, NEW stage \in {"loop", "raised"},
             Begin(p, call, stage)
      PROVE  NearInv'
  <2>1. /\ Len(sessions') = Len(sessions) + 1
        /\ Near(sessions'[Len(sessions) + 1])
    BY <1>5, BegunNear
  <2>2. \A s \in 1 .. Len(sessions') : s \in 1 .. Len(sessions) \/ s = Len(sessions) + 1
    BY <1>2, <2>1
  <2> QED
    BY <1>3, <2>1, <2>2 DEF NearInv, Sessions
<1> QED
  BY <1>4, <1>5, StepLength

LEMMA NearInvariance == SessionSpec => [](SInv /\ MemoryInv /\ NearInv)
<1>1. SessionInit => NearInv
  BY EmptySeq DEF SessionInit, NearInv, Sessions
<1>2. SInv /\ MemoryInv /\ NearInv /\ [SessionNext]_allVars => SInv' /\ MemoryInv' /\ NearInv'
  BY NextSInv, NextMemoryInv, NextNearInv
<1> QED
  BY InitSInv, InitMemoryInv, <1>1, <1>2, PTL DEF SessionSpec

(***************************************************************************)
(* Whatever is in the memory, and whatever other sessions write to it      *)
(* between two of its readings, run chooses a candidate that is within     *)
(* twice the bias of the best in rank: rank_candidates leaves none out,    *)
(* trajectory_bias is within its unit, and max takes the best sum.         *)
(***************************************************************************)
THEOREM ChoiceNearBest == SessionSpec => []SelectsNearBest
<1>1. SInv /\ NearInv => SelectsNearBest
  BY DEF NearInv, Near, NearBest, SelectsNearBest
<1> QED
  BY <1>1, NearInvariance, PTL

-----------------------------------------------------------------------------
(* Types *)

\* A process is inside run_cycle for its session, and for nothing else.
Busy == \A p \in Procs : InCycle(p) => At(p, "cycle")

LEMMA UpdatedBusy ==
  ASSUME SInv, Busy, NEW p \in Procs, session[p] # 0, NEW y, Update(p, y), session' = session,
         \A q \in Procs \ {p} : pc'[q] = pc[q],
         y.stage = "cycle" \/ pc'[p] \in {"idle", "dead"}
  PROVE  Busy'
<1>1. session[p] \in 1 .. Len(sessions) /\ IsSequence(sessions)
  BY SessionsLength DEF SInv
<1>2. sessions' = [sessions EXCEPT ![session[p]] = y]
  BY DEF Update
<1>3. \A s \in 1 .. Len(sessions) : sessions'[s] = IF s = session[p] THEN y ELSE sessions[s]
  BY <1>1, <1>2, ReplaceItem
<1>4. \A q \in Procs : session[q] # 0 => session[q] \in 1 .. Len(sessions)
  BY SessionsLength DEF SInv
<1> SUFFICES ASSUME NEW q \in Procs, InCycle(q)' PROVE At(q, "cycle")'
  BY DEF Busy
<1>5. CASE q = p
  BY <1>1, <1>3, <1>5 DEF InCycle, At
<1>6. CASE q # p
  <2>1. At(q, "cycle")
    BY <1>6 DEF Busy, InCycle
  <2>2. session[q] # session[p] /\ session[q] # 0
    BY <1>6, <2>1 DEF SInv, Linked, At
  <2> QED
    BY <1>3, <1>4, <2>1, <2>2 DEF At
<1> QED
  BY <1>5, <1>6

LEMMA NextBusy ==
  ASSUME SInv, Busy, [SessionNext]_allVars
  PROVE  Busy'
<1>1. pc \in [Procs -> PCs]
  BY DEF SInv, IInv, CycleInv, Typed
<1>2. ASSUME UNCHANGED vars, sessions' = sessions, session' = session PROVE Busy'
  BY <1>2 DEF vars, Busy, InCycle, At
<1>3. ASSUME NEW p \in Procs, session[p] # 0, pc[p] = "idle", UNCHANGED vars, session' = session,
             NEW y, Update(p, y)
      PROVE  Busy'
  BY <1>3, UpdatedBusy DEF vars
<1>4. ASSUME NEW p \in Procs, NEW call \in DOMAIN Calls, NEW stage \in {"loop", "raised"},
             Begin(p, call, stage)
      PROVE  Busy'
  <2>1. /\ pc[p] = "idle" /\ pc' = pc
        /\ session' = [session EXCEPT ![p] = Len(sessions) + 1]
        /\ \E x : sessions' = Append(sessions, x)
    BY <1>4 DEF Begin, vars
  <2>2. \A s \in 1 .. Len(sessions) : sessions'[s] = sessions[s]
    BY <2>1, RuntimeAssumption, Ledger!AppendLine DEF SInv, IsSequence, Ledger!IsSequence
  <2>3. \A q \in Procs : session[q] # 0 => session[q] \in 1 .. Len(sessions)
    BY SessionsLength DEF SInv
  <2>4. \A q \in Procs \ {p} : session'[q] = session[q]
    BY <2>1 DEF SInv
  <2> QED
    BY <2>1, <2>2, <2>3, <2>4 DEF Busy, InCycle, At
<1>5. ASSUME NEW p \in Procs, StartCycle(p) PROVE Busy'
  <2> DEFINE x == sessions[session[p]]
  <2>1. PICK plan \in Chosen(p), prop \in Proposals :
          /\ Decides(p, prop)
          /\ Update(p, [x EXCEPT !.stage = "cycle",
                                 !.runs = Append(@, [plan |-> plan, cycle |-> cycle'[p]])])
          /\ session' = session
    BY <1>5 DEF StartCycle, Decides
  <2>2. session[p] # 0
    BY DEF Chosen, At
  <2>3. \A q \in Procs \ {p} : pc'[q] = pc[q]
    BY <1>1, <2>1 DEF Decides, Decide, DecideRaises, Goto
  <2>4. PICK z : Update(p, z) /\ z.stage = "cycle"
    <3>1. \A run : [x EXCEPT !.stage = "cycle", !.runs = Append(@, run)].stage = "cycle"
      BY <2>2, OwnSession DEF Shaped
    <3> QED
      BY <2>1, <3>1
  <2> QED
    BY <2>1, <2>2, <2>3, <2>4, UpdatedBusy
<1>6. ASSUME NEW p \in Procs, RuntimeProceeds(p) \/ RuntimeFails(p) PROVE Busy'
  <2>1. At(p, "cycle") /\ sessions' = sessions /\ session' = session
    BY <1>6 DEF RuntimeProceeds, RuntimeFails, sessionVars
  <2>2. \A q \in Procs \ {p} : pc'[q] = pc[q]
    <3>1. CASE RuntimeProceeds(p)
      BY <1>1, <3>1 DEF RuntimeProceeds, Proceed, Release, ReleaseRaises, Finish, Expire,
         ReadLedger, ReadLedgerRaises, WriteLedger, Goto
    <3>2. CASE RuntimeFails(p)
      BY <1>1, <3>2 DEF RuntimeFails, TearLedger, LoseAnswer, Break, Goto
    <3> QED
      BY <1>6, <3>1, <3>2
  <2> QED
    BY <2>1, <2>2 DEF Busy, InCycle, At
<1>7. ASSUME NEW p \in Procs, Advance(p), ~ StartCycle(p), ~ RuntimeProceeds(p) PROVE Busy'
  <2>1. session[p] # 0
    BY <1>7 DEF Advance, InSession
  <2>2. /\ pc[p] = "idle" /\ UNCHANGED vars /\ session' = session
        /\ \E y : Update(p, y)
    BY <1>7, Zenon DEF Advance, StopLoop, PlanRollouts, PlanRolloutsRaises, ScoreNext,
       ScoreNextRaises, CycleRefused, Refuse, CycleReturns, CycleReturnsTorn, Returned,
       CycleRaises, Finalize, FinalizeTorn, Summarize, SummarizeRaises, Raise, Fail
  <2> QED
    BY <1>3, <2>1, <2>2
<1>8. ASSUME NEW p \in Procs, Tick(p) PROVE Busy'
  <2>1. session[p] # 0 /\ pc[p] = "idle" /\ UNCHANGED vars /\ session' = session /\ \E y : Update(p, y)
    BY <1>8, Zenon DEF Tick, At
  <2> QED
    BY <1>3, <2>1
<1>9. ASSUME NEW p \in Procs, Die(p) PROVE Busy'
  <2>1. /\ session[p] # 0 /\ session' = session /\ \E y : Update(p, y)
        /\ Goto(p, "dead")
    BY <1>9, Zenon DEF Die, InSession, Crash, TearLedger, LoseAnswer, Break
  <2>2. pc'[p] = "dead" /\ \A q \in Procs \ {p} : pc'[q] = pc[q]
    BY <1>1, <2>1 DEF Goto
  <2> QED
    BY <2>1, <2>2, UpdatedBusy
<1>10. CASE UNCHANGED allVars
  BY <1>2, <1>10 DEF allVars, sessionVars
<1> QED
  BY <1>4, <1>5, <1>6, <1>7, <1>8, <1>9, <1>10 DEF SessionNext, StartSession, StartSessionRaises

(***************************************************************************)
(* Every variable of the sessions keeps its type; a process is inside      *)
(* run_cycle only for the session it has, and that session's last cycle is *)
(* the one the process decided last.                                       *)
(***************************************************************************)
THEOREM SessionTypeCorrect == SessionSpec => []SessionTypeOK
<1>1. SessionInit => Busy
  BY DEF SessionInit, Init, Busy, InCycle
<1>2. SInv /\ Busy /\ [SessionNext]_allVars => Busy'
  BY NextBusy
<1>3. SInv /\ NearInv /\ Busy => SessionTypeOK
  <2> SUFFICES ASSUME SInv, NearInv, Busy PROVE SessionTypeOK
    OBVIOUS
  <2> DEFINE Runs == [plan : Nat, cycle : 1 .. Len(cycles)]
             S == [call : DOMAIN Calls, stage : Stages, elapsed : Nat, scores : Seq(Int),
                   runs : Seq(Runs), late : Seq(BOOLEAN), reason : Reasons]
  <2>1. TypeOK
    BY InvTypes DEF SInv
  <2>2. ASSUME NEW s \in Sessions PROVE sessions[s] \in S
    <3> DEFINE x == sessions[s]
    <3>1. Shaped(x) /\ Consentless(x, cycles) /\ Near(x)
      BY DEF SInv, Good, NearInv
    <3>2. /\ Len(x.runs) \in Nat /\ DOMAIN x.runs = 1 .. Len(x.runs)
          /\ x.runs = [i \in 1 .. Len(x.runs) |-> x.runs[i]]
          /\ \A i \in 1 .. Len(x.runs) : x.runs[i] \in [plan : Nat, cycle : Nat]
      BY <3>1, LenProperties, ElementOfSeq DEF Shaped
    <3>3. \A i \in 1 .. Len(x.runs) : x.runs[i] \in Runs
      BY <3>1, <3>2 DEF Consentless
    <3>4. x.runs \in Seq(Runs)
      <4>1. x.runs \in [1 .. Len(x.runs) -> Runs]
        BY <3>2, <3>3
      <4> HIDE DEF Runs
      <4> QED
        BY <3>2, <4>1, MappedSequence
    <3>5. /\ DOMAIN x = {"call", "stage", "elapsed", "scores", "runs", "late", "reason"}
          /\ x.call \in DOMAIN Calls /\ x.stage \in Stages /\ x.elapsed \in Nat
          /\ x.scores \in Seq(Int) /\ x.late \in Seq(BOOLEAN) /\ x.reason \in Reasons
          /\ x = [f \in DOMAIN x |-> x[f]]
      BY <3>1 DEF Shaped, Near, IsFcn
    <3> HIDE DEF x, Runs
    <3>6. x \in S
      BY <3>4, <3>5
    <3> QED
      BY <3>6 DEF x
  <2>3. sessions \in Seq(S)
    <3> HIDE DEF S
    <3>1. Len(sessions) \in Nat /\ sessions \in [1 .. Len(sessions) -> {sessions[i] : i \in 1 .. Len(sessions)}]
      BY SessionsLength, LenProperties DEF SInv, IsSequence
    <3>2. sessions \in [1 .. Len(sessions) -> S]
      BY <2>2, <3>1 DEF Sessions
    <3> QED
      BY <3>1, <3>2, MappedSequence
  <2>4. ASSUME NEW p \in Procs, session[p] # 0
        PROVE  LET s == sessions[session[p]]
               IN  /\ Len(s.runs) \in {Len(s.late), Len(s.late) + 1}
                   /\ pc[p] \notin {"idle", "dead"} => s.stage = "cycle"
                   /\ s.stage = "cycle" => s.runs # <<>> /\ s.runs[Len(s.runs)].cycle = cycle[p]
    <3> DEFINE s == sessions[session[p]]
    <3>1. Guarded(s) /\ Len(s.late) \in Nat
      BY <2>4, OwnSession, Lengths DEF Good
    <3>2. s.stage = "cycle" => s.runs # <<>>
      BY <3>1, EmptySeq DEF Guarded
    <3> QED
      BY <2>4, <3>1, <3>2 DEF Guarded, Busy, InCycle, At, SInv, Linked
  <2> HIDE DEF S
  <2> QED
    BY <2>1, <2>3, <2>4 DEF SessionTypeOK, S, SInv
<1> QED
  BY <1>1, <1>2, <1>3, NearInvariance, PTL DEF SessionSpec

-----------------------------------------------------------------------------
(* The ledger under the sessions *)

LEMMA SessionRuntime ==
  ASSUME [SessionNext]_allVars
  PROVE  [Next]_vars \/ \E p \in Procs : IdleDies(p)
<1>1. ASSUME NEW p \in Procs, Advance(p) PROVE [Next]_vars
  <2>1. CASE StartCycle(p)
    BY <2>1 DEF StartCycle, Next
  <2>2. CASE RuntimeProceeds(p)
    BY <2>2 DEF RuntimeProceeds, Next
  <2>3. CASE CycleRefused(p)
    BY <2>3 DEF CycleRefused, Refuse
  <2> QED
    BY <1>1, <2>1, <2>2, <2>3, Zenon DEF Advance, StopLoop, PlanRollouts, PlanRolloutsRaises,
       ScoreNext, ScoreNextRaises, CycleReturns, CycleReturnsTorn, CycleRaises, Finalize,
       FinalizeTorn, Summarize, SummarizeRaises
<1>2. ASSUME NEW p \in Procs, RuntimeFails(p) PROVE [Next]_vars
  BY <1>2 DEF RuntimeFails, Next
<1>3. ASSUME NEW p \in Procs, Die(p) PROVE [Next]_vars \/ IdleDies(p)
  BY <1>3 DEF Die, Next, IdleDies
<1>4. CASE UNCHANGED allVars
  BY <1>4 DEF allVars
<1> QED
  BY <1>1, <1>2, <1>3, <1>4 DEF SessionNext, StartSession, StartSessionRaises, Begin, Tick

LEMMA IdleDiesQuiet ==
  ASSUME NEW p \in Procs, IdleDies(p)
  PROVE  Quiet /\ UNCHANGED file
BY DEF IdleDies, Quiet, file

LEMMA SessionDurable ==
  ASSUME SInv, AnswerDurable, [SessionNext]_allVars
  PROVE  AnswerDurable'
<1>1. CASE [Next]_vars
  BY <1>1, DurableKept DEF SInv
<1>2. CASE Quiet
  BY <1>2 DEF Quiet, AnswerDurable, Traced, Cycles
<1> QED
  BY <1>1, <1>2, SessionRuntime, IdleDiesQuiet

LEMMA DurableInvariance == SessionSpec => [](SInv /\ MemoryInv /\ AnswerDurable)
<1>1. SessionInit => AnswerDurable
  BY EmptySeq DEF SessionInit, Init, AnswerDurable, Cycles
<1>2. SInv /\ MemoryInv /\ AnswerDurable /\ [SessionNext]_allVars
        => SInv' /\ MemoryInv' /\ AnswerDurable'
  BY NextSInv, NextMemoryInv, SessionDurable
<1> QED
  BY InitSInv, InitMemoryInv, <1>1, <1>2, PTL DEF SessionSpec

(***************************************************************************)
(* What holds of run_cycle however it is called holds of it in a session,  *)
(* whatever fails: the postures bind, the ledger tells the truth, what was *)
(* answered is on it while it can be read, and each process is a legal     *)
(* writer of it, although here processes also die between two cycles.      *)
(***************************************************************************)
THEOREM SessionsKeepRuntime ==
  SessionSpec => /\ []NoReleaseInLockdown /\ []StrictUntilRecovery
                 /\ []TraceFaithful /\ []AnswerDurable /\ UsesLedger
<1>1. SInv => NoReleaseInLockdown /\ StrictUntilRecovery /\ TraceFaithful
  BY InvLockdown, InvStrict, InvTrace DEF SInv
<1>2. SessionInit => File!Init
  BY DEF SessionInit, Init
<1>3. SInv /\ [SessionNext]_allVars => [File!Next]_(File!vars)
  <2> SUFFICES ASSUME SInv, [SessionNext]_allVars PROVE UNCHANGED file \/ File!Next
    BY DEF file, File!vars
  <2> QED
    BY SessionRuntime, IdleDiesQuiet, StepKept DEF Kept, SInv
<1> QED
  BY <1>1, <1>2, <1>3, DurableInvariance, PTL DEF SessionSpec, UsesLedger, File!Spec

(***************************************************************************)
(* As long as no write to the ledger is torn, sessions go through the      *)
(* contract's stages and no others.                                        *)
(***************************************************************************)
THEOREM SessionsImplementBoundary ==
  ASSUME "tear" \notin Faults
  PROVE  SessionSpec => ImplementsBoundary
<1>1. SessionInit => Whole /\ Boundary!Init
  BY BoundaryInit, EmptySeq DEF SessionInit, Init, File!Init, Whole, Readable
<1>2. SInv /\ Whole /\ [SessionNext]_allVars => Whole' /\ [Boundary!Next]_(Boundary!vars)
  <2> SUFFICES ASSUME SInv, Whole, [SessionNext]_allVars
               PROVE  Whole' /\ [Boundary!Next]_(Boundary!vars)
    OBVIOUS
  <2>1. CASE [Next]_vars
    BY <2>1, UntornSteps, WholeKept, BoundaryStep DEF SInv
  <2>2. CASE Quiet
    <3>1. Whole'
      BY <2>2 DEF Quiet, Whole, Readable
    <3>2. [Boundary!Next]_(Boundary!vars)
      BY <2>2 DEF Quiet, Verdicts, StageOf, Cycles, Traced, Boundary!vars
    <3> QED
      BY <3>1, <3>2
  <2> QED
    BY <2>1, <2>2, SessionRuntime, IdleDiesQuiet
<1> QED
  BY <1>1, <1>2, SessionInvariance, PTL DEF SessionSpec, ImplementsBoundary, Boundary!Spec

-----------------------------------------------------------------------------
(* The steps that are remembered                                           *)
(*                                                                         *)
(* A session that still goes on has a record of each cycle that came back. *)
(* What loses the last of them is a line that another writer left open,    *)
(* and then the memory does not parse any more: the session starts no      *)
(* cycle and does not finish.                                              *)

IndexesOf(s) == {memory[k].step_index : k \in StepsOf(s)}

\* The records of session s tell of its cycles, in their order.
TellsOf(s) ==
  \A k \in StepsOf(s) :
    LET c == memory[k].cycle
    IN  /\ memory[k].step_index \in 0 .. Len(sessions[s].runs) - 1
        /\ c = sessions[s].runs[memory[k].step_index + 1].cycle
        /\ cycles[c].outcome \in {"executed", "rejected"}
        /\ memory[k].allowed = cycles[c].decision.allowed
        /\ \A j \in StepsOf(s) : j < k => memory[j].step_index < memory[k].step_index

\* They are all there, or only the last is missing.
CountsOf(s) ==
  LET x == sessions[s]
  IN  \E n \in {Len(x.runs), Len(x.runs) - 1} :
        /\ IndexesOf(s) = 0 .. n - 1
        /\ x.stage = "cycle" => n = Len(x.runs) - 1
        /\ n # Len(x.runs) => \/ x.stage \in {"cycle", "raised", "lost"}
                              \/ ~ MemoryReadable /\ ~ Ready(x) /\ x.stage # "finished"

\* A record of a step that lacks its newline is the last of a session that
\* raised when it wrote it.
OpenLast ==
  LET last == memory[Len(memory)]
  IN  memoryOpen /\ last.event = "step_recorded" =>
        /\ sessions[last.session].stage = "raised"
        /\ last.step_index = Len(sessions[last.session].runs) - 1

KnownSessions ==
  \A k \in DOMAIN memory : memory[k].event = "step_recorded" => memory[k].session \in Sessions

RecordInv ==
  /\ \A s \in Sessions : TellsOf(s) /\ CountsOf(s)
  /\ KnownSessions /\ OpenLast

LEMMA MemoryLength ==
  ASSUME MemoryInv
  PROVE  /\ IsSequence(memory) /\ Len(memory) \in Nat /\ DOMAIN memory = 1 .. Len(memory)
         /\ Len(memory) = 0 <=> memory = <<>>
BY RuntimeAssumption, Ledger!SequenceLength DEF MemoryInv, IsSequence, Ledger!IsSequence

\* The two ways of writing, as what they do to the steps of each session.
LEMMA AppendSteps ==
  ASSUME MemoryInv, NEW line, memory' = Append(memory, line)
  PROVE  /\ Len(memory') = Len(memory) + 1 /\ DOMAIN memory' = 1 .. Len(memory) + 1
         /\ \A k \in 1 .. Len(memory) : memory'[k] = memory[k]
         /\ memory'[Len(memory) + 1] = line
         /\ ~ MemoryReadable => ~ MemoryReadable'
         /\ \A s : StepsOf(s)' =
              IF line.event = "step_recorded" /\ line.session = s
              THEN StepsOf(s) \cup {Len(memory) + 1} ELSE StepsOf(s)
<1> DEFINE n == Len(memory)
<1>1. IsSequence(memory) /\ n \in Nat /\ DOMAIN memory = 1 .. n
  BY MemoryLength
<1>2. /\ IsSequence(memory') /\ Len(memory') = n + 1
      /\ \A k \in 1 .. n : memory'[k] = memory[k]
      /\ memory'[n + 1] = line
  BY <1>1, RuntimeAssumption, Ledger!AppendLine DEF IsSequence, Ledger!IsSequence
<1>3. DOMAIN memory' = 1 .. n + 1
  BY <1>2, RuntimeAssumption, Ledger!SequenceLength DEF IsSequence, Ledger!IsSequence
<1>4. \A k : k \in 1 .. n + 1 <=> k \in 1 .. n \/ k = n + 1
  BY <1>1
<1>5. ~ MemoryReadable => ~ MemoryReadable'
  BY <1>1, <1>2, <1>3, <1>4 DEF MemoryReadable
<1>6. ASSUME NEW s
      PROVE  StepsOf(s)' = IF line.event = "step_recorded" /\ line.session = s
                           THEN StepsOf(s) \cup {n + 1} ELSE StepsOf(s)
  <2>1. \A k : k \in StepsOf(s)' <=>
          \/ k \in StepsOf(s)
          \/ k = n + 1 /\ line.event = "step_recorded" /\ line.session = s
    BY <1>1, <1>2, <1>3, <1>4 DEF StepsOf
  <2> QED
    BY <2>1
<1> QED
  BY <1>2, <1>3, <1>5, <1>6

LEMMA MergeSteps ==
  ASSUME MemoryInv, memoryOpen, memory' = WithLast(memory, TornLine)
  PROVE  /\ Len(memory') = Len(memory) /\ DOMAIN memory' = DOMAIN memory
         /\ Len(memory) \in 1 .. Len(memory)
         /\ \A k \in 1 .. Len(memory) : k # Len(memory) => memory'[k] = memory[k]
         /\ memory'[Len(memory)].event = "torn"
         /\ ~ MemoryReadable'
         /\ \A s : StepsOf(s)' = StepsOf(s) \ {Len(memory)}
<1> DEFINE n == Len(memory)
<1>1. IsSequence(memory) /\ n \in Nat /\ DOMAIN memory = 1 .. n /\ n \in 1 .. n
  BY MemoryLength DEF MemoryInv
<1>2. /\ IsSequence([memory EXCEPT ![n] = TornLine]) /\ Len([memory EXCEPT ![n] = TornLine]) = n
      /\ \A k \in 1 .. n : [memory EXCEPT ![n] = TornLine][k] = IF k = n THEN TornLine ELSE memory[k]
  <2>1. \A e : /\ IsSequence([memory EXCEPT ![n] = e]) /\ Len([memory EXCEPT ![n] = e]) = n
               /\ \A k \in 1 .. n : [memory EXCEPT ![n] = e][k] = IF k = n THEN e ELSE memory[k]
    BY <1>1, ReplaceItem
  <2> QED
    BY <2>1
<1>3. memory' = [memory EXCEPT ![n] = TornLine]
  BY DEF WithLast
<1>4. /\ IsSequence(memory') /\ Len(memory') = n
      /\ \A k \in 1 .. n : memory'[k] = IF k = n THEN TornLine ELSE memory[k]
  BY <1>2, <1>3
<1>5. DOMAIN memory' = 1 .. n
  BY <1>4, RuntimeAssumption, Ledger!SequenceLength DEF IsSequence, Ledger!IsSequence
<1>6. memory'[n].event = "torn"
  <2>1. TornLine.event = "torn"
    BY DEF TornLine
  <2> QED
    BY <1>1, <1>4, <2>1
<1>7. ~ MemoryReadable'
  BY <1>1, <1>5, <1>6 DEF MemoryReadable
<1>8. ASSUME NEW s PROVE StepsOf(s)' = StepsOf(s) \ {n}
  <2>1. \A k : k \in StepsOf(s)' <=> k \in StepsOf(s) /\ k # n
    BY <1>1, <1>4, <1>5, <1>6 DEF StepsOf
  <2> QED
    BY <2>1
<1> QED
  BY <1>1, <1>4, <1>5, <1>6, <1>7, <1>8

\* The runs of a session are those it had, and maybe more.
RunsKept(x, y) ==
  /\ Len(x.runs) <= Len(y.runs) /\ Len(y.runs) \in Nat
  /\ \A i \in 1 .. Len(x.runs) : y.runs[i] = x.runs[i]

\* Fewer records, or as many, of a session that keeps its runs.
LEMMA KeptTells ==
  ASSUME SInv, LastsTo(cycles, cycles'), NEW s \in Sessions, TellsOf(s),
         RunsKept(sessions[s], sessions'[s]),
         StepsOf(s)' \subseteq StepsOf(s), \A k \in StepsOf(s)' : memory'[k] = memory[k]
  PROVE  TellsOf(s)'
<1> DEFINE x == sessions[s]
           y == sessions'[s]
<1>1. Len(x.runs) \in Nat /\ Consentless(x, cycles)
  BY Lengths DEF SInv, Good
<1>2. ASSUME NEW k \in StepsOf(s)'
      PROVE  LET c == memory'[k].cycle
             IN  /\ memory'[k].step_index \in 0 .. Len(y.runs) - 1
                 /\ c = y.runs[memory'[k].step_index + 1].cycle
                 /\ cycles'[c].outcome \in {"executed", "rejected"}
                 /\ memory'[k].allowed = cycles'[c].decision.allowed
                 /\ \A j \in StepsOf(s)' : j < k => memory'[j].step_index < memory'[k].step_index
  <2> DEFINE i == memory[k].step_index
             c == memory[k].cycle
  <2>1. /\ i \in 0 .. Len(x.runs) - 1 /\ c = x.runs[i + 1].cycle
        /\ cycles[c].outcome \in {"executed", "rejected"}
        /\ memory[k].allowed = cycles[c].decision.allowed
        /\ \A j \in StepsOf(s) : j < k => memory[j].step_index < i
    BY <1>2 DEF TellsOf
  <2>2. i + 1 \in 1 .. Len(x.runs) /\ i \in 0 .. Len(y.runs) - 1
    BY <1>1, <2>1 DEF RunsKept
  <2>3. y.runs[i + 1] = x.runs[i + 1] /\ c \in 1 .. Len(cycles)
    BY <1>1, <2>1, <2>2 DEF RunsKept, Consentless
  <2>4. cycles'[c] = cycles[c]
    BY <2>1, <2>3 DEF LastsTo
  <2>5. memory'[k] = memory[k]
    BY <1>2
  <2>6. \A j \in StepsOf(s)' : j < k => memory'[j].step_index < i
    BY <2>1
  <2> QED
    BY <2>1, <2>2, <2>3, <2>4, <2>5, <2>6
<1> QED
  BY <1>2 DEF TellsOf

\* What a step that writes no record of the session makes of it.
KeepsCount(x, y) ==
  /\ y.runs = x.runs /\ (x.stage \in Over => y = x)
  /\ \/ y = x
     \/ y.stage \in {"raised", "lost"}
     \/ y.stage = "cycle" /\ x.stage = "cycle"
     \/ /\ y.stage # "cycle"
        /\ \/ MemoryReadable /\ x.stage \notin {"cycle", "raised", "lost"}
           \/ ~ MemoryReadable' /\ ~ Ready(y) /\ y.stage # "finished"

LEMMA SameCounts ==
  ASSUME NEW s \in Sessions, CountsOf(s), IndexesOf(s)' = IndexesOf(s),
         KeepsCount(sessions[s], sessions'[s]), ~ MemoryReadable => ~ MemoryReadable'
  PROVE  CountsOf(s)'
<1> DEFINE x == sessions[s]
           y == sessions'[s]
<1>1. PICK n \in {Len(x.runs), Len(x.runs) - 1} :
        /\ IndexesOf(s) = 0 .. n - 1
        /\ x.stage = "cycle" => n = Len(x.runs) - 1
        /\ n # Len(x.runs) => \/ x.stage \in {"cycle", "raised", "lost"}
                              \/ ~ MemoryReadable /\ ~ Ready(x) /\ x.stage # "finished"
  BY DEF CountsOf
<1>2. /\ n \in {Len(y.runs), Len(y.runs) - 1}
      /\ IndexesOf(s)' = 0 .. n - 1
  BY <1>1 DEF KeepsCount
<1>3. y.stage = "cycle" => n = Len(y.runs) - 1
  BY <1>1 DEF KeepsCount
<1>4. n # Len(y.runs) => \/ y.stage \in {"cycle", "raised", "lost"}
                         \/ ~ MemoryReadable' /\ ~ Ready(y) /\ y.stage # "finished"
  BY <1>1 DEF KeepsCount
<1> QED
  BY <1>2, <1>3, <1>4 DEF CountsOf, Ready, Candidates, Goal

\* What a step makes of the records of session s, whose own record goes from
\* x to y: it writes none of them, starts a cycle, or adds the one of the
\* cycle that came back.
NoStepOf(s) ==
  \/ memory' = memory
  \/ \E line : /\ memory' = Append(memory, line)
              /\ ~ (line.event = "step_recorded" /\ line.session = s)
  \/ memoryOpen /\ memory' = WithLast(memory, TornLine)

\* What a write after an open line leaves.
LEMMA RunOnSteps ==
  ASSUME MemoryInv, memoryOpen, memory' = RunOn
  PROVE  /\ ~ MemoryReadable' /\ \A s : NoStepOf(s)
         /\ memory'[Len(memory')].event = "torn"
<1>1. IsSequence(memory) /\ DOMAIN memory = 1 .. Len(memory) /\ Len(memory) \in 1 .. Len(memory)
  BY MemoryLength DEF MemoryInv
<1>2. CASE memory[Len(memory)].event = "torn"
  <2>1. memory' = memory
    BY <1>2 DEF RunOn
  <2> QED
    BY <1>1, <1>2, <2>1 DEF NoStepOf, MemoryReadable
<1>3. CASE memory[Len(memory)].event # "torn"
  BY <1>3, MergeSteps DEF RunOn, NoStepOf
<1> QED
  BY <1>2, <1>3

Starts(x, y) ==
  /\ memory' = memory /\ Ready(x) /\ y.stage = "cycle"
  /\ \E run \in [plan : Nat, cycle : Nat] : y.runs = Append(x.runs, run)

Adds(s, x, y) ==
  /\ cycles' = cycles
  /\ x.stage = "cycle" /\ y.runs = x.runs /\ y.stage \in {"loop", "closing", "raised"}
  /\ LET c == x.runs[Len(x.runs)].cycle
     IN  /\ cycles[c].outcome \in {"executed", "rejected"}
         /\ \E line :
              /\ memory' = Append(memory, line)
              /\ line.event = "step_recorded" /\ line.session = s
              /\ line.step_index = Len(x.runs) - 1 /\ line.cycle = c
              /\ line.allowed = cycles[c].decision.allowed

Recorded(s, x, y) ==
  \/ NoStepOf(s) /\ KeepsCount(x, y)
  \/ Starts(x, y)
  \/ Adds(s, x, y)

LEMMA NoStepKept ==
  ASSUME SInv, MemoryInv, RecordInv, LastsTo(cycles, cycles'), NEW s \in Sessions, NoStepOf(s),
         KeepsCount(sessions[s], sessions'[s])
  PROVE  TellsOf(s)' /\ CountsOf(s)'
<1> DEFINE x == sessions[s]
           y == sessions'[s]
           n == Len(memory)
<1>1. /\ Len(x.runs) \in Nat /\ RunsKept(x, y) /\ TellsOf(s) /\ CountsOf(s)
      /\ n \in Nat /\ DOMAIN memory = 1 .. n
  <2>1. Len(x.runs) \in Nat
    BY Lengths DEF SInv, Good
  <2> QED
    BY <2>1, MemoryLength DEF RecordInv, KeepsCount, RunsKept
<1>2. ASSUME StepsOf(s)' = StepsOf(s), \A k \in StepsOf(s) : memory'[k] = memory[k],
             ~ MemoryReadable => ~ MemoryReadable'
      PROVE  TellsOf(s)' /\ CountsOf(s)'
  <2>1. IndexesOf(s)' = IndexesOf(s)
    BY <1>2 DEF IndexesOf
  <2> QED
    BY <1>1, <1>2, <2>1, KeptTells, SameCounts
<1>3. CASE memory' = memory
  BY <1>2, <1>3 DEF StepsOf, MemoryReadable
<1>4. ASSUME NEW line, memory' = Append(memory, line),
             ~ (line.event = "step_recorded" /\ line.session = s)
      PROVE  TellsOf(s)' /\ CountsOf(s)'
  <2>1. StepsOf(s) \subseteq 1 .. n
    BY <1>1 DEF StepsOf
  <2> QED
    BY <1>2, <1>4, <2>1, AppendSteps
<1>5. ASSUME memoryOpen, memory' = WithLast(memory, TornLine)
      PROVE  TellsOf(s)' /\ CountsOf(s)'
  <2>1. /\ n \in 1 .. n /\ ~ MemoryReadable' /\ StepsOf(s)' = StepsOf(s) \ {n}
        /\ \A k \in 1 .. n : k # n => memory'[k] = memory[k]
    BY <1>5, MergeSteps
  <2>2. StepsOf(s) \subseteq 1 .. n
    BY <1>1 DEF StepsOf
  <2>3. \A k \in StepsOf(s)' : memory'[k] = memory[k]
    BY <2>1, <2>2
  <2>4. CASE n \notin StepsOf(s)
    BY <1>2, <2>1, <2>3, <2>4
  <2>5. CASE n \in StepsOf(s)
    <3>1. /\ x.stage = "raised" /\ memory[n].step_index = Len(x.runs) - 1 /\ y = x
      BY <1>5, <2>5 DEF RecordInv, OpenLast, StepsOf, KeepsCount, Over
    <3>2. TellsOf(s)'
      BY <1>1, <2>1, <2>3, KeptTells
    <3>3. PICK m \in {Len(x.runs), Len(x.runs) - 1} : IndexesOf(s) = 0 .. m - 1
      BY <1>1 DEF CountsOf
    <3>4. m = Len(x.runs)
      <4>1. memory[n].step_index \in 0 .. m - 1
        BY <2>5, <3>3 DEF IndexesOf
      <4> QED
        BY <1>1, <3>1, <4>1
    <3>5. \A j \in StepsOf(s) \ {n} : memory[j].step_index # Len(x.runs) - 1
      <4> SUFFICES ASSUME NEW j \in StepsOf(s) \ {n} PROVE memory[j].step_index # Len(x.runs) - 1
        OBVIOUS
      <4>1. j < n
        BY <1>1, <2>2
      <4>2. memory[j].step_index < memory[n].step_index /\ memory[j].step_index \in Int
        BY <1>1, <2>5, <4>1 DEF TellsOf
      <4> QED
        BY <1>1, <3>1, <4>2
    <3>6. IndexesOf(s)' = IndexesOf(s) \ {Len(x.runs) - 1}
      <4>1. IndexesOf(s)' = {memory[k].step_index : k \in StepsOf(s) \ {n}}
        BY <2>1, <2>3 DEF IndexesOf
      <4> QED
        BY <2>5, <3>1, <3>5, <4>1 DEF IndexesOf
    <3>7. IndexesOf(s)' = 0 .. (Len(y.runs) - 1) - 1
      <4>1. (0 .. Len(x.runs) - 1) \ {Len(x.runs) - 1} = 0 .. (Len(x.runs) - 1) - 1
        BY <1>1
      <4> QED
        BY <3>1, <3>3, <3>4, <3>6, <4>1
    <3>8. CountsOf(s)'
      BY <3>1, <3>7 DEF CountsOf
    <3> QED
      BY <3>2, <3>8
  <2> QED
    BY <2>4, <2>5
<1> QED
  BY <1>3, <1>4, <1>5 DEF NoStepOf

LEMMA StartKept ==
  ASSUME SInv, RecordInv, LastsTo(cycles, cycles'), NEW s \in Sessions,
         Starts(sessions[s], sessions'[s])
  PROVE  TellsOf(s)' /\ CountsOf(s)'
<1> DEFINE x == sessions[s]
           y == sessions'[s]
<1>1. PICK run \in [plan : Nat, cycle : Nat] : y.runs = Append(x.runs, run)
  BY DEF Starts
<1>2. /\ Len(x.runs) \in Nat /\ Len(y.runs) = Len(x.runs) + 1 /\ RunsKept(x, y)
  <2>1. x.runs \in Seq([plan : Nat, cycle : Nat])
    BY DEF SInv, Good, Shaped
  <2>2. Len(x.runs) \in Nat
    BY <2>1, LenProperties
  <2> HIDE DEF x, y
  <2> QED
    BY <1>1, <2>1, <2>2, AppendProperties DEF RunsKept
<1>3. StepsOf(s)' = StepsOf(s) /\ IndexesOf(s)' = IndexesOf(s)
  BY DEF Starts, StepsOf, IndexesOf
<1>4. TellsOf(s)'
  BY <1>2, <1>3, KeptTells DEF RecordInv, Starts
<1>5. IndexesOf(s) = 0 .. Len(x.runs) - 1
  <2>1. CountsOf(s) /\ Ready(x)
    BY DEF RecordInv, Starts
  <2> QED
    BY <2>1 DEF CountsOf, Ready
<1>6. IndexesOf(s)' = 0 .. (Len(y.runs) - 1) - 1
  BY <1>2, <1>3, <1>5
<1>7. CountsOf(s)'
  BY <1>6 DEF CountsOf, Starts
<1> QED
  BY <1>4, <1>7

LEMMA AddKept ==
  ASSUME SInv, MemoryInv, RecordInv, NEW s \in Sessions, Adds(s, sessions[s], sessions'[s])
  PROVE  TellsOf(s)' /\ CountsOf(s)'
<1> DEFINE x == sessions[s]
           y == sessions'[s]
           m == Len(x.runs)
           n == Len(memory)
           c == x.runs[m].cycle
<1>1. PICK line :
        /\ memory' = Append(memory, line)
        /\ line.event = "step_recorded" /\ line.session = s
        /\ line.step_index = m - 1 /\ line.cycle = c
        /\ line.allowed = cycles[c].decision.allowed
  BY Zenon DEF Adds
<1>2. /\ cycles' = cycles /\ x.stage = "cycle" /\ y.runs = x.runs
      /\ y.stage \in {"loop", "closing", "raised"} /\ cycles[c].outcome \in {"executed", "rejected"}
  BY DEF Adds
<1>3. m \in Nat /\ m >= 1 /\ n \in Nat /\ StepsOf(s) \subseteq 1 .. n
  <2>1. Good(x, cycles) /\ Len(x.late) \in Nat /\ m \in Nat
    BY Lengths DEF SInv, Good
  <2>2. m = Len(x.late) + 1
    BY <1>2, <2>1 DEF Good, Guarded
  <2> QED
    BY <2>1, <2>2, MemoryLength DEF StepsOf
<1>4. /\ StepsOf(s)' = StepsOf(s) \cup {n + 1} /\ memory'[n + 1] = line
      /\ \A k \in StepsOf(s) : memory'[k] = memory[k]
  BY <1>1, <1>3, AppendSteps
<1>5. IndexesOf(s) = 0 .. (m - 1) - 1
  <2>1. CountsOf(s)
    BY DEF RecordInv
  <2> QED
    BY <1>2, <2>1 DEF CountsOf
<1>6. IndexesOf(s)' = 0 .. m - 1
  <2>1. \A i : i \in IndexesOf(s)' <=> i \in IndexesOf(s) \/ i = m - 1
    <3>1. memory'[n + 1].step_index = m - 1
      BY <1>1, <1>4
    <3>2. \A k : k \in StepsOf(s)' <=> k \in StepsOf(s) \/ k = n + 1
      BY <1>4
    <3> HIDE DEF m, n
    <3> QED
      BY <1>4, <3>1, <3>2 DEF IndexesOf
  <2>2. (0 .. (m - 1) - 1) \cup {m - 1} = 0 .. m - 1
    BY <1>3
  <2> QED
    BY <1>5, <2>1, <2>2
<1>7. CountsOf(s)'
  BY <1>2, <1>6 DEF CountsOf
<1>8. ASSUME NEW k \in StepsOf(s)'
      PROVE  /\ memory'[k].step_index \in 0 .. m - 1
             /\ memory'[k].cycle = x.runs[memory'[k].step_index + 1].cycle
             /\ cycles[memory'[k].cycle].outcome \in {"executed", "rejected"}
             /\ memory'[k].allowed = cycles[memory'[k].cycle].decision.allowed
             /\ \A j \in StepsOf(s)' : j < k => memory'[j].step_index < memory'[k].step_index
  <2>1. CASE k \in StepsOf(s)
    <3>1. /\ memory[k].step_index \in 0 .. m - 1
          /\ memory[k].cycle = x.runs[memory[k].step_index + 1].cycle
          /\ cycles[memory[k].cycle].outcome \in {"executed", "rejected"}
          /\ memory[k].allowed = cycles[memory[k].cycle].decision.allowed
          /\ \A j \in StepsOf(s) : j < k => memory[j].step_index < memory[k].step_index
      BY <2>1 DEF RecordInv, TellsOf
    <3>2. \A j \in StepsOf(s)' : j < k => j \in StepsOf(s)
      BY <1>3, <1>4, <2>1
    <3> QED
      BY <1>4, <2>1, <3>1, <3>2
  <2>2. CASE k = n + 1
    <3>1. m - 1 \in 0 .. m - 1 /\ (m - 1) + 1 = m
      BY <1>3
    <3>2. \A j \in StepsOf(s)' : j < k => j \in StepsOf(s)
      BY <1>3, <1>4, <2>2
    <3>3. \A j \in StepsOf(s) : memory'[j].step_index \in 0 .. (m - 1) - 1
      BY <1>4, <1>5 DEF IndexesOf
    <3>4. \A j \in StepsOf(s) : memory'[j].step_index < m - 1
      BY <1>3, <3>3
    <3>5. memory'[k] = line
      BY <1>4, <2>2
    <3>6. /\ line.step_index = m - 1 /\ line.cycle = x.runs[line.step_index + 1].cycle
          /\ cycles[line.cycle].outcome \in {"executed", "rejected"}
          /\ line.allowed = cycles[line.cycle].decision.allowed
      BY <1>1, <1>2, <3>1
    <3> HIDE DEF m, n, x
    <3> QED
      BY <3>1, <3>2, <3>4, <3>5, <3>6
  <2> QED
    BY <1>4, <2>1, <2>2
<1>9. TellsOf(s)'
  BY <1>2, <1>8 DEF TellsOf
<1> QED
  BY <1>7, <1>9

\* What a step makes of the records of the sessions there were.
Records == \A s \in Sessions : Recorded(s, sessions[s], sessions'[s])

LEMMA UpdatedRecords ==
  ASSUME SInv, NEW p \in Procs, session[p] # 0, NEW y, Update(p, y),
         \A s \in Sessions : s # session[p] => NoStepOf(s),
         Recorded(session[p], sessions[session[p]], y)
  PROVE  Records
<1>1. session[p] \in 1 .. Len(sessions) /\ IsSequence(sessions)
  BY SessionsLength DEF SInv
<1>2. sessions' = [sessions EXCEPT ![session[p]] = y]
  BY DEF Update
<1>3. \A s \in 1 .. Len(sessions) : sessions'[s] = IF s = session[p] THEN y ELSE sessions[s]
  BY <1>1, <1>2, ReplaceItem
<1>4. \A x : KeepsCount(x, x)
  BY DEF KeepsCount
<1> QED
  BY <1>3, <1>4 DEF Records, Recorded, Sessions

LEMMA SameRecords ==
  ASSUME sessions' = sessions, memory' = memory
  PROVE  Records
BY DEF Records, Recorded, NoStepOf, KeepsCount

\* The steps that write no record of a step.
LEMMA RestagedRecords ==
  ASSUME SInv, NEW p \in Procs, session[p] # 0, NEW y, Update(p, y),
         \A s : NoStepOf(s), KeepsCount(sessions[session[p]], y)
  PROVE  Records
BY UpdatedRecords DEF Recorded

LEMMA Overs ==
  ASSUME NEW p, InSession(p)
  PROVE  session[p] # 0 /\ sessions[session[p]].stage \notin Over
BY DEF InSession

\* A session ends, with a line that is no record of a step or with none.
LEMMA EndRecords ==
  ASSUME SInv, NEW p \in Procs, InSession(p), NEW stage \in {"raised", "lost"},
         Update(p, [sessions[session[p]] EXCEPT !.stage = stage]), \A s : NoStepOf(s)
  PROVE  Records
<1> DEFINE x == sessions[session[p]]
           y == [x EXCEPT !.stage = stage]
<1>1. session[p] # 0 /\ x.stage \notin Over
  BY Overs
<1>2. y.runs = x.runs /\ y.stage = stage
  BY <1>1, OwnSession DEF Shaped
<1>3. Update(p, y)
  OBVIOUS
<1> HIDE DEF y
<1>4. KeepsCount(x, y)
  BY <1>1, <1>2 DEF KeepsCount
<1> QED
  BY <1>1, <1>3, <1>4, RestagedRecords

\* The steps of a session that goes on.
LEMMA LoopRecords ==
  ASSUME SInv, NEW p \in Procs,
         StopLoop(p) \/ PlanRollouts(p) \/ ScoreNext(p) \/ Summarize(p) \/ Tick(p)
  PROVE  Records
<1> DEFINE x == sessions[session[p]]
<1>1. session[p] # 0 /\ memory' = memory
  BY Zenon DEF StopLoop, PlanRollouts, ScoreNext, Summarize, Tick, At, memoryVars
<1>2. Shaped(x) /\ \A s : NoStepOf(s)
  BY <1>1, OwnSession DEF NoStepOf
<1>3. MemoryReadable' <=> MemoryReadable
  BY <1>1 DEF MemoryReadable
<1>4. CASE StopLoop(p)
  <2> DEFINE y == [x EXCEPT !.stage = "closing", !.reason = StopBefore(x)]
  <2>1. Update(p, y) /\ x.stage = "loop"
    BY <1>4 DEF StopLoop, At
  <2>2. y.runs = x.runs /\ y.stage = "closing"
    BY <1>2 DEF Shaped
  <2> HIDE DEF y
  <2>3. KeepsCount(x, y)
    BY <1>3, <2>1, <2>2 DEF KeepsCount, Ready, Over
  <2> QED
    BY <1>1, <1>2, <2>1, <2>3, RestagedRecords
<1>5. CASE PlanRollouts(p)
  <2> DEFINE y == [x EXCEPT !.stage = "ranking", !.scores = <<>>]
  <2>1. Update(p, y) /\ x.stage = "loop" /\ StopBefore(x) = "none"
    BY <1>5 DEF PlanRollouts, At
  <2>2. y.runs = x.runs /\ y.stage = "ranking" /\ ~ Ready(y)
    BY <1>2, <2>1, PlannedUnready
  <2> HIDE DEF y
  <2>3. KeepsCount(x, y)
    BY <1>3, <2>1, <2>2 DEF KeepsCount, Over
  <2> QED
    BY <1>1, <1>2, <2>1, <2>3, RestagedRecords
<1>6. CASE ScoreNext(p)
  <2> DEFINE i == Ranked(x)[Len(x.scores) + 1]
             y == [x EXCEPT !.scores =
                     Append(@, RankingScore(Candidates(x), i) + Bias(Candidates(x)[i].ref))]
  <2>1. Update(p, y) /\ x.stage = "ranking" /\ MemoryReadable
    BY <1>6 DEF ScoreNext, At
  <2>2. y.runs = x.runs /\ y.stage = x.stage
    BY <1>2 DEF Shaped
  <2> HIDE DEF y
  <2>3. KeepsCount(x, y)
    BY <2>1, <2>2 DEF KeepsCount, Over
  <2> QED
    BY <1>1, <1>2, <2>1, <2>3, RestagedRecords
<1>7. CASE Summarize(p)
  <2> DEFINE y == [x EXCEPT !.stage = "finished"]
  <2>1. Update(p, y) /\ x.stage = "summarising" /\ MemoryReadable
    BY <1>7 DEF Summarize, At
  <2>2. y.runs = x.runs /\ y.stage = "finished"
    BY <1>2 DEF Shaped
  <2> HIDE DEF y
  <2>3. KeepsCount(x, y)
    BY <2>1, <2>2 DEF KeepsCount, Over
  <2> QED
    BY <1>1, <1>2, <2>1, <2>3, RestagedRecords
<1>8. CASE Tick(p)
  <2> DEFINE y == [x EXCEPT !.elapsed = @ + 1]
  <2>1. Update(p, y) /\ x.stage \in {"loop", "cycle"}
    BY <1>8 DEF Tick, At
  <2>2. y.runs = x.runs /\ y.stage = x.stage
    BY <1>2 DEF Shaped
  <2> HIDE DEF y
  <2>3. KeepsCount(x, y)
    BY <1>3, <2>1, <2>2 DEF KeepsCount, Ready, Over
  <2> QED
    BY <1>1, <1>2, <2>1, <2>3, RestagedRecords
<1> QED
  BY <1>4, <1>5, <1>6, <1>7, <1>8

LEMMA StartRecords ==
  ASSUME SInv, NEW p \in Procs, StartCycle(p)
  PROVE  Records
<1> DEFINE x == sessions[session[p]]
<1>1. PICK plan \in Chosen(p), prop \in Proposals :
        /\ Decides(p, prop)
        /\ Update(p, [x EXCEPT !.stage = "cycle",
                               !.runs = Append(@, [plan |-> plan, cycle |-> cycle'[p]])])
        /\ memory' = memory
  BY DEF StartCycle, Decides, memoryVars
<1>2. session[p] # 0 /\ Ready(x) /\ plan \in DOMAIN Candidates(x)
  BY DEF Chosen, At, Ready
<1>3. Good(x, cycles) /\ Shaped(x)
  BY <1>2, OwnSession
<1>4. plan \in Nat /\ cycle'[p] \in Nat
  <2>1. cycle'[p] \in Nat
    BY <1>1, DecideLasts DEF SInv
  <2>2. DOMAIN Candidates(x) = 1 .. Len(Candidates(x)) /\ Len(Candidates(x)) \in Nat
    BY <1>2, <1>3, RankingFacts DEF Good, Ready, Ratable
  <2> QED
    BY <1>2, <2>1, <2>2
<1> DEFINE run == [plan |-> plan, cycle |-> cycle'[p]]
           y == [x EXCEPT !.stage = "cycle", !.runs = Append(@, run)]
<1>5. Update(p, y)
  BY <1>1
<1>6. y.stage = "cycle" /\ y.runs = Append(x.runs, run)
  BY <1>3 DEF Shaped
<1>7. run \in [plan : Nat, cycle : Nat]
  BY <1>4
<1> HIDE DEF y, run
<1>8. Starts(x, y)
  BY <1>1, <1>2, <1>6, <1>7 DEF Starts
<1> QED
  BY <1>1, <1>2, <1>5, <1>8, UpdatedRecords DEF Recorded, NoStepOf

\* run_command_cycle came back, and its step is remembered.
LEMMA ReturnRecords ==
  ASSUME SInv, MemoryInv, NEW p \in Procs, CycleReturns(p) \/ CycleReturnsTorn(p)
  PROVE  Records
<1> DEFINE x == sessions[session[p]]
           s == session[p]
           line == StepRecord(p, x)
           c == x.runs[Len(x.runs)].cycle
<1>1. /\ session[p] # 0 /\ x.stage = "cycle" /\ cycles' = cycles
      /\ cycles[cycle[p]].outcome \in {"executed", "rejected"}
  BY Zenon DEF CycleReturns, CycleReturnsTorn, Returned, At, vars
<1>2. Good(x, cycles) /\ Shaped(x)
  BY <1>1, OwnSession
<1>3. c = cycle[p]
  BY <1>1 DEF SInv, Linked, At
<1>4. PICK y : Update(p, y) /\ y.runs = x.runs /\ y.stage \in {"loop", "closing", "raised"}
               /\ (CycleReturns(p) => y.stage \in {"loop", "closing"})
               /\ (~ CycleReturns(p) => y.stage = "raised")
  <2>1. CASE CycleReturns(p)
    <3> DEFINE reason == StopAfter(p, x)
               z == [x EXCEPT !.late = Append(@, TimeOut(x)),
                              !.stage = IF reason = "none" THEN "loop" ELSE "closing",
                              !.reason = IF reason = "none" THEN @ ELSE reason]
    <3>1. Update(p, z)
      BY <2>1 DEF CycleReturns
    <3>2. z.runs = x.runs /\ z.stage \in {"loop", "closing"}
      BY <1>2 DEF Shaped
    <3> HIDE DEF z
    <3> QED
      BY <2>1, <3>1, <3>2
  <2>2. CASE ~ CycleReturns(p)
    <3> DEFINE z == [x EXCEPT !.stage = "raised"]
    <3>1. Update(p, z)
      BY <2>2 DEF CycleReturnsTorn, Fail
    <3>2. z.runs = x.runs /\ z.stage = "raised"
      BY <1>2 DEF Shaped
    <3> HIDE DEF z
    <3> QED
      BY <2>2, <3>1, <3>2
  <2> QED
    BY <2>1, <2>2
<1>5. /\ line.event = "step_recorded" /\ line.session = s /\ line.step_index = Len(x.runs) - 1
      /\ line.cycle = c /\ line.allowed = cycles[c].decision.allowed
  <2>1. Len(x.runs) = Len(x.late) + 1 /\ Len(x.late) \in Nat
    BY <1>1, <1>2, Lengths DEF Good, Guarded
  <2> QED
    BY <1>3, <2>1 DEF StepRecord
<1> HIDE DEF line
<1>6. CASE memory' = Append(memory, line)
  <2>1. Adds(s, x, y)
    BY <1>1, <1>3, <1>4, <1>5, <1>6 DEF Adds
  <2>2. \A t \in Sessions : t # s => NoStepOf(t)
    BY <1>5, <1>6 DEF NoStepOf
  <2> QED
    BY <1>1, <1>4, <2>1, <2>2, UpdatedRecords DEF Recorded
<1>7. CASE memoryOpen /\ memory' = RunOn
  <2>1. ~ MemoryReadable' /\ \A t : NoStepOf(t)
    BY <1>7, RunOnSteps
  <2>2. KeepsCount(x, y)
    BY <1>1, <1>4, <2>1 DEF KeepsCount, Ready, Over
  <2> QED
    BY <1>1, <1>4, <2>1, <2>2, RestagedRecords
<1>8. CASE ~ CycleReturns(p) /\ (memory' = memory \/ memory' = Append(memory, TornLine))
  <2>1. TornLine.event = "torn"
    BY DEF TornLine
  <2>2. \A t : NoStepOf(t)
    BY <1>8, <2>1 DEF NoStepOf
  <2>3. KeepsCount(x, y)
    BY <1>1, <1>4, <1>8 DEF KeepsCount, Over
  <2> QED
    BY <1>1, <1>4, <2>2, <2>3, RestagedRecords
<1>9. \/ CycleReturns(p) /\ Remember(line)
      \/ ~ CycleReturns(p) /\ RememberTorn(line)
  BY Zenon DEF CycleReturns, CycleReturnsTorn, line
<1> QED
  BY <1>6, <1>7, <1>8, <1>9 DEF Remember, RememberTorn, memoryVars

\* A line that is no record of a step.
LEMMA OtherLine ==
  ASSUME NEW record, record.event # "step_recorded", Remember(record) \/ RememberTorn(record)
  PROVE  \A s : NoStepOf(s)
<1>1. TornLine.event = "torn"
  BY DEF TornLine
<1> QED
  BY <1>1 DEF NoStepOf, Remember, RememberTorn, RunOn, memoryVars

LEMMA FinalRecords ==
  ASSUME SInv, MemoryInv, NEW p \in Procs, InSession(p), Finalize(p) \/ FinalizeTorn(p)
  PROVE  Records
<1> DEFINE x == sessions[session[p]]
<1>1. FinishRecord(p).event # "step_recorded"
  BY DEF FinishRecord
<1>2. Remember(FinishRecord(p)) \/ RememberTorn(FinishRecord(p))
  BY Zenon DEF Finalize, FinalizeTorn
<1>3. \A s : NoStepOf(s)
  BY <1>1, <1>2, OtherLine
<1>4. CASE FinalizeTorn(p)
  BY <1>3, <1>4, EndRecords DEF FinalizeTorn, Fail
<1>5. CASE Finalize(p)
  <2> DEFINE y == [x EXCEPT !.stage = "summarising"]
  <2>1. session[p] # 0 /\ x.stage = "closing" /\ Update(p, y)
    BY <1>5 DEF Finalize, At
  <2>2. y.runs = x.runs /\ y.stage = "summarising"
    BY <2>1, OwnSession DEF Shaped
  <2> HIDE DEF y
  <2>3. MemoryReadable \/ ~ MemoryReadable'
    <3>1. CASE memoryOpen
      BY <1>5, <3>1, RunOnSteps DEF Finalize, Remember
    <3>2. CASE ~ memoryOpen
      BY <1>5, <3>2, AppendSteps DEF Finalize, Remember
    <3> QED
      BY <3>1, <3>2
  <2>4. KeepsCount(x, y)
    BY <2>1, <2>2, <2>3 DEF KeepsCount, Ready, Over
  <2> QED
    BY <1>3, <2>1, <2>4, RestagedRecords
<1> QED
  BY <1>4, <1>5

LEMMA StepRecords ==
  ASSUME SInv, MemoryInv, [SessionNext]_allVars
  PROVE  Records
<1>1. CASE UNCHANGED allVars
  BY <1>1, SameRecords DEF allVars, sessionVars, memoryVars
<1>2. ASSUME NEW p \in Procs, NEW call \in DOMAIN Calls,
             StartSession(p, call) \/ StartSessionRaises(p, call)
      PROVE  Records
  <2>1. /\ \E x : sessions' = Append(sessions, x)
        /\ Remember(StartRecord) \/ RememberTorn(StartRecord)
    BY <1>2 DEF StartSession, StartSessionRaises, Begin
  <2>2. \A s \in 1 .. Len(sessions) : sessions'[s] = sessions[s]
    BY <2>1, RuntimeAssumption, Ledger!AppendLine DEF SInv, IsSequence, Ledger!IsSequence
  <2>3. StartRecord.event # "step_recorded"
    BY DEF StartRecord
  <2>4. \A s : NoStepOf(s)
    BY <2>1, <2>3, OtherLine
  <2>5. \A x : KeepsCount(x, x)
    BY DEF KeepsCount
  <2> QED
    BY <2>2, <2>4, <2>5 DEF Records, Recorded, Sessions
<1>3. ASSUME NEW p \in Procs, InSession(p), Raise(p) PROVE Records
  BY <1>3, EndRecords DEF Raise, Fail, NoStepOf, memoryVars
<1>4. ASSUME NEW p \in Procs, Advance(p) PROVE Records
  <2>1. InSession(p)
    BY <1>4 DEF Advance
  <2>2. CASE PlanRolloutsRaises(p) \/ ScoreNextRaises(p) \/ CycleRaises(p) \/ SummarizeRaises(p)
    BY <1>3, <2>1, <2>2 DEF PlanRolloutsRaises, ScoreNextRaises, CycleRaises, SummarizeRaises
  <2>3. CASE CycleRefused(p)
    <3>1. Raise(p)
      BY <2>3 DEF CycleRefused
    <3> QED
      BY <1>3, <2>1, <3>1
  <2>4. CASE RuntimeProceeds(p)
    BY <2>4, SameRecords DEF RuntimeProceeds, sessionVars, memoryVars
  <2> QED
    BY <1>4, <2>1, <2>2, <2>3, <2>4, LoopRecords, StartRecords, ReturnRecords, FinalRecords
       DEF Advance
<1>5. ASSUME NEW p \in Procs, Die(p) PROVE Records
  BY <1>5, EndRecords DEF Die, NoStepOf, memoryVars
<1>6. ASSUME NEW p \in Procs, RuntimeFails(p) PROVE Records
  BY <1>6, SameRecords DEF RuntimeFails, sessionVars, memoryVars
<1> QED
  BY <1>1, <1>2, <1>4, <1>5, <1>6, LoopRecords DEF SessionNext

LEMMA StepLasts ==
  ASSUME SInv, [SessionNext]_allVars
  PROVE  LastsTo(cycles, cycles')
<1>1. ASSUME cycles' = cycles PROVE LastsTo(cycles, cycles')
  BY <1>1, LastsToSame DEF SInv
<1>2. ASSUME NEW p \in Procs, Advance(p) PROVE LastsTo(cycles, cycles')
  <2>1. CASE StartCycle(p)
    <3>1. \E prop \in Proposals : Decides(p, prop)
      BY <2>1 DEF StartCycle, Decides
    <3> QED
      BY <3>1, DecideLasts DEF SInv
  <2>2. CASE RuntimeProceeds(p)
    BY <2>2, ProceedLasts DEF RuntimeProceeds, SInv
  <2>3. CASE ~ StartCycle(p) /\ ~ RuntimeProceeds(p)
    <3>1. UNCHANGED vars
      BY <1>2, <2>3, Zenon DEF Advance, StopLoop, PlanRollouts, PlanRolloutsRaises, ScoreNext,
         ScoreNextRaises, CycleRefused, Refuse, CycleReturns, CycleReturnsTorn,
         CycleRaises, Finalize, FinalizeTorn, Summarize, SummarizeRaises
    <3> QED
      BY <1>1, <3>1 DEF vars
  <2> QED
    BY <2>1, <2>2, <2>3
<1>3. ASSUME NEW p \in Procs, Die(p) PROVE LastsTo(cycles, cycles')
  BY <1>3, DieKept DEF SInv, Die, CrashOrDie, Lost, IdleDies
<1>4. ASSUME NEW p \in Procs, Tick(p) PROVE LastsTo(cycles, cycles')
  BY <1>1, <1>4 DEF Tick, vars
<1>5. ASSUME NEW p \in Procs, NEW call \in DOMAIN Calls,
             StartSession(p, call) \/ StartSessionRaises(p, call)
      PROVE  LastsTo(cycles, cycles')
  BY <1>1, <1>5 DEF StartSession, StartSessionRaises, Begin, vars
<1>6. CASE UNCHANGED allVars
  BY <1>1, <1>6 DEF allVars, vars
<1>7. ASSUME NEW p \in Procs, RuntimeFails(p) PROVE LastsTo(cycles, cycles')
  BY <1>7, FailsLasts DEF SInv
<1> QED
  BY <1>2, <1>3, <1>4, <1>5, <1>6, <1>7 DEF SessionNext

\* What a step leaves at the end of the memory: a record of a step is of a
\* session there is, and one that is open of a session that raised.
EndsWith(line) ==
  line.event = "step_recorded" =>
    /\ line.session \in Sessions
    /\ memoryOpen' => /\ sessions'[line.session].stage = "raised"
                      /\ line.step_index = Len(sessions'[line.session].runs) - 1

MemoryWrite ==
  \/ UNCHANGED memoryVars
  \/ memoryOpen /\ memory' = RunOn
  \/ \E line : memory' = Append(memory, line) /\ EndsWith(line)

LEMMA WriteOther ==
  ASSUME NEW record, record.event # "step_recorded", Remember(record) \/ RememberTorn(record)
  PROVE  MemoryWrite
<1>1. TornLine.event = "torn"
  BY DEF TornLine
<1>2. EndsWith(record) /\ EndsWith(TornLine)
  BY <1>1 DEF EndsWith
<1> QED
  BY <1>2 DEF MemoryWrite, Remember, RememberTorn, memoryVars

LEMMA WriteStep ==
  ASSUME SInv, NEW p \in Procs, CycleReturns(p) \/ CycleReturnsTorn(p)
  PROVE  MemoryWrite
<1> DEFINE x == sessions[session[p]]
           line == StepRecord(p, x)
<1>1. /\ session[p] # 0 /\ x.stage = "cycle"
  BY Zenon DEF CycleReturns, CycleReturnsTorn, Returned, At
<1>2. session[p] \in Sessions /\ Good(x, cycles) /\ Shaped(x)
  BY <1>1, OwnSession
<1>3. line.session = session[p] /\ line.step_index = Len(x.late) /\ Len(x.late) = Len(x.runs) - 1
  <2>1. Len(x.runs) = Len(x.late) + 1 /\ Len(x.late) \in Nat
    BY <1>1, <1>2, Lengths DEF Good, Guarded
  <2> QED
    BY <2>1 DEF StepRecord
<1>4. CASE CycleReturns(p)
  <2>1. Remember(line) /\ memoryOpen' = FALSE
    BY <1>4 DEF CycleReturns, Remember
  <2>2. EndsWith(line)
    BY <1>2, <1>3, <2>1 DEF EndsWith
  <2> HIDE DEF line
  <2> QED
    BY <2>1, <2>2 DEF MemoryWrite, Remember
<1>5. CASE CycleReturnsTorn(p)
  <2> DEFINE y == [x EXCEPT !.stage = "raised"]
  <2>1. RememberTorn(line) /\ Update(p, y)
    BY <1>5 DEF CycleReturnsTorn, Fail
  <2>2. y.stage = "raised" /\ y.runs = x.runs
    BY <1>2 DEF Shaped
  <2> HIDE DEF y
  <2>3. sessions'[session[p]] = y
    <3>1. session[p] \in DOMAIN sessions
      BY <1>2, SessionsLength DEF SInv, Sessions
    <3> QED
      BY <2>1, <3>1 DEF Update
  <2>4. EndsWith(line)
    BY <1>2, <1>3, <2>2, <2>3 DEF EndsWith
  <2>5. EndsWith(TornLine)
    <3>1. TornLine.event = "torn"
      BY DEF TornLine
    <3> QED
      BY <3>1 DEF EndsWith
  <2> HIDE DEF line
  <2> QED
    BY <2>1, <2>4, <2>5 DEF MemoryWrite, RememberTorn, memoryVars
<1> QED
  BY <1>4, <1>5

LEMMA StepWrites ==
  ASSUME SInv, [SessionNext]_allVars
  PROVE  MemoryWrite
<1>1. CASE UNCHANGED allVars
  BY <1>1 DEF allVars, sessionVars, MemoryWrite
<1>2. ASSUME NEW p \in Procs, NEW call \in DOMAIN Calls,
             StartSession(p, call) \/ StartSessionRaises(p, call)
      PROVE  MemoryWrite
  <2>1. StartRecord.event # "step_recorded"
    BY DEF StartRecord
  <2> QED
    BY <1>2, <2>1, WriteOther DEF StartSession, StartSessionRaises
<1>3. ASSUME NEW p \in Procs, Finalize(p) \/ FinalizeTorn(p) PROVE MemoryWrite
  <2>1. FinishRecord(p).event # "step_recorded"
    BY DEF FinishRecord
  <2>2. Remember(FinishRecord(p)) \/ RememberTorn(FinishRecord(p))
    BY <1>3, Zenon DEF Finalize, FinalizeTorn
  <2> QED
    BY <2>1, <2>2, WriteOther
<1>4. ASSUME NEW p \in Procs, Advance(p) PROVE MemoryWrite
  <2>1. CASE CycleReturns(p) \/ CycleReturnsTorn(p) \/ Finalize(p) \/ FinalizeTorn(p)
    BY <1>3, <2>1, WriteStep
  <2>2. CASE ~ (CycleReturns(p) \/ CycleReturnsTorn(p) \/ Finalize(p) \/ FinalizeTorn(p))
    <3>1. UNCHANGED memoryVars
      BY <1>4, <2>2, Zenon DEF Advance, StopLoop, PlanRollouts, PlanRolloutsRaises, ScoreNext,
         ScoreNextRaises, StartCycle, CycleRefused, RuntimeProceeds, CycleRaises, Summarize,
         SummarizeRaises, Raise, sessionVars, memoryVars
    <3> QED
      BY <3>1 DEF MemoryWrite
  <2> QED
    BY <2>1, <2>2
<1>5. ASSUME NEW p \in Procs, Tick(p) \/ Die(p) PROVE MemoryWrite
  BY <1>5 DEF Tick, Die, MemoryWrite
<1>6. ASSUME NEW p \in Procs, RuntimeFails(p) PROVE MemoryWrite
  BY <1>6 DEF RuntimeFails, sessionVars, MemoryWrite
<1> QED
  BY <1>1, <1>2, <1>4, <1>5, <1>6 DEF SessionNext

LEMMA NextRecordInv ==
  ASSUME SInv, MemoryInv, RecordInv, [SessionNext]_allVars
  PROVE  RecordInv'
<1> DEFINE n == Len(memory)
<1>1. Records /\ MemoryWrite /\ LastsTo(cycles, cycles')
  BY StepRecords, StepWrites, StepLasts
<1>2. \A s \in Sessions : TellsOf(s)' /\ CountsOf(s)'
  BY <1>1, NoStepKept, StartKept, AddKept DEF Records, Recorded
<1>3. n \in Nat /\ DOMAIN memory = 1 .. n /\ Len(sessions) \in Nat
  BY MemoryLength, SessionsLength DEF SInv
<1>4. \/ memory' = memory
      \/ memoryOpen /\ memory' = WithLast(memory, TornLine)
      \/ \E line : memory' = Append(memory, line) /\ EndsWith(line)
  BY <1>1 DEF MemoryWrite, RunOn, memoryVars
<1>5. KnownSessions'
  <2>1. Sessions \subseteq Sessions'
    BY <1>3, StepLength DEF Sessions
  <2>2. CASE memory' = memory
    BY <2>1, <2>2 DEF RecordInv, KnownSessions
  <2>3. CASE memoryOpen /\ memory' = WithLast(memory, TornLine)
    BY <1>3, <2>1, <2>3, MergeSteps DEF RecordInv, KnownSessions
  <2>4. ASSUME NEW line, memory' = Append(memory, line), EndsWith(line)
        PROVE  KnownSessions'
    <3>1. /\ DOMAIN memory' = 1 .. n + 1 /\ memory'[n + 1] = line
          /\ \A k \in 1 .. n : memory'[k] = memory[k]
      BY <2>4, AppendSteps
    <3>2. \A k \in 1 .. n + 1 : k \in 1 .. n \/ k = n + 1
      BY <1>3
    <3> QED
      BY <1>3, <2>1, <2>4, <3>1, <3>2 DEF RecordInv, KnownSessions, EndsWith
  <2> QED
    BY <1>4, <2>2, <2>3, <2>4
<1>6. OpenLast'
  <2>1. CASE UNCHANGED memoryVars
    <3> SUFFICES ASSUME memoryOpen, memory[n].event = "step_recorded"
                 PROVE  /\ sessions'[memory[n].session].stage = "raised"
                        /\ memory[n].step_index = Len(sessions'[memory[n].session].runs) - 1
      BY <2>1 DEF OpenLast, memoryVars
    <3> DEFINE s == memory[n].session
    <3>1. /\ sessions[s].stage = "raised" /\ memory[n].step_index = Len(sessions[s].runs) - 1
      BY DEF RecordInv, OpenLast
    <3>2. s \in Sessions
      <4>1. n \in DOMAIN memory
        BY <1>3, MemoryLength DEF MemoryInv
      <4> QED
        BY <4>1 DEF RecordInv, KnownSessions
    <3>3. sessions'[s] = sessions[s]
      BY <1>1, <3>1, <3>2 DEF Records, Recorded, KeepsCount, Starts, Adds, Ready, Over
    <3> QED
      BY <3>1, <3>3
  <2>2. CASE memoryOpen /\ memory' = RunOn
    BY <2>2, RunOnSteps DEF OpenLast
  <2>3. ASSUME NEW line, memory' = Append(memory, line), EndsWith(line)
        PROVE  OpenLast'
    <3>1. memory'[Len(memory')] = line
      BY <2>3, AppendSteps
    <3> QED
      BY <2>3, <3>1 DEF OpenLast, EndsWith
  <2> QED
    BY <1>1, <2>1, <2>2, <2>3 DEF MemoryWrite
<1>7. ASSUME NEW p \in Procs, NEW call \in DOMAIN Calls, NEW stage \in {"loop", "raised"},
             Begin(p, call, stage), Len(sessions') = Len(sessions) + 1,
             NEW s, s = Len(sessions) + 1
      PROVE  TellsOf(s)' /\ CountsOf(s)'
  <2>1. Fresh(sessions'[s]) /\ Len(<<>>) = 0
    BY <1>3, <1>7, BeginGrown, EmptySeq DEF Grown
  <2>2. s \notin Sessions
    BY <1>3, <1>7 DEF Sessions
  <2>3. StepsOf(s)' = {}
    <3>1. StepsOf(s) = {}
      BY <2>2 DEF RecordInv, KnownSessions, StepsOf
    <3>2. CASE memory' = memory
      BY <3>1, <3>2 DEF StepsOf
    <3>3. CASE memoryOpen /\ memory' = WithLast(memory, TornLine)
      BY <3>1, <3>3, MergeSteps
    <3>4. ASSUME NEW line, memory' = Append(memory, line), EndsWith(line)
          PROVE  StepsOf(s)' = {}
      BY <2>2, <3>1, <3>4, AppendSteps DEF EndsWith
    <3> QED
      BY <1>4, <3>2, <3>3, <3>4
  <2>4. IndexesOf(s)' = 0 .. Len(sessions'[s].runs) - 1
    BY <2>1, <2>3 DEF IndexesOf, Fresh
  <2>5. CountsOf(s)'
    BY <2>1, <2>4 DEF CountsOf, Fresh
  <2> QED
    BY <2>3, <2>5 DEF TellsOf
<1>8. \A s \in Sessions' : TellsOf(s)' /\ CountsOf(s)'
  <2>1. CASE Len(sessions') = Len(sessions)
    BY <1>2, <2>1 DEF Sessions
  <2>2. ASSUME NEW p \in Procs, NEW call \in DOMAIN Calls, NEW stage \in {"loop", "raised"},
               Begin(p, call, stage), Len(sessions') = Len(sessions) + 1
        PROVE  \A s \in Sessions' : TellsOf(s)' /\ CountsOf(s)'
    <3>1. \A s \in Sessions' : s \in Sessions \/ s = Len(sessions) + 1
      BY <1>3, <2>2 DEF Sessions
    <3> QED
      BY <1>2, <1>7, <2>2, <3>1
  <2> QED
    BY <2>1, <2>2, StepLength
<1> QED
  BY <1>5, <1>6, <1>8 DEF RecordInv

LEMMA InitRecordInv == SessionInit => RecordInv
<1> SUFFICES ASSUME SessionInit PROVE RecordInv
  OBVIOUS
<1>1. Len(sessions) = 0 /\ DOMAIN memory = {} /\ memoryOpen = FALSE
  BY EmptySeq DEF SessionInit
<1> QED
  BY <1>1 DEF RecordInv, Sessions, KnownSessions, OpenLast

(***************************************************************************)
(* session_memory.jsonl and the ledger are written one after the other and *)
(* by several processes, with nothing that joins them, and writes to both  *)
(* may fail; and yet every step remembered is a cycle of its session, in   *)
(* order, none is missing of a session that finished, no line of the       *)
(* ledger contradicts one, and each has its line while the ledger can be   *)
(* read.                                                                   *)
(***************************************************************************)
THEOREM MemoryTellsTheLedger == SessionSpec => []MemoryMatchesLedger
<1>1. SInv /\ AnswerDurable /\ RecordInv => MemoryMatchesLedger
  <2> SUFFICES ASSUME SInv, AnswerDurable, RecordInv, NEW s \in Sessions
               PROVE  LET x     == sessions[s]
                          steps == StepsOf(s)
                      IN  /\ \E n \in {Len(x.runs), Len(x.runs) - 1} :
                               /\ {memory[k].step_index : k \in steps} = 0 .. n - 1
                               /\ x.stage = "finished" => n = Len(x.runs)
                          /\ \A k \in steps :
                               /\ \A j \in steps : j < k => memory[j].step_index < memory[k].step_index
                               /\ memory[k].cycle = x.runs[memory[k].step_index + 1].cycle
                               /\ \A i \in 1 .. Len(ledger) :
                                    ledger[i].intact /\ ledger[i].payload.cycle = memory[k].cycle =>
                                      (ledger[i].payload.event = "commit_executed" <=> memory[k].allowed)
                               /\ Readable(ledger) => Traced(memory[k].cycle)
    BY Zenon DEF MemoryMatchesLedger
  <2> DEFINE x == sessions[s]
  <2>1. \E n \in {Len(x.runs), Len(x.runs) - 1} :
          /\ {memory[k].step_index : k \in StepsOf(s)} = 0 .. n - 1
          /\ x.stage = "finished" => n = Len(x.runs)
    BY DEF RecordInv, CountsOf, IndexesOf
  <2>2. ASSUME NEW k \in StepsOf(s)
        PROVE  /\ \A j \in StepsOf(s) : j < k => memory[j].step_index < memory[k].step_index
               /\ memory[k].cycle = x.runs[memory[k].step_index + 1].cycle
               /\ \A i \in 1 .. Len(ledger) :
                    ledger[i].intact /\ ledger[i].payload.cycle = memory[k].cycle =>
                      (ledger[i].payload.event = "commit_executed" <=> memory[k].allowed)
               /\ Readable(ledger) => Traced(memory[k].cycle)
    <3> DEFINE c == memory[k].cycle
    <3>1. /\ memory[k].step_index \in 0 .. Len(x.runs) - 1
          /\ c = x.runs[memory[k].step_index + 1].cycle
          /\ cycles[c].outcome \in {"executed", "rejected"}
          /\ memory[k].allowed = cycles[c].decision.allowed
          /\ \A j \in StepsOf(s) : j < k => memory[j].step_index < memory[k].step_index
      BY DEF RecordInv, TellsOf
    <3>2. memory[k].step_index + 1 \in 1 .. Len(x.runs) /\ Consentless(x, cycles)
      <4>1. Len(x.runs) \in Nat /\ Consentless(x, cycles)
        BY Lengths DEF SInv, Good
      <4> QED
        BY <3>1, <4>1
    <3>3. c \in Cycles
      BY <3>1, <3>2 DEF Consentless, Cycles
    <3>4. Readable(ledger) => Traced(c)
      BY <3>1, <3>3 DEF AnswerDurable
    <3>5. ASSUME NEW i \in 1 .. Len(ledger), ledger[i].intact, ledger[i].payload.cycle = c
          PROVE  ledger[i].payload.event = "commit_executed" <=> cycles[c].decision.allowed
      BY <3>5 DEF SInv, IInv, Traces
    <3> QED
      BY <3>1, <3>4, <3>5
  <2> QED
    BY <2>1, <2>2
<1>2. SInv /\ MemoryInv /\ RecordInv /\ [SessionNext]_allVars => RecordInv'
  BY NextRecordInv
<1>3. SessionSpec => []RecordInv
  BY InitRecordInv, <1>2, DurableInvariance, PTL DEF SessionSpec
<1> QED
  BY <1>1, <1>3, DurableInvariance, PTL
=============================================================================
