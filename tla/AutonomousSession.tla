-------------------------- MODULE AutonomousSession --------------------------
(***************************************************************************)
(* AutonomousSessionRunner.run over Runtime's cycles, in several processes *)
(* that share one ledger and one session memory file.  A goal is its       *)
(* sequence of steps, a step its sequence of candidates, and a candidate   *)
(* its signals with the proposal it stands for.                            *)
(*                                                                         *)
(* `sessions' holds the locals of every run there was; the number of a     *)
(* session stands for its session_id, and `runs' and `late' tell of the    *)
(* cycles it started and of those that came back: step_index, the number   *)
(* of step_results and command_count are all Len(late).  `memory' is the   *)
(* lines of session_memory.jsonl, and `memoryOpen' says that the last one  *)
(* still lacks its newline.                                                *)
(***************************************************************************)
EXTENDS Runtime, RolloutPlanner

CONSTANTS Calls,         \* the calls of run, each named: its goal and its policy
          MemoryTears,   \* whether a write to the memory may stop short
          MaxSessions    \* bound of the exploration

VARIABLES sessions,
          session,   \* the session each process began last, or 0
          memory, memoryOpen

memoryVars == <<memory, memoryOpen>>
sessionVars == <<sessions, session, memoryVars>>
allVars == <<vars, sessionVars>>

\* Goals and steps are sequences, a limit is a number of commands, and an
\* optional one has at most one value.  The proposal of a candidate is
\* run_command_cycle's for it: in the role "rollout", and without a consent
\* token.
ASSUME SessionAssumption ==
  /\ MaxSessions \in Nat /\ MemoryTears \in BOOLEAN
  /\ \A call \in DOMAIN Calls :
       LET policy == Calls[call].policy
           goal   == Calls[call].goal
       IN  /\ policy.max_steps \in Nat
           /\ policy.max_command_count \subseteq Nat
           /\ \A limit, other \in policy.max_command_count : limit = other
           /\ IsSequence(goal)
           /\ \A i \in DOMAIN goal :
                /\ IsSequence(goal[i])
                /\ \A j \in DOMAIN goal[i] :
                     LET candidate == goal[i][j]
                     IN  /\ candidate.viability \in Int /\ candidate.valence \in Int
                         /\ candidate.proposal \in Proposals
                         /\ candidate.proposal.consent_token = {}
                         /\ candidate.proposal.llm_role = "rollout"

Over == {"finished", "raised", "lost"}
Stages == {"loop", "ranking", "cycle", "closing", "summarising"} \cup Over
Reasons == {"completed", "max_steps_reached", "max_command_count_reached",
            "max_wall_clock_reached", "rejected_step", "no_candidates"}

SessionTypeOK ==
  /\ TypeOK
  /\ sessions \in Seq([call : DOMAIN Calls, stage : Stages, elapsed : Nat,
                       scores : Seq(Int), runs : Seq([plan : Nat, cycle : 1 .. Len(cycles)]),
                       late : Seq(BOOLEAN), reason : Reasons])
  /\ session \in [Procs -> 0 .. Len(sessions)]
  /\ \A p \in Procs : session[p] # 0 =>
       LET s == sessions[session[p]]
       IN  /\ Len(s.runs) \in {Len(s.late), Len(s.late) + 1}
           /\ pc[p] \notin {"idle", "dead"} => s.stage = "cycle"
           /\ s.stage = "cycle" => s.runs # <<>> /\ s.runs[Len(s.runs)].cycle = cycle[p]

SessionInit ==
  /\ Init
  /\ sessions = <<>>
  /\ session = [p \in Procs |-> 0]
  /\ memory = <<>> /\ memoryOpen = FALSE

InSession(p) == session[p] # 0 /\ sessions[session[p]].stage \notin Over

At(p, stage) == session[p] # 0 /\ sessions[session[p]].stage = stage

Update(p, s) == sessions' = [sessions EXCEPT ![session[p]] = s]

\* A line that does not parse: a part of one, or two run together.  As
\* history, it says what there was when it came to be.
TornLine == [event |-> "torn", cycles |-> Len(cycles), sessions |-> Len(sessions)]

\* read_all returns, instead of raising JSONDecodeError; and a read_all that
\* passes over what it cannot parse (not the code's).
MemoryReadableSkipping == TRUE

MemoryReadable == \A i \in DOMAIN memory : memory[i].event # "torn"

\* What a write after an open line makes of it: one line, which does not parse.
RunOn == IF memory[Len(memory)].event = "torn" THEN memory ELSE WithLast(memory, TornLine)

Remember(record) ==
  /\ memory' = IF memoryOpen THEN RunOn ELSE Append(memory, record)
  /\ memoryOpen' = FALSE

\* The write raises OSError, with nothing in the file, part of the record, or
\* all of it but the newline.
RememberTorn(record) ==
  /\ MemoryTears
  /\ \/ UNCHANGED memoryVars
     \/ /\ IF memoryOpen THEN memory' = RunOn
           ELSE \E line \in {TornLine, record} : memory' = Append(memory, line)
        /\ memoryOpen' = TRUE

Begin(p, call, stage) ==
  /\ pc[p] = "idle" /\ ~ InSession(p)
  /\ Len(sessions) < MaxSessions
  /\ sessions' = Append(sessions, [call |-> call, stage |-> stage,
                                   elapsed |-> 0, scores |-> <<>>, runs |-> <<>>,
                                   late |-> <<>>, reason |-> "completed"])
  /\ session' = [session EXCEPT ![p] = Len(sessions) + 1]
  /\ UNCHANGED vars

StartRecord == [event |-> "session_started", session |-> Len(sessions) + 1]

StartSession(p, call) == Begin(p, call, "loop") /\ Remember(StartRecord)

StartSessionRaises(p, call) == Begin(p, call, "raised") /\ RememberTorn(StartRecord)

Goal(s) == Calls[s.call].goal
Policy(s) == Calls[s.call].policy

TimeOut(s) == \E limit \in Policy(s).max_wall_clock_seconds : s.elapsed >= limit

\* The clock of p's session moves on, up to its limit.  Time that passes
\* elsewhere is first noticed where run looks at the clock: before a step and
\* after its cycle.
Tick(p) ==
  /\ At(p, "loop") \/ At(p, "cycle")
  /\ pc[p] = "idle"
  /\ LET s == sessions[session[p]]
     IN  /\ Policy(s).max_wall_clock_seconds # {} /\ ~ TimeOut(s)
         /\ Update(p, [s EXCEPT !.elapsed = @ + 1])
  /\ UNCHANGED <<vars, session, memoryVars>>

-----------------------------------------------------------------------------
(* An iteration of the loop: the guards, the ranking, the cycle. *)

Candidates(s) == Goal(s)[Len(s.late) + 1]

LoopEnds(s) == Len(s.late) >= Policy(s).max_steps \/ Len(s.late) >= Len(Goal(s))

\* A budget that stops one command late (not the code's).
CommandsSpentLate(s) == \E limit \in Policy(s).max_command_count : Len(s.late) > limit

CommandsSpent(s) == \E limit \in Policy(s).max_command_count : Len(s.late) >= limit

\* What the guards say before a step: the reason to stop, or "none".
StopBefore(s) ==
  IF LoopEnds(s) THEN IF Len(Goal(s)) > Policy(s).max_steps THEN "max_steps_reached" ELSE "completed"
  ELSE IF TimeOut(s) THEN "max_wall_clock_reached"
  ELSE IF CommandsSpent(s) THEN "max_command_count_reached"
  ELSE IF Candidates(s) = <<>> THEN "no_candidates"
  ELSE "none"

StopLoop(p) ==
  LET s == sessions[session[p]]
  IN  /\ At(p, "loop") /\ pc[p] = "idle"
      /\ StopBefore(s) # "none"
      /\ Update(p, [s EXCEPT !.stage = "closing", !.reason = StopBefore(s)])
      /\ UNCHANGED <<vars, session, memoryVars>>

\* The candidates of every step in the order rank_candidates gives them.
Rankings ==
  [call \in DOMAIN Calls |-> [step \in DOMAIN Calls[call].goal |->
    RankCandidates(Calls[call].goal[step])]]

Ranked(s) == Rankings[s.call][Len(s.late) + 1]

\* plan_rollouts: what it ranks is taken from the candidates again below.
PlanRollouts(p) ==
  LET s == sessions[session[p]]
  IN  /\ At(p, "loop") /\ pc[p] = "idle"
      /\ StopBefore(s) = "none"
      /\ ~ RankRaises(Candidates(s))
      /\ Update(p, [s EXCEPT !.stage = "ranking", !.scores = <<>>])
      /\ UNCHANGED <<vars, session, memoryVars>>

\* The session ends with an exception: nothing more is remembered of it.
Fail(p) ==
  /\ Update(p, [sessions[session[p]] EXCEPT !.stage = "raised"])
  /\ UNCHANGED session

Raise(p) == Fail(p) /\ UNCHANGED memoryVars

PlanRolloutsRaises(p) ==
  LET s == sessions[session[p]]
  IN  /\ At(p, "loop") /\ pc[p] = "idle"
      /\ StopBefore(s) = "none"
      /\ RankRaises(Candidates(s))
      /\ Raise(p)
      /\ UNCHANGED vars

\* The lines of the memory about a trajectory, as their places in it.
RecordsOf(ref) ==
  {k \in DOMAIN memory : memory[k].event = "step_recorded" /\ memory[k].ref = ref}

Successes(records) == Cardinality({k \in records : memory[k].allowed})

\* The mean itself, not a twentieth of it (not the code's).
BiasUnscaled(ref) ==
  LET records == RecordsOf(ref)
      count   == Cardinality(records)
  IN  IF records = {} THEN 0
      ELSE (20 * BiasUnit * (2 * Successes(records) - count)) \div count

\* trajectory_bias: successes less failures, over both, times 0.05.  The clamp
\* to [-0.05, 0.05] never bites.
Bias(ref) ==
  LET records == RecordsOf(ref)
      count   == Cardinality(records)
  IN  IF records = {} THEN 0
      ELSE (BiasUnit * (2 * Successes(records) - count)) \div count

\* The score of the next ranked candidate, with the memory as it is now.
ScoreNext(p) ==
  LET s == sessions[session[p]]
      candidates == Candidates(s)
      i == Ranked(s)[Len(s.scores) + 1]
  IN  /\ At(p, "ranking") /\ pc[p] = "idle"
      /\ Len(s.scores) < Len(candidates) /\ MemoryReadable
      /\ Update(p, [s EXCEPT !.scores = Append(@, RankingScore(candidates, i) + Bias(candidates[i].ref))])
      /\ UNCHANGED <<vars, session, memoryVars>>

\* A read_all that is tried again until it parses (not the code's).
ScoreNextRetried(p) ==
  /\ At(p, "ranking") /\ pc[p] = "idle"
  /\ Len(sessions[session[p]].scores) < Len(Candidates(sessions[session[p]])) /\ ~ MemoryReadable
  /\ UNCHANGED allVars

\* trajectory_bias raises: read_all met a line that does not parse.
ScoreNextRaises(p) ==
  LET s == sessions[session[p]]
  IN  /\ At(p, "ranking") /\ pc[p] = "idle"
      /\ Len(s.scores) < Len(Candidates(s)) /\ ~ MemoryReadable
      /\ Raise(p)
      /\ UNCHANGED vars

\* k is the place of the first of the best scores.
IsBest(scores, k) ==
  \A m \in DOMAIN scores : scores[m] < scores[k] \/ (scores[m] = scores[k] /\ k <= m)

\* The plan that is run is the first candidate with the best one's reference.
IsPlan(s, i) ==
  /\ \E k \in DOMAIN s.scores :
       IsBest(s.scores, k) /\ Candidates(s)[Ranked(s)[k]].ref = Candidates(s)[i].ref
  /\ \A j \in 1 .. i - 1 : Candidates(s)[j].ref # Candidates(s)[i].ref

Chosen(p) ==
  LET s == sessions[session[p]]
  IN  IF At(p, "ranking") /\ Len(s.scores) = Len(Candidates(s))
      THEN {i \in DOMAIN Candidates(s) : IsPlan(s, i)} ELSE {}

StartCycle(p) ==
  \E plan \in Chosen(p), prop \in Proposals :
    LET s == sessions[session[p]]
    IN  /\ prop = Candidates(s)[plan].proposal
        /\ Decide(p, prop) \/ DecideRaises(p, prop)
        /\ Update(p, [s EXCEPT !.stage = "cycle",
                               !.runs = Append(@, [plan |-> plan, cycle |-> cycle'[p]])])
        /\ UNCHANGED <<session, memoryVars>>

CycleRefused(p) ==
  \E plan \in Chosen(p), prop \in Proposals :
    /\ prop = Candidates(sessions[session[p]])[plan].proposal
    /\ Refuse(p, prop)
    /\ Raise(p)

RuntimeProceeds(p) == At(p, "cycle") /\ Proceed(p) /\ UNCHANGED sessionVars

\* The cycle's append fails, and run_cycle raises.
RuntimeFails(p) ==
  /\ At(p, "cycle")
  /\ TearLedger(p, "raised") \/ LoseAnswer(p, "raised")
  /\ UNCHANGED sessionVars

Returned(p, outcomes) ==
  At(p, "cycle") /\ pc[p] = "idle" /\ cycles[cycle[p]].outcome \in outcomes

StepRecord(p, s) ==
  [event |-> "step_recorded", session |-> session[p], step_index |-> Len(s.late),
   ref |-> Candidates(s)[s.runs[Len(s.runs)].plan].ref,
   allowed |-> cycles[cycle[p]].decision.allowed, cycle |-> cycle[p]]

\* A clock that is not looked at after a cycle (not the code's).
StopAfterUntimed(p, s) ==
  IF ~ cycles[cycle[p]].decision.allowed /\ Policy(s).stop_on_reject THEN "rejected_step"
  ELSE "none"

StopAfter(p, s) ==
  IF ~ cycles[cycle[p]].decision.allowed /\ Policy(s).stop_on_reject THEN "rejected_step"
  ELSE IF TimeOut(s) THEN "max_wall_clock_reached"
  ELSE "none"

\* Only what was executed is remembered (not the code's).
CycleReturnsSilently(p) ==
  LET s == sessions[session[p]]
      reason == StopAfter(p, s)
  IN  /\ Returned(p, {"executed", "rejected"})
      /\ IF cycles[cycle[p]].outcome = "executed" THEN Remember(StepRecord(p, s))
         ELSE UNCHANGED memoryVars
      /\ Update(p, [s EXCEPT !.late = Append(@, TimeOut(s)),
                             !.stage = IF reason = "none" THEN "loop" ELSE "closing",
                             !.reason = IF reason = "none" THEN @ ELSE reason])
      /\ UNCHANGED <<vars, session>>

\* run_command_cycle returned: the step is remembered, then the guards after
\* it are looked at.
CycleReturns(p) ==
  LET s == sessions[session[p]]
      reason == StopAfter(p, s)
  IN  /\ Returned(p, {"executed", "rejected"})
      /\ Remember(StepRecord(p, s))
      /\ Update(p, [s EXCEPT !.late = Append(@, TimeOut(s)),
                             !.stage = IF reason = "none" THEN "loop" ELSE "closing",
                             !.reason = IF reason = "none" THEN @ ELSE reason])
      /\ UNCHANGED <<vars, session>>

\* An exception that is swallowed, and the step tried again (not the code's).
CycleRaisesSwallowed(p) ==
  /\ Returned(p, {"raised"})
  /\ Update(p, [sessions[session[p]] EXCEPT !.stage = "loop"])
  /\ UNCHANGED <<vars, session, memoryVars>>

CycleRaises(p) == Returned(p, {"raised"}) /\ Raise(p) /\ UNCHANGED vars

CycleReturnsTorn(p) ==
  /\ Returned(p, {"executed", "rejected"})
  /\ RememberTorn(StepRecord(p, sessions[session[p]]))
  /\ Fail(p)
  /\ UNCHANGED vars

FinishRecord(p) ==
  LET s == sessions[session[p]]
  IN  [event |-> "session_finished", session |-> session[p],
       stopped_reason |-> s.reason, steps_executed |-> Len(s.late)]

Finalize(p) ==
  /\ At(p, "closing") /\ pc[p] = "idle"
  /\ Remember(FinishRecord(p))
  /\ Update(p, [sessions[session[p]] EXCEPT !.stage = "summarising"])
  /\ UNCHANGED <<vars, session>>

FinalizeTorn(p) ==
  /\ At(p, "closing") /\ pc[p] = "idle"
  /\ RememberTorn(FinishRecord(p))
  /\ Fail(p)
  /\ UNCHANGED vars

\* summarize reads the memory once more, and run returns.
Summarize(p) ==
  /\ At(p, "summarising") /\ pc[p] = "idle" /\ MemoryReadable
  /\ Update(p, [sessions[session[p]] EXCEPT !.stage = "finished"])
  /\ UNCHANGED <<vars, session, memoryVars>>

SummarizeRaises(p) ==
  /\ At(p, "summarising") /\ pc[p] = "idle" /\ ~ MemoryReadable
  /\ Raise(p)
  /\ UNCHANGED vars

\* The process dies in a cycle or between two.
Die(p) ==
  /\ InSession(p)
  /\ \/ Crash(p) \/ TearLedger(p, "lost") \/ LoseAnswer(p, "lost")
     \/ /\ "crash" \in Faults /\ pc[p] = "idle"
        /\ Goto(p, "dead")
        /\ UNCHANGED <<lane, cycle, cycles, file>>
  /\ Update(p, [sessions[session[p]] EXCEPT !.stage = "lost"])
  /\ UNCHANGED <<session, memoryVars>>

Advance(p) ==
  /\ InSession(p)
  /\ \/ StopLoop(p) \/ PlanRollouts(p) \/ PlanRolloutsRaises(p)
     \/ ScoreNext(p) \/ ScoreNextRaises(p)
     \/ StartCycle(p) \/ CycleRefused(p) \/ RuntimeProceeds(p)
     \/ CycleReturns(p) \/ CycleReturnsTorn(p) \/ CycleRaises(p)
     \/ Finalize(p) \/ FinalizeTorn(p) \/ Summarize(p) \/ SummarizeRaises(p)

SessionNext ==
  \E p \in Procs :
    \/ \E call \in DOMAIN Calls : StartSession(p, call) \/ StartSessionRaises(p, call)
    \/ Advance(p)
    \/ RuntimeFails(p)
    \/ Tick(p)
    \/ Die(p)

SessionSpec == SessionInit /\ [][SessionNext]_allVars

\* A session goes on by itself as long as its process is scheduled.
FairSessionSpec == SessionSpec /\ \A p \in Procs : WF_allVars(Advance(p))

-----------------------------------------------------------------------------
(* Properties *)

Sessions == 1 .. Len(sessions)
CycleOf(s, i) == cycles[sessions[s].runs[i].cycle]

\* "bounded sessions cannot exceed configured limits"
\* (docs/roadmap_autonomous_agent.md:54), in commands: rejected cycles and
\* those that raise count too, and nothing follows a cycle that raised, or a
\* rejected one under stop_on_reject.
WithinLimits ==
  \A s \in Sessions :
    LET policy == Policy(sessions[s])
        count  == Len(sessions[s].runs)
    IN  /\ count <= policy.max_steps
        /\ \A limit \in policy.max_command_count : count <= limit
        /\ \A i \in 1 .. count - 1 :
             /\ CycleOf(s, i).outcome \in {"executed", "rejected"}
             /\ policy.stop_on_reject => CycleOf(s, i).decision.allowed

\* The reason a session gives is the one that held, and a session overruns
\* its wall clock by one cycle at most, which it then owns up to unless that
\* cycle was rejected.
StopsForItsReason ==
  \A s \in Sessions :
    LET x == sessions[s]
        done == Len(x.late)
        held ==
          CASE x.reason = "completed"         -> done = Len(Goal(x))
            [] x.reason = "max_steps_reached" -> done = Policy(x).max_steps /\ done < Len(Goal(x))
            [] x.reason = "max_command_count_reached" -> Policy(x).max_command_count = {done}
            [] x.reason = "max_wall_clock_reached" -> TimeOut(x)
            [] x.reason = "rejected_step"  -> ~ CycleOf(s, done).decision.allowed
            [] x.reason = "no_candidates"  -> Goal(x)[done + 1] = <<>>
    IN  /\ \A i \in 1 .. Len(x.runs) - 1 : ~ x.late[i]
        /\ x.stage = "finished" =>
             /\ held
             /\ done > 0 /\ x.late[done] =>
                  x.reason \in {"max_wall_clock_reached", "rejected_step"}

\* Where the steps of session s are in the memory.
StepsOf(s) == {k \in DOMAIN memory : memory[k].event = "step_recorded" /\ memory[k].session = s}

\* Session memory and ledger tell one story although nothing writes them
\* together and writes to either may fail: the steps remembered of a session
\* are its cycles in their order, all of them if it finished and all but the
\* last at least; no line of the ledger contradicts one, and each has its line
\* for as long as the ledger can be read.
MemoryMatchesLedger ==
  \A s \in Sessions :
    LET x     == sessions[s]
        steps == StepsOf(s)
    IN  /\ \E n \in {Len(x.runs), Len(x.runs) - 1} :
             /\ {memory[k].step_index : k \in steps} = 0 .. n - 1
             /\ x.stage = "finished" => n = Len(x.runs)
        /\ \A k \in steps :
             /\ \A j \in steps : j < k => memory[j].step_index < memory[k].step_index
             /\ memory[k].cycle = x.runs[memory[k].step_index + 1].cycle
             /\ \A i \in 1 .. Len(ledger) :
                  ledger[i].intact /\ ledger[i].payload.cycle = memory[k].cycle =>
                    (ledger[i].payload.event = "commit_executed" <=> memory[k].allowed)
             /\ Readable(ledger) => Traced(memory[k].cycle)

\* A memory with a line that does not parse stops autonomy altogether: a
\* session that begins after it runs no command, one that was under way at
\* most the one it had already chosen, and none ends as if it had finished.
TornMemoryStops ==
  \A i \in DOMAIN memory : memory[i].event = "torn" =>
    \A s \in Sessions :
      LET after == {k \in DOMAIN sessions[s].runs : sessions[s].runs[k].cycle > memory[i].cycles}
      IN  /\ Cardinality(after) <= 1
          /\ s > memory[i].sessions => after = {} /\ sessions[s].stage # "finished"

\* No session, whatever candidates it was given and whatever it remembers,
\* releases what needs consent, nor anything with an effect between a reading
\* at or above t_high and the next one at or below t_low.
ReleasesWithoutConsent ==
  \A s \in Sessions : \A i \in 1 .. Len(sessions[s].runs) :
    LET c == sessions[s].runs[i].cycle
    IN  cycles[c].released =>
          /\ ~ Capabilities[cycles[c].proposal.action].requires_consent
          /\ Effect(c) # "none" =>
               \A b \in 1 .. c :
                 SameProcess(b, c) /\ AtLeast(Score(b), THigh) => Recovered(b, c)

\* What a session remembers moves its choice by no more than 0.1 of rank,
\* though it reads its memory anew for each candidate while other sessions
\* write to it.
SelectsNearBest ==
  \A s \in Sessions : \A i \in 1 .. Len(sessions[s].runs) :
    LET candidates == Goal(sessions[s])[i]
        plan == sessions[s].runs[i].plan
    IN  \A j \in DOMAIN candidates :
          RankingScore(candidates, j) - RankingScore(candidates, plan) <= 2 * BiasUnit

\* Every session that starts comes to its end, and says so or raises: there are
\* MaxSessions at most, none ends twice, and again and again all are over.
SessionEnds == []<>(\A s \in Sessions : sessions[s].stage \in Over)
================================================================================
