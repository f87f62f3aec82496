-------------------------------- MODULE Runtime --------------------------------
(***************************************************************************)
(* OpenClawRuntime.run_cycle in several processes over one state           *)
(* directory: each process has its own RC lane, all of them write the same *)
(* ledger.  A process that is started again has a new lane and nothing     *)
(* else of the old one, so it is another member of Procs; `dead' is final. *)
(*                                                                         *)
(* `cycles' is the verifier's audit log, one record for each decision in   *)
(* its order, with history the log leaves out: the decisions whose own     *)
(* record could not be written, the consent token, whether the command was *)
(* started, and how run_cycle ended.  A cycle's number stands for the      *)
(* commit_id of its event, and the number of decisions made is the clock   *)
(* that expires_at is read against.                                        *)
(***************************************************************************)
EXTENDS CycleRules, HashChain

CONSTANTS Procs,
          Proposals,   \* the ProposalCycleInputs callers pass
          Faults,      \* what goes wrong, of the below
          MaxCycles    \* bound of the exploration

\* A process dies; a command is killed; a write to the ledger, or the flush
\* after it, fails; the audit log cannot be written.
ASSUME RuntimeAssumption ==
  /\ Faults \subseteq {"crash", "timeout", "tear", "audit"}
  /\ MaxCycles \in Nat
  /\ \A prop \in Proposals :
       /\ prop.score \in Float
       /\ \A token \in prop.consent_token : token.expires_at \subseteq Int

VARIABLES pc,        \* where each process is in run_cycle
          lane,      \* rc_lane.state of each process
          cycle,     \* the cycle each process decided last, or 0
          cycles,
          ledger, openLine, tail   \* as in AppendOnlyLedger

vars == <<pc, lane, cycle, cycles, ledger, openLine, tail>>

EventNames == {"commit_executed", "proposal_rejected"}
Events == [event : EventNames, cycle : 1 .. MaxCycles, action : {prop.action : prop \in Proposals},
           rc_state : RCStates, score : {prop.score : prop \in Proposals}]

File == INSTANCE AppendOnlyLedger
          WITH Writers <- Procs, Payloads <- Events, MaxLines <- MaxCycles

PCs == {"idle", "releasing", "running", "rejecting", "recording", "dead"}
Outcomes == {"pending", "executed", "rejected", "raised", "lost"}

TypeOK ==
  /\ pc \in [Procs -> PCs]
  /\ lane \in [Procs -> RCStates]
  /\ cycles \in Seq([proc : Procs, proposal : Proposals, rc_state : RCStates,
                     decision : Decisions, released : BOOLEAN, outcome : Outcomes])
  /\ cycle \in [Procs -> 0 .. Len(cycles)]
  /\ \A p \in Procs : pc[p] \notin {"idle", "dead"} => cycle[p] # 0 /\ cycles[cycle[p]].proc = p
  /\ File!TypeOK

Init ==
  /\ pc = [p \in Procs |-> "idle"]
  /\ lane = [p \in Procs |-> "NORMAL"]
  /\ cycle = [p \in Procs |-> 0]
  /\ cycles = <<>>
  /\ File!Init

file == <<ledger, openLine, tail>>

Goto(p, label) == pc' = [pc EXCEPT ![p] = label]

\* run_cycle ends for p, by return or exception.
End(p, outcome) == cycles' = [cycles EXCEPT ![cycle[p]].outcome = outcome]

\* run_cycle raises before it has changed anything.
Refuse(p, prop) ==
  /\ pc[p] = "idle"
  /\ ~ WellFormed(prop)
  /\ UNCHANGED vars

\* A lane started afresh for each cycle (not the code's).
FreshPosture(p, prop) == NextState("NORMAL", prop.score)

\* The posture rc_lane.update gives the cycle.
Posture(p, prop) == NextState(lane[p], prop.score)

\* The branch on verification.allowed, and one that is not taken (not the
\* code's).
AlwaysReleasing(decision) == "releasing"

Branch(decision) == IF decision.allowed THEN "releasing" ELSE "rejecting"

\* What the verifier makes of a proposal.
Verdict(p, prop) == Decision(RequestOf(prop, Posture(p, prop)), Len(cycles))

\* run_cycle up to the verifier's decision: the lane has moved.
Verify(p, prop, outcome) ==
  /\ pc[p] = "idle"
  /\ Len(cycles) < MaxCycles
  /\ WellFormed(prop)
  /\ lane' = [lane EXCEPT ![p] = Posture(p, prop)]
  /\ cycle' = [cycle EXCEPT ![p] = Len(cycles) + 1]
  /\ cycles' = Append(cycles, [proc |-> p, proposal |-> prop, rc_state |-> Posture(p, prop),
                               decision |-> Verdict(p, prop), released |-> FALSE,
                               outcome |-> outcome])
  /\ UNCHANGED file

Decide(p, prop) == Verify(p, prop, "pending") /\ Goto(p, Branch(Verdict(p, prop)))

\* The decision's audit record cannot be written, and verify raises OSError.
DecideRaises(p, prop) ==
  /\ "audit" \in Faults
  /\ Verify(p, prop, "raised")
  /\ UNCHANGED pc

\* executor.run starts the command: the action is released.
Release(p) ==
  /\ pc[p] = "releasing"
  /\ cycles[cycle[p]].proposal.command = "listed"
  /\ cycles' = [cycles EXCEPT ![cycle[p]].released = TRUE]
  /\ Goto(p, "running")
  /\ UNCHANGED <<lane, cycle, file>>

\* executor.run raises PermissionError for a command off the allowlist, or
\* FileNotFoundError for one that is not installed.
ReleaseRaises(p) ==
  /\ pc[p] = "releasing"
  /\ cycles[cycle[p]].proposal.command # "listed"
  /\ End(p, "raised")
  /\ Goto(p, "idle")
  /\ UNCHANGED <<lane, cycle, file>>

\* The command ends, with whatever return code.
Finish(p) ==
  /\ pc[p] = "running"
  /\ Goto(p, "recording")
  /\ UNCHANGED <<lane, cycle, cycles, file>>

\* max_runtime_seconds pass first: the command is killed and TimeoutExpired
\* leaves run_cycle.
Expire(p) ==
  /\ "timeout" \in Faults
  /\ pc[p] = "running"
  /\ End(p, "raised")
  /\ Goto(p, "idle")
  /\ UNCHANGED <<lane, cycle, file>>

Recording(p) == pc[p] \in {"rejecting", "recording"}

\* Events with their names crossed (not the code's).
EventCrossed(p) ==
  [event    |-> IF pc[p] = "recording" THEN "proposal_rejected" ELSE "commit_executed",
   cycle    |-> cycle[p],
   action   |-> cycles[cycle[p]].proposal.action,
   rc_state |-> cycles[cycle[p]].rc_state,
   score    |-> cycles[cycle[p]].proposal.score]

EventOf(p) ==
  [event    |-> IF pc[p] = "recording" THEN "commit_executed" ELSE "proposal_rejected",
   cycle    |-> cycle[p],
   action   |-> cycles[cycle[p]].proposal.action,
   rc_state |-> cycles[cycle[p]].rc_state,
   score    |-> cycles[cycle[p]].proposal.score]

ReadLedger(p) ==
  /\ Recording(p)
  /\ File!ReadTail(p)
  /\ UNCHANGED <<pc, lane, cycle, cycles>>

\* An append that waits for the file to parse (not the code's).
ReadLedgerRetries(p) ==
  /\ Recording(p) /\ ~ File!Appending(p)
  /\ ~ Readable(ledger)
  /\ UNCHANGED vars

\* read_all raises JSONDecodeError, and so does run_cycle.
ReadLedgerRaises(p) ==
  /\ Recording(p) /\ ~ File!Appending(p)
  /\ ~ Readable(ledger)
  /\ End(p, "raised")
  /\ Goto(p, "idle")
  /\ UNCHANGED <<lane, cycle, file>>

\* Slips of the write: an error that is swallowed; a tail kept for the next
\* append.
WriteLedgerDropped(p) ==
  /\ Recording(p)
  /\ File!Abandon(p)
  /\ End(p, IF pc[p] = "recording" THEN "executed" ELSE "rejected")
  /\ Goto(p, "idle")
  /\ UNCHANGED <<lane, cycle>>
WriteLedgerKeepsTail(p) ==
  /\ Recording(p) /\ File!Appending(p) /\ ~ openLine
  /\ ledger' = Append(ledger, File!EntryOf(p, EventOf(p)))
  /\ End(p, IF pc[p] = "recording" THEN "executed" ELSE "rejected")
  /\ Goto(p, "idle")
  /\ UNCHANGED <<lane, cycle, openLine, tail>>

\* The entry is on the file and run_cycle returns its result.
WriteLedger(p) ==
  /\ Recording(p)
  /\ File!WriteEntry(p, EventOf(p))
  /\ End(p, IF pc[p] = "recording" THEN "executed" ELSE "rejected")
  /\ Goto(p, "idle")
  /\ UNCHANGED <<lane, cycle>>

\* run_cycle ends inside its append: OSError, or the process is gone.
Break(p, outcome) ==
  /\ End(p, outcome)
  /\ Goto(p, IF outcome = "raised" THEN "idle" ELSE "dead")
  /\ UNCHANGED <<lane, cycle>>

\* The write stops short, or writes nothing.
TearLedger(p, outcome) ==
  /\ "tear" \in Faults
  /\ Recording(p)
  /\ File!TornWrite(p, EventOf(p)) \/ File!Abandon(p)
  /\ Break(p, outcome)

\* The whole line is on the file, but os.fsync raises or the process dies
\* before append returns.
LoseAnswer(p, outcome) ==
  /\ (IF outcome = "raised" THEN "tear" ELSE "crash") \in Faults
  /\ Recording(p)
  /\ File!WriteEntry(p, EventOf(p))
  /\ Break(p, outcome)

\* The process dies inside run_cycle.
Crash(p) ==
  /\ "crash" \in Faults
  /\ pc[p] \notin {"idle", "dead"}
  /\ \/ File!Abandon(p)
     \/ ~ File!Appending(p) /\ UNCHANGED file
  /\ End(p, "lost")
  /\ Goto(p, "dead")
  /\ UNCHANGED <<lane, cycle>>

\* What run_cycle does next by itself once it has decided.
Proceed(p) ==
  \/ Release(p) \/ ReleaseRaises(p)
  \/ Finish(p) \/ Expire(p)
  \/ ReadLedger(p) \/ ReadLedgerRaises(p) \/ WriteLedger(p)

Next ==
  \E p \in Procs :
    \/ \E prop \in Proposals : Refuse(p, prop) \/ Decide(p, prop) \/ DecideRaises(p, prop)
    \/ Proceed(p)
    \/ \E outcome \in {"raised", "lost"} : TearLedger(p, outcome) \/ LoseAnswer(p, outcome)
    \/ Crash(p)

Spec == Init /\ [][Next]_vars

\* run_cycle has no wait of its own: a process that is scheduled goes on, the
\* command ends or its timeout does, and files answer.
FairSpec == Spec /\ \A p \in Procs : WF_vars(Proceed(p))

-----------------------------------------------------------------------------
(* Properties *)

Cycles == 1 .. Len(cycles)
SameProcess(c1, c2) == cycles[c1].proc = cycles[c2].proc
Score(c) == cycles[c].proposal.score
Effect(c) == cycles[c].proposal.effect
Hazardous(c) == Effect(c) \in {"privileged", "destructive"}

\* Between c1 and c2, c2 included, their process had a reading at or below
\* t_low.
Recovered(c1, c2) == \E c \in c1 + 1 .. c2 : SameProcess(c, c1) /\ AtMost(Score(c), TLow)

\* The line of cycle c is in the ledger and parses.
Traced(c) == \E i \in 1 .. Len(ledger) : ledger[i].intact /\ ledger[i].payload.cycle = c

\* Cycle c is strict by the verifier's threshold or by the lane's: its own
\* score is at or above rc_high_threshold, or its process had one at or above
\* t_high and none at or below t_low since.
StrictAt(c) ==
  \/ AtLeast(Score(c), HighThreshold)
  \/ \E b \in 1 .. c :
       SameProcess(b, c) /\ AtLeast(Score(b), THigh) /\ ~ Recovered(b, c)

\* Under either of the two notions of strict, however they differ and however
\* many cycles ago the posture began, nothing with an effect is released
\* without consent, and nothing destructive at all: the lane, the verifier and
\* the order run_cycle asks them in, together.
StrictUntilRecovery ==
  \A c \in Cycles :
    cycles[c].released /\ Effect(c) # "none" /\ StrictAt(c) =>
      /\ Effect(c) # "destructive"
      /\ \E token \in cycles[c].proposal.consent_token :
           \A e \in token.expires_at : e >= c

\* "LOCKDOWN: block privileged/destructive actions pending explicit recovery"
\* (docs/contracts/rc_conflict_hysteresis.md:56): after a reading at or above
\* t_lock a process releases nothing hazardous until one at or below t_low.
LockdownPendingRecovery ==
  \A c1, c2 \in Cycles :
    (/\ c1 < c2 /\ SameProcess(c1, c2)
     /\ AtLeast(Score(c1), TLock)
     /\ cycles[c2].released /\ Hazardous(c2))
      => Recovered(c1, c2)

\* "No privileged/destructive release in LOCKDOWN"
\* (docs/contracts/proposal_commit_execution_cycle.md:44), told from the scores:
\* the cycle's own is under t_lock, and one that is not a number does not
\* lift a lockdown the cycle before it entered.
NoReleaseInLockdown ==
  \A c \in Cycles :
    cycles[c].released /\ Hazardous(c) =>
      /\ ~ AtLeast(Score(c), TLock)
      /\ \A b \in 1 .. c - 1 :
           SameProcess(b, c) /\ AtLeast(Score(b), TLock) =>
             \E d \in b + 1 .. c : SameProcess(d, c) /\ Score(d) # NaN

\* Every line tells of one cycle, as that cycle went, and no cycle has two:
\* an executed commit was allowed and started, a rejected proposal was
\* neither, whatever processes interleave and die.
TraceFaithful ==
  /\ \A i \in 1 .. Len(ledger) :
       ledger[i].intact =>
         LET event == ledger[i].payload
         IN  /\ event.cycle \in Cycles
             /\ event.rc_state = cycles[event.cycle].rc_state
             /\ IF event.event = "commit_executed"
                THEN cycles[event.cycle].released /\ cycles[event.cycle].decision.allowed
                ELSE ~ cycles[event.cycle].released /\ ~ cycles[event.cycle].decision.allowed
  /\ \A i, j \in 1 .. Len(ledger) :
       (ledger[i].intact /\ ledger[j].intact /\ ledger[i].payload.cycle = ledger[j].payload.cycle)
         => i = j

\* "Every released action has a corresponding commit token and ledger trace"
\* (docs/contracts/proposal_commit_execution_cycle.md:45), once its cycle is
\* over.
ReleaseTraced ==
  \A c \in Cycles : cycles[c].released => Traced(c) \/ cycles[c].outcome = "pending"

\* A result that run_cycle returned is in the ledger ("local durability
\* flush", README.md:23) for as long as the ledger can be read: what makes an
\* answer's line unreadable shows in the file for good.
AnswerDurable ==
  Readable(ledger) =>
    \A c \in Cycles : cycles[c].outcome \in {"executed", "rejected"} => Traced(c)

\* "Tokens must be scoped, logged, revocable, and non-replayable"
\* (docs/contracts/user_interaction_and_delegation.md:43): no token is what
\* releases two actions.
NonReplayable ==
  \A c1, c2 \in Cycles :
    (/\ c1 # c2
     /\ cycles[c1].released /\ cycles[c1].decision.requires_consent
     /\ cycles[c2].released /\ cycles[c2].decision.requires_consent)
      => cycles[c1].proposal.consent_token \cap cycles[c2].proposal.consent_token = {}

\* run_cycle uses the ledger file as AppendOnlyLedger says a writer does, so
\* what is proved there holds here.
UsesLedger == File!Spec

\* Every readable line of the file run_cycle writes hangs from the lines before
\* it, whatever processes interleave, die and tear their writes.
Links == File!Links

\* The file run_cycle writes, as long as it can be read, fails verification
\* only for a line that was written from a stale read.
ForkIsTheOnlyBreak == File!ForkIsTheOnlyBreak

\* No cycle removes or alters a line, but for a last one without its newline.
AppendOnly == File!AppendOnly

\* No further cycle, of any process, makes a damaged ledger verify again.
DamageIsPermanent == File!DamageIsPermanent

\* run_cycle implements the contract's order of stages while no write is
\* torn.
Boundary == INSTANCE CommitBoundary
  WITH verdict <- [c \in Cycles |-> IF cycles[c].decision.allowed THEN "allowed" ELSE "denied"],
       stage <- [c \in Cycles |-> IF Traced(c) THEN "recorded"
                                   ELSE IF cycles[c].released THEN "released" ELSE "decided"]
ImplementsBoundary == Boundary!Spec

\* Every cycle that was decided is answered, by a result or an exception,
\* whatever the other processes do with the ledger meanwhile.
Answered ==
  \A c \in 1 .. MaxCycles : (c \in Cycles) ~> (c \in Cycles /\ cycles[c].outcome # "pending")
================================================================================
