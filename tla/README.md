# REE_OpenClaw in TLA+

A model of the parts of REE_OpenClaw that decide what an agent may do and that keep
the record of it: the risk/conflict (RC) lane and the scores that drive it, the
capability verifier, the hash-chained ledger, the runtime cycle that joins them, the
autonomous sessions that drive cycles, the offline consolidation that summarises the
ledger, and the probes and hand-off reports that vouch for all of it. TLC checks
each on small instances; TLAPS proves every safety property of every part for all
instances. Paths below are relative to the repository; `ree` stands for
`src/ree_openclaw`.

## The system

| Component | State it keeps | Operations | What makes it correct |
|---|---|---|---|
| RC lane, `ree/rc/hysteresis.py` | the posture NORMAL / VERIFY / LOCKDOWN, in memory | `update(score)` | posture follows the thresholds with a band between `t_low` and `t_high`; a bad score changes nothing |
| RC scoring, `ree/rc/scoring.py` | none | `score(signals)` | a weighted mean inside [0, 1] |
| Verifier, `ree/verifier/verifier.py` | the audit log | `verify(request)` | nothing is released that manifest, posture and consent do not all allow; stricter posture or later time never releases more |
| Manifest loader, `ree/verifier/capability_manifest.py` | none | `load_capabilities` | every field has the type the verifier uses it at |
| Ledger, `ree/ledger/append_only.py` | the JSONL file | `append`, `read_all`, `verify_chain` | lines are only added, each linked to the one before by its hash |
| Runtime, `ree/runtime/pipeline.py` | the lane, the verifier, the ledger's path | `run_cycle`, `plan_rollouts`, `run_offline_consolidation` | decide, then release, then record, each proposal once, and the record true |
| Sandbox, `ree/sandbox/harness.py` | none | `run`, `write_text`, `read_text` | only commands on the allowlist, for a bounded time |
| Commit token, `ree/commit/token.py` | none | `mint_commit_token` | one token for each released action |
| Router, `ree/adapter/routing.py` | trusted source names | `route_*`, `assert_may_write` | model and user output has no path to trusted types |
| Trusted stores, `ree/stores/trusted.py` | three dictionaries | `write`, `read` | written by trusted sources only |
| Planner, `ree/rollout/planner.py` | weights | `build_candidates`, `rank_candidates` | a stable order by the weighted signals |
| Session runner, `ree/agent/autonomy.py` | locals of a run | `run`, `write_artifact` | the guards hold, the reason given is the true one |
| Session memory, `ree/agent/memory.py` | a JSONL file | `start_session`, `append_step_record`, `finalize_session`, `trajectory_bias`, `summarize` | tells what the cycles did; bounded influence on the choice |
| Consolidator, `ree/offline/consolidation.py` | `skill_reliability.json` | `consolidate` | started by allowed triggers only; summarises a prefix of the ledger |
| CLI, `ree/cli.py` | none | commands | passes the calls on |
| Probe, `scripts/run_runtime_authority_probes.py` | a pack of four files for each seed | four cycles, a verdict, the pack | the verdict is that of what was seen |
| Hand-off, `scripts/generate_weekly_handoff.py`, and validator, `scripts/validate_experiment_packs.py` | `latest.md` | list the packs, check them, report gates and blockers | a report without blockers can be looked up, though packs are being written meanwhile |

How they meet: `run_cycle` routes the texts, has the lane update, asks the
verifier under the new posture, and then appends a rejection to the ledger or
mints a token, runs the command and appends the commit. A session ranks its
candidates, biases the ranking by what the memory file says, and sends the best
through `run_command_cycle`. A probe puts four cycles to a fresh runtime and
leaves a pack of files; a hand-off reads the packs of all probes and starts the
validator on the same directory. All calls are synchronous; the concurrency is
between processes, since every CLI command builds a fresh runtime over the same
state directory (`ree/cli.py:29`), with one ledger file and one memory file and
no lock, and since probes and hand-offs share a directory, again with none.

What is hard here: appends of several processes that read the same tail
(`ledger/append_only.py:18`); a write that stops short; a process that dies, or
a command that times out, between release and record; a posture that must hold
over many cycles while scores wander inside the band, or are no number at all;
consent that lapses; session guards that are looked at between cycles while
cycles take time; a ranking that reads a memory other sessions are writing, or
that no longer parses; a report made of packs that are half written.
`PROJECT.json` lists each hazard at its line with the properties that cover it.

## Modules

| Module | What it is | The code |
|---|---|---|
| `RCHysteresis` | thresholds and the lane's transition function, with NaN | `RCHysteresis.update` |
| `RCScoring` | validation of signals and the weighted mean of the four, with its rounding | `rc/scoring.py` |
| `RCLane` | the lane as a machine, with history of readings | the class |
| `ScoredLane` | the lane fed by overrides and by scores made of signals | `run_cycle`'s first lines |
| `PostureLatch` | what a lane promises: a latch set at one threshold and released at a lower one, beside a comparator for lockdown | abstract |
| `VerifierRules` | consent validity, strict mode, the checks in their order | `CapabilityVerifier.verify` |
| `CapabilityVerifier` | calls of the verifier with time passing; the audit log is its state | the class |
| `HashChain` | entries, digests, `read_all`, `verify_chain` | `ledger/append_only.py` |
| `AppendOnlyLedger` | the file under any number of processes: read of the tail, write of the line, torn write, stop between | `append` |
| `CommitBoundary` | the contract of `docs/contracts/proposal_commit_execution_cycle.md`: decided, then released, then recorded | abstract |
| `CycleRules` | what `run_cycle` makes of its input: the checks that raise, the request to the verifier | `runtime/pipeline.py`, `adapter/routing.py` |
| `Runtime` | `run_cycle` in several processes over one ledger, instantiating `AppendOnlyLedger` for its appends | `runtime/pipeline.py`, `sandbox/harness.py` |
| `RolloutPlanner` | the order of the candidates of one step | `rollout/planner.py` |
| `AutonomousSession` | sessions over `Runtime`'s cycles, with the memory file | `agent/autonomy.py`, `agent/memory.py` |
| `OfflineConsolidator` | `consolidate` in several processes over `AppendOnlyLedger`'s file, and the one artifact they write | `offline/consolidation.py` |
| `AuthorityProbe` | one seed's four cycles through the rules, and the verdict over any rows | `_run_seed`, `_compute_metrics` |
| `ExperimentPacks` | probes that leave packs and a hand-off that reports them, in one directory | the three scripts |
| `MC*` | values for the constants of the module they extend | |
| `*_proofs` | theorems about the module they extend | |

How the model stands for the code:

* A score is an integer on a grid, inside [0, 1] or out of it, or `NaN`, for
  which every comparison is false. The grid is 0.05 (`Scale` = 20 steps) where
  only thresholds matter, 0.0125 in `RCLane`, whose means of signals fall between
  them, and 0.01 in `ExperimentPacks`, whose scores are jittered in hundredths.
  The thresholds are the code's defaults (0.35, 0.65, 0.9); the theorems take any.
* `RCScoring` lets a mean come out one step off, up or down. That covers the
  floats (the default weights add up to 0.9999999999999999) and more: a property
  that holds here does not hang on which side the rounding falls. A mean of zero
  is exact.
* A capability is the record the manifest holds; a proposal is what
  `ProposalCycleInput` holds, without the texts. An optional value is a set with
  at most one element.
* `entry_hash` is the record of what was hashed, so two digests are equal
  exactly when their contents are: collisions are left out.
* `cycles` in `Runtime` is the verifier's audit log with history the log leaves
  out (the consent token, whether the command started, how `run_cycle` ended). A
  cycle's number is the `commit_id`. `pc` follows a process through `run_cycle`:
  `Decide` is everything up to the verifier's record, `Release` the start of the
  command, `Finish` / `Expire` its end, `ReadLedger` and `WriteLedger` the two
  halves of `append`. The exceptions are actions: `Refuse` (empty command,
  unknown role, score out of range), `DecideRaises` (the verifier cannot write its
  audit record, after the lane has moved), `ReleaseRaises` (allowlist), `Expire`
  (timeout), `ReadLedgerRaises` (the ledger does not parse), `TearLedger` (the write
  stops short) and `LoseAnswer` (the line is whole on the file, but `fsync` raises or
  the process dies before `append` returns). `Faults` says which of them a run has.
* A process that is started again has a new lane, so it is another member of
  `Procs`, and `dead` is final.
* In `AutonomousSession`, `sessions` holds the locals of each run. `step_index`,
  `command_count` and the number of step results are always equal at the top of
  the loop, and are the length of `late`. `ScoreNext` is one read of the memory
  for one candidate. Signals are in quarters and a rank is the weighted sum on a
  grid where 0.05 is `BiasUnit`; 12 makes the bias exact for up to four records.
  The wall clock moves only where `run` looks at it, since time that passes
  elsewhere is first noticed there.
* A session's cycles are `Runtime`'s with all its faults, so lines of the ledger
  tear under sessions too. Any write to the memory may stop short as well
  (`RememberTorn`) and leave nothing, a part of a line, or all of it but the newline,
  on which the next record then ends up (`RunOn`). The session raises either way,
  and once a line does not parse every read of the memory raises. `TornLine` holds
  as history how many cycles and sessions there were when it came to be.
* In `ExperimentPacks` a count says how far a pack's four files have come. What a
  probe found is fixed when it starts the pack: the answer of the rules
  (`RunSeed`), or one of `Breakages`, a runtime that fails. A probe that is killed
  takes no more steps. One hand-off is followed to its end.
* In `OfflineConsolidator` a call is `ReadEntries`, `OpenArtifact` (`"w"` empties
  the file) and `WriteArtifact`. The length of an artifact's text is not
  modelled, so after two overlapping writes the file is either the second text
  or `Mixed`, the second with the end of the first behind it.

## Runs

| Run | Asks | Bounds, and why they are enough |
|---|---|---|
| `RCLane` | is the lane a latch with a comparator beside it, and what does it take to make it strict | overrides on every grid point, both out-of-range sides and NaN; every combination of signals that are 0, a half or 1, one that is not valid and one NaN. The state is finite, so every sequence is covered |
| `CapabilityVerifier` | do the ordered checks release what the policy says, and less under stricter conditions | any two calls, which is what the two-call properties compare, over requests that fail each check and a clock that reaches an expiry |
| `RuntimeShared` | what does the shared file still guarantee, is the record true and every answer in it, is each process a legal ledger writer, is every cycle answered | 2 processes, 3 cycles, every fault anywhere: enough for a fork, for a line that tears, for one that runs together with the next, and for a cycle after either |
| `RuntimeBoundary` | do lane, verifier and release hold a posture together, does `run_cycle` implement the contract's stages | 2 processes, 3 cycles, crash, timeout and failing audit log but whole writes; proposals that tell all postures apart. `t_high` is 0.75 and the verifier's `rc_high_threshold` 0.65, so that the two notions of strict differ. Three cycles of one process are entry, a reading in the band or NaN, and the release it must still stop |
| `AutonomousSession` | do guards, memory, ledger and verifier agree over sessions, what stops when the memory is torn, and does every session end | 2 processes, 2 sessions, 4 cycles, 7 calls, every fault of the runtime, any number of torn writes to ledger and memory; a second session is enough for memory to change a choice, for two to interleave and for one to meet the other's torn line |
| `OfflineConsolidator` | what does the artifact tell of a ledger that grows and tears meanwhile | 2 consolidators, 2 answers, 3 lines by one writer (torn, open and run-together lines need no second one; forks do not matter to the summary) |
| `ExperimentPacks` | does a verdict follow from what was seen, and does a report without blockers list only packs that are there | 2 probes with a seed in common, one hand-off, two times of the clock, 16 draws on both sides of `t_low`, two answers of failing runtimes (nothing executed at all; the destructive action refused), one pack of another experiment |
| `RCScoreRange` | violation: a score that is no number is accepted | |
| `LedgerForks` | violation: two processes fork the chain for good | |
| `RuntimeTimeout` | violation: a command that timed out was released and left no trace | |
| `RuntimeReplay` | violation: one consent token releases two actions | |
| `RuntimeRecovery` | violation: the cycle after a lockdown releases a privileged action with no recovery between | |

The passing properties, in short. *Lane*: `EdgesOutsideBand` (the normal boundary is
crossed only by a reading outside the band), `ImplementsLatch`,
`StrictPostureCorroborated` (no single signal ends NORMAL, and LOCKDOWN takes all
four). *Verifier*: `PostureMonotone`, `ConsentBinds`, `AllowsExactlyReleasable` (the
ordered checks against a declarative policy). *Ledger*, asked of the file that
`run_cycle`s write: `Links` (every line that parses hangs from the lines before it),
`ForkIsTheOnlyBreak`, `AppendOnly`, `DamageIsPermanent`. *Runtime*:
`NoReleaseInLockdown`, `StrictUntilRecovery` (whether strict means the lane's `t_high`
or the verifier's threshold), `TraceFaithful`, `AnswerDurable`, `UsesLedger`,
`ImplementsBoundary`, `Answered`. *Sessions*: `WithinLimits`, `StopsForItsReason`,
`MemoryMatchesLedger`, `TornMemoryStops`, `ReleasesWithoutConsent`, `SelectsNearBest`,
`SessionEnds`. *Consolidation*: `SummarisesPrefix` (the fold agrees with counts taken
from the ledger as it is now), `NotOlderThanAnswered`, `AnswerMatchesFile`. *Packs*:
`SupportsWhatWasSeen` (the verdict says "supports" exactly of runs that kept the
contract row by row and showed the reflex), `RulesSupport` (an honest run is never
reported otherwise, whatever its seed draws), `PacksOnlyGrow`, `CleanHandoffBacked`,
`HandoffEnds`.

Every property has a mutant in `PROJECT.json`: a slip of the code (marked "not
the code's" in the modules) that TLC finds it violated by.

Fairness is assumed in three places. `FairSpec` says that a process which is
scheduled goes on with its cycle: `run_cycle` waits for nothing but its own
command, which ends or is killed after `max_runtime_seconds`, and for the file
system. `FairSessionSpec` says the same of a session's next step, and
`FairPacksSpec` of a hand-off's, which reads and writes files and runs the
validator to its end. None says that a clock ticks, that a caller calls, or that
a process survives: a crash is an action of the first two, and a hand-off that is
killed has no ending to speak of.

`CHECK_DEADLOCK FALSE` is in the runs whose behaviours end: all processes may be
dead, and the bounds on lines, cycles and sessions stop the rest.

## Where code and documents disagree

Five runs end in a violation, each of something the repository says. In one of
them the repository does not agree with itself:
`docs/contracts/rc_conflict_hysteresis.md:56` has LOCKDOWN block "pending explicit
recovery" and line 62 wants a "sustained drop below `T_low`", while rule 4 of the same
contract (line 50) leaves LOCKDOWN at the first reading under `t_lock`, and that is
what the code does (`RuntimeRecovery`). More disagreements met on the way are not
runs:

* `LOCKDOWN` has no band: readings on either side of `t_lock` toggle it on every
  update, whereas line 61 of that contract excludes "fast mode flapping"; and one
  reading at or below `t_low` is enough to recover, whereas line 62 asks for a
  sustained drop.
* A mismatch of provenance alone scores 0.35000000000000003 in floats, above
  `t_low`, where the contract's equation gives 0.35, which is not. It is far from
  `t_high`, so a spoof that only shows there does not raise the posture
  (`StrictPostureCorroborated`).
* A signal that is NaN passes `RCConflictSignals.validate` and makes the score
  NaN, which the lane ignores (see `RCScoreRange`).
* A session overruns `max_wall_clock_seconds` by up to one cycle, whereas
  `docs/roadmap_autonomous_agent.md:54` has "bounded sessions cannot exceed
  configured limits" (`StopsForItsReason` bounds the overrun).
* The verdict of a probe does not look at `consent_gate_rejection_rate`. A run
  without an executed, or without a rejected, cycle gets the rate 0.0 and is
  reported as "weakens", though nothing was violated, whereas
  `evidence/experiments/INTERFACE_CONTRACT.md:66` has "weakens" for violations that
  were observed.
* The dispatch under `evidence/planning` asks for `architecture_epoch` in every
  manifest; no probe writes it and the manifest's schema forbids it.
* A hand-off runs the validator on the default directory whatever `--runs-root`
  says, and its counts may be older than the files (`CleanHandoffBacked` says
  what is left). A hand-off that dies while it writes leaves `latest.md` empty.


## Proofs

Each theorem holds for every value of the constants that meets the assumptions
named; TLC evaluates these assumptions on the instances above.

**The lane** (`RCLane_proofs`, from `ThresholdsAssumption`: `t_low < t_high < t_lock`
on a grid of any fineness, for any weights). The invariant is the type and where
NORMAL was last entered or left. `TypeCorrect`, `EdgesStayOutside` (NORMAL is left and
entered only by a reading outside the band), and `LaneImplementsLatch`: every step of
the lane is a step of `PostureLatch` or a stutter. The proofs are about any call of
`update` (`Call`), whoever makes it, so `ScoredLaneKeeps` has all of this for the lane
that overrides and scored signals drive. `StrictIsCorroborated`
(`StrictPostureCorroborated`) bounds a mean by the weights of the signals that are not
zero, on either side of the rounding. Its hypothesis `Corroborating` asks of weights
and thresholds what the code's meet (`DefaultsCorroborate`, which TLC evaluates): no
single weight reaches `t_high`, and no three reach `t_lock`. With other weights the
property may fail, which is why it is a hypothesis of the theorem and not an
assumption of the module.

**The verifier** (`VerifierRules_proofs` for one request, `CapabilityVerifier_proofs`
for the log, from `PolicyAssumption` and `RequestsAssumption`). `ReasonAllowed`
turns the ordered checks into the conjunction of what all of them ask.
`ReleasesByPolicy`, `MonotoneInPosture`, `ConsentIsBinding` and `TypeCorrect` rest
on the invariant that every record of the log is the rules' decision at its time.

**The ledger** (`AppendOnlyLedger_proofs`, for any writers, payloads and length).
Linking is not inductive by itself: a writer links to the tail it read, which may be
old by the time it writes. The invariant adds that each tail that is held is the
hash of the line it names, if that line parses, or genesis. From it `LinksHold`,
`OnlyForksBreak`, `AppendOnlyHolds`, `DamageStays`; and `SoloChainIntact`: one
writer whose writes are whole keeps a chain that verifies.

**The runtime** (`Runtime_proofs`, from `RuntimeAssumption`, `ThresholdsAssumption`
and `PolicyAssumption`, for any number of processes, any proposals, any faults).
No property is inductive alone, since each relates a release to readings and to
a file that other processes move meanwhile. The invariant has these parts:

* `Owned`: where a process is says how far its cycle has come, and a cycle has one
  owner. This keeps a process's step from another's cycle.
* `Decided`: each decision is the rules' answer under the posture and the clock of
  its time.
* `Remembers`: a lane that had a reading at or above `t_high` and none at or below
  `t_low` since is not in NORMAL, and one locked by a reading that no number
  followed is in LOCKDOWN; the same of the posture each cycle was given.
* the ledger's own invariant, by instantiating `AppendOnlyLedger_proofs`.
* `Traces`: a line that parses tells of one cycle that is over, and truly.
* `Counted`: there are at most as many lines as cycles that are over, which is why
  the bound of the ledger's module never stops a `run_cycle`.

From it `TypeCorrect`, `LockdownHolds` (`NoReleaseInLockdown`), `StrictHolds`
(`StrictUntilRecovery`, for any order of `t_high` and the verifier's threshold),
`TraceHolds` (`TraceFaithful`), and `ImplementsLedger`: each step is a step of a legal
writer of the file or leaves it alone. So `LedgerGuarantees` carries the ledger's
theorems over to any number of `run_cycle`s. `AnswersDurable` (`AnswerDurable`) holds
under every fault: an answer's line is altered only by becoming unreadable, and then
the ledger is unreadable for good. `RuntimeImplementsBoundary` alone assumes that no
write is torn; it adds to the invariant that every line parses and that no pending
cycle has its line, nor any answered one lacks it.

**The sessions** (`AutonomousSession_proofs`, from `SessionAssumption` and those of
the runtime, for any processes, calls, faults and bounds). Each step of a session
is one of the runtime's, leaves its variables alone, or is the death of an idle
process, so the runtime's invariant holds of sessions too. `LastsTo` says what
other processes cannot change: what a cycle was asked and decided, and the whole
of one that is over. Over it stands an invariant of each session: how many cycles
it has started and how many came back at each stage (`Guarded`), that its cycles
carry no consent (`Consentless`), that every cycle it went on after came back in
time and, under `stop_on_reject`, allowed (`CameBack`), and why it stops (`Held`);
and no two processes share a session (`Linked`). From it `GuardsHold`
(`WithinLimits`), `ReasonsHold` (`StopsForItsReason`) and `ConsentNeverBypassed`
(`ReleasesWithoutConsent`), which joins it to the runtime's `Remembers`. For
`TornMemoryHolds` (`TornMemoryStops`) the invariant adds, of every line that does
not parse, that a session that ran a cycle since is no longer `Ready`: it would
have to read the memory before its next.

`SessionTypeCorrect` adds `Busy` (a process inside a cycle belongs to a session that
waits for it). `SessionsKeepRuntime` carries over what is proved of `run_cycle`: the
posture, the true record, the durable answers and the legal use of the ledger hold of
cycles that sessions start, with no further hypothesis: sessions have every fault of
the runtime, torn ledger writes included. `SessionsImplementBoundary` carries over the
contract's stages, under the runtime theorem's own hypothesis that no write to the
ledger is torn. `ChoiceNearBest` (`SelectsNearBest`): while a session scores its
candidates the memory may change between one and the next, so the invariant (`Near`)
says only that each score kept so far is within one `BiasUnit` of the candidate's
rank; that the bias never exceeds it follows from successes being a part of the
records, and that the choice is a maximum from `LeastNumber`.

`MemoryTellsTheLedger` (`MemoryMatchesLedger`) needs the most. A record is written two
steps after the cycle it tells of, by a process that may die between, into a file that
other sessions extend, and it must agree with a line of the ledger that others have
followed since, and that a torn write may have made unreadable: no line that parses
contradicts a record, and while the ledger can be read each record has its line. It
holds with torn writes of either file, any number of them. The invariant `RecordInv`
says of each session that its step records are in order, that each tells of the cycle
of its number, which is over and answered (`TellsOf`), that they count up to the
cycles that came back or one less (`CountsOf`), that no record is of a session that
has not begun (`KnownSessions`), and that a step record that lacks its newline is the
last of a session that raised over it (`OpenLast`). A step then leaves a session's
records and counts alone, starts a cycle, or adds exactly one record; and the
runtime's invariant supplies the ledger's line.

**Probes and hand-off** (`ExperimentPacks_proofs`, from `PacksAssumption`).
`VerdictMeansWhatItSays`: over any rows at all, "supports" is said of just the
clean runs that met the reflex. `PacksTyped`, `PacksGrow`, `SupportsMeansSound`
and `CleanReportsBacked` follow from an invariant that says what the hand-off has
collected so far and that a pack, once as far as it got, stays. `HonestRunsSupport`
(`RulesSupport`) follows the lane through the four cycles of any draw: NORMAL for the
two low scores, whatever their jitter, so that the consented destructive action is
allowed; LOCKDOWN for the third, so that the privileged one after it is blocked; and
no row that is not clean. Its hypothesis `ProbedPolicy` is what a probe takes for
granted of the runtime: a manifest that lists its two hazardous actions with the
scopes it uses, and thresholds on the right sides of its scores. TLC evaluates it for
the default manifest and thresholds (`DefaultsSuitProbe`).

**Consolidation** (`OfflineConsolidator_proofs`, from `OfflineAssumption` and the
ledger's, for any number of calls, triggers, writers and lines). The difficulty is
that an artifact is compared with the ledger as it is now, and not as it was read.
The invariant says of every artifact that is held, on file or answered that the
lines it counted are still there with their payloads (`Told`): the ledger's own
theorem that lines are only added keeps that true, except of the last line it
counted if that was open, which may run together with the next record. `PrefixHolds`
(`SummarisesPrefix`) then needs that the fold agrees with the counts, by induction on
the length of the prefix. `AnswersNotUndone` (`NotOlderThanAnswered`) holds because an
artifact carries how many answers there were when it was read; `AnswersOnFile`
(`AnswerMatchesFile`) because a file that was opened alone and not marred since has
at most one writer (`Alone`). `OfflineTypeCorrect`, and `LedgerUndisturbed`: with
consolidation the ledger is still the ledger, so its theorems hold beside it.

**Induction over data.** The library's induction theorems take an operator as a
parameter, which the provers here cannot instantiate. `AppendOnlyLedger_proofs`
therefore proves `Induction` in the form of a set of numbers that has 0 and is
closed under successor, and before it `LeastNumber`, from the library's facts that
`<` is well founded on the naturals and that a well founded relation has minimal
elements. The theorems above that speak of a fold or of a maximum rest on these;
recursion is written as a recursive function, whose equation a lemma derives by
exhibiting such a function.

Every safety invariant and action property that a passing run checks is stated by
a theorem. Only model-checked: liveness (`Answered`, `SessionEnds`, `HandoffEnds`),
since ENABLED is out of this prover's reach; and the five runs that end in a
violation, which are counterexamples.

## Not modelled, and simplifications

* `ImplementsBoundary` is checked and proved without torn writes. With them it
  fails: a full line without its newline is lost to the record that follows, and
  the stage of its cycle with it. `AnswerDurable` and `MemoryMatchesLedger` speak of
  answers for as long as the ledger can be read: after a torn line it cannot, and
  the next append of every process raises after its release.
* The bytes of one `write` to a file opened for appending arrive together, and what
  `fsync` returned from is not lost.
* A viability or valence that is NaN passes the planner's validation; such
  candidates are left out, since the order Python then sorts them in is not
  defined.
* `expires_at` is a time that compares with the clock. A string that is no time,
  or one without a zone, raises in the code and is not modelled.
* A process started again is in NORMAL whatever the posture was; the properties
  of posture are stated for each process.
* Trusted stores (`ree/stores/trusted.py`): no code outside the tests constructs
  one, so there is no caller whose steps could be put in an order. The check they
  make of a source is the router's, and no more than a membership.
* `write_artifact` of a session: it writes a result that was already returned, and
  two runs of one scenario overwrite each other's.
* Manifest loading: the tables the modules get are what the loader accepts. Its
  parsing is not modelled, nor are the texts the router wraps, the sandbox's
  `write_text` and `read_text`, and `ree/cli.py`, which parses arguments and passes
  the calls on.
* In the hand-off: the summary of claims, the status column and the layout. A
  validator that cannot be run, or whose schema files are missing, and that fails
  for it (`scripts/generate_weekly_handoff.py:144`); a manifest that parses but is
  no object, or has a timestamp that is none, over which the collection raises
  (`:100`, `:122`): no probe writes one. Rows are collected in the order of the
  seeds as numbers, where the paths sort as strings; the order decides nothing
  but which file is read while another is being written, and every order of the
  writes is explored.

## Plan

Done, in this order: the lane, the verifier and the ledger with their proofs;
the runtime over them; sessions with their memory; offline consolidation; the
scoring of signals and the planner; probes and hand-off with their proofs; the
proofs of the runtime and of the sessions over it; the proofs of the memory, the
choice, the consolidation, the scored lane and the honest run.

Next: the well-founded halves of the liveness properties, as step lemmas (each
step of a session or a hand-off makes a measure smaller), which would leave only
fairness to TLC; and larger instances of the sessions.
