---------------------------- MODULE ExperimentPacks ----------------------------
(***************************************************************************)
(* The directory evidence/experiments and the three scripts that share it: *)
(* probes (run_runtime_authority_probes.py) leave packs in it while a      *)
(* weekly hand-off (generate_weekly_handoff.py) reads them, has them       *)
(* checked by validate_experiment_packs.py, and writes latest.md.  Nothing *)
(* locks the directory.  A process that dies is one that takes no further  *)
(* step: what it was writing stays as it is.                               *)
(*                                                                         *)
(* A pack's four files are opened and written one after the other and      *)
(* never touched again, so a count says which are there and which are      *)
(* whole: the k-th is created by step 2k - 1 and whole after step 2k.  A   *)
(* read of several files of one pack is one step here: as the files only   *)
(* grow, it finds what the reads would find apart, one by one.             *)
(***************************************************************************)
EXTENDS AuthorityProbe

CONSTANTS Probes, SeedLists,   \* the processes that probe, and the --seeds of each
          Breakages,           \* what _run_seed may return of a runtime that fails
          Foreign,             \* packs of other experiments, which the disk may hold
          NoSeed,              \* a seed that is not an integer
          JsonSchema,          \* whether jsonschema is installed
          Window,              \* --window-minutes, and the clock's last value, a bound
          MaxTime

VARIABLES now,
          packs,     \* run directory -> what is in it
          probe,     \* seeds left to run, and the directory being filled
          handoff    \* the hand-off's locals, and what latest.md says in the end

packVars == <<now, packs, probe, handoff>>

ExperimentType == "runtime_authority_commit_boundary"
AllowedDirections == {"supports", "weakens", "mixed", "unknown"}

Manifest == 1
Metrics == 2
Summary == 3
Traces == 4
Steps == 2 * Traces

ASSUME PacksAssumption ==
  /\ JsonSchema \in BOOLEAN /\ NoSeed \notin Int
  /\ {Window, MaxTime} \subseteq Nat
  /\ SeedLists \in [Probes -> Seq(Int)]
  /\ \A answer \in Breakages : IsAnswer(answer)
  /\ \A id \in DOMAIN Foreign :
       /\ id.experiment_type # ExperimentType
       /\ Foreign[id] = [says |-> Foreign[id].says, written |-> Foreign[id].written]
       /\ Foreign[id].written \in 0 .. Steps

Exists(pack, file) == pack.written >= 2 * file - 1
Whole(pack, file)  == pack.written >= 2 * file

\* The directory of a run: its name holds the seed and the time.
RunDir(seed) == [experiment_type |-> ExperimentType, seed |-> seed, timestamp |-> now]

\* What the files of a run will say.  `ruled' and `sound' are history: whether
\* the runtime followed its rules, and whether the contract's words for
\* "supports" hold of what was seen of it.
PackOf(answer, ruled) ==
  [evidence_direction |-> EvidenceDirection(answer),
   commits |-> Cardinality(Executed(answer.rows)), rejects |-> Cardinality(Rejected(answer.rows)),
   ruled |-> ruled, sound |-> Clean(answer) /\ ReflexSeen(answer)]

\* The packs runs leave, under the rules and not.
Outcomes ==
  {PackOf(RunSeed(draw), TRUE) : draw \in Draws} \cup {PackOf(answer, FALSE) : answer \in Breakages}

\* One hand-off is followed to its end: the next finds nothing of it.
Idle == [stage |-> "idle", todo |-> {}, rows |-> {}, schema |-> "PASS"]

\* A hand-off without a report to show for it: it found no pack, or died with
\* latest.md emptied and not yet written.
NoReport == [Idle EXCEPT !.stage = "over"]

PacksTypeOK ==
  /\ now \in 0 .. MaxTime
  /\ \A id \in DOMAIN packs : packs[id].written \in 0 .. Steps
  /\ probe \in [Probes -> [left : Seq(Int), pack : SUBSET DOMAIN packs]]
  /\ handoff \in [stage : {"idle", "collecting", "validating", "published", "over"},
                  todo : SUBSET DOMAIN packs,
                  rows : SUBSET [id : DOMAIN packs, counted : BOOLEAN],
                  schema : {"PASS", "FAIL"}]

PacksInit ==
  /\ now = 0
  /\ packs \in {[id \in ids |-> Foreign[id]] : ids \in SUBSET DOMAIN Foreign}
  /\ probe = [p \in Probes |-> [left |-> SeedLists[p], pack |-> {}]]
  /\ handoff = Idle

Tick == now < MaxTime /\ now' = now + 1 /\ UNCHANGED <<packs, probe, handoff>>

-----------------------------------------------------------------------------
(* A probe: main's loop over its seeds. *)

readVars == <<now, handoff>>

AddPack(id, pack) ==
  packs' = [d \in DOMAIN packs \cup {id} |->
              IF d = id THEN [says |-> pack, written |-> 0] ELSE packs[d]]

\* mkdir with exist_ok=True (not the code's).
StartSeedAnywhere(p) ==
  /\ probe[p].pack = {} /\ probe[p].left # <<>>
  /\ LET id == RunDir(Head(probe[p].left))
     IN  /\ \E pack \in Outcomes : AddPack(id, pack)
         /\ probe' = [probe EXCEPT ![p] = [left |-> Tail(@.left), pack |-> {id}]]
  /\ UNCHANGED readVars

\* The directory is made, and the four cycles are run.
StartSeed(p) ==
  /\ probe[p].pack = {} /\ probe[p].left # <<>>
  /\ LET id == RunDir(Head(probe[p].left))
     IN  /\ id \notin DOMAIN packs
         /\ \E pack \in Outcomes : AddPack(id, pack)
         /\ probe' = [probe EXCEPT ![p] = [left |-> Tail(@.left), pack |-> {id}]]
  /\ UNCHANGED readVars

\* mkdir raises FileExistsError: another probe took the name.
StartSeedRaises(p) ==
  /\ probe[p].pack = {} /\ probe[p].left # <<>>
  /\ RunDir(Head(probe[p].left)) \in DOMAIN packs
  /\ probe' = [probe EXCEPT ![p].left = <<>>]
  /\ UNCHANGED <<packs, readVars>>

\* The seed is not left when its last file is whole (not the code's).
WritePackAgain(p) ==
  \E id \in probe[p].pack :
    /\ packs' = [packs EXCEPT ![id].written = @ + 1]
    /\ probe' = IF packs[id].written < Steps THEN probe
                ELSE [probe EXCEPT ![p].pack = {}]
    /\ UNCHANGED readVars

\* The next file is created, or written out; after the last the next seed.
\* No script reads more of a summary than its name, nor any trace: from the
\* summary's creation on, the rest is one step.
WritePack(p) ==
  \E id \in probe[p].pack :
    /\ packs' = [packs EXCEPT ![id].written = IF Exists(packs[id], Summary) THEN Steps ELSE @ + 1]
    /\ probe' = IF packs'[id].written < Steps THEN probe
                ELSE [probe EXCEPT ![p].pack = {}]
    /\ UNCHANGED readVars

-----------------------------------------------------------------------------
(* A hand-off. *)

probeVars == <<now, packs, probe>>

\* What the glob */runs/*/manifest.json finds.
Listed == {id \in DOMAIN packs : Exists(packs[id], Manifest)}

ListPacks ==
  /\ handoff.stage = "idle"
  /\ handoff' = [Idle EXCEPT !.stage = "collecting", !.todo = Listed]
  /\ UNCHANGED probeVars

\* The paths are sorted: by the experiment, then the seed and the time.
PathBefore(a, b) ==
  /\ b.experiment_type = ExperimentType
  /\ \/ a.experiment_type # ExperimentType
     \/ a.seed < b.seed
     \/ a.seed = b.seed /\ a.timestamp < b.timestamp

FirstPaths(ids) == {id \in ids : \A other \in ids : ~ PathBefore(other, id)}

\* The row of a pack.  Its counts are 0 unless its metrics parse; the rest it
\* copies from a manifest that never changes.
RowOf(id) == [id |-> id, counted |-> Whole(packs[id], Metrics)]

\* A manifest that does not parse is read again (not the code's).
CollectRowWaiting ==
  /\ handoff.stage = "collecting"
  /\ \E id \in FirstPaths(handoff.todo) :
       /\ Whole(packs[id], Manifest)
       /\ handoff' = [handoff EXCEPT !.todo = @ \ {id}, !.rows = @ \cup {RowOf(id)}]
  /\ UNCHANGED probeVars

\* _collect_rows, one manifest; those that do not parse are passed over.
CollectRow ==
  /\ handoff.stage = "collecting"
  /\ \E id \in FirstPaths(handoff.todo) :
       handoff' = [handoff EXCEPT !.todo = @ \ {id},
                     !.rows = IF Whole(packs[id], Manifest) THEN @ \cup {RowOf(id)} ELSE @]
  /\ UNCHANGED probeVars

LatestCycle(rows) ==
  {row \in rows : \A other \in rows : other.id.timestamp - Window <= row.id.timestamp}

\* "FAIL: no run packs found": no report is written.
NoPacks ==
  /\ handoff.stage = "collecting" /\ handoff.todo = {} /\ handoff.rows = {}
  /\ handoff' = NoReport
  /\ UNCHANGED probeVars

\* The validator is run once the rows are there, and lists the packs again.
RunValidator ==
  /\ handoff.stage = "collecting" /\ handoff.todo = {} /\ handoff.rows # {}
  /\ handoff' = [stage |-> "validating", todo |-> Listed, rows |-> LatestCycle(handoff.rows),
                 schema |-> IF Listed = {} THEN "FAIL" ELSE "PASS"]
  /\ UNCHANGED probeVars

\* Files that are looked for and not read, the summary not at all (not the
\* code's).
ValidPackUnread(pack) == Exists(pack, Manifest) /\ Exists(pack, Metrics)

\* _validate_pack finds no error: manifest and metrics parse, the summary and
\* the directory traces exist; with jsonschema, the direction is a known one.
ValidPack(pack) ==
  /\ Whole(pack, Manifest) /\ Whole(pack, Metrics) /\ Exists(pack, Summary)
  /\ JsonSchema => pack.says.evidence_direction \in AllowedDirections

ValidatePack ==
  /\ handoff.stage = "validating"
  /\ \E id \in FirstPaths(handoff.todo) :
       handoff' = [handoff EXCEPT !.todo = @ \ {id},
                     !.schema = IF ValidPack(packs[id]) THEN @ ELSE "FAIL"]
  /\ UNCHANGED probeVars

SeedsOf(rows, type) == {row.id.seed : row \in {r \in rows : r.id.experiment_type = type}}

SeedDeterminism(rows) ==
  /\ \A row \in rows : row.id.seed # NoSeed
  /\ \A row \in rows : Cardinality(SeedsOf(rows, row.id.experiment_type)) >= 2

HookSurface(rows) ==
  /\ \E row \in rows : row.counted /\ packs[row.id].says.commits > 0
  /\ \E row \in rows : row.counted /\ packs[row.id].says.rejects > 0

\* The report names no blocker: the three gates pass and every direction is a
\* known one.
NoBlocker(rows, schema) ==
  /\ schema = "PASS"
  /\ SeedDeterminism(rows)
  /\ HookSurface(rows)
  /\ \A row \in rows : packs[row.id].says.evidence_direction \in AllowedDirections

\* latest.md is emptied and written; a hand-off that dies in between leaves it
\* empty.
Publish ==
  /\ handoff.stage = "validating" /\ handoff.todo = {}
  /\ handoff' \in {[handoff EXCEPT !.stage = "published"], NoReport}
  /\ UNCHANGED probeVars

HandoffGoesOn == CollectRow \/ NoPacks \/ RunValidator \/ ValidatePack \/ Publish

PacksNext ==
  \/ Tick
  \/ \E p \in Probes : StartSeed(p) \/ StartSeedRaises(p) \/ WritePack(p)
  \/ ListPacks
  \/ HandoffGoesOn

PacksSpec == PacksInit /\ [][PacksNext]_packVars

\* The hand-off waits for nothing: unless it is killed, it goes on.
FairPacksSpec == PacksSpec /\ WF_packVars(HandoffGoesOn)

-----------------------------------------------------------------------------
(* Properties *)

Probed == {id \in DOMAIN packs : id.experiment_type = ExperimentType}

\* A report with no blocker can be looked up: though packs were being left and
\* abandoned while it was made, every pack it lists has its manifest and
\* metrics whole and its summary begun, each experiment in it was run with two
\* seeds, and packs on the disk show a commit and a rejection.
CleanHandoffBacked ==
  handoff.stage = "published" /\ NoBlocker(handoff.rows, handoff.schema) =>
    /\ \A row \in handoff.rows :
         LET pack == packs[row.id]
         IN  /\ Whole(pack, Manifest) /\ Whole(pack, Metrics) /\ Exists(pack, Summary)
             /\ pack.says.evidence_direction \in AllowedDirections
             /\ \E other \in handoff.rows :
                  /\ other.id.experiment_type = row.id.experiment_type
                  /\ other.id.seed # row.id.seed
    /\ \E row \in handoff.rows : packs[row.id].says.commits > 0
    /\ \E row \in handoff.rows : packs[row.id].says.rejects > 0

\* No run of a probe changes what another left, not even when two probes start
\* one seed at one time: packs never go away and their files only grow.
PacksOnlyGrow ==
  [][\A id \in DOMAIN packs :
       /\ id \in DOMAIN packs'
       /\ packs'[id].written >= packs[id].written
       /\ packs'[id].says = packs[id].says]_packVars

\* A manifest on the disk says "supports" of exactly the runs that were clean
\* row by row and met the lockdown right after an allowed cycle
\* (evidence/experiments/INTERFACE_CONTRACT.md:64).
SupportsWhatWasSeen ==
  \A id \in Probed : packs[id].says.evidence_direction = "supports" <=> packs[id].says.sound

\* A capability under which a probe's cycle gets past the shape of its request.
Lists(action, scope, effect) ==
  /\ action \in DOMAIN Capabilities
  /\ LET capability == Capabilities[action]
     IN  /\ capability.effect = effect /\ scope \in capability.allowed_scopes
         /\ capability.required_verifiers \subseteq ImplementedVerifierLabels
         /\ capability.provenance_bindings \subseteq
              ProvenanceKeys(Cycle(action, scope, effect, 0, {}))

\* What a probe takes for granted of the runtime it is run against: a manifest
\* with its two hazardous actions, and thresholds that its low scores, with at
\* most 0.03 of jitter, are below and its high ones, never under 0.9, reach.
ProbedPolicy ==
  /\ Lists("DELETE_FILE", "workspace:sandbox", "destructive")
  /\ Lists("SEND_EMAIL", "mailbox:primary", "privileged")
  /\ \A draw \in Draws : draw.low <= 3
  /\ Hundredths(21) < THigh /\ Hundredths(21) < HighThreshold
  /\ TLock <= Hundredths(90)

\* The rules of the runtime support the claims whatever the seed draws: an
\* honest run is never reported as mixed or weakening.
RulesSupport ==
  \A id \in Probed :
    packs[id].says.ruled => packs[id].says.evidence_direction = "supports"

\* A hand-off that was started ends, whatever state the packs are in.
HandoffEnds == (handoff.stage # "idle") ~> (handoff.stage \in {"published", "over"})
================================================================================
