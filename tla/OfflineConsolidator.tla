-------------------------- MODULE OfflineConsolidator --------------------------
(***************************************************************************)
(* OfflineConsolidator.consolidate called by several processes while       *)
(* others append to the ledger (offline/consolidation.py).  A call is      *)
(* three steps: the ledger is read and summarised, skill_reliability.json  *)
(* is opened for writing, which empties it, and the text is written from   *)
(* its start.  Nothing locks the file.                                     *)
(*                                                                         *)
(* An artifact is what json.dumps is given, without generated_at and       *)
(* without success_rate, which is a quotient of two of its counts.         *)
(* `done', `after' and `marred' are history.                               *)
(***************************************************************************)
EXTENDS AppendOnlyLedger, FiniteSets

CONSTANTS Consolidators,
          Triggers,   \* the trigger sources callers give
          MaxJobs     \* bound of the exploration: calls that return

ASSUME OfflineAssumption ==
  /\ MaxJobs \in Nat
  /\ \A p \in Payloads : p.event \in {"commit_executed", "proposal_rejected"}

VARIABLES job,        \* each consolidator's call: its stage and its artifact
          artifact,   \* what skill_reliability.json holds
          done,       \* the artifacts whose calls returned, in that order
          marred      \* since the file was last opened by a call on its own,
                      \* another opened it too, or a call stopped in its write

offlineVars == <<job, artifact, done, marred>>
allVars == <<vars, offlineVars>>

AllowedTriggers == {"scheduler", "operator_cli"}

\* The file before the first call, just opened, and with the text of a call
\* cut short or of two of them on top of each other.
Absent == [content |-> "absent"]
Empty  == [content |-> "empty"]
Mixed  == [content |-> "mixed"]

NoJob == [stage |-> "none"]

EmptyBucket == [total_events |-> 0, commit_events |-> 0, success_events |-> 0]

Bucket(summary, action) == IF action \in DOMAIN summary THEN summary[action] ELSE EmptyBucket

Bit(b) == IF b THEN 1 ELSE 0

\* What one entry adds to the summary.
Counted(summary, entry) ==
  LET payload == entry.payload
      commit  == payload.event = "commit_executed"
      success == commit /\ payload.returncode = 0
      bucket  == Bucket(summary, payload.action_class)
  IN  [action \in DOMAIN summary \cup {payload.action_class} |->
         IF action # payload.action_class THEN summary[action]
         ELSE [total_events   |-> bucket.total_events + 1,
               commit_events  |-> bucket.commit_events + Bit(commit),
               success_events |-> bucket.success_events + Bit(success)]]

EmptySummary == [action \in {} |-> EmptyBucket]

BuildSummary(entries) ==
  LET summary[n \in 0 .. Len(entries)] ==
        IF n = 0 THEN EmptySummary ELSE Counted(summary[n - 1], entries[n])
  IN  summary[Len(entries)]

ArtifactOf(trigger, entries) ==
  [content |-> "whole", trigger_source |-> trigger, processed_entries |-> Len(entries),
   action_reliability |-> BuildSummary(entries), after |-> Len(done)]

OfflineInit ==
  /\ Init
  /\ job = [c \in Consolidators |-> NoJob]
  /\ artifact = Absent
  /\ done = <<>>
  /\ marred = FALSE

Opened(c) == job[c].stage = "opened"

\* consolidate raises: OfflineTriggerError, or JSONDecodeError from read_all.
ConsolidateRaises(c, trigger) ==
  /\ job[c] = NoJob
  /\ trigger \notin AllowedTriggers \/ ~ Readable(ledger)
  /\ UNCHANGED allVars

\* Slips of the reading: a trigger nobody looks at; lines that do not parse
\* passed over.
ReadEntriesForAnyone(c, trigger) ==
  /\ job[c] = NoJob
  /\ Readable(ledger)
  /\ job' = [job EXCEPT ![c] = [stage |-> "read", artifact |-> ArtifactOf(trigger, ledger)]]
  /\ UNCHANGED <<vars, artifact, done, marred>>
ReadEntriesThatParse(c, trigger) ==
  LET entries == SelectSeq(ledger, LAMBDA line : line.intact)
  IN  /\ job[c] = NoJob
      /\ trigger \in AllowedTriggers
      /\ job' = [job EXCEPT ![c] = [stage |-> "read", artifact |-> ArtifactOf(trigger, entries)]]
      /\ UNCHANGED <<vars, artifact, done, marred>>

\* The ledger is read and summarised.
ReadEntries(c, trigger) ==
  /\ job[c] = NoJob
  /\ trigger \in AllowedTriggers
  /\ Readable(ledger)
  /\ job' = [job EXCEPT ![c] = [stage |-> "read", artifact |-> ArtifactOf(trigger, ledger)]]
  /\ UNCHANGED <<vars, artifact, done, marred>>

Marring(c) == \E d \in Consolidators \ {c} : Opened(d)

\* A file opened without being emptied (not the code's).
OpenArtifactInPlace(c) ==
  /\ job[c].stage = "read"
  /\ job' = [job EXCEPT ![c].stage = "opened"]
  /\ marred' = Marring(c)
  /\ UNCHANGED <<vars, artifact, done>>

\* write_text opens the file with "w".
OpenArtifact(c) ==
  /\ job[c].stage = "read"
  /\ job' = [job EXCEPT ![c].stage = "opened"]
  /\ artifact' = Empty
  /\ marred' = Marring(c)
  /\ UNCHANGED <<vars, done>>

\* The entries counted again when the text is written (not the code's).
WriteArtifactRecounted(c) ==
  LET recounted == [job[c].artifact EXCEPT !.processed_entries = Len(ledger)]
  IN  /\ Opened(c)
      /\ Len(done) < MaxJobs
      /\ \/ artifact' = recounted
         \/ artifact # Empty /\ artifact' = Mixed
      /\ done' = Append(done, recounted)
      /\ job' = [job EXCEPT ![c] = NoJob]
      /\ UNCHANGED <<vars, marred>>

\* write_text writes and closes, and consolidate returns.  A text that
\* another call has written meanwhile stays on behind a shorter one.
WriteArtifact(c) ==
  /\ Opened(c)
  /\ Len(done) < MaxJobs
  /\ \/ artifact' = job[c].artifact
     \/ artifact # Empty /\ artifact' = Mixed
  /\ done' = Append(done, job[c].artifact)
  /\ job' = [job EXCEPT ![c] = NoJob]
  /\ UNCHANGED <<vars, marred>>

\* The call stops, before the file is opened, before the write, or inside it.
StopConsolidating(c) ==
  /\ job[c] # NoJob
  /\ \/ UNCHANGED artifact
     \/ Opened(c) /\ artifact' = Mixed
  /\ marred' = (marred \/ Opened(c))
  /\ job' = [job EXCEPT ![c] = NoJob]
  /\ UNCHANGED <<vars, done>>

OfflineNext ==
  \/ Next /\ UNCHANGED offlineVars
  \/ \E c \in Consolidators :
       \/ \E trigger \in Triggers : ConsolidateRaises(c, trigger) \/ ReadEntries(c, trigger)
       \/ OpenArtifact(c)
       \/ WriteArtifact(c)
       \/ StopConsolidating(c)

OfflineSpec == OfflineInit /\ [][OfflineNext]_allVars

-----------------------------------------------------------------------------
(* Properties *)

Actions == {p.action_class : p \in Payloads}
Buckets == [total_events : 0 .. MaxLines, commit_events : 0 .. MaxLines,
            success_events : 0 .. MaxLines]

IsArtifact(a) ==
  /\ a.trigger_source \in AllowedTriggers
  /\ a.processed_entries \in 0 .. Len(ledger)
  /\ DOMAIN a.action_reliability \subseteq Actions
  /\ \A action \in DOMAIN a.action_reliability : a.action_reliability[action] \in Buckets
  /\ a.after \in 0 .. Len(done)

OfflineTypeOK ==
  /\ TypeOK
  /\ \A c \in Consolidators :
       job[c] # NoJob => job[c].stage \in {"read", "opened"} /\ IsArtifact(job[c].artifact)
  /\ artifact \in {Absent, Empty, Mixed} \/ IsArtifact(artifact)
  /\ \A i \in 1 .. Len(done) : IsArtifact(done[i])

Whole == artifact.content = "whole"

\* The summary counts, per action, the events of these payloads, those that
\* are commits, and the commits whose command returned 0.
Tells(summary, payloads) ==
  \A action \in Actions :
    LET events    == {i \in DOMAIN payloads : payloads[i].action_class = action}
        commits   == {i \in events : payloads[i].event = "commit_executed"}
        successes == {i \in commits : payloads[i].returncode = 0}
    IN  Bucket(summary, action) = [total_events   |-> Cardinality(events),
                                   commit_events  |-> Cardinality(commits),
                                   success_events |-> Cardinality(successes)]

\* An artifact tells of the first lines of the ledger as they were when its
\* call read them, whatever has been appended since.  Only the last of these
\* lines can have become unreadable.
TellsOfPrefix(a) ==
  LET n == a.processed_entries
  IN  /\ n <= Len(ledger)
      /\ \A i \in 1 .. n - 1 : ledger[i].intact
      /\ \E payloads \in [1 .. n -> Payloads] :
           /\ \A i \in 1 .. n : ledger[i].intact => payloads[i] = ledger[i].payload
           /\ Tells(a.action_reliability, payloads)

\* Whatever was written by how many calls at once: a file with a whole text in
\* it tells of a prefix of the ledger.
SummarisesPrefix == Whole => TellsOfPrefix(artifact)

\* A slower call can put an older summary over a newer one, but never one
\* older than an answer given before it read the ledger.
NotOlderThanAnswered ==
  Whole =>
    \A i \in 1 .. artifact.after : done[i].processed_entries <= artifact.processed_entries

\* The file holds what the last call to return says it wrote, as long as no
\* call is writing, and since the last one began to write on its own no other
\* joined it or stopped half way.
AnswerMatchesFile ==
  (~ marred /\ \A c \in Consolidators : ~ Opened(c)) =>
    artifact = IF done = <<>> THEN Absent ELSE done[Len(done)]
================================================================================
