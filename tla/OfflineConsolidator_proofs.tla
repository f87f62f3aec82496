---------------------- MODULE OfflineConsolidator_proofs ----------------------
(***************************************************************************)
(* Proofs about the offline consolidation, for any writers, payloads,      *)
(* consolidators and bounds.  What the loop over the entries makes of them *)
(* is told by induction on their number (BuildSummaryTells); that it stays *)
(* told while the ledger grows and tears rests on the ledger's own         *)
(* invariant (TellsStill).                                                 *)
(***************************************************************************)
EXTENDS OfflineConsolidator, AppendOnlyLedger_proofs, FiniteSetTheorems

-----------------------------------------------------------------------------
(* Counting *)

LEMMA CountInRange ==
  ASSUME NEW n \in Nat, NEW C \in SUBSET (1 .. n)
  PROVE  IsFiniteSet(C) /\ Cardinality(C) \in 0 .. n
<1>1. IsFiniteSet(1 .. n) /\ Cardinality(1 .. n) = n
  BY FS_Interval
<1>2. IsFiniteSet(C) /\ Cardinality(C) \in Nat /\ Cardinality(C) <= n
  BY <1>1, FS_Subset, FS_CardinalityType
<1> QED
  BY <1>2

\* One more number in the range, counted or not.
LEMMA CountOneMore ==
  ASSUME NEW n \in Nat, NEW C \in SUBSET (1 .. n), NEW D \in SUBSET (1 .. n + 1),
         C = D \cap (1 .. n)
  PROVE  /\ Cardinality(C) \in 0 .. n
         /\ Cardinality(D) = Cardinality(C) + Bit(n + 1 \in D)
<1>2. IsFiniteSet(C) /\ Cardinality(C) \in 0 .. n
  BY CountInRange
<1>3. n + 1 \notin C /\ \A i \in 1 .. n + 1 : i \in 1 .. n \/ i = n + 1
  OBVIOUS
<1>4. CASE n + 1 \in D
  <2>1. D = C \cup {n + 1}
    BY <1>3, <1>4
  <2>2. Cardinality(C \cup {n + 1}) = Cardinality(C) + 1
    BY <1>2, <1>3, FS_AddElement
  <2> QED
    BY <1>2, <1>4, <2>1, <2>2 DEF Bit
<1>5. CASE n + 1 \notin D
  <2>1. D = C
    BY <1>3, <1>5
  <2> QED
    BY <1>2, <1>5, <2>1 DEF Bit
<1> QED
  BY <1>2, <1>4, <1>5

-----------------------------------------------------------------------------
(* The loop over the entries *)

\* The summary after the first n entries, as a function of n.
IsSummaries(s, entries, m) ==
  s = [n \in 0 .. m |-> IF n = 0 THEN EmptySummary ELSE Counted(s[n - 1], entries[n])]

LEMMA SummariesExist ==
  ASSUME NEW entries, NEW m \in Nat
  PROVE  \E s : IsSummaries(s, entries, m)
<1> DEFINE S == {k \in Nat : \E s : IsSummaries(s, entries, k)}
<1>1. 0 \in S
  <2> DEFINE s == [n \in 0 .. 0 |-> EmptySummary]
  <2>1. \A n \in 0 .. 0 : n = 0
    OBVIOUS
  <2>2. s = [n \in 0 .. 0 |-> IF n = 0 THEN EmptySummary ELSE Counted(s[n - 1], entries[n])]
    BY <2>1
  <2>3. IsSummaries(s, entries, 0)
    BY <2>2 DEF IsSummaries
  <2> QED
    BY <2>3
<1>2. ASSUME NEW k \in Nat, k \in S PROVE k + 1 \in S
  <2>1. PICK s : IsSummaries(s, entries, k)
    BY <1>2
  <2> DEFINE t == [n \in 0 .. k + 1 |-> IF n = k + 1 THEN Counted(s[k], entries[k + 1]) ELSE s[n]]
  <2>2. ASSUME NEW n \in 0 .. k + 1
        PROVE  t[n] = IF n = 0 THEN EmptySummary ELSE Counted(t[n - 1], entries[n])
    <3>1. CASE n = k + 1
      <4>1. k \in 0 .. k + 1 /\ k # k + 1 /\ n # 0 /\ n - 1 = k
        BY <3>1
      <4>2. t[k] = s[k]
        BY <4>1
      <4> QED
        BY <3>1, <4>1, <4>2
    <3>2. CASE n # k + 1
      <4>1. n \in 0 .. k
        BY <3>2
      <4>2. s[n] = IF n = 0 THEN EmptySummary ELSE Counted(s[n - 1], entries[n])
        BY <2>1, <4>1 DEF IsSummaries
      <4>3. n # 0 => n - 1 \in 0 .. k + 1 /\ n - 1 # k + 1
        BY <4>1
      <4>4. t[n] = s[n] /\ (n # 0 => t[n - 1] = s[n - 1])
        BY <3>2, <4>3
      <4> QED
        BY <4>2, <4>4
    <3> QED
      BY <3>1, <3>2
  <2>3. t = [n \in 0 .. k + 1 |-> t[n]]
    OBVIOUS
  <2>4. IsSummaries(t, entries, k + 1)
    <3> HIDE DEF t
    <3> QED
      BY <2>2, <2>3 DEF IsSummaries
  <2> QED
    BY <2>4
<1>3. Nat \subseteq S
  <2> HIDE DEF S
  <2> QED
    BY <1>1, <1>2, Induction
<1> QED
  BY <1>3

LEMMA BuildSummaryIs ==
  ASSUME NEW entries, Len(entries) \in Nat
  PROVE  \E s : IsSummaries(s, entries, Len(entries)) /\ BuildSummary(entries) = s[Len(entries)]
<1> DEFINE s == CHOOSE f : IsSummaries(f, entries, Len(entries))
<1>1. IsSummaries(s, entries, Len(entries))
  BY SummariesExist
<1>2. BuildSummary(entries) = s[Len(entries)]
  BY DEF BuildSummary, IsSummaries
<1> QED
  BY <1>1, <1>2

\* The payloads of the first n lines.
PayloadsOf(lines, n) == [i \in 1 .. n |-> lines[i].payload]

EventsIn(payloads, action) == {i \in DOMAIN payloads : payloads[i].action_class = action}
CommitsIn(payloads, action) ==
  {i \in EventsIn(payloads, action) : payloads[i].event = "commit_executed"}
SuccessesIn(payloads, action) ==
  {i \in CommitsIn(payloads, action) : payloads[i].returncode = 0}

LEMMA TellsMeans ==
  ASSUME NEW summary, NEW payloads
  PROVE  Tells(summary, payloads) <=>
           \A action \in Actions :
             Bucket(summary, action) =
               [total_events   |-> Cardinality(EventsIn(payloads, action)),
                commit_events  |-> Cardinality(CommitsIn(payloads, action)),
                success_events |-> Cardinality(SuccessesIn(payloads, action))]
BY DEF Tells, EventsIn, CommitsIn, SuccessesIn

\* One more entry adds to the bucket of its action what Counted adds.
LEMMA CountedTells ==
  ASSUME NEW lines, NEW n \in Nat, lines[n + 1].payload \in Payloads,
         NEW summary, DOMAIN summary \subseteq Actions, Tells(summary, PayloadsOf(lines, n))
  PROVE  /\ DOMAIN Counted(summary, lines[n + 1]) \subseteq Actions
         /\ Tells(Counted(summary, lines[n + 1]), PayloadsOf(lines, n + 1))
<1> DEFINE p == lines[n + 1].payload
           old == PayloadsOf(lines, n)
           new == PayloadsOf(lines, n + 1)
           t == Counted(summary, lines[n + 1])
           commit == p.event = "commit_executed"
           success == commit /\ p.returncode = 0
<1>1. /\ DOMAIN old = 1 .. n /\ DOMAIN new = 1 .. n + 1
      /\ \A i \in 1 .. n : i \in 1 .. n + 1 /\ new[i] = old[i]
      /\ n + 1 \in 1 .. n + 1 /\ new[n + 1] = p
  BY DEF PayloadsOf
<1>2. /\ DOMAIN t = DOMAIN summary \cup {p.action_class}
      /\ \A action \in DOMAIN t :
           t[action] = IF action # p.action_class THEN summary[action]
                       ELSE LET bucket == Bucket(summary, action)
                            IN  [total_events   |-> bucket.total_events + 1,
                                 commit_events  |-> bucket.commit_events + Bit(commit),
                                 success_events |-> bucket.success_events + Bit(success)]
  BY DEF Counted
<1>3. p.action_class \in Actions
  BY DEF Actions
<1>4. ASSUME NEW action \in Actions
      PROVE  Bucket(t, action) =
               [total_events   |-> Cardinality(EventsIn(new, action)),
                commit_events  |-> Cardinality(CommitsIn(new, action)),
                success_events |-> Cardinality(SuccessesIn(new, action))]
  <2> DEFINE mine == p.action_class = action
  <2>1. Bucket(summary, action) =
          [total_events   |-> Cardinality(EventsIn(old, action)),
           commit_events  |-> Cardinality(CommitsIn(old, action)),
           success_events |-> Cardinality(SuccessesIn(old, action))]
    BY TellsMeans
  <2>2. /\ Cardinality(EventsIn(old, action)) \in Nat
        /\ Cardinality(EventsIn(new, action)) = Cardinality(EventsIn(old, action)) + Bit(mine)
    <3>1. n + 1 \in EventsIn(new, action) <=> mine
      BY <1>1 DEF EventsIn
    <3>2. EventsIn(old, action) = EventsIn(new, action) \cap (1 .. n)
      BY <1>1 DEF EventsIn
    <3> QED
      BY <1>1, <3>1, <3>2, CountOneMore DEF EventsIn
  <2>3. /\ Cardinality(CommitsIn(old, action)) \in Nat
        /\ Cardinality(CommitsIn(new, action))
             = Cardinality(CommitsIn(old, action)) + Bit(mine /\ commit)
    <3>1. n + 1 \in CommitsIn(new, action) <=> mine /\ commit
      BY <1>1 DEF EventsIn, CommitsIn
    <3>2. CommitsIn(old, action) = CommitsIn(new, action) \cap (1 .. n)
      BY <1>1 DEF EventsIn, CommitsIn
    <3>3. CommitsIn(old, action) \subseteq 1 .. n /\ CommitsIn(new, action) \subseteq 1 .. n + 1
      BY <1>1 DEF EventsIn, CommitsIn
    <3> QED
      BY <3>1, <3>2, <3>3, CountOneMore
  <2>4. /\ Cardinality(SuccessesIn(old, action)) \in Nat
        /\ Cardinality(SuccessesIn(new, action))
             = Cardinality(SuccessesIn(old, action)) + Bit(mine /\ success)
    <3>1. n + 1 \in SuccessesIn(new, action) <=> mine /\ success
      BY <1>1 DEF EventsIn, CommitsIn, SuccessesIn
    <3>2. SuccessesIn(old, action) = SuccessesIn(new, action) \cap (1 .. n)
      BY <1>1 DEF EventsIn, CommitsIn, SuccessesIn
    <3>3. SuccessesIn(old, action) \subseteq 1 .. n /\ SuccessesIn(new, action) \subseteq 1 .. n + 1
      BY <1>1 DEF EventsIn, CommitsIn, SuccessesIn
    <3> QED
      BY <3>1, <3>2, <3>3, CountOneMore
  <2>5. CASE mine
    BY <1>2, <2>1, <2>2, <2>3, <2>4, <2>5 DEF Bucket, Bit
  <2>6. CASE ~ mine
    <3>1. Bucket(t, action) = Bucket(summary, action)
      BY <1>2, <2>6 DEF Bucket
    <3> QED
      BY <2>1, <2>2, <2>3, <2>4, <2>6, <3>1 DEF Bit
  <2> QED
    BY <2>5, <2>6
<1> HIDE DEF t, new
<1>5. Tells(t, new)
  BY <1>4, TellsMeans
<1> QED
  BY <1>2, <1>3, <1>5 DEF t, new

(***************************************************************************)
(* The loop counts: whatever lines that parse it is given, the summary it  *)
(* ends with tells of their payloads.                                      *)
(***************************************************************************)
LEMMA BuildSummaryTells ==
  ASSUME NEW lines, Len(lines) \in Nat, \A i \in 1 .. Len(lines) : lines[i].payload \in Payloads
  PROVE  /\ DOMAIN BuildSummary(lines) \subseteq Actions
         /\ Tells(BuildSummary(lines), PayloadsOf(lines, Len(lines)))
<1>1. PICK s : IsSummaries(s, lines, Len(lines)) /\ BuildSummary(lines) = s[Len(lines)]
  BY BuildSummaryIs
<1>2. \A n \in 0 .. Len(lines) :
        s[n] = IF n = 0 THEN EmptySummary ELSE Counted(s[n - 1], lines[n])
  BY <1>1 DEF IsSummaries
<1> DEFINE T == {n \in Nat : n <= Len(lines) =>
                   DOMAIN s[n] \subseteq Actions /\ Tells(s[n], PayloadsOf(lines, n))}
<1>3. 0 \in T
  <2>1. s[0] = EmptySummary
    BY <1>2
  <2>2. DOMAIN s[0] = {} /\ \A action : Bucket(s[0], action) = EmptyBucket
    BY <2>1 DEF EmptySummary, Bucket
  <2>3. \A action : /\ EventsIn(PayloadsOf(lines, 0), action) = {}
                    /\ CommitsIn(PayloadsOf(lines, 0), action) = {}
                    /\ SuccessesIn(PayloadsOf(lines, 0), action) = {}
    BY DEF PayloadsOf, EventsIn, CommitsIn, SuccessesIn
  <2>4. Tells(s[0], PayloadsOf(lines, 0))
    BY <2>2, <2>3, TellsMeans, FS_EmptySet DEF EmptyBucket
  <2> QED
    BY <2>2, <2>4
<1>4. ASSUME NEW n \in Nat, n \in T PROVE n + 1 \in T
  <2> SUFFICES ASSUME n + 1 <= Len(lines)
               PROVE  /\ DOMAIN s[n + 1] \subseteq Actions
                      /\ Tells(s[n + 1], PayloadsOf(lines, n + 1))
    OBVIOUS
  <2>1. n <= Len(lines) /\ n + 1 \in 1 .. Len(lines) /\ n + 1 # 0 /\ (n + 1) - 1 = n
    OBVIOUS
  <2>2. s[n + 1] = Counted(s[n], lines[n + 1])
    BY <1>2, <2>1
  <2> QED
    BY <1>4, <2>1, <2>2, CountedTells
<1>5. Nat \subseteq T
  <2> HIDE DEF T
  <2> QED
    BY <1>3, <1>4, Induction
<1> QED
  BY <1>1, <1>5

-----------------------------------------------------------------------------
(* The invariant *)

\* What an artifact says, against these lines of the ledger and these answers.
Told(a, lines) ==
  LET n == a.processed_entries
  IN  /\ n \in Nat /\ n <= Len(lines)
      /\ \A i \in 1 .. n - 1 : lines[i].intact
      /\ \E payloads \in [1 .. n -> Payloads] :
           /\ \A i \in 1 .. n : lines[i].intact => payloads[i] = lines[i].payload
           /\ Tells(a.action_reliability, payloads)

Good(a, lines, answers) ==
  /\ a.content = "whole"
  /\ a.trigger_source \in AllowedTriggers
  /\ DOMAIN a.action_reliability \subseteq Actions
  /\ Told(a, lines)
  /\ a.after \in 0 .. Len(answers)
  /\ \A i \in 1 .. a.after : answers[i].processed_entries <= a.processed_entries

GoodJob(j, lines, answers) ==
  \/ j = NoJob
  \/ /\ j = [stage |-> j.stage, artifact |-> j.artifact]
     /\ j.stage \in {"read", "opened"}
     /\ Good(j.artifact, lines, answers)

\* A call that has the file to itself finds it as it left it.
Alone ==
  ~ marred =>
    /\ \A c, d \in Consolidators : Opened(c) /\ Opened(d) => c = d
    /\ \A c \in Consolidators : Opened(c) => artifact = Empty

GoodFile(content, lines, answers) ==
  content \in {Absent, Empty, Mixed} \/ Good(content, lines, answers)

OfflineInv ==
  /\ IInv /\ Len(ledger) <= MaxLines
  /\ DOMAIN job = Consolidators
  /\ \A c \in Consolidators : GoodJob(job[c], ledger, done)
  /\ GoodFile(artifact, ledger, done)
  /\ IsSequence(done)
  /\ \A i \in 1 .. Len(done) : Good(done[i], ledger, done)
  /\ Alone /\ AnswerMatchesFile

\* The steps of the ledger: the lines grow, and only the last of them can
\* stop to parse.
Grown(lines, more) ==
  /\ Len(lines) \in Nat /\ Len(more) \in Nat /\ Len(more) >= Len(lines)
  /\ \A i \in 1 .. Len(lines) : more[i] = lines[i] \/ (i = Len(lines) /\ ~ more[i].intact)

LEMMA TellsStill ==
  ASSUME NEW lines, NEW more, Grown(lines, more), NEW a, Told(a, lines)
  PROVE  Told(a, more)
<1> DEFINE n == a.processed_entries
<1>1. n \in Nat /\ n <= Len(lines) /\ \A i \in 1 .. n - 1 : lines[i].intact
  BY DEF Told
<1>2. n <= Len(more) /\ \A i \in 1 .. n : i \in 1 .. Len(lines)
  BY <1>1 DEF Grown
<1>3. \A i \in 1 .. n - 1 : i \in 1 .. Len(lines) /\ i # Len(lines)
  BY <1>1 DEF Grown
<1>4. \A i \in 1 .. n - 1 : more[i].intact
  BY <1>1, <1>3 DEF Grown
<1>5. PICK payloads \in [1 .. n -> Payloads] :
        /\ \A i \in 1 .. n : lines[i].intact => payloads[i] = lines[i].payload
        /\ Tells(a.action_reliability, payloads)
  BY DEF Told
<1>6. \A i \in 1 .. n : more[i].intact => payloads[i] = more[i].payload
  BY <1>2, <1>5 DEF Grown
<1> QED
  BY <1>1, <1>2, <1>4, <1>5, <1>6 DEF Told

\* The answers of another call come after those an artifact knows of.
Answered(answers, more) ==
  /\ Len(answers) \in Nat /\ Len(more) \in Nat /\ Len(answers) <= Len(more)
  /\ \A i \in 1 .. Len(answers) : more[i] = answers[i]

LEMMA StillGood ==
  ASSUME NEW lines, NEW moreLines, Grown(lines, moreLines),
         NEW answers, NEW more, Answered(answers, more), NEW a, Good(a, lines, answers)
  PROVE  Good(a, moreLines, more)
<1>1. Told(a, moreLines)
  BY TellsStill DEF Good
<1>2. a.after \in 0 .. Len(more)
  BY DEF Good, Answered
<1>3. \A i \in 1 .. a.after : more[i].processed_entries <= a.processed_entries
  BY DEF Good, Answered
<1> QED
  BY <1>1, <1>2, <1>3 DEF Good

LEMMA SameLines == ASSUME NEW lines, Len(lines) \in Nat PROVE Grown(lines, lines)
BY DEF Grown

LEMMA SameAnswers == ASSUME NEW answers, Len(answers) \in Nat PROVE Answered(answers, answers)
BY DEF Answered

LEMMA Lengths ==
  ASSUME OfflineInv
  PROVE  Len(ledger) \in Nat /\ Len(done) \in Nat
BY SequenceLength DEF OfflineInv, IInv, TypeOK

\* What a call reads is true of the ledger as it is, and no answer is newer.
LEMMA ReadGood ==
  ASSUME OfflineInv, Readable(ledger), NEW trigger \in AllowedTriggers
  PROVE  Good(ArtifactOf(trigger, ledger), ledger, done)
<1> DEFINE a == ArtifactOf(trigger, ledger)
           n == Len(ledger)
<1>1. /\ a.content = "whole" /\ a.trigger_source = trigger /\ a.processed_entries = n
      /\ a.action_reliability = BuildSummary(ledger) /\ a.after = Len(done)
  BY DEF ArtifactOf
<1>2. n \in Nat /\ Len(done) \in Nat
  BY Lengths
<1>3. \A i \in 1 .. n : ledger[i].intact /\ ledger[i].payload \in Payloads
  <2> SUFFICES ASSUME NEW i \in 1 .. n PROVE ledger[i].intact /\ ledger[i].payload \in Payloads
    OBVIOUS
  <2>1. ledger[i].intact /\ LineOK(ledger[i])
    BY DEF Readable, OfflineInv, IInv, TypeOK
  <2> QED
    BY <2>1, TornLine DEF LineOK
<1>4. PayloadsOf(ledger, n) \in [1 .. n -> Payloads]
      /\ \A i \in 1 .. n : PayloadsOf(ledger, n)[i] = ledger[i].payload
  BY <1>3 DEF PayloadsOf
<1>5. DOMAIN BuildSummary(ledger) \subseteq Actions
      /\ Tells(BuildSummary(ledger), PayloadsOf(ledger, n))
  BY <1>2, <1>3, BuildSummaryTells
<1> HIDE DEF a
<1>6. \A i \in 1 .. n - 1 : ledger[i].intact
  BY <1>2, <1>3
<1>7. Told(a, ledger)
  BY <1>1, <1>2, <1>4, <1>5, <1>6 DEF Told
<1>8. \A i \in 1 .. Len(done) : done[i].processed_entries <= a.processed_entries
  BY <1>1 DEF OfflineInv, Good, Told
<1> QED
  BY <1>1, <1>2, <1>5, <1>7, <1>8 DEF Good, a

-----------------------------------------------------------------------------
(* The steps *)

LEMMA InitOfflineInv == OfflineInit => OfflineInv
<1> SUFFICES ASSUME OfflineInit PROVE OfflineInv
  OBVIOUS
<1>1. IInv /\ Len(ledger) = 0 /\ IsSequence(done) /\ Len(done) = 0
  BY InitIInv, EmptySeq DEF OfflineInit, Init, IsSequence
<1>2. Len(ledger) <= MaxLines
  BY <1>1, MaxLinesAssumption
<1>3. \A c \in Consolidators : job[c] = NoJob /\ ~ Opened(c)
  BY DEF OfflineInit, Opened, NoJob
<1> QED
  BY <1>1, <1>2, <1>3
     DEF OfflineInit, OfflineInv, GoodJob, GoodFile, Alone, AnswerMatchesFile

\* Everything said of the artifacts and answers outlasts a step of the ledger.
LEMMA LedgerStep ==
  ASSUME OfflineInv, Next, UNCHANGED offlineVars
  PROVE  OfflineInv'
<1>1. IInv'
  BY NextIInv DEF OfflineInv
<1>2. Grown(ledger, ledger')
  BY StepAppends, TornLine DEF OfflineInv, Grown
<1>3. Len(ledger') <= MaxLines
  <2>1. Len(ledger) \in Nat /\ IsSequence(ledger) /\ (openLine => ledger # <<>>)
    BY SequenceLength DEF OfflineInv, IInv, TypeOK
  <2>2. CASE Len(ledger) < MaxLines
    <3>1. \/ ledger' = ledger
          \/ \E e : ledger' = Append(ledger, e)
          \/ openLine /\ RunTogether
      BY DEF Next, ReadTail, Abandon, WriteEntry, TornWrite
    <3>2. Len(ledger') = Len(ledger) \/ Len(ledger') = Len(ledger) + 1
      BY <2>1, <3>1, AppendLine, ReplaceLine DEF RunTogether
    <3> QED
      BY <2>1, <2>2, <3>2, MaxLinesAssumption
  <2>3. CASE ~ (Len(ledger) < MaxLines)
    <3>1. ledger' = ledger
      BY <2>3 DEF Next, ReadTail, Abandon
    <3> QED
      BY <3>1 DEF OfflineInv
  <2> QED
    BY <2>2, <2>3
<1>4. job' = job /\ artifact' = artifact /\ done' = done /\ marred' = marred
  BY DEF offlineVars
<1>5. Answered(done, done)
  BY Lengths, SameAnswers
<1>6. \A a : Good(a, ledger, done) => Good(a, ledger', done)
  BY <1>2, <1>5, StillGood
<1>7. \A c \in Consolidators : GoodJob(job[c], ledger', done)
  BY <1>6 DEF OfflineInv, GoodJob
<1>8. GoodFile(artifact, ledger', done) /\ \A i \in 1 .. Len(done) : Good(done[i], ledger', done)
  BY <1>6 DEF OfflineInv, GoodFile
<1>9. Alone' /\ AnswerMatchesFile'
  BY <1>4 DEF OfflineInv, Alone, AnswerMatchesFile, Opened
<1> QED
  BY <1>1, <1>3, <1>4, <1>7, <1>8, <1>9 DEF OfflineInv

\* A step that leaves the ledger and the answers alone.
LEMMA LocalStep ==
  ASSUME OfflineInv, UNCHANGED vars, UNCHANGED done,
         NEW c \in Consolidators, NEW j, job' = [job EXCEPT ![c] = j], GoodJob(j, ledger, done),
         GoodFile(artifact', ledger, done), Alone', AnswerMatchesFile'
  PROVE  OfflineInv'
<1>1. ledger' = ledger /\ openLine' = openLine /\ tail' = tail
  BY DEF vars
<1>2. IInv'
  BY NextIInv DEF OfflineInv
<1>3. DOMAIN job' = Consolidators /\ \A d \in Consolidators : GoodJob(job'[d], ledger, done)
  BY DEF OfflineInv
<1> QED
  BY <1>1, <1>2, <1>3 DEF OfflineInv

LEMMA ReadStep ==
  ASSUME OfflineInv, NEW c \in Consolidators, NEW trigger \in Triggers, ReadEntries(c, trigger)
  PROVE  OfflineInv'
<1> DEFINE j == [stage |-> "read", artifact |-> ArtifactOf(trigger, ledger)]
<1>1. /\ job[c] = NoJob /\ job' = [job EXCEPT ![c] = j] /\ Readable(ledger)
      /\ trigger \in AllowedTriggers /\ UNCHANGED vars
      /\ artifact' = artifact /\ done' = done /\ marred' = marred
  BY DEF ReadEntries
<1>2. GoodJob(j, ledger, done)
  BY <1>1, ReadGood DEF GoodJob
<1>3. \A d \in Consolidators : Opened(d)' <=> Opened(d)
  BY <1>1 DEF OfflineInv, Opened, NoJob
<1>4. Alone' /\ AnswerMatchesFile'
  BY <1>1, <1>3 DEF OfflineInv, Alone, AnswerMatchesFile
<1>5. GoodFile(artifact', ledger, done)
  BY <1>1 DEF OfflineInv
<1> HIDE DEF j
<1> QED
  BY <1>1, <1>2, <1>4, <1>5, LocalStep

\* A call with a stage has an artifact to write.
LEMMA JobGood ==
  ASSUME OfflineInv, NEW c \in Consolidators, job[c] # NoJob
  PROVE  /\ job[c] = [stage |-> job[c].stage, artifact |-> job[c].artifact]
         /\ Good(job[c].artifact, ledger, done)
BY DEF OfflineInv, GoodJob

LEMMA OpenStep ==
  ASSUME OfflineInv, NEW c \in Consolidators, OpenArtifact(c)
  PROVE  OfflineInv'
<1> DEFINE j == [stage |-> "opened", artifact |-> job[c].artifact]
<1>1. /\ job[c].stage = "read" /\ job' = [job EXCEPT ![c].stage = "opened"]
      /\ artifact' = Empty /\ marred' = Marring(c) /\ UNCHANGED vars /\ done' = done
  BY DEF OpenArtifact
<1>2. job[c] # NoJob
  BY <1>1 DEF NoJob
<1>3. job[c] = [stage |-> job[c].stage, artifact |-> job[c].artifact]
      /\ Good(job[c].artifact, ledger, done)
  BY <1>2, JobGood
<1>4. [job[c] EXCEPT !.stage = "opened"] = j
  BY <1>3
<1>5. job' = [job EXCEPT ![c] = j]
  BY <1>1, <1>4
<1>6. GoodJob(j, ledger, done)
  BY <1>3 DEF GoodJob
<1>7. Opened(c)' /\ \A d \in Consolidators \ {c} : Opened(d)' <=> Opened(d)
  BY <1>5 DEF OfflineInv, Opened
<1>8. ~ marred' => \A d \in Consolidators \ {c} : ~ Opened(d)
  BY <1>1 DEF Marring
<1>9. Alone' /\ AnswerMatchesFile'
  BY <1>1, <1>7, <1>8 DEF Alone, AnswerMatchesFile
<1>10. GoodFile(artifact', ledger, done)
  BY <1>1 DEF GoodFile
<1> HIDE DEF j
<1> QED
  BY <1>1, <1>5, <1>6, <1>9, <1>10, LocalStep

LEMMA StopStep ==
  ASSUME OfflineInv, NEW c \in Consolidators, StopConsolidating(c)
  PROVE  OfflineInv'
<1>1. /\ job' = [job EXCEPT ![c] = NoJob] /\ UNCHANGED vars /\ done' = done
      /\ marred' = (marred \/ Opened(c))
      /\ artifact' = artifact \/ (Opened(c) /\ artifact' = Mixed)
  BY DEF StopConsolidating
<1>2. ~ Opened(c)' /\ \A d \in Consolidators \ {c} : Opened(d)' <=> Opened(d)
  BY <1>1 DEF OfflineInv, Opened, NoJob
<1>3. Alone' /\ AnswerMatchesFile'
  BY <1>1, <1>2 DEF OfflineInv, Alone, AnswerMatchesFile
<1>4. GoodFile(artifact', ledger, done)
  BY <1>1 DEF OfflineInv, GoodFile
<1>5. GoodJob(NoJob, ledger, done)
  BY DEF GoodJob
<1> QED
  BY <1>1, <1>3, <1>4, <1>5, LocalStep

LEMMA WriteStep ==
  ASSUME OfflineInv, NEW c \in Consolidators, WriteArtifact(c)
  PROVE  OfflineInv'
<1> DEFINE a == job[c].artifact
<1>1. /\ Opened(c) /\ job' = [job EXCEPT ![c] = NoJob] /\ done' = Append(done, a)
      /\ marred' = marred /\ UNCHANGED vars
      /\ artifact' = a \/ (artifact # Empty /\ artifact' = Mixed)
  BY DEF WriteArtifact
<1>2. Good(a, ledger, done)
  <2>1. job[c] # NoJob
    BY <1>1 DEF Opened, NoJob
  <2> QED
    BY <2>1, JobGood
<1>3. /\ IsSequence(done') /\ Len(done) \in Nat /\ Len(done') = Len(done) + 1
      /\ \A i \in 1 .. Len(done) : done'[i] = done[i]
      /\ done'[Len(done) + 1] = a
  BY <1>1, AppendLine DEF OfflineInv
<1>4. Answered(done, done')
  BY <1>3 DEF Answered
<1>5. Grown(ledger, ledger)
  BY Lengths, SameLines
<1>6. \A b : Good(b, ledger, done) => Good(b, ledger, done')
  BY <1>4, <1>5, StillGood
<1>7. ledger' = ledger /\ IInv'
  BY <1>1, NextIInv DEF OfflineInv, vars
<1>8. DOMAIN job' = Consolidators /\ \A d \in Consolidators : GoodJob(job'[d], ledger, done')
  BY <1>1, <1>6 DEF OfflineInv, GoodJob
<1>9. GoodFile(artifact', ledger, done')
  BY <1>1, <1>2, <1>6 DEF GoodFile
<1>10. \A i \in 1 .. Len(done') : Good(done'[i], ledger, done')
  <2>1. \A i \in 1 .. Len(done') : i \in 1 .. Len(done) \/ i = Len(done) + 1
    BY <1>3
  <2> QED
    BY <1>2, <1>3, <1>6, <2>1 DEF OfflineInv
<1>11. ~ Opened(c)' /\ \A d \in Consolidators \ {c} : Opened(d)' <=> Opened(d)
  BY <1>1 DEF OfflineInv, Opened, NoJob
<1>12. ASSUME ~ marred'
       PROVE  /\ \A d \in Consolidators : ~ Opened(d)'
              /\ artifact' = done'[Len(done')] /\ done' # <<>>
  <2>1. artifact = Empty /\ \A d \in Consolidators \ {c} : ~ Opened(d)
    BY <1>1, <1>12 DEF OfflineInv, Alone
  <2>2. done' # <<>>
    BY <1>3, EmptySeq
  <2> QED
    BY <1>1, <1>3, <1>11, <2>1, <2>2
<1>13. Alone' /\ AnswerMatchesFile'
  BY <1>12 DEF Alone, AnswerMatchesFile
<1> HIDE DEF a
<1> QED
  BY <1>3, <1>7, <1>8, <1>9, <1>10, <1>13 DEF OfflineInv

LEMMA NextOfflineInv == OfflineInv /\ [OfflineNext]_allVars => OfflineInv'
<1> SUFFICES ASSUME OfflineInv, [OfflineNext]_allVars PROVE OfflineInv'
  OBVIOUS
<1>1. CASE Next /\ UNCHANGED offlineVars
  BY <1>1, LedgerStep
<1>2. CASE UNCHANGED allVars
  <2>1. UNCHANGED <<vars, ledger, job, artifact, done, marred>>
    BY <1>2 DEF allVars, offlineVars, vars
  <2>2. IInv'
    BY <2>1, NextIInv DEF OfflineInv
  <2> QED
    BY <2>1, <2>2 DEF OfflineInv, Alone, AnswerMatchesFile, Opened
<1>3. ASSUME NEW c \in Consolidators, NEW trigger \in Triggers, ConsolidateRaises(c, trigger)
      PROVE  UNCHANGED allVars
  BY <1>3 DEF ConsolidateRaises
<1>4. ASSUME NEW c \in Consolidators, NEW trigger \in Triggers, ReadEntries(c, trigger)
      PROVE  OfflineInv'
  BY <1>4, ReadStep
<1>5. ASSUME NEW c \in Consolidators, OpenArtifact(c) PROVE OfflineInv'
  BY <1>5, OpenStep
<1>6. ASSUME NEW c \in Consolidators, WriteArtifact(c) PROVE OfflineInv'
  BY <1>6, WriteStep
<1>7. ASSUME NEW c \in Consolidators, StopConsolidating(c) PROVE OfflineInv'
  BY <1>7, StopStep
<1> QED
  BY <1>1, <1>2, <1>3, <1>4, <1>5, <1>6, <1>7 DEF OfflineNext

LEMMA OfflineInvariance == OfflineSpec => []OfflineInv
BY InitOfflineInv, NextOfflineInv, PTL DEF OfflineSpec

-----------------------------------------------------------------------------
(* The theorems *)

\* A summary counts no further than the lines it tells of.
LEMMA GoodIsArtifact ==
  ASSUME OfflineInv, NEW a, Good(a, ledger, done)
  PROVE  IsArtifact(a)
<1> DEFINE n == a.processed_entries
<1>1. /\ n \in Nat /\ n <= Len(ledger) /\ Len(ledger) \in Nat /\ n <= MaxLines
      /\ a.trigger_source \in AllowedTriggers /\ a.after \in 0 .. Len(done)
      /\ DOMAIN a.action_reliability \subseteq Actions
  BY Lengths, MaxLinesAssumption DEF OfflineInv, Good, Told
<1>2. PICK payloads \in [1 .. n -> Payloads] : Tells(a.action_reliability, payloads)
  BY DEF Good, Told
<1>3. ASSUME NEW action \in DOMAIN a.action_reliability
      PROVE  a.action_reliability[action] \in Buckets
  <2>1. a.action_reliability[action] =
          [total_events   |-> Cardinality(EventsIn(payloads, action)),
           commit_events  |-> Cardinality(CommitsIn(payloads, action)),
           success_events |-> Cardinality(SuccessesIn(payloads, action))]
    BY <1>1, <1>2, TellsMeans DEF Bucket
  <2>2. /\ EventsIn(payloads, action) \subseteq 1 .. n
        /\ CommitsIn(payloads, action) \subseteq 1 .. n
        /\ SuccessesIn(payloads, action) \subseteq 1 .. n
    BY DEF EventsIn, CommitsIn, SuccessesIn
  <2>3. \A C \in SUBSET (1 .. n) : Cardinality(C) \in 0 .. MaxLines
    <3> SUFFICES ASSUME NEW C \in SUBSET (1 .. n) PROVE Cardinality(C) \in 0 .. MaxLines
      OBVIOUS
    <3> HIDE DEF n
    <3>1. Cardinality(C) \in 0 .. n
      BY <1>1, CountInRange
    <3> QED
      BY <1>1, <3>1, MaxLinesAssumption
  <2> QED
    BY <2>1, <2>2, <2>3 DEF Buckets
<1> QED
  BY <1>1, <1>3 DEF IsArtifact

(***************************************************************************)
(* Calls, file and answers keep their types, and the counts their bounds.  *)
(***************************************************************************)
THEOREM OfflineTypeCorrect == OfflineSpec => []OfflineTypeOK
<1>1. OfflineInv => OfflineTypeOK
  <2> SUFFICES ASSUME OfflineInv PROVE OfflineTypeOK
    OBVIOUS
  <2>1. TypeOK
    BY DEF OfflineInv, IInv
  <2>2. \A c \in Consolidators : job[c] # NoJob =>
          job[c].stage \in {"read", "opened"} /\ IsArtifact(job[c].artifact)
    BY GoodIsArtifact DEF OfflineInv, GoodJob
  <2>3. artifact \in {Absent, Empty, Mixed} \/ IsArtifact(artifact)
    BY GoodIsArtifact DEF OfflineInv, GoodFile
  <2>4. \A i \in 1 .. Len(done) : IsArtifact(done[i])
    BY GoodIsArtifact DEF OfflineInv
  <2> QED
    BY <2>1, <2>2, <2>3, <2>4 DEF OfflineTypeOK
<1> QED
  BY OfflineInvariance, <1>1, PTL

(***************************************************************************)
(* A whole artifact tells of the first lines of the ledger as they were    *)
(* when its call read them, though the ledger grows, forks and tears       *)
(* meanwhile and any number of calls write the one file (consolidate's     *)
(* read_all, _build_summary and write_text).                               *)
(***************************************************************************)
THEOREM PrefixHolds == OfflineSpec => []SummarisesPrefix
<1>1. OfflineInv => SummarisesPrefix
  <2> SUFFICES ASSUME OfflineInv, Whole PROVE TellsOfPrefix(artifact)
    BY DEF SummarisesPrefix
  <2>1. Good(artifact, ledger, done)
    BY DEF OfflineInv, GoodFile, Whole, Absent, Empty, Mixed
  <2> QED
    BY <2>1 DEF Good, Told, TellsOfPrefix
<1> QED
  BY OfflineInvariance, <1>1, PTL

(***************************************************************************)
(* A slow call may put an older summary over a newer one, but none older   *)
(* than an answer given before it read the ledger.                         *)
(***************************************************************************)
THEOREM AnswersNotUndone == OfflineSpec => []NotOlderThanAnswered
<1>1. OfflineInv => NotOlderThanAnswered
  BY DEF OfflineInv, GoodFile, Good, NotOlderThanAnswered, Whole, Absent, Empty, Mixed
<1> QED
  BY OfflineInvariance, <1>1, PTL

(***************************************************************************)
(* The file holds what the last answer says, as long as the last call to   *)
(* open it did so alone and none stopped in its write.                     *)
(***************************************************************************)
THEOREM AnswersOnFile == OfflineSpec => []AnswerMatchesFile
<1>1. OfflineInv => AnswerMatchesFile
  BY DEF OfflineInv
<1> QED
  BY OfflineInvariance, <1>1, PTL

(***************************************************************************)
(* Consolidation reads the ledger and leaves it alone, so what is proved   *)
(* of the ledger holds beside it.                                          *)
(***************************************************************************)
THEOREM LedgerUndisturbed == OfflineSpec => Spec
<1>1. OfflineInit => Init
  BY DEF OfflineInit
<1>2. [OfflineNext]_allVars => [Next]_vars
  BY DEF OfflineNext, allVars, ConsolidateRaises, ReadEntries, OpenArtifact, WriteArtifact,
         StopConsolidating
<1> QED
  BY <1>1, <1>2, PTL DEF OfflineSpec, Spec
=============================================================================
