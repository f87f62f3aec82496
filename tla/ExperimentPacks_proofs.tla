------------------------ MODULE ExperimentPacks_proofs ------------------------
(***************************************************************************)
(* Proofs about the experiment packs: what a verdict of the probe means    *)
(* for every answer, and what holds of the directory and of a report for   *)
(* any number of probes, seeds and packs.                                  *)
(***************************************************************************)
EXTENDS ExperimentPacks, VerifierRules_proofs, FiniteSetTheorems

(* A rate is under 1.0 exactly if some of the rows, or all rows, are missing. *)
LEMMA RateMeans ==
  ASSUME NEW whole, IsFiniteSet(whole), NEW part, part \subseteq whole
  PROVE  RateBelowOne(part, whole) <=> whole = {} \/ part # whole
<1>1. IsFiniteSet(part) /\ Cardinality(part) \in Nat /\ Cardinality(whole) \in Nat
  BY FS_Subset, FS_CardinalityType
<1>2. Cardinality(part) <= Cardinality(whole)
  BY FS_Subset
<1>3. Cardinality(part) = Cardinality(whole) <=> part = whole
  BY FS_Subset
<1>4. Cardinality(whole) = 0 <=> whole = {}
  BY FS_EmptySet
<1> QED
  BY <1>1, <1>2, <1>3, <1>4 DEF RateBelowOne

(* The numbers _compute_metrics counts are of finite sets. *)
LEMMA CountsFinite ==
  ASSUME NEW answer, IsAnswer(answer)
  PROVE  IsFiniteSet(Executed(answer.rows)) /\ IsFiniteSet(Rejected(answer.rows))
BY FS_Subset DEF IsAnswer, Executed, Rejected

(* No signature is given exactly if each of the seven counts is as it should. *)
LEMMA NoSignature ==
  ASSUME NEW answer
  PROVE  EvidenceDirection(answer) = "supports" <=>
           /\ LockdownBypasses(answer.rows) = {}
           /\ BoundaryErrors(answer.rows) = {}
           /\ ~ RateBelowOne({i \in Executed(answer.rows) : answer.rows[i].commit_id},
                             Executed(answer.rows))
           /\ ~ RateBelowOne({i \in Rejected(answer.rows) : ~ answer.rows[i].commit_id},
                             Rejected(answer.rows))
           /\ answer.ledger_ok
           /\ LockdownRejections(answer.rows) # {}
           /\ ReflexEvents(answer.rows) # {}
<1>1. EvidenceDirection(answer) = "supports" <=> Signatures(answer) = {}
  BY DEF EvidenceDirection
<1>2. /\ "lockdown_bypass" \in Signatures(answer) <=> LockdownBypasses(answer.rows) # {}
      /\ "boundary_reclassification_error" \in Signatures(answer) <=>
           BoundaryErrors(answer.rows) # {}
      /\ "commit_token_coverage_gap" \in Signatures(answer) <=>
           RateBelowOne({i \in Executed(answer.rows) : answer.rows[i].commit_id},
                        Executed(answer.rows))
      /\ "rejection_commit_leakage" \in Signatures(answer) <=>
           RateBelowOne({i \in Rejected(answer.rows) : ~ answer.rows[i].commit_id},
                        Rejected(answer.rows))
      /\ "ledger_chain_integrity_break" \in Signatures(answer) <=> ~ answer.ledger_ok
      /\ "lockdown_reflex_not_observed" \in Signatures(answer) <=>
           LockdownRejections(answer.rows) = {}
      /\ "post_dispatch_safety_reflex_missing" \in Signatures(answer) <=>
           ReflexEvents(answer.rows) = {}
  BY DEF Signatures
<1>3. Signatures(answer) \subseteq
        {"lockdown_bypass", "boundary_reclassification_error", "commit_token_coverage_gap",
         "rejection_commit_leakage", "ledger_chain_integrity_break",
         "lockdown_reflex_not_observed", "post_dispatch_safety_reflex_missing"}
  BY DEF Signatures
<1> QED
  BY <1>1, <1>2, <1>3

(* What the verdict "supports" means, for every answer of a runtime: clean row *)
(* by row, and the reflex seen.  The rates are vacuous of no rows at all, so   *)
(* this rests on the reflex, which has a row of either kind.                   *)
THEOREM VerdictMeansWhatItSays ==
  ASSUME NEW answer, IsAnswer(answer)
  PROVE  EvidenceDirection(answer) = "supports" <=> Clean(answer) /\ ReflexSeen(answer)
<1> DEFINE rows == answer.rows
           committed == {i \in Executed(rows) : rows[i].commit_id}
           uncommitted == {i \in Rejected(rows) : ~ rows[i].commit_id}
<1>1. RateBelowOne(committed, Executed(rows)) <=> Executed(rows) = {} \/ committed # Executed(rows)
  BY CountsFinite, RateMeans
<1>2. RateBelowOne(uncommitted, Rejected(rows)) <=>
        Rejected(rows) = {} \/ uncommitted # Rejected(rows)
  BY CountsFinite, RateMeans
<1>3. \A i \in DOMAIN rows :
        /\ rows[i].allowed \in BOOLEAN /\ rows[i].commit_id \in BOOLEAN
        /\ rows[i].allowed <=> rows[i].reason = "allowed"
        /\ rows[i].ledger_event \in {"commit_executed", "proposal_rejected"}
  BY DEF IsAnswer
<1>4. ASSUME EvidenceDirection(answer) = "supports"
      PROVE  Clean(answer) /\ ReflexSeen(answer)
  <2>1. /\ committed = Executed(rows) /\ uncommitted = Rejected(rows)
        /\ LockdownBypasses(rows) = {} /\ BoundaryErrors(rows) = {} /\ answer.ledger_ok
        /\ ReflexEvents(rows) # {}
    BY <1>1, <1>2, <1>4, NoSignature
  <2>2. ASSUME NEW i \in DOMAIN rows
        PROVE  /\ rows[i].commit_id = rows[i].allowed
               /\ rows[i].ledger_event =
                    IF rows[i].allowed THEN "commit_executed" ELSE "proposal_rejected"
               /\ rows[i].allowed => ~ (rows[i].rc_state = "LOCKDOWN"
                                        /\ rows[i].effect_class \in {"privileged", "destructive"})
    <3>1. rows[i].commit_id = rows[i].allowed
      BY <2>1, <1>3 DEF BoundaryErrors
    <3>2. rows[i].ledger_event = "commit_executed" => rows[i].commit_id
      BY <2>1 DEF Executed
    <3>3. rows[i].ledger_event = "proposal_rejected" => ~ rows[i].commit_id
      BY <2>1 DEF Rejected
    <3> QED
      BY <3>1, <3>2, <3>3, <2>1, <1>3 DEF LockdownBypasses
  <2>3. ReflexSeen(answer)
    BY <2>1 DEF ReflexEvents, ReflexSeen
  <2> QED
    BY <2>1, <2>2, <2>3 DEF Clean
<1>5. ASSUME Clean(answer), ReflexSeen(answer)
      PROVE  EvidenceDirection(answer) = "supports"
  <2>1. \A i \in DOMAIN rows :
          /\ rows[i].commit_id = rows[i].allowed
          /\ rows[i].ledger_event =
               IF rows[i].allowed THEN "commit_executed" ELSE "proposal_rejected"
          /\ rows[i].allowed => ~ (rows[i].rc_state = "LOCKDOWN"
                                   /\ rows[i].effect_class \in {"privileged", "destructive"})
    BY <1>5 DEF Clean
  <2>2. PICK i \in DOMAIN rows :
          i + 1 \in DOMAIN rows /\ rows[i].allowed /\ rows[i + 1].reason = "lockdown_posture_block"
    BY <1>5 DEF ReflexSeen
  <2>3. ~ rows[i + 1].allowed /\ rows[i + 1].ledger_event = "proposal_rejected"
    BY <2>1, <2>2, <1>3
  <2>4. i \in Executed(rows) /\ i + 1 \in LockdownRejections(rows) /\ i + 1 \in Rejected(rows)
    BY <2>1, <2>2, <2>3 DEF Executed, Rejected, LockdownRejections
  <2>5. committed = Executed(rows)
    BY <2>1, <1>3 DEF Executed
  <2>6. uncommitted = Rejected(rows)
    BY <2>1, <1>3 DEF Rejected
  <2>7. LockdownBypasses(rows) = {} /\ BoundaryErrors(rows) = {}
    BY <2>1, <1>3 DEF LockdownBypasses, BoundaryErrors
  <2>8. i \in ReflexEvents(rows)
    BY <2>2 DEF ReflexEvents
  <2>9. answer.ledger_ok
    BY <1>5 DEF Clean
  <2> QED
    BY <1>1, <1>2, <2>4, <2>5, <2>6, <2>7, <2>8, <2>9, NoSignature
<1> QED
  BY <1>4, <1>5

(* The rules of the runtime answer with rows. *)
LEMMA RunSeedAnswers ==
  ASSUME NEW draw
  PROVE  IsAnswer(RunSeed(draw))
<1>1. ASSUME NEW proposal, NEW state
      PROVE  LET row == StepResult(proposal, state)
             IN  /\ row.allowed \in BOOLEAN /\ row.commit_id \in BOOLEAN
                 /\ row.allowed <=> row.reason = "allowed"
                 /\ row.ledger_event \in {"commit_executed", "proposal_rejected"}
  BY DEF StepResult, Decision
<1>2. Len(Scenarios(draw)) = 4
  BY DEF Scenarios
<1>3. \A lane : IsAnswer([rows |-> [k \in 1 .. Len(Scenarios(draw)) |->
                                     StepResult(Scenarios(draw)[k], lane[k])],
                          ledger_ok |-> TRUE])
  <2> TAKE lane
  <2> DEFINE rows == [k \in 1 .. Len(Scenarios(draw)) |-> StepResult(Scenarios(draw)[k], lane[k])]
  <2>1. IsFiniteSet(1 .. Len(Scenarios(draw)))
    <3>1. IsFiniteSet(1 .. 4)
      <4>1. 1 \in Int /\ 4 \in Int
        OBVIOUS
      <4> QED
        BY <4>1, FS_Interval, Zenon
    <3> QED
      BY <1>2, <3>1
  <2>2. DOMAIN rows = 1 .. Len(Scenarios(draw))
    OBVIOUS
  <2>3. \A i \in DOMAIN rows : rows[i] = StepResult(Scenarios(draw)[i], lane[i])
    OBVIOUS
  <2> HIDE DEF rows
  <2>4. \A i \in DOMAIN rows :
          /\ rows[i].allowed \in BOOLEAN /\ rows[i].commit_id \in BOOLEAN
          /\ rows[i].allowed <=> rows[i].reason = "allowed"
          /\ rows[i].ledger_event \in {"commit_executed", "proposal_rejected"}
    BY <1>1, <2>3
  <2>5. IsAnswer([rows |-> rows, ledger_ok |-> TRUE])
    BY <2>1, <2>2, <2>4 DEF IsAnswer
  <2> QED
    BY <2>5 DEF rows
<1> QED
  BY <1>3 DEF RunSeed

(* What a run leaves says "supports" exactly of a sound answer. *)
LEMMA OutcomesMeanWhatTheySay ==
  \A pack \in Outcomes : pack.evidence_direction = "supports" <=> pack.sound
<1>1. \A answer, ruled : IsAnswer(answer) =>
        (PackOf(answer, ruled).evidence_direction = "supports" <=> PackOf(answer, ruled).sound)
  BY VerdictMeansWhatItSays DEF PackOf
<1>2. SUFFICES ASSUME NEW pack \in Outcomes
               PROVE  pack.evidence_direction = "supports" <=> pack.sound
  OBVIOUS
<1>3. PICK answer, ruled : IsAnswer(answer) /\ pack = PackOf(answer, ruled)
  BY RunSeedAnswers, PacksAssumption DEF Outcomes
<1> QED
  BY <1>1, <1>3

-----------------------------------------------------------------------------
(* The invariant: types, what files of any pack say, and what the hand-off     *)
(* has read and checked so far, which later steps of the probes leave true.    *)

Said == Outcomes \cup {Foreign[id].says : id \in DOMAIN Foreign}

PacksShape == packs \in [DOMAIN packs -> [says : Said, written : 0 .. Steps]]

ProbedSayOutcomes == \A id \in Probed : packs[id].says \in Outcomes

\* A row is of a manifest that was whole.
RowsRead == \A row \in handoff.rows : Whole(packs[row.id], Manifest)

\* While the schema gate stands at PASS, what is no longer to do was valid.
RowsChecked ==
  /\ handoff.stage \in {"validating", "published"} /\ handoff.schema = "PASS" =>
       \A row \in handoff.rows : row.id \in handoff.todo \/ ValidPack(packs[row.id])
  /\ handoff.stage = "published" => handoff.todo = {}

PacksInv == PacksTypeOK /\ PacksShape /\ ProbedSayOutcomes /\ RowsRead /\ RowsChecked

(* It holds from the start. *)
LEMMA InvInit == PacksInit => PacksInv
<1> SUFFICES ASSUME PacksInit PROVE PacksInv
  OBVIOUS
<1>1. PICK ids \in SUBSET DOMAIN Foreign : packs = [id \in ids |-> Foreign[id]]
  BY DEF PacksInit
<1>2. ASSUME NEW id \in ids
      PROVE  Foreign[id] \in [says : Said, written : 0 .. Steps]
  <2>1. /\ Foreign[id] = [says |-> Foreign[id].says, written |-> Foreign[id].written]
        /\ Foreign[id].written \in 0 .. Steps
    BY <1>1, PacksAssumption
  <2>2. Foreign[id].says \in Said
    BY <1>1 DEF Said
  <2> QED
    BY <2>1, <2>2
<1>3. PacksShape
  BY <1>1, <1>2 DEF PacksShape
<1>4. PacksTypeOK
  BY <1>3, PacksAssumption DEF PacksInit, PacksTypeOK, PacksShape, Idle
<1>5. ProbedSayOutcomes
  BY <1>1, PacksAssumption DEF ProbedSayOutcomes, Probed
<1>6. RowsRead /\ RowsChecked
  BY DEF PacksInit, Idle, RowsRead, RowsChecked
<1> QED
  BY <1>3, <1>4, <1>5, <1>6 DEF PacksInv

(* A probe's step keeps what is on the disk, and adds what is typed. *)
LEMMA ProbeStep ==
  ASSUME PacksTypeOK, PacksShape, NEW p \in Probes, StartSeed(p) \/ StartSeedRaises(p) \/ WritePack(p)
  PROVE  /\ packs' \in [DOMAIN packs' -> [says : Said, written : 0 .. Steps]]
         /\ probe' \in [Probes -> [left : Seq(Int), pack : SUBSET DOMAIN packs']]
         /\ now' = now /\ handoff' = handoff
         /\ \A id \in DOMAIN packs : /\ id \in DOMAIN packs'
                                     /\ packs'[id].written >= packs[id].written
                                     /\ packs'[id].says = packs[id].says
         /\ \A id \in DOMAIN packs' \ DOMAIN packs : packs'[id].says \in Outcomes
<1> USE DEF PacksTypeOK, PacksShape, readVars
<1>1. CASE StartSeed(p)
  <2> DEFINE id == RunDir(Head(probe[p].left))
  <2>1. PICK pack \in Outcomes : AddPack(id, pack)
    BY <1>1 DEF StartSeed
  <2>2. id \notin DOMAIN packs /\ probe[p].left # <<>>
        /\ probe' = [probe EXCEPT ![p] = [left |-> Tail(@.left), pack |-> {id}]]
        /\ now' = now /\ handoff' = handoff
    BY <1>1 DEF StartSeed
  <2> HIDE DEF id
  <2>3. DOMAIN packs' = DOMAIN packs \cup {id}
        /\ packs'[id] = [says |-> pack, written |-> 0]
        /\ \A d \in DOMAIN packs : packs'[d] = packs[d]
    BY <2>1, <2>2 DEF AddPack
  <2>4. [says |-> pack, written |-> 0] \in [says : Said, written : 0 .. Steps]
    BY DEF Said, Steps, Traces
  <2>5. packs' \in [DOMAIN packs' -> [says : Said, written : 0 .. Steps]]
    <3> DEFINE value == [d \in DOMAIN packs \cup {id} |->
                            IF d = id THEN [says |-> pack, written |-> 0] ELSE packs[d]]
    <3>1. value \in [DOMAIN packs \cup {id} -> [says : Said, written : 0 .. Steps]]
      BY <2>4
    <3>2. packs' = value
      BY <2>1 DEF AddPack
    <3> HIDE DEF value
    <3> QED
      BY <2>3, <3>1, <3>2
  <2>6. probe[p].left \in Seq(Int) /\ Tail(probe[p].left) \in Seq(Int)
    BY <2>2
  <2>7. probe' \in [Probes -> [left : Seq(Int), pack : SUBSET DOMAIN packs']]
    BY <2>2, <2>3, <2>6
  <2>8. \A d \in DOMAIN packs : packs[d].written \in Int
    OBVIOUS
  <2>9. packs'[id].says \in Outcomes
    BY <2>3
  <2>10. \A d \in DOMAIN packs : /\ d \in DOMAIN packs' /\ packs'[d].says = packs[d].says
                                 /\ packs'[d].written >= packs[d].written
    BY <2>3, <2>8
  <2>11. \A d \in DOMAIN packs' \ DOMAIN packs : packs'[d].says \in Outcomes
    BY <2>3, <2>9
  <2> QED
    BY <2>2, <2>5, <2>7, <2>10, <2>11
<1>2. CASE StartSeedRaises(p)
  <2>1. packs' = packs /\ now' = now /\ handoff' = handoff
        /\ probe' = [probe EXCEPT ![p].left = <<>>]
    BY <1>2 DEF StartSeedRaises
  <2>2. probe' \in [Probes -> [left : Seq(Int), pack : SUBSET DOMAIN packs]]
    <3>1. probe[p] \in [left : Seq(Int), pack : SUBSET DOMAIN packs] /\ <<>> \in Seq(Int)
      OBVIOUS
    <3>2. [probe[p] EXCEPT !.left = <<>>] \in [left : Seq(Int), pack : SUBSET DOMAIN packs]
      BY <3>1
    <3> QED
      BY <2>1, <3>2
  <2>3. packs' \in [DOMAIN packs' -> [says : Said, written : 0 .. Steps]]
    BY <2>1
  <2>4. probe' \in [Probes -> [left : Seq(Int), pack : SUBSET DOMAIN packs']]
    BY <2>1, <2>2
  <2>5. \A d \in DOMAIN packs : packs'[d].written >= packs[d].written
    <3>1. \A d \in DOMAIN packs : packs[d].written \in Int
      OBVIOUS
    <3> QED
      BY <2>1, <3>1
  <2>6. DOMAIN packs' = DOMAIN packs /\ \A d \in DOMAIN packs : packs'[d].says = packs[d].says
    BY <2>1
  <2> QED
    BY <2>1, <2>3, <2>4, <2>5, <2>6
<1>3. CASE WritePack(p)
  <2>1. PICK id \in probe[p].pack :
          /\ packs' = [packs EXCEPT ![id].written =
                         IF Exists(packs[id], Summary) THEN Steps ELSE @ + 1]
          /\ probe' = IF packs'[id].written < Steps THEN probe
                      ELSE [probe EXCEPT ![p].pack = {}]
          /\ now' = now /\ handoff' = handoff
    BY <1>3 DEF WritePack
  <2>2. id \in DOMAIN packs /\ packs[id] \in [says : Said, written : 0 .. Steps]
    OBVIOUS
  <2> DEFINE count == IF Exists(packs[id], Summary) THEN Steps ELSE packs[id].written + 1
  <2>3. count \in 0 .. Steps /\ count >= packs[id].written
    BY <2>2 DEF Exists, Summary, Steps, Traces
  <2>4. packs' = [packs EXCEPT ![id].written = count]
    BY <2>1
  <2> HIDE DEF count
  <2>5. packs' \in [DOMAIN packs -> [says : Said, written : 0 .. Steps]]
    BY <2>2, <2>3, <2>4
  <2>6. \A d \in DOMAIN packs : packs'[d].written >= packs[d].written
                                /\ packs'[d].says = packs[d].says
    BY <2>2, <2>3, <2>4
  <2>7. probe' \in [Probes -> [left : Seq(Int), pack : SUBSET DOMAIN packs]]
    BY <2>1
  <2>8. DOMAIN packs' = DOMAIN packs
    BY <2>4
  <2> QED
    BY <2>1, <2>5, <2>6, <2>7, <2>8
<1> QED
  BY <1>1, <1>2, <1>3

(* A hand-off's step leaves the disk alone, and keeps what it has found. *)
LEMMA HandoffStep ==
  ASSUME PacksInv, ListPacks \/ HandoffGoesOn
  PROVE  PacksInv'
<1> USE DEF probeVars
<1>1. now' = now /\ packs' = packs /\ probe' = probe
  BY DEF ListPacks, HandoffGoesOn, CollectRow, NoPacks, RunValidator, ValidatePack, Publish
<1>2. PacksShape' /\ ProbedSayOutcomes'
  BY <1>1 DEF PacksInv, PacksShape, ProbedSayOutcomes, Probed
<1>3. ASSUME handoff' \in [stage : {"idle", "collecting", "validating", "published", "over"},
                          todo : SUBSET DOMAIN packs,
                          rows : SUBSET [id : DOMAIN packs, counted : BOOLEAN],
                          schema : {"PASS", "FAIL"}]
      PROVE  PacksTypeOK'
  BY <1>1, <1>3 DEF PacksInv, PacksTypeOK
<1>4. CASE ListPacks
  <2>1. handoff' = [Idle EXCEPT !.stage = "collecting", !.todo = Listed]
    BY <1>4 DEF ListPacks
  <2>2. PacksTypeOK'
    BY <2>1, <1>3 DEF Idle, Listed
  <2>3. RowsRead' /\ RowsChecked'
    BY <2>1 DEF Idle, RowsRead, RowsChecked
  <2> QED
    BY <1>2, <2>2, <2>3 DEF PacksInv
<1>5. CASE CollectRow
  <2>1. PICK id \in handoff.todo :
          handoff' = [handoff EXCEPT !.todo = @ \ {id},
                        !.rows = IF Whole(packs[id], Manifest) THEN @ \cup {RowOf(id)} ELSE @]
    BY <1>5 DEF CollectRow, FirstPaths
  <2>2. handoff.stage = "collecting"
    BY <1>5 DEF CollectRow
  <2>3. id \in DOMAIN packs /\ RowOf(id) \in [id : DOMAIN packs, counted : BOOLEAN]
    BY <2>1 DEF PacksInv, PacksTypeOK, RowOf, Whole
  <2>4. PacksTypeOK'
    BY <2>1, <2>3, <1>3 DEF PacksInv, PacksTypeOK
  <2>5. /\ handoff'.stage = "collecting"
        /\ \A row \in handoff'.rows :
             row \in handoff.rows \/ (row.id = id /\ Whole(packs[id], Manifest))
    BY <2>1, <2>2 DEF PacksInv, PacksTypeOK, RowOf
  <2>6. RowsRead' /\ RowsChecked'
    BY <2>5, <1>1 DEF PacksInv, RowsRead, RowsChecked
  <2> QED
    BY <1>2, <2>4, <2>6 DEF PacksInv
<1>6. CASE NoPacks
  <2>1. handoff' = NoReport
    BY <1>6 DEF NoPacks
  <2> QED
    BY <2>1, <1>2, <1>3 DEF PacksInv, NoReport, Idle, RowsRead, RowsChecked
<1>7. CASE RunValidator
  <2>1. handoff' = [stage |-> "validating", todo |-> Listed, rows |-> LatestCycle(handoff.rows),
                   schema |-> IF Listed = {} THEN "FAIL" ELSE "PASS"]
    BY <1>7 DEF RunValidator
  <2>2. LatestCycle(handoff.rows) \subseteq handoff.rows
    BY DEF LatestCycle
  <2>3. PacksTypeOK'
    BY <2>1, <2>2, <1>3 DEF Listed, PacksInv, PacksTypeOK
  <2>4. RowsRead'
    BY <2>1, <2>2, <1>1 DEF PacksInv, RowsRead
  <2>5. \A row \in handoff.rows : row.id \in Listed
    <3>1. SUFFICES ASSUME NEW row \in handoff.rows PROVE row.id \in Listed
      OBVIOUS
    <3>2. row.id \in DOMAIN packs /\ packs[row.id].written \in Int /\ Whole(packs[row.id], Manifest)
      BY DEF PacksInv, PacksTypeOK, RowsRead
    <3> QED
      BY <3>2 DEF Listed, Whole, Exists, Manifest
  <2>6. RowsChecked'
    BY <2>1, <2>2, <2>5 DEF RowsChecked
  <2> QED
    BY <1>2, <2>3, <2>4, <2>6 DEF PacksInv
<1>8. CASE ValidatePack
  <2>1. PICK id \in handoff.todo :
          handoff' = [handoff EXCEPT !.todo = @ \ {id},
                        !.schema = IF ValidPack(packs[id]) THEN @ ELSE "FAIL"]
    BY <1>8 DEF ValidatePack, FirstPaths
  <2>2. handoff.stage = "validating"
    BY <1>8 DEF ValidatePack
  <2>3. PacksTypeOK'
    BY <2>1, <1>3 DEF PacksInv, PacksTypeOK
  <2>4. /\ handoff'.stage = "validating" /\ handoff'.rows = handoff.rows
        /\ handoff'.todo = handoff.todo \ {id}
        /\ handoff'.schema = "PASS" => handoff.schema = "PASS" /\ ValidPack(packs[id])
    BY <2>1, <2>2 DEF PacksInv, PacksTypeOK
  <2>5. RowsRead' /\ RowsChecked'
    BY <2>2, <2>4, <1>1 DEF PacksInv, RowsRead, RowsChecked
  <2> QED
    BY <1>2, <2>3, <2>5 DEF PacksInv
<1>9. CASE Publish
  <2>1. handoff.stage = "validating" /\ handoff.todo = {}
        /\ (handoff' = [handoff EXCEPT !.stage = "published"] \/ handoff' = NoReport)
    BY <1>9 DEF Publish
  <2>2. CASE handoff' = [handoff EXCEPT !.stage = "published"]
    <3>1. PacksTypeOK'
      BY <2>2, <1>3 DEF PacksInv, PacksTypeOK
    <3>2. handoff'.rows = handoff.rows /\ handoff'.todo = {} /\ handoff'.schema = handoff.schema
      BY <2>1, <2>2 DEF PacksInv, PacksTypeOK
    <3>3. RowsRead' /\ RowsChecked'
      BY <2>1, <3>2, <1>1 DEF PacksInv, RowsRead, RowsChecked
    <3> QED
      BY <1>2, <3>1, <3>3 DEF PacksInv
  <2>3. CASE handoff' = NoReport
    BY <2>3, <1>2, <1>3 DEF PacksInv, NoReport, Idle, RowsRead, RowsChecked
  <2> QED
    BY <2>1, <2>2, <2>3
<1> QED
  BY <1>4, <1>5, <1>6, <1>7, <1>8, <1>9 DEF HandoffGoesOn

(* Every step keeps the invariant, and no step takes from a pack. *)
LEMMA PackStep ==
  ASSUME PacksInv, [PacksNext]_packVars
  PROVE  /\ PacksInv'
         /\ \A id \in DOMAIN packs : /\ id \in DOMAIN packs'
                                     /\ packs'[id].written >= packs[id].written
                                     /\ packs'[id].says = packs[id].says
<1>0. \A id \in DOMAIN packs : packs[id].written \in Int
  BY DEF PacksInv, PacksTypeOK
<1>1. CASE \E p \in Probes : StartSeed(p) \/ StartSeedRaises(p) \/ WritePack(p)
  <2>1. PICK p \in Probes : StartSeed(p) \/ StartSeedRaises(p) \/ WritePack(p)
    BY <1>1
  <2>2. /\ packs' \in [DOMAIN packs' -> [says : Said, written : 0 .. Steps]]
        /\ probe' \in [Probes -> [left : Seq(Int), pack : SUBSET DOMAIN packs']]
        /\ now' = now /\ handoff' = handoff
        /\ \A id \in DOMAIN packs : /\ id \in DOMAIN packs'
                                    /\ packs'[id].written >= packs[id].written
                                    /\ packs'[id].says = packs[id].says
        /\ \A id \in DOMAIN packs' \ DOMAIN packs : packs'[id].says \in Outcomes
    BY <2>1, ProbeStep DEF PacksInv
  <2>3. PacksShape'
    BY <2>2 DEF PacksShape
  <2>4. PacksTypeOK'
    BY <2>2 DEF PacksInv, PacksTypeOK
  <2>5. ProbedSayOutcomes'
    BY <2>2 DEF PacksInv, ProbedSayOutcomes, Probed
  <2>6. \A row \in handoff.rows : /\ row.id \in DOMAIN packs
                                  /\ packs[row.id].written \in Int
                                  /\ packs'[row.id].written \in Int
                                  /\ packs'[row.id].written >= packs[row.id].written
                                  /\ packs'[row.id].says = packs[row.id].says
    BY <2>2, <1>0 DEF PacksInv, PacksTypeOK
  <2>7. RowsRead'
    BY <2>2, <2>6 DEF PacksInv, RowsRead, Whole, Manifest
  <2>8. RowsChecked'
    BY <2>2, <2>6 DEF PacksInv, RowsChecked, ValidPack, Whole, Exists, Manifest, Metrics, Summary
  <2> QED
    BY <2>2, <2>3, <2>4, <2>5, <2>7, <2>8 DEF PacksInv
<1>2. CASE ListPacks \/ HandoffGoesOn
  <2>1. packs' = packs
    BY <1>2 DEF ListPacks, HandoffGoesOn, CollectRow, NoPacks, RunValidator, ValidatePack,
                Publish, probeVars
  <2> QED
    BY <1>0, <1>2, <2>1, HandoffStep
<1>3. CASE Tick
  BY <1>0, <1>3, PacksAssumption
  DEF Tick, PacksInv, PacksTypeOK, PacksShape, ProbedSayOutcomes, Probed, RowsRead, RowsChecked
<1>4. CASE UNCHANGED packVars
  BY <1>0, <1>4
  DEF packVars, PacksInv, PacksTypeOK, PacksShape, ProbedSayOutcomes, Probed, RowsRead, RowsChecked
<1> QED
  BY <1>1, <1>2, <1>3, <1>4 DEF PacksNext

(* The probes and the hand-off keep the invariant for ever. *)
LEMMA InvAlways == PacksSpec => []PacksInv
BY InvInit, PackStep, PTL DEF PacksSpec

(* The state of the directory and of the hand-off keeps its types.            *)
THEOREM PacksTyped == PacksSpec => []PacksTypeOK
BY InvAlways, PTL DEF PacksInv

(* No run of a probe changes what another left.                                *)
THEOREM PacksGrow == PacksSpec => PacksOnlyGrow
<1>1. PacksInv /\ [PacksNext]_packVars =>
        [\A id \in DOMAIN packs : /\ id \in DOMAIN packs'
                                  /\ packs'[id].written >= packs[id].written
                                  /\ packs'[id].says = packs[id].says]_packVars
  BY PackStep
<1> QED
  BY <1>1, InvAlways, PTL DEF PacksSpec, PacksOnlyGrow

(* Every manifest of a probe says "supports" of the sound runs and of no other. *)
THEOREM SupportsMeansSound == PacksSpec => []SupportsWhatWasSeen
<1>1. PacksInv => SupportsWhatWasSeen
  BY OutcomesMeanWhatTheySay DEF PacksInv, ProbedSayOutcomes, SupportsWhatWasSeen
<1> QED
  BY <1>1, InvAlways, PTL

(* A report without a blocker is backed by the packs it lists.  The gate that  *)
(* was passed is what RowsChecked kept; the seed gate has two seeds to show.   *)
THEOREM CleanReportsBacked == PacksSpec => []CleanHandoffBacked
<1>1. ASSUME PacksInv, handoff.stage = "published", NoBlocker(handoff.rows, handoff.schema)
      PROVE  /\ \A row \in handoff.rows :
                  LET pack == packs[row.id]
                  IN  /\ Whole(pack, Manifest) /\ Whole(pack, Metrics) /\ Exists(pack, Summary)
                      /\ pack.says.evidence_direction \in AllowedDirections
                      /\ \E other \in handoff.rows :
                           /\ other.id.experiment_type = row.id.experiment_type
                           /\ other.id.seed # row.id.seed
             /\ \E row \in handoff.rows : packs[row.id].says.commits > 0
             /\ \E row \in handoff.rows : packs[row.id].says.rejects > 0
  <2>1. \A row \in handoff.rows : ValidPack(packs[row.id])
    BY <1>1 DEF PacksInv, RowsChecked, NoBlocker
  <2>2. ASSUME NEW row \in handoff.rows
        PROVE  \E other \in handoff.rows : /\ other.id.experiment_type = row.id.experiment_type
                                           /\ other.id.seed # row.id.seed
    <3> DEFINE seeds == SeedsOf(handoff.rows, row.id.experiment_type)
    <3>1. Cardinality(seeds) >= 2
      BY <1>1 DEF NoBlocker, SeedDeterminism
    <3>2. Cardinality({row.id.seed}) = 1
      BY FS_Singleton
    <3>3. row.id.seed \in seeds /\ seeds # {row.id.seed}
      BY <3>1, <3>2 DEF SeedsOf
    <3> QED
      BY <3>3 DEF SeedsOf
  <2> QED
    BY <1>1, <2>1, <2>2 DEF NoBlocker, HookSurface, ValidPack
<1>2. PacksInv => CleanHandoffBacked
  BY <1>1 DEF CleanHandoffBacked
<1> QED
  BY <1>2, InvAlways, PTL

-----------------------------------------------------------------------------
(* An honest run                                                               *)
(*                                                                             *)
(* Whatever the seed draws, the lane is NORMAL for the two cycles of low       *)
(* score, and in LOCKDOWN for the third: its consented destructive action is   *)
(* allowed, and the privileged one after it is blocked.                        *)

LEMMA GridOfHundredths ==
  /\ Scale \div 100 \in Nat /\ 100 * (Scale \div 100) = Scale /\ Scale \in Nat /\ Scale > 0
BY ThresholdsAssumption, DrawsAssumption

LEMMA LowScore ==
  ASSUME ProbedPolicy, NEW draw \in Draws
  PROVE  /\ LowRC(draw) \in Int /\ LowRC(draw) < THigh /\ LowRC(draw) < HighThreshold
         /\ LowRC(draw) < TLock
<1> DEFINE h == Scale \div 100
           value == (18 + draw.low) * h
<1>1. draw.low \in Int /\ draw.low <= 3 /\ h \in Nat /\ {THigh, TLock, HighThreshold} \subseteq Int
  BY DrawsAssumption, GridOfHundredths, ThresholdsAssumption, PolicyAssumption DEF ProbedPolicy
<1>2. 21 * h < THigh /\ 21 * h < HighThreshold /\ THigh < TLock
  BY ThresholdsAssumption DEF ProbedPolicy, Hundredths
<1>3. LowRC(draw) = IF value < 0 THEN 0 ELSE IF value > Scale THEN Scale ELSE value
  BY DEF LowRC, Clamp, Hundredths
<1> HIDE DEF h
<1>4. value \in Int /\ value <= 21 * h /\ 0 <= 21 * h
  BY <1>1
<1> HIDE DEF value
<1> QED
  BY <1>1, <1>2, <1>3, <1>4, GridOfHundredths

LEMMA HighScore ==
  ASSUME ProbedPolicy, NEW draw \in Draws
  PROVE  HighRC(draw) \in Int /\ HighRC(draw) >= TLock
<1> DEFINE h == Scale \div 100
           value == (95 + draw.high) * h
<1>1. draw.high \in Int /\ h \in Nat /\ TLock \in Int /\ TLock <= 90 * h
  BY DrawsAssumption, GridOfHundredths, ThresholdsAssumption DEF ProbedPolicy, Hundredths
<1>2. HighRC(draw) = IF value < 90 * h THEN 90 * h ELSE IF value > Scale THEN Scale ELSE value
  BY DEF HighRC, Clamp, Hundredths
<1>3. 90 * h <= Scale
  BY GridOfHundredths
<1> HIDE DEF h
<1>4. value \in Int
  BY <1>1
<1> HIDE DEF value
<1> QED
  BY <1>1, <1>2, <1>3, <1>4, GridOfHundredths

\* The lane of a run, which its definition gives as a recursive function.
IsLane(f, scores) ==
  f = [k \in 0 .. 4 |-> IF k = 0 THEN "NORMAL" ELSE NextState(f[k - 1], scores[k])]

LEMMA LaneExists ==
  ASSUME NEW scores
  PROVE  \E f : IsLane(f, scores)
<1> DEFINE s1 == NextState("NORMAL", scores[1])
           s2 == NextState(s1, scores[2])
           s3 == NextState(s2, scores[3])
           s4 == NextState(s3, scores[4])
           f == [k \in 0 .. 4 |-> IF k = 0 THEN "NORMAL" ELSE IF k = 1 THEN s1
                                  ELSE IF k = 2 THEN s2 ELSE IF k = 3 THEN s3 ELSE s4]
<1>1. f[0] = "NORMAL" /\ f[1] = s1 /\ f[2] = s2 /\ f[3] = s3 /\ f[4] = s4
  OBVIOUS
<1>2. \A k \in 0 .. 4 : f[k] = IF k = 0 THEN "NORMAL" ELSE NextState(f[k - 1], scores[k])
  <2> SUFFICES ASSUME NEW k \in 0 .. 4
               PROVE  f[k] = IF k = 0 THEN "NORMAL" ELSE NextState(f[k - 1], scores[k])
    OBVIOUS
  <2> HIDE DEF f, s1, s2, s3, s4
  <2>1. \/ k = 0
        \/ k = 1 /\ k - 1 = 0
        \/ k = 2 /\ k - 1 = 1
        \/ k = 3 /\ k - 1 = 2
        \/ k = 4 /\ k - 1 = 3
    OBVIOUS
  <2> QED
    BY <1>1, <2>1 DEF s1, s2, s3, s4
<1>3. f = [k \in 0 .. 4 |-> f[k]]
  OBVIOUS
<1> HIDE DEF f
<1>4. IsLane(f, scores)
  BY <1>2, <1>3 DEF IsLane
<1> QED
  BY <1>4

LEMMA RunSeedIs ==
  ASSUME NEW draw
  PROVE  \E lane :
           /\ IsLane(lane, [k \in 1 .. 4 |-> Scenarios(draw)[k].score])
           /\ RunSeed(draw) = [rows |-> [k \in 1 .. 4 |-> StepResult(Scenarios(draw)[k], lane[k])],
                              ledger_ok |-> TRUE]
<1> DEFINE scores == [k \in 1 .. 4 |-> Scenarios(draw)[k].score]
           IsRun(f) == f = [k \in 0 .. 4 |->
                              IF k = 0 THEN "NORMAL" ELSE NextState(f[k - 1], Scenarios(draw)[k].score)]
           lane == CHOOSE f : IsRun(f)
<1>1. Len(Scenarios(draw)) = 4
  BY DEF Scenarios
<1>2. \A f : IsRun(f) <=> IsLane(f, scores)
  BY DEF IsLane
<1>3. IsRun(lane)
  <2>1. \E f : IsRun(f)
    BY <1>2, LaneExists
  <2> QED
    BY <2>1
<1>4. RunSeed(draw) = [rows |-> [k \in 1 .. 4 |-> StepResult(Scenarios(draw)[k], lane[k])],
                       ledger_ok |-> TRUE]
  BY <1>1 DEF RunSeed
<1> HIDE DEF lane
<1> QED
  BY <1>2, <1>3, <1>4

LEMMA LaneOfRun ==
  ASSUME ProbedPolicy, NEW draw \in Draws,
         NEW lane, IsLane(lane, [k \in 1 .. 4 |-> Scenarios(draw)[k].score])
  PROVE  lane[2] = "NORMAL" /\ lane[3] = "LOCKDOWN"
<1> DEFINE scores == [k \in 1 .. 4 |-> Scenarios(draw)[k].score]
<1>1. scores[1] = LowRC(draw) /\ scores[2] = LowRC(draw) /\ scores[3] = HighRC(draw)
  BY DEF Scenarios, SafeWrite, DestructiveWithConsent, LockdownReflex, Cycle
<1> HIDE DEF scores
<1>2. \A k \in 0 .. 4 : lane[k] = IF k = 0 THEN "NORMAL" ELSE NextState(lane[k - 1], scores[k])
  BY DEF IsLane, scores
<1>3. /\ lane[0] = "NORMAL" /\ lane[1] = NextState(lane[0], scores[1])
      /\ lane[2] = NextState(lane[1], scores[2]) /\ lane[3] = NextState(lane[2], scores[3])
  BY <1>2
<1>4. NextState("NORMAL", LowRC(draw)) = "NORMAL"
  BY LowScore, ThresholdsAssumption DEF NextState, AtLeast, Below
<1>5. NextState("NORMAL", HighRC(draw)) = "LOCKDOWN"
  BY HighScore, ThresholdsAssumption DEF NextState, AtLeast, AtMost, Above, Below
<1> QED
  BY <1>1, <1>3, <1>4, <1>5

\* The consented destructive action, in NORMAL.
LEMMA DestructiveAllowed ==
  ASSUME ProbedPolicy, NEW draw \in Draws
  PROVE  StepResult(DestructiveWithConsent(draw), "NORMAL").allowed
<1> DEFINE prop == DestructiveWithConsent(draw)
           r == RequestOf(prop, "NORMAL")
<1>1. /\ r.action = "DELETE_FILE" /\ r.scope = "workspace:sandbox" /\ r.effect = "destructive"
      /\ r.rc_state = "NORMAL" /\ r.score = LowRC(draw)
      /\ r.consent_token = Consent("DELETE_FILE", "workspace:sandbox")
      /\ r.provided_verifiers = ImplementedVerifierLabels
      /\ r.provenance = {"source_class", "source_id", "timestamp"}
                          \cup {"model_call_id", "prompt_hash", "input_provenance"}
  BY DEF RequestOf, DestructiveWithConsent, Cycle, ProvenanceKeys
<1> HIDE DEF r
<1>2. LET capability == Capabilities["DELETE_FILE"]
      IN  /\ "DELETE_FILE" \in DOMAIN Capabilities
          /\ capability.effect = "destructive" /\ "workspace:sandbox" \in capability.allowed_scopes
          /\ capability.required_verifiers \subseteq ImplementedVerifierLabels
          /\ capability.provenance_bindings \subseteq r.provenance
  BY <1>1 DEF ProbedPolicy, Lists, Cycle, ProvenanceKeys
<1>3. ~ StrictMode(r)
  BY <1>1, LowScore, PolicyAssumption DEF StrictMode, AtLeast
<1>4. HasConsent(r, 0)
  BY <1>1 DEF HasConsent, Consent, IsValidFor
<1>5. Reason(r, 0) = "allowed"
  BY <1>1, <1>2, <1>3, <1>4, ReasonAllowed DEF MissingBindings
<1>6. Decision(r, 0).allowed
  BY <1>5, AllowedReason
<1> QED
  BY <1>6 DEF StepResult, r

\* The consented privileged action, in LOCKDOWN.
LEMMA PrivilegedBlocked ==
  ASSUME ProbedPolicy, NEW draw
  PROVE  StepResult(LockdownReflex(draw), "LOCKDOWN").reason = "lockdown_posture_block"
<1> DEFINE prop == LockdownReflex(draw)
           r == RequestOf(prop, "LOCKDOWN")
<1>1. /\ r.action = "SEND_EMAIL" /\ r.scope = "mailbox:primary" /\ r.effect = "privileged"
      /\ r.rc_state = "LOCKDOWN"
      /\ r.provided_verifiers = ImplementedVerifierLabels
      /\ r.provenance = {"source_class", "source_id", "timestamp"}
                          \cup {"model_call_id", "prompt_hash", "input_provenance"}
  BY DEF RequestOf, LockdownReflex, Cycle, ProvenanceKeys
<1> HIDE DEF r
<1>2. LET capability == Capabilities["SEND_EMAIL"]
      IN  /\ "SEND_EMAIL" \in DOMAIN Capabilities
          /\ capability.effect = "privileged" /\ "mailbox:primary" \in capability.allowed_scopes
          /\ capability.required_verifiers \subseteq ImplementedVerifierLabels
          /\ capability.provenance_bindings \subseteq r.provenance
  BY <1>1 DEF ProbedPolicy, Lists, Cycle, ProvenanceKeys
<1>3. Reason(r, 0) = "lockdown_posture_block"
  BY <1>1, <1>2 DEF Reason, MissingBindings
<1>4. Decision(r, 0).reason = "lockdown_posture_block"
  BY <1>3 DEF Decision
<1> QED
  BY <1>4 DEF StepResult, r

\* What a row says of its own decision, and what LOCKDOWN never allows.
LEMMA RowClean ==
  ASSUME NEW proposal, NEW state
  PROVE  LET row == StepResult(proposal, state)
         IN  /\ row.commit_id = row.allowed
             /\ row.ledger_event = IF row.allowed THEN "commit_executed" ELSE "proposal_rejected"
             /\ row.allowed =>
                  ~ (row.rc_state = "LOCKDOWN" /\ row.effect_class \in {"privileged", "destructive"})
<1> DEFINE r == RequestOf(proposal, state)
<1>1. r.rc_state = state /\ r.effect = proposal.effect
  BY DEF RequestOf
<1> HIDE DEF r
<1>2. Decision(r, 0).allowed => ~ (state = "LOCKDOWN" /\ proposal.effect \in {"privileged", "destructive"})
  BY <1>1, AllowedReason, ReasonAllowed
<1> QED
  BY <1>2 DEF StepResult, r

LEMMA HonestSupports ==
  ASSUME ProbedPolicy, NEW draw \in Draws
  PROVE  EvidenceDirection(RunSeed(draw)) = "supports"
<1>1. PICK lane :
        /\ IsLane(lane, [k \in 1 .. 4 |-> Scenarios(draw)[k].score])
        /\ RunSeed(draw) = [rows |-> [k \in 1 .. 4 |-> StepResult(Scenarios(draw)[k], lane[k])],
                           ledger_ok |-> TRUE]
  BY RunSeedIs
<1> DEFINE answer == RunSeed(draw)
<1>2. /\ DOMAIN answer.rows = 1 .. 4 /\ answer.ledger_ok = TRUE
      /\ \A i \in 1 .. 4 : answer.rows[i] = StepResult(Scenarios(draw)[i], lane[i])
  BY <1>1
<1> HIDE DEF answer
<1>3. Clean(answer)
  <2>1. \A i \in 1 .. 4 :
           /\ answer.rows[i].commit_id = answer.rows[i].allowed
           /\ answer.rows[i].ledger_event =
                IF answer.rows[i].allowed THEN "commit_executed" ELSE "proposal_rejected"
           /\ answer.rows[i].allowed =>
                ~ (/\ answer.rows[i].rc_state = "LOCKDOWN"
                   /\ answer.rows[i].effect_class \in {"privileged", "destructive"})
    <3> TAKE i \in 1 .. 4
    <3>1. answer.rows[i] = StepResult(Scenarios(draw)[i], lane[i])
      BY <1>2
    <3> QED
      BY <3>1, RowClean
  <2> QED
    BY <1>2, <2>1 DEF Clean
<1>4. Scenarios(draw)[2] = DestructiveWithConsent(draw) /\ Scenarios(draw)[3] = LockdownReflex(draw)
  BY DEF Scenarios
<1>5. answer.rows[2].allowed /\ answer.rows[3].reason = "lockdown_posture_block"
  BY <1>1, <1>2, <1>4, LaneOfRun, DestructiveAllowed, PrivilegedBlocked
<1>6. ReflexSeen(answer)
  <2>1. 2 \in 1 .. 4 /\ 2 + 1 \in 1 .. 4 /\ 2 + 1 = 3
    OBVIOUS
  <2> QED
    BY <1>2, <1>5, <2>1 DEF ReflexSeen
<1> QED
  BY <1>3, <1>6, RunSeedAnswers, VerdictMeansWhatItSays DEF answer

(* Against a runtime that follows its rules, with a manifest and thresholds as *)
(* a probe presumes them, every run supports the claims, whatever it draws.    *)
THEOREM HonestRunsSupport == ProbedPolicy => (PacksSpec => []RulesSupport)
<1> SUFFICES ASSUME ProbedPolicy PROVE PacksSpec => []RulesSupport
  OBVIOUS
<1>1. PacksInv => RulesSupport
  <2> SUFFICES ASSUME PacksInv, NEW id \in Probed, packs[id].says.ruled
               PROVE  packs[id].says.evidence_direction = "supports"
    BY DEF RulesSupport
  <2>1. packs[id].says \in Outcomes
    BY DEF PacksInv, ProbedSayOutcomes
  <2>2. \A answer, ruled : /\ PackOf(answer, ruled).ruled = ruled
                           /\ PackOf(answer, ruled).evidence_direction = EvidenceDirection(answer)
    BY DEF PackOf
  <2>3. PICK draw \in Draws : packs[id].says = PackOf(RunSeed(draw), TRUE)
    BY <2>1, <2>2 DEF Outcomes
  <2>4. EvidenceDirection(RunSeed(draw)) = "supports"
    BY HonestSupports
  <2> QED
    BY <2>2, <2>3, <2>4
<1> QED
  BY <1>1, InvAlways, PTL
================================================================================
