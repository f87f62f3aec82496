--------------------------- MODULE Runtime_proofs ---------------------------
(***************************************************************************)
(* Proofs about run_cycle in any number of processes, for any manifest,    *)
(* proposals, faults and bound.  The invariant has a part for each thing   *)
(* the properties join: where a process is says how far its cycle has come *)
(* (Owned), each decision is the verifier's under the posture of its time  *)
(* (Decided), each lane remembers the readings that count (Remembers), and *)
(* the ledger file is as its own invariant says (Ledger!IInv) and tells of *)
(* cycles that are over (Traces).                                          *)
(***************************************************************************)
EXTENDS Runtime, VerifierRules_proofs, SequenceTheorems, FiniteSetTheorems

Ledger == INSTANCE AppendOnlyLedger_proofs
            WITH Writers <- Procs, Payloads <- Events, MaxLines <- MaxCycles

-----------------------------------------------------------------------------
(* What a lane remembers of the readings of its process p, the cycles cs   *)
(* up to n, when its state is st.                                          *)

StrictAfter(cs, p, n, st) ==
  \A b \in 1 .. n :
    (/\ cs[b].proc = p /\ AtLeast(cs[b].proposal.score, THigh)
     /\ \A d \in b + 1 .. n : cs[d].proc = p => ~ AtMost(cs[d].proposal.score, TLow))
      => st # "NORMAL"

LockedAfter(cs, p, n, st) ==
  \A b \in 1 .. n :
    (/\ cs[b].proc = p /\ AtLeast(cs[b].proposal.score, TLock)
     /\ \A d \in b + 1 .. n : cs[d].proc = p => cs[d].proposal.score = NaN)
      => st = "LOCKDOWN"

Remembered(cs, p, n, st) == StrictAfter(cs, p, n, st) /\ LockedAfter(cs, p, n, st)

LEMMA RememberedSame ==
  ASSUME NEW cs, NEW ct, NEW n \in Nat, NEW p, NEW st,
         \A d \in 1 .. n : ct[d].proc = cs[d].proc /\ ct[d].proposal = cs[d].proposal,
         Remembered(cs, p, n, st)
  PROVE  Remembered(ct, p, n, st)
<1>1. \A b \in 1 .. n : \A d \in b + 1 .. n : d \in 1 .. n
  OBVIOUS
<1>2. StrictAfter(ct, p, n, st)
  BY <1>1 DEF Remembered, StrictAfter
<1>3. LockedAfter(ct, p, n, st)
  BY <1>1 DEF Remembered, LockedAfter
<1> QED
  BY <1>2, <1>3 DEF Remembered

\* A cycle of another process.
LEMMA RememberedOther ==
  ASSUME NEW cs, NEW n \in Nat, NEW p, NEW st,
         Remembered(cs, p, n, st), cs[n + 1].proc # p
  PROVE  Remembered(cs, p, n + 1, st)
<1>1. \A b \in 1 .. n + 1 : cs[b].proc = p => b \in 1 .. n
  OBVIOUS
<1>2. \A b \in 1 .. n : \A d \in b + 1 .. n : d \in b + 1 .. n + 1
  OBVIOUS
<1>3. StrictAfter(cs, p, n + 1, st)
  BY <1>1, <1>2 DEF Remembered, StrictAfter
<1>4. LockedAfter(cs, p, n + 1, st)
  BY <1>1, <1>2 DEF Remembered, LockedAfter
<1> QED
  BY <1>3, <1>4 DEF Remembered

LEMMA NextStateFacts ==
  ASSUME NEW st \in RCStates, NEW score \in Float
  PROVE  /\ NextState(st, score) \in RCStates
         /\ AtLeast(score, TLock) => NextState(st, score) = "LOCKDOWN"
         /\ AtLeast(score, THigh) => NextState(st, score) # "NORMAL"
         /\ st # "NORMAL" /\ ~ AtMost(score, TLow) => NextState(st, score) # "NORMAL"
         /\ score = NaN => NextState(st, score) = st
BY ThresholdsAssumption DEF NextState, RCStates, Float, AtLeast, AtMost, Above, Below

\* A cycle of the process itself.
LEMMA RememberedOwn ==
  ASSUME NEW cs, NEW n \in Nat, NEW p, NEW st \in RCStates,
         Remembered(cs, p, n, st),
         cs[n + 1].proc = p, cs[n + 1].proposal.score \in Float
  PROVE  Remembered(cs, p, n + 1, NextState(st, cs[n + 1].proposal.score))
<1> DEFINE score == cs[n + 1].proposal.score
           next == NextState(st, score)
<1>1. /\ AtLeast(score, TLock) => next = "LOCKDOWN"
      /\ AtLeast(score, THigh) => next # "NORMAL"
      /\ st # "NORMAL" /\ ~ AtMost(score, TLow) => next # "NORMAL"
      /\ score = NaN => next = st
  BY NextStateFacts
<1> HIDE DEF next
<1>2. \A b \in 1 .. n : n + 1 \in b + 1 .. n + 1 /\ \A d \in b + 1 .. n : d \in b + 1 .. n + 1
  OBVIOUS
<1>3. \A b \in 1 .. n + 1 : b \in 1 .. n \/ b = n + 1
  OBVIOUS
<1>4. StrictAfter(cs, p, n + 1, next)
  BY <1>1, <1>2, <1>3 DEF Remembered, StrictAfter
<1>5. LockedAfter(cs, p, n + 1, next)
  BY <1>1, <1>2, <1>3 DEF Remembered, LockedAfter
<1> QED
  BY <1>4, <1>5 DEF Remembered, next

-----------------------------------------------------------------------------
(* The invariant *)

CycleRecord == [proc : Procs, proposal : Proposals, rc_state : RCStates,
                decision : Decisions, released : BOOLEAN, outcome : Outcomes]

Typed ==
  /\ pc \in [Procs -> PCs]
  /\ lane \in [Procs -> RCStates]
  /\ cycles \in Seq(CycleRecord) /\ Len(cycles) <= MaxCycles
  /\ cycle \in [Procs -> 0 .. Len(cycles)]

InCycle(p) == pc[p] \notin {"idle", "dead"}

Owned ==
  \A p \in Procs :
    /\ Ledger!Appending(p) => Recording(p)
    /\ InCycle(p) =>
         /\ cycle[p] # 0
         /\ cycles[cycle[p]].proc = p
         /\ cycles[cycle[p]].outcome = "pending"
         /\ cycles[cycle[p]].decision.allowed <=> pc[p] # "rejecting"
         /\ cycles[cycle[p]].released <=> pc[p] \in {"running", "recording"}

Decided ==
  \A c \in Cycles :
    /\ cycles[c].decision = Decision(RequestOf(cycles[c].proposal, cycles[c].rc_state), c - 1)
    /\ cycles[c].released => cycles[c].decision.allowed

Remembers ==
  /\ \A p \in Procs : Remembered(cycles, p, Len(cycles), lane[p])
  /\ \A c \in Cycles : Remembered(cycles, cycles[c].proc, c, cycles[c].rc_state)

CycleInv == Typed /\ Owned /\ Decided /\ Remembers

LEMMA CyclesLength ==
  ASSUME Typed
  PROVE  /\ Len(cycles) \in Nat /\ DOMAIN cycles = 1 .. Len(cycles)
         /\ \A c \in 1 .. Len(cycles) : cycles[c] \in CycleRecord
BY LenProperties, ElementOfSeq DEF Typed

-----------------------------------------------------------------------------
(* The file is the one the ledger's proofs are about. *)

LEMMA SameFile ==
  /\ File!Init <=> Ledger!Init
  /\ File!TypeOK <=> Ledger!TypeOK
  /\ \A p \in Procs :
       /\ File!Appending(p) <=> Ledger!Appending(p)
       /\ File!ReadTail(p) <=> Ledger!ReadTail(p)
       /\ File!Abandon(p) <=> Ledger!Abandon(p)
       /\ \A e : File!WriteEntry(p, e) <=> Ledger!WriteEntry(p, e)
       /\ \A e : File!TornWrite(p, e) <=> Ledger!TornWrite(p, e)
BY DEF File!Init, Ledger!Init, File!TypeOK, Ledger!TypeOK, File!Appending, Ledger!Appending,
       File!ReadTail, Ledger!ReadTail, File!Abandon, Ledger!Abandon,
       File!WriteEntry, Ledger!WriteEntry, File!TornWrite, Ledger!TornWrite,
       File!NoTail, Ledger!NoTail, File!EndAppend, Ledger!EndAppend,
       File!EntryOf, Ledger!EntryOf, File!RunTogether, Ledger!RunTogether,
       File!LineOK, Ledger!LineOK, File!Torn, Ledger!Torn, File!Entry, Ledger!Entry,
       File!Digest, Ledger!Digest, File!GENESIS, Ledger!GENESIS,
       File!TailHash, Ledger!TailHash, File!Readable, Ledger!Readable,
       File!WithLast, Ledger!WithLast, File!IsSequence, Ledger!IsSequence

-----------------------------------------------------------------------------
(* The steps, as what they do to the cycles *)

LEMMA InitCycleInv == Init => CycleInv
<1> SUFFICES ASSUME Init PROVE CycleInv
  OBVIOUS
<1>1. cycles = <<>> /\ Len(cycles) = 0 /\ cycles \in Seq(CycleRecord)
  BY EmptySeq DEF Init
<1>2. Typed
  BY <1>1, RuntimeAssumption DEF Init, Typed, PCs, RCStates
<1>3. \A p \in Procs : ~ File!Appending(p) /\ ~ InCycle(p)
  BY DEF Init, InCycle, File!Init, File!Appending
<1>4. Owned
  BY <1>3, SameFile DEF Owned
<1>5. Decided
  BY <1>1 DEF Decided, Cycles
<1>6. Remembers
  BY <1>1 DEF Remembers, Remembered, StrictAfter, LockedAfter, Cycles
<1> QED
  BY <1>2, <1>4, <1>5, <1>6 DEF CycleInv

\* A step of p that at most sets `released' or `outcome' of p's cycle.
LEMMA TouchTyped ==
  ASSUME CycleInv, NEW p \in Procs, InCycle(p), NEW l \in PCs, Goto(p, l),
         UNCHANGED <<lane, cycle>>,
         NEW r \in CycleRecord, cycles' = [cycles EXCEPT ![cycle[p]] = r],
         r.proc = p, r.proposal = cycles[cycle[p]].proposal,
         r.rc_state = cycles[cycle[p]].rc_state, r.decision = cycles[cycle[p]].decision,
         r.released => r.decision.allowed
  PROVE  /\ Typed' /\ Decided' /\ Remembers'
         /\ Len(cycles') = Len(cycles)
         /\ cycle[p] \in 1 .. Len(cycles) /\ cycles'[cycle[p]] = r
         /\ \A c \in 1 .. Len(cycles) : c # cycle[p] => cycles'[c] = cycles[c]
         /\ pc'[p] = l /\ \A q \in Procs \ {p} : pc'[q] = pc[q]
<1>1. cycle[p] \in 1 .. Len(cycles)
  BY CyclesLength DEF CycleInv, Typed, Owned
<1>2. /\ cycles' \in Seq(CycleRecord) /\ Len(cycles') = Len(cycles)
      /\ cycles'[cycle[p]] = r
      /\ \A c \in 1 .. Len(cycles) : c # cycle[p] => cycles'[c] = cycles[c]
  <2>1. cycles \in Seq(CycleRecord)
    BY DEF CycleInv, Typed
  <2>2. cycles' \in Seq(CycleRecord) /\ Len(cycles') = Len(cycles)
    BY <1>1, <2>1, ExceptSeq
  <2> QED
    BY <1>1, <2>2, CyclesLength DEF CycleInv
<1>3. pc' \in [Procs -> PCs] /\ pc'[p] = l /\ \A q \in Procs \ {p} : pc'[q] = pc[q]
  BY DEF CycleInv, Typed, Goto
<1>4. Typed'
  BY <1>2, <1>3 DEF CycleInv, Typed
<1>5. \A c \in 1 .. Len(cycles) :
        /\ cycles'[c].proc = cycles[c].proc /\ cycles'[c].proposal = cycles[c].proposal
        /\ cycles'[c].rc_state = cycles[c].rc_state /\ cycles'[c].decision = cycles[c].decision
        /\ cycles'[c].released => cycles[c].released \/ r.released
  <2>1. cycles[cycle[p]].proc = p
    BY DEF CycleInv, Owned
  <2> QED
    BY <1>1, <1>2, <2>1
<1>6. Decided'
  <2> SUFFICES ASSUME NEW c \in 1 .. Len(cycles)
               PROVE  /\ cycles'[c].decision
                           = Decision(RequestOf(cycles'[c].proposal, cycles'[c].rc_state), c - 1)
                      /\ cycles'[c].released => cycles'[c].decision.allowed
    BY <1>2 DEF Decided, Cycles
  <2>1. /\ cycles[c].decision = Decision(RequestOf(cycles[c].proposal, cycles[c].rc_state), c - 1)
        /\ cycles[c].released => cycles[c].decision.allowed
    BY DEF CycleInv, Decided, Cycles
  <2>2. CASE c = cycle[p]
    BY <1>2, <2>1, <2>2
  <2>3. CASE c # cycle[p]
    BY <1>2, <2>1, <2>3
  <2> QED
    BY <2>2, <2>3
<1>7. Remembers'
  <2>1. Len(cycles) \in Nat
    BY CyclesLength DEF CycleInv
  <2>2. ASSUME NEW q \in Procs
        PROVE  Remembered(cycles', q, Len(cycles'), lane'[q])
    <3>1. Remembered(cycles, q, Len(cycles), lane[q])
      BY DEF CycleInv, Remembers
    <3>2. Remembered(cycles', q, Len(cycles), lane[q])
      BY <1>5, <2>1, <3>1, RememberedSame
    <3> QED
      BY <1>2, <3>2
  <2>3. ASSUME NEW c \in 1 .. Len(cycles)
        PROVE  Remembered(cycles', cycles'[c].proc, c, cycles'[c].rc_state)
    <3>1. c \in Nat /\ \A d \in 1 .. c :
            cycles'[d].proc = cycles[d].proc /\ cycles'[d].proposal = cycles[d].proposal
      BY <1>5, <2>1
    <3>2. ASSUME NEW q, NEW st, Remembered(cycles, q, c, st) PROVE Remembered(cycles', q, c, st)
      BY <3>1, <3>2, RememberedSame
    <3>3. Remembered(cycles, cycles[c].proc, c, cycles[c].rc_state)
      BY DEF CycleInv, Remembers, Cycles
    <3>4. Remembered(cycles', cycles[c].proc, c, cycles[c].rc_state)
      BY <3>2, <3>3
    <3> QED
      BY <1>5, <3>4
  <2> QED
    BY <1>2, <2>2, <2>3 DEF Remembers, Cycles
<1> QED
  BY <1>1, <1>2, <1>3, <1>4, <1>6, <1>7

\* The other processes still own their cycles.
LEMMA TouchOwned ==
  ASSUME CycleInv, NEW p \in Procs, cycle' = cycle,
         \A c \in 1 .. Len(cycles) : c # cycle[p] => cycles'[c] = cycles[c],
         InCycle(p),
         \A q \in Procs \ {p} : pc'[q] = pc[q] /\ (Ledger!Appending(q)' <=> Ledger!Appending(q)),
         Ledger!Appending(p)' => Recording(p)',
         InCycle(p)' =>
           /\ cycles'[cycle[p]].proc = p
           /\ cycles'[cycle[p]].outcome = "pending"
           /\ cycles'[cycle[p]].decision.allowed <=> pc'[p] # "rejecting"
           /\ cycles'[cycle[p]].released <=> pc'[p] \in {"running", "recording"}
  PROVE  Owned'
<1> SUFFICES ASSUME NEW q \in Procs
             PROVE  /\ Ledger!Appending(q)' => Recording(q)'
                    /\ InCycle(q)' =>
                         /\ cycle'[q] # 0
                         /\ cycles'[cycle'[q]].proc = q
                         /\ cycles'[cycle'[q]].outcome = "pending"
                         /\ cycles'[cycle'[q]].decision.allowed <=> pc'[q] # "rejecting"
                         /\ cycles'[cycle'[q]].released <=> pc'[q] \in {"running", "recording"}
  BY DEF Owned
<1>1. CASE q = p
  BY <1>1 DEF CycleInv, Owned
<1>2. CASE q # p
  <2>1. Ledger!Appending(q)' => Recording(q)'
    BY <1>2 DEF CycleInv, Owned, Recording
  <2>2. ASSUME InCycle(q)'
        PROVE  cycle[q] # 0 /\ cycles'[cycle[q]] = cycles[cycle[q]] /\ InCycle(q)
    <3>1. InCycle(q) /\ cycle[q] # 0 /\ cycles[cycle[q]].proc = q /\ cycles[cycle[p]].proc = p
      BY <1>2, <2>2 DEF CycleInv, Owned, InCycle
    <3>2. cycle[q] \in 1 .. Len(cycles) /\ cycle[q] # cycle[p]
      BY <1>2, <3>1, CyclesLength DEF CycleInv, Typed
    <3> QED
      BY <3>1, <3>2
  <2>3. pc'[q] = pc[q]
    BY <1>2
  <2> QED
    BY <2>1, <2>2, <2>3 DEF CycleInv, Owned
<1> QED
  BY <1>1, <1>2

\* A decision, whether its audit record could be written or not.
Decides(p, prop) == Decide(p, prop) \/ DecideRaises(p, prop)

LEMMA DecidesCycleInv ==
  ASSUME CycleInv, NEW p \in Procs, NEW prop \in Proposals, Decides(p, prop)
  PROVE  /\ CycleInv' /\ UNCHANGED file
         /\ Len(cycles) \in Nat /\ Len(cycles') = Len(cycles) + 1
         /\ \A c \in 1 .. Len(cycles) : cycles'[c] = cycles[c]
         /\ cycles'[Len(cycles) + 1].outcome \in {"pending", "raised"}
         /\ ~ cycles'[Len(cycles) + 1].released
<1>0. PICK outcome \in {"pending", "raised"} :
        /\ Verify(p, prop, outcome)
        /\ Goto(p, IF outcome = "pending" THEN Branch(Verdict(p, prop)) ELSE "idle")
  <2>1. CASE Decide(p, prop)
    BY <2>1 DEF Decide
  <2>2. CASE DecideRaises(p, prop)
    BY <2>2 DEF DecideRaises, Verify, Goto, CycleInv, Typed
  <2> QED
    BY <2>1, <2>2 DEF Decides
<1> DEFINE n == Len(cycles)
           state == Posture(p, prop)
           decision == Decision(RequestOf(prop, state), n)
           l == IF outcome = "pending" THEN Branch(decision) ELSE "idle"
           r == [proc |-> p, proposal |-> prop, rc_state |-> state, decision |-> decision,
                 released |-> FALSE, outcome |-> outcome]
<1>1. state \in RCStates /\ state = NextState(lane[p], prop.score) /\ lane[p] \in RCStates
  BY NextStateFacts, RuntimeAssumption DEF Posture, CycleInv, Typed
<1>2. /\ pc[p] = "idle" /\ n < MaxCycles
      /\ lane' = [lane EXCEPT ![p] = state] /\ cycle' = [cycle EXCEPT ![p] = n + 1]
      /\ cycles' = Append(cycles, r) /\ Goto(p, l) /\ UNCHANGED file
  BY <1>0 DEF Verify, Verdict
<1>3. r \in CycleRecord
  BY <1>1, DecisionType DEF CycleRecord, Outcomes
<1>4. /\ r.proc = p /\ r.proposal = prop /\ r.rc_state = state /\ r.decision = decision
      /\ ~ r.released /\ r.outcome = outcome
  OBVIOUS
<1>5. decision.allowed \in BOOLEAN
  BY DecisionType DEF Decisions
<1>13. /\ l \in PCs
       /\ l \notin {"idle", "dead"} =>
            /\ outcome = "pending" /\ l \notin {"running", "recording"}
            /\ decision.allowed <=> l # "rejecting"
  BY DEF Branch, PCs
<1> HIDE DEF r, state, decision, l
<1>6. /\ n \in Nat /\ cycles' \in Seq(CycleRecord) /\ Len(cycles') = n + 1
      /\ \A c \in 1 .. n : cycles'[c] = cycles[c]
      /\ cycles'[n + 1] = r
  BY <1>2, <1>3, AppendProperties, CyclesLength DEF CycleInv, Typed
<1>7. \A c \in 1 .. n + 1 : c \in 1 .. n \/ c = n + 1
  BY <1>6
<1>8. /\ pc'[p] = l /\ lane'[p] = state /\ cycle'[p] = n + 1
      /\ \A q \in Procs \ {p} : pc'[q] = pc[q] /\ lane'[q] = lane[q] /\ cycle'[q] = cycle[q]
  BY <1>2 DEF CycleInv, Typed, Goto
<1>9. Typed'
  <2>1. pc' \in [Procs -> PCs]
    BY <1>2, <1>13 DEF CycleInv, Typed, Goto
  <2>2. lane' \in [Procs -> RCStates] /\ cycle' \in [Procs -> 0 .. n + 1]
    BY <1>1, <1>2, <1>6 DEF CycleInv, Typed
  <2>3. n + 1 <= MaxCycles
    BY <1>2, <1>6, RuntimeAssumption
  <2> QED
    BY <1>6, <2>1, <2>2, <2>3 DEF Typed
<1>10. Owned'
  <2> SUFFICES ASSUME NEW q \in Procs
               PROVE  /\ Ledger!Appending(q)' => Recording(q)'
                      /\ InCycle(q)' =>
                           /\ cycle'[q] # 0
                           /\ cycles'[cycle'[q]].proc = q
                           /\ cycles'[cycle'[q]].outcome = "pending"
                           /\ cycles'[cycle'[q]].decision.allowed <=> pc'[q] # "rejecting"
                           /\ cycles'[cycle'[q]].released <=> pc'[q] \in {"running", "recording"}
    BY DEF Owned
  <2>1. Ledger!Appending(q)' <=> Ledger!Appending(q)
    BY <1>2 DEF file, Ledger!Appending
  <2>2. CASE q = p
    <3>1. ~ Ledger!Appending(q)
      BY <1>2, <2>2 DEF CycleInv, Owned, Recording
    <3>2. cycle'[q] = n + 1 /\ cycles'[cycle'[q]] = r /\ pc'[q] = l
      BY <1>6, <1>8, <2>2
    <3> QED
      BY <1>4, <1>6, <1>13, <2>1, <2>2, <3>1, <3>2 DEF InCycle
  <2>3. CASE q # p
    <3>1. cycle'[q] = cycle[q] /\ pc'[q] = pc[q]
      BY <1>8, <2>3
    <3>2. InCycle(q) => cycle[q] \in 1 .. n
      BY <1>6 DEF CycleInv, Owned, Typed
    <3>3. InCycle(q)' <=> InCycle(q)
      BY <3>1 DEF InCycle
    <3> QED
      BY <1>6, <2>1, <3>1, <3>2, <3>3 DEF CycleInv, Owned, Recording
  <2> QED
    BY <2>2, <2>3
<1>11. Decided'
  <2> SUFFICES ASSUME NEW c \in 1 .. n + 1
               PROVE  /\ cycles'[c].decision
                           = Decision(RequestOf(cycles'[c].proposal, cycles'[c].rc_state), c - 1)
                      /\ cycles'[c].released => cycles'[c].decision.allowed
    BY <1>6 DEF Decided, Cycles
  <2>1. CASE c \in 1 .. n
    BY <1>6, <2>1 DEF CycleInv, Decided, Cycles
  <2>2. CASE c = n + 1
    <3>1. c - 1 = n /\ cycles'[c] = r
      BY <1>6, <2>2
    <3> QED
      BY <1>4, <3>1 DEF decision
  <2> QED
    BY <1>7, <2>1, <2>2
<1>12. Remembers'
  <2>1. ASSUME NEW m \in 0 .. n, NEW q, NEW st, Remembered(cycles, q, m, st)
        PROVE  Remembered(cycles', q, m, st)
    <3>1. m \in Nat /\ \A d \in 1 .. m :
            cycles'[d].proc = cycles[d].proc /\ cycles'[d].proposal = cycles[d].proposal
      BY <1>6
    <3> QED
      BY <2>1, <3>1, RememberedSame
  <2>2. Remembered(cycles', p, n + 1, state)
    <3>1. Remembered(cycles', p, n, lane[p])
      BY <1>6, <2>1 DEF CycleInv, Remembers
    <3>2. cycles'[n + 1].proc = p /\ cycles'[n + 1].proposal.score = prop.score /\ prop.score \in Float
      BY <1>4, <1>6, RuntimeAssumption
    <3> QED
      BY <1>1, <1>6, <3>1, <3>2, RememberedOwn
  <2>3. ASSUME NEW q \in Procs PROVE Remembered(cycles', q, n + 1, lane'[q])
    <3>1. CASE q = p
      BY <1>8, <2>2, <3>1
    <3>2. CASE q # p
      <4>1. Remembered(cycles', q, n, lane[q])
        BY <1>6, <2>1 DEF CycleInv, Remembers
      <4>2. cycles'[n + 1].proc # q
        BY <1>4, <1>6, <3>2
      <4>3. Remembered(cycles', q, n + 1, lane[q])
        BY <1>6, <4>1, <4>2, RememberedOther
      <4> QED
        BY <1>8, <3>2, <4>3
    <3> QED
      BY <3>1, <3>2
  <2>4. ASSUME NEW c \in 1 .. n + 1
        PROVE  Remembered(cycles', cycles'[c].proc, c, cycles'[c].rc_state)
    <3>1. CASE c \in 1 .. n
      <4>1. Remembered(cycles, cycles[c].proc, c, cycles[c].rc_state)
        BY <3>1 DEF CycleInv, Remembers, Cycles
      <4>2. c \in 0 .. n
        BY <3>1
      <4>3. Remembered(cycles', cycles[c].proc, c, cycles[c].rc_state)
        BY <2>1, <4>1, <4>2
      <4> QED
        BY <1>6, <3>1, <4>3
    <3>2. CASE c = n + 1
      BY <1>4, <1>6, <2>2, <3>2
    <3> QED
      BY <1>7, <3>1, <3>2
  <2> QED
    BY <1>6, <2>3, <2>4 DEF Remembers, Cycles
<1> QED
  BY <1>0, <1>2, <1>4, <1>6, <1>9, <1>10, <1>11, <1>12 DEF CycleInv

LEMMA ReleaseCycleInv ==
  ASSUME CycleInv, NEW p \in Procs, Release(p)
  PROVE  /\ CycleInv'
         /\ Len(cycles') = Len(cycles)
         /\ cycle[p] \in 1 .. Len(cycles) /\ cycles[cycle[p]].outcome = "pending"
         /\ ~ cycles[cycle[p]].released /\ cycles'[cycle[p]].released
         /\ cycles[cycle[p]].decision.allowed
         /\ cycles'[cycle[p]].decision = cycles[cycle[p]].decision
         /\ \A c \in 1 .. Len(cycles) : c # cycle[p] => cycles'[c] = cycles[c]
         /\ \A c \in 1 .. Len(cycles) : cycles'[c].outcome = cycles[c].outcome
<1> DEFINE r == [cycles[cycle[p]] EXCEPT !.released = TRUE]
<1>1. InCycle(p) /\ pc[p] = "releasing" /\ cycle[p] \in 1 .. Len(cycles)
  BY CyclesLength DEF Release, InCycle, CycleInv, Owned, Typed
<1>2. cycles[cycle[p]] \in CycleRecord
  BY <1>1, CyclesLength DEF CycleInv
<1>3. /\ r \in CycleRecord /\ r.released
      /\ r.proc = cycles[cycle[p]].proc /\ r.proposal = cycles[cycle[p]].proposal
      /\ r.rc_state = cycles[cycle[p]].rc_state /\ r.decision = cycles[cycle[p]].decision
      /\ r.outcome = cycles[cycle[p]].outcome
  BY <1>2 DEF CycleRecord
<1>4. cycles' = [cycles EXCEPT ![cycle[p]] = r]
  BY DEF Release
<1> HIDE DEF r
<1>5. /\ r.proc = p /\ r.decision.allowed
      /\ Goto(p, "running") /\ "running" \in PCs /\ UNCHANGED <<lane, cycle, file>>
  BY <1>1, <1>3 DEF Release, CycleInv, Owned, PCs
<1>6. /\ Typed' /\ Decided' /\ Remembers'
      /\ Len(cycles') = Len(cycles) /\ cycles'[cycle[p]] = r
      /\ \A c \in 1 .. Len(cycles) : c # cycle[p] => cycles'[c] = cycles[c]
      /\ pc'[p] = "running" /\ \A q \in Procs \ {p} : pc'[q] = pc[q]
  BY <1>1, <1>3, <1>4, <1>5, TouchTyped
<1>7. Owned'
  <2>1. \A q \in Procs : Ledger!Appending(q)' <=> Ledger!Appending(q)
    BY <1>5 DEF file, Ledger!Appending
  <2>2. ~ Ledger!Appending(p)
    BY <1>1 DEF CycleInv, Owned, Recording
  <2>3. r.outcome = "pending"
    BY <1>1, <1>3 DEF CycleInv, Owned
  <2> QED
    BY <1>1, <1>3, <1>5, <1>6, <2>1, <2>2, <2>3, TouchOwned
<1> QED
  BY <1>1, <1>3, <1>6, <1>7 DEF CycleInv, Owned

LEMMA FinishCycleInv ==
  ASSUME CycleInv, NEW p \in Procs, Finish(p)
  PROVE  CycleInv'
<1>1. /\ InCycle(p) /\ pc[p] = "running" /\ Goto(p, "recording")
      /\ UNCHANGED <<lane, cycle, cycles, file>>
  BY DEF Finish, InCycle
<1>2. /\ pc' \in [Procs -> PCs] /\ pc'[p] = "recording"
      /\ \A q \in Procs \ {p} : pc'[q] = pc[q]
  BY <1>1 DEF CycleInv, Typed, Goto, PCs
<1>3. Typed' /\ Decided' /\ Remembers'
  BY <1>1, <1>2 DEF CycleInv, Typed, Decided, Remembers, Cycles
<1>4. \A q \in Procs : Ledger!Appending(q)' <=> Ledger!Appending(q)
  BY <1>1 DEF file, Ledger!Appending
<1>5. Owned'
  BY <1>1, <1>2, <1>4, TouchOwned DEF CycleInv, Owned, Recording
<1> QED
  BY <1>3, <1>5 DEF CycleInv

LEMMA ReadLedgerCycleInv ==
  ASSUME CycleInv, NEW p \in Procs, ReadLedger(p), DOMAIN tail = Procs
  PROVE  CycleInv'
<1>1. Recording(p) /\ Ledger!ReadTail(p) /\ UNCHANGED <<pc, lane, cycle, cycles>>
  BY SameFile DEF ReadLedger
<1>2. \A q \in Procs \ {p} : tail'[q] = tail[q]
  BY <1>1 DEF Ledger!ReadTail
<1>3. Owned'
  BY <1>1, <1>2 DEF CycleInv, Owned, InCycle, Recording, Ledger!Appending
<1>4. Typed' /\ Decided' /\ Remembers'
  BY <1>1 DEF CycleInv, Typed, Decided, Remembers, Cycles
<1> QED
  BY <1>3, <1>4 DEF CycleInv

\* Every way a cycle ends.
Ends(p, o, l) ==
  /\ InCycle(p) /\ o \in Outcomes \ {"pending"} /\ l \in {"idle", "dead"}
  /\ End(p, o) /\ Goto(p, l)
  /\ UNCHANGED <<lane, cycle>>
  /\ ~ Ledger!Appending(p)'
  /\ \A q \in Procs \ {p} : Ledger!Appending(q)' <=> Ledger!Appending(q)

LEMMA EndsCycleInv ==
  ASSUME CycleInv, NEW p \in Procs, NEW o, NEW l, Ends(p, o, l)
  PROVE  /\ CycleInv'
         /\ Len(cycles') = Len(cycles) /\ cycle[p] \in 1 .. Len(cycles)
         /\ cycles[cycle[p]].outcome = "pending"
         /\ cycles'[cycle[p]] = [cycles[cycle[p]] EXCEPT !.outcome = o]
         /\ \A c \in 1 .. Len(cycles) : c # cycle[p] => cycles'[c] = cycles[c]
         /\ cycles[cycle[p]] \in CycleRecord
<1> DEFINE r == [cycles[cycle[p]] EXCEPT !.outcome = o]
<1>1. InCycle(p) /\ cycle[p] \in 1 .. Len(cycles)
  BY CyclesLength DEF Ends, CycleInv, Owned, Typed
<1>2. cycles[cycle[p]] \in CycleRecord
  BY <1>1, CyclesLength DEF CycleInv
<1>3. /\ r \in CycleRecord /\ r.released = cycles[cycle[p]].released
      /\ r.proc = cycles[cycle[p]].proc /\ r.proposal = cycles[cycle[p]].proposal
      /\ r.rc_state = cycles[cycle[p]].rc_state /\ r.decision = cycles[cycle[p]].decision
  BY <1>2 DEF CycleRecord, Ends
<1>4. cycles' = [cycles EXCEPT ![cycle[p]] = r]
  BY DEF Ends, End
<1>5. r = [cycles[cycle[p]] EXCEPT !.outcome = o]
  OBVIOUS
<1> HIDE DEF r
<1>6. /\ r.proc = p
      /\ r.released => r.decision.allowed
      /\ Goto(p, l) /\ l \in PCs /\ l \in {"idle", "dead"} /\ UNCHANGED <<lane, cycle>>
  BY <1>1, <1>3 DEF Ends, CycleInv, Owned, Decided, Cycles, PCs
<1>7. /\ Typed' /\ Decided' /\ Remembers'
      /\ Len(cycles') = Len(cycles)
      /\ cycles'[cycle[p]] = r
      /\ \A c \in 1 .. Len(cycles) : c # cycle[p] => cycles'[c] = cycles[c]
      /\ pc'[p] = l /\ \A q \in Procs \ {p} : pc'[q] = pc[q]
  BY <1>1, <1>3, <1>4, <1>6, TouchTyped
<1>8. Owned'
  <2>1. ~ InCycle(p)'
    BY <1>6, <1>7 DEF InCycle
  <2> QED
    BY <1>1, <1>6, <1>7, <2>1, TouchOwned DEF Ends
<1> QED
  BY <1>1, <1>2, <1>5, <1>7, <1>8 DEF CycleInv, Owned

-----------------------------------------------------------------------------
(* What the ledger tells *)

\* A line tells of a cycle that is over; no cycle has two.
Traces ==
  /\ \A i \in 1 .. Len(ledger) :
       ledger[i].intact =>
         LET event == ledger[i].payload
         IN  /\ event.cycle \in Cycles
             /\ cycles[event.cycle].outcome # "pending"
             /\ event.rc_state = cycles[event.cycle].rc_state
             /\ IF event.event = "commit_executed"
                THEN cycles[event.cycle].released /\ cycles[event.cycle].decision.allowed
                ELSE ~ cycles[event.cycle].released /\ ~ cycles[event.cycle].decision.allowed
  /\ \A i, j \in 1 .. Len(ledger) :
       (ledger[i].intact /\ ledger[j].intact /\ ledger[i].payload.cycle = ledger[j].payload.cycle)
         => i = j

\* A line takes a cycle that is over, which is what bounds the file.
Ended == {c \in Cycles : cycles[c].outcome # "pending"}

Counted == Len(ledger) <= Cardinality(Ended)

IInv == CycleInv /\ Ledger!IInv /\ Traces /\ Counted

LEMMA OverFinite ==
  ASSUME NEW n \in Nat, NEW S \in SUBSET (1 .. n)
  PROVE  IsFiniteSet(S) /\ Cardinality(S) \in Nat /\ Cardinality(S) <= n
<1>1. IsFiniteSet(1 .. n) /\ Cardinality(1 .. n) = n
  BY FS_Interval
<1> QED
  BY <1>1, FS_Subset, FS_CardinalityType

LEMMA LedgerLength ==
  ASSUME Ledger!IInv
  PROVE  /\ Ledger!IsSequence(ledger) /\ Len(ledger) \in Nat /\ DOMAIN tail = Procs
         /\ openLine \in BOOLEAN
BY Ledger!SequenceLength, RuntimeAssumption DEF Ledger!IInv, Ledger!TypeOK

\* Steps that leave the file, and the cycles that are over, alone.
LEMMA UntouchedLedger ==
  ASSUME IInv, Typed', ledger' = ledger, Len(cycles') >= Len(cycles),
         \A c \in 1 .. Len(cycles) : cycles[c].outcome # "pending" => cycles'[c] = cycles[c]
  PROVE  Traces' /\ Counted'
<1>1. Len(cycles) \in Nat /\ Len(cycles') \in Nat
  BY CyclesLength, LenProperties DEF IInv, CycleInv, Typed
<1>2. Traces'
  BY <1>1 DEF IInv, Traces, Cycles
<1>3. Ended \in SUBSET Ended'
  BY <1>1 DEF Ended, Cycles
<1>4. IsFiniteSet(Ended) /\ Cardinality(Ended) \in Nat
  BY <1>1, OverFinite DEF Ended, Cycles
<1>5. IsFiniteSet(Ended') /\ Cardinality(Ended') \in Nat
  BY <1>1, OverFinite DEF Ended, Cycles
<1>6. Cardinality(Ended) <= Cardinality(Ended')
  BY <1>3, <1>5, FS_Subset
<1>7. Len(ledger) \in Nat
  BY LedgerLength DEF IInv
<1> QED
  BY <1>2, <1>4, <1>5, <1>6, <1>7 DEF IInv, Counted

-----------------------------------------------------------------------------
(* The write of a cycle's line *)

\* The file after a write: the lines that still parse are old ones, in their
\* place, and the one that was written.
LEMMA WrittenFile ==
  ASSUME Ledger!IInv, NEW p \in Procs, NEW e \in Events,
         Ledger!WriteEntry(p, e) \/ Ledger!TornWrite(p, e)
  PROVE  /\ Len(ledger) \in Nat /\ Len(ledger') \in Nat /\ Len(ledger') <= Len(ledger) + 1
         /\ \A i \in 1 .. Len(ledger') : ledger'[i].intact =>
              \/ i \in 1 .. Len(ledger) /\ ledger'[i] = ledger[i]
              \/ i = Len(ledger) + 1 /\ ledger'[i].payload = e
         /\ ~ Ledger!Appending(p)'
         /\ \A q \in Procs \ {p} : Ledger!Appending(q)' <=> Ledger!Appending(q)
<1>1. Ledger!IsSequence(ledger) /\ Len(ledger) \in Nat /\ DOMAIN tail = Procs
  BY LedgerLength
<1>2. /\ Ledger!Appending(p) /\ tail' = [tail EXCEPT ![p] = Ledger!NoTail]
      /\ \/ openLine /\ Ledger!RunTogether
         \/ ledger' = Append(ledger, Ledger!EntryOf(p, e))
         \/ ledger' = Append(ledger, Ledger!Torn)
  BY DEF Ledger!WriteEntry, Ledger!TornWrite, Ledger!EndAppend
<1>3. /\ ~ Ledger!Appending(p)'
      /\ \A q \in Procs \ {p} : Ledger!Appending(q)' <=> Ledger!Appending(q)
  BY <1>1, <1>2 DEF Ledger!Appending
<1>4. ~ Ledger!Torn.intact
  BY RuntimeAssumption, Ledger!TornLine
<1>5. CASE openLine /\ Ledger!RunTogether
  <2>1. ledger # <<>> /\ ledger' = Ledger!WithLast(ledger, Ledger!Torn)
    BY <1>5 DEF Ledger!RunTogether, Ledger!IInv, Ledger!TypeOK
  <2>2. /\ Len(ledger') = Len(ledger)
        /\ \A i \in 1 .. Len(ledger) :
             ledger'[i] = IF i = Len(ledger) THEN Ledger!Torn ELSE ledger[i]
    BY <1>1, <2>1, RuntimeAssumption, Ledger!ReplaceLine
  <2> QED
    BY <1>1, <1>3, <1>4, <2>2
<1>6. ASSUME NEW line, ledger' = Append(ledger, line), ~ line.intact \/ line.payload = e
      PROVE  /\ Len(ledger') \in Nat /\ Len(ledger') <= Len(ledger) + 1
             /\ \A i \in 1 .. Len(ledger') : ledger'[i].intact =>
                  \/ i \in 1 .. Len(ledger) /\ ledger'[i] = ledger[i]
                  \/ i = Len(ledger) + 1 /\ ledger'[i].payload = e
  <2>1. /\ Len(ledger') = Len(ledger) + 1
        /\ \A i \in 1 .. Len(ledger) : ledger'[i] = ledger[i]
        /\ ledger'[Len(ledger) + 1] = line
    BY <1>1, <1>6, RuntimeAssumption, Ledger!AppendLine
  <2>2. \A i \in 1 .. Len(ledger') : i \in 1 .. Len(ledger) \/ i = Len(ledger) + 1
    BY <1>1, <2>1
  <2> QED
    BY <1>1, <1>6, <2>1, <2>2
<1>7. Ledger!EntryOf(p, e).payload = e
  BY DEF Ledger!EntryOf, Ledger!Entry
<1> QED
  BY <1>1, <1>2, <1>3, <1>4, <1>5, <1>6, <1>7

LEMMA EventType ==
  ASSUME CycleInv, NEW p \in Procs, Recording(p)
  PROVE  /\ EventOf(p) \in Events /\ EventOf(p).cycle = cycle[p]
         /\ EventOf(p).rc_state = cycles[cycle[p]].rc_state
         /\ EventOf(p).event = IF pc[p] = "recording" THEN "commit_executed" ELSE "proposal_rejected"
<1>1. cycle[p] \in 1 .. Len(cycles) /\ Len(cycles) \in Nat /\ Len(cycles) <= MaxCycles
  BY CyclesLength DEF CycleInv, Owned, Typed, InCycle, Recording
<1>2. cycles[cycle[p]] \in CycleRecord
  BY <1>1, CyclesLength DEF CycleInv
<1>3. cycle[p] \in 1 .. MaxCycles
  BY <1>1, RuntimeAssumption
<1> QED
  BY <1>2, <1>3 DEF EventOf, Events, EventNames, CycleRecord

LEMMA RecordedIInv ==
  ASSUME IInv, NEW p \in Procs, NEW o, NEW l, Recording(p), Ends(p, o, l),
         Ledger!WriteEntry(p, EventOf(p)) \/ Ledger!TornWrite(p, EventOf(p))
  PROVE  IInv' /\ Len(ledger) < MaxCycles
<1> DEFINE e == EventOf(p)
           c0 == cycle[p]
<1>1. /\ e \in Events /\ e.cycle = c0
      /\ e.rc_state = cycles[c0].rc_state
      /\ e.event = IF pc[p] = "recording" THEN "commit_executed" ELSE "proposal_rejected"
  BY EventType DEF IInv
<1>2. Ledger!WriteEntry(p, e) \/ Ledger!TornWrite(p, e)
  OBVIOUS
<1>3. /\ cycles[c0].released <=> pc[p] = "recording"
      /\ cycles[c0].decision.allowed <=> pc[p] = "recording"
  BY DEF IInv, CycleInv, Owned, Recording, InCycle
<1> HIDE DEF e
<1>4. /\ CycleInv' /\ Len(cycles') = Len(cycles) /\ c0 \in 1 .. Len(cycles)
      /\ cycles[c0].outcome = "pending" /\ cycles[c0] \in CycleRecord
      /\ cycles'[c0] = [cycles[c0] EXCEPT !.outcome = o]
      /\ \A c \in 1 .. Len(cycles) : c # c0 => cycles'[c] = cycles[c]
  BY EndsCycleInv DEF IInv
<1>5. /\ cycles'[c0].outcome # "pending"
      /\ cycles'[c0].released = cycles[c0].released
      /\ cycles'[c0].decision = cycles[c0].decision
      /\ cycles'[c0].rc_state = cycles[c0].rc_state
  BY <1>4 DEF CycleRecord, Ends
<1>6. Ledger!IInv'
  BY <1>1, <1>2, RuntimeAssumption, Ledger!WriteIInv DEF IInv
<1>7. /\ Len(ledger) \in Nat /\ Len(ledger') \in Nat /\ Len(ledger') <= Len(ledger) + 1
      /\ \A i \in 1 .. Len(ledger') : ledger'[i].intact =>
           \/ i \in 1 .. Len(ledger) /\ ledger'[i] = ledger[i]
           \/ i = Len(ledger) + 1 /\ ledger'[i].payload = e
  BY <1>1, <1>2, WrittenFile DEF IInv
<1>8. Traces'
  <2>1. \A i \in 1 .. Len(ledger) : ledger[i].intact =>
          LET event == ledger[i].payload
          IN  /\ event.cycle \in 1 .. Len(cycles) /\ event.cycle # c0
              /\ cycles[event.cycle].outcome # "pending"
              /\ event.rc_state = cycles[event.cycle].rc_state
              /\ IF event.event = "commit_executed"
                 THEN cycles[event.cycle].released /\ cycles[event.cycle].decision.allowed
                 ELSE ~ cycles[event.cycle].released /\ ~ cycles[event.cycle].decision.allowed
    BY <1>4 DEF IInv, Traces, Cycles
  <2>2. \A i, j \in 1 .. Len(ledger) :
          (ledger[i].intact /\ ledger[j].intact /\ ledger[i].payload.cycle = ledger[j].payload.cycle)
            => i = j
    BY DEF IInv, Traces
  <2>3. ASSUME NEW i \in 1 .. Len(ledger'), ledger'[i].intact
        PROVE  LET event == ledger'[i].payload
               IN  /\ event.cycle \in 1 .. Len(cycles')
                   /\ cycles'[event.cycle].outcome # "pending"
                   /\ event.rc_state = cycles'[event.cycle].rc_state
                   /\ IF event.event = "commit_executed"
                      THEN cycles'[event.cycle].released /\ cycles'[event.cycle].decision.allowed
                      ELSE ~ cycles'[event.cycle].released /\ ~ cycles'[event.cycle].decision.allowed
    <3>1. CASE i \in 1 .. Len(ledger) /\ ledger'[i] = ledger[i]
      BY <1>4, <2>1, <2>3, <3>1
    <3>2. CASE ledger'[i].payload = e
      BY <1>1, <1>3, <1>4, <1>5, <3>2
    <3> QED
      BY <1>7, <2>3, <3>1, <3>2
  <2>4. ASSUME NEW i \in 1 .. Len(ledger'), NEW j \in 1 .. Len(ledger'),
               ledger'[i].intact, ledger'[j].intact,
               ledger'[i].payload.cycle = ledger'[j].payload.cycle
        PROVE  i = j
    BY <1>1, <1>7, <2>1, <2>2, <2>4
  <2> QED
    BY <2>3, <2>4 DEF Traces, Cycles
<1>9. Counted' /\ Len(ledger) < MaxCycles
  <2>1. Len(cycles) \in Nat /\ Len(cycles) <= MaxCycles
    BY CyclesLength DEF IInv, CycleInv, Typed
  <2>2. c0 \notin Ended /\ Ended' = Ended \cup {c0}
    <3>1. \A c \in 1 .. Len(cycles) :
            cycles'[c].outcome # "pending" <=> cycles[c].outcome # "pending" \/ c = c0
      BY <1>4, <1>5
    <3> QED
      BY <1>4, <3>1 DEF Ended, Cycles
  <2>3. IsFiniteSet(Ended) /\ Cardinality(Ended) \in Nat
    BY <2>1, OverFinite DEF Ended, Cycles
  <2>4. Cardinality(Ended') = Cardinality(Ended) + 1
    BY <2>2, <2>3, FS_AddElement
  <2>5. Cardinality(Ended') <= Len(cycles)
    BY <1>4, <2>1, OverFinite DEF Ended, Cycles
  <2> QED
    BY <1>7, <2>1, <2>3, <2>4, <2>5, RuntimeAssumption DEF IInv, Counted
<1> QED
  BY <1>4, <1>6, <1>8, <1>9 DEF IInv

-----------------------------------------------------------------------------
(* The steps *)

LEMMA InitIInv == Init => IInv
<1> SUFFICES ASSUME Init PROVE IInv
  OBVIOUS
<1>1. CycleInv
  BY InitCycleInv
<1>2. Ledger!IInv
  BY SameFile, RuntimeAssumption, Ledger!InitIInv DEF Init
<1>3. Len(ledger) = 0 /\ Len(cycles) \in Nat
  BY EmptySeq, CyclesLength, <1>1 DEF Init, File!Init, CycleInv
<1>4. Traces
  BY <1>3 DEF Traces
<1>5. Counted
  BY <1>3, OverFinite DEF Counted, Ended, Cycles
<1> QED
  BY <1>1, <1>2, <1>4, <1>5 DEF IInv

LEMMA KeptFile ==
  ASSUME Ledger!IInv, UNCHANGED file
  PROVE  Ledger!IInv'
BY DEF file, Ledger!IInv, Ledger!TypeOK, Ledger!Links, Ledger!Appending, Ledger!TailLinked

\* What a step is to the invariant, and to the ledger.
Kept == IInv' /\ (UNCHANGED file \/ File!Next)

LEMMA UnrecordedKept ==
  ASSUME IInv, NEW p \in Procs, NEW o, NEW l, Ends(p, o, l), Ledger!Abandon(p) \/ UNCHANGED file
  PROVE  Kept
<1>1. /\ CycleInv' /\ Len(cycles') = Len(cycles) /\ Len(cycles) \in Nat
      /\ \A c \in 1 .. Len(cycles) : cycles[c].outcome # "pending" => cycles'[c] = cycles[c]
  BY EndsCycleInv, CyclesLength DEF IInv, CycleInv
<1>2. Ledger!IInv'
  BY KeptFile, RuntimeAssumption, Ledger!AbandonIInv DEF IInv
<1>3. ledger' = ledger
  BY DEF Ledger!Abandon, file
<1>4. Traces' /\ Counted'
  BY <1>1, <1>3, UntouchedLedger DEF CycleInv
<1>5. UNCHANGED file \/ File!Next
  BY SameFile DEF File!Next
<1> QED
  BY <1>1, <1>2, <1>4, <1>5 DEF Kept, IInv

LEMMA RecordedKept ==
  ASSUME IInv, NEW p \in Procs, NEW o, NEW l, Recording(p), Ends(p, o, l),
         Ledger!WriteEntry(p, EventOf(p)) \/ Ledger!TornWrite(p, EventOf(p))
  PROVE  Kept
<1>1. IInv' /\ Len(ledger) < MaxCycles
  BY RecordedIInv
<1>2. EventOf(p) \in Events
  BY EventType DEF IInv
<1>3. File!WriteEntry(p, EventOf(p)) \/ File!TornWrite(p, EventOf(p))
  BY SameFile
<1> QED
  BY <1>1, <1>2, <1>3 DEF Kept, File!Next

LEMMA DecidesKept ==
  ASSUME IInv, NEW p \in Procs, NEW prop \in Proposals, Decides(p, prop)
  PROVE  Kept
<1>1. /\ CycleInv' /\ UNCHANGED file /\ Len(cycles') >= Len(cycles)
      /\ \A c \in 1 .. Len(cycles) : cycles'[c] = cycles[c]
  BY DecidesCycleInv DEF IInv
<1>2. Ledger!IInv' /\ Traces' /\ Counted'
  BY <1>1, KeptFile, UntouchedLedger DEF file, IInv, CycleInv
<1> QED
  BY <1>1, <1>2 DEF Kept, IInv

LEMMA ReleaseKept ==
  ASSUME IInv, NEW p \in Procs, Release(p)
  PROVE  Kept
<1>1. /\ CycleInv' /\ UNCHANGED file
      /\ \A c \in 1 .. Len(cycles) : cycles[c].outcome # "pending" => cycles'[c] = cycles[c]
  BY ReleaseCycleInv DEF IInv, Release
<1>2. Len(cycles') = Len(cycles) /\ Len(cycles) \in Nat
  BY CyclesLength, ExceptSeq DEF IInv, CycleInv, Typed, Release
<1>3. Ledger!IInv' /\ Traces' /\ Counted'
  BY <1>1, <1>2, KeptFile, UntouchedLedger DEF file, IInv, CycleInv
<1> QED
  BY <1>1, <1>3 DEF Kept, IInv

LEMMA FinishKept ==
  ASSUME IInv, NEW p \in Procs, Finish(p)
  PROVE  Kept
<1>1. CycleInv' /\ UNCHANGED file /\ cycles' = cycles /\ Len(cycles) \in Nat
  BY FinishCycleInv, CyclesLength DEF IInv, CycleInv, Finish
<1>2. Ledger!IInv' /\ Traces' /\ Counted'
  BY <1>1, KeptFile, UntouchedLedger DEF file, IInv, CycleInv
<1> QED
  BY <1>1, <1>2 DEF Kept, IInv

LEMMA ReadLedgerKept ==
  ASSUME IInv, NEW p \in Procs, ReadLedger(p)
  PROVE  Kept
<1>1. Ledger!ReadTail(p) /\ File!ReadTail(p) /\ cycles' = cycles /\ Len(cycles) \in Nat
  BY SameFile, CyclesLength DEF ReadLedger, IInv, CycleInv
<1>2. CycleInv'
  BY ReadLedgerCycleInv, LedgerLength DEF IInv
<1>3. Ledger!IInv' /\ ledger' = ledger
  BY <1>1, RuntimeAssumption, Ledger!ReadTailIInv DEF IInv, Ledger!ReadTail
<1>4. Traces' /\ Counted'
  BY <1>1, <1>2, <1>3, UntouchedLedger DEF CycleInv
<1> QED
  BY <1>1, <1>2, <1>3, <1>4 DEF Kept, IInv, File!Next

\* What the ends of run_cycle are.
LEMMA KeptAppending ==
  ASSUME NEW p \in Procs, UNCHANGED file, ~ Ledger!Appending(p)
  PROVE  /\ ~ Ledger!Appending(p)'
         /\ \A q \in Procs \ {p} : Ledger!Appending(q)' <=> Ledger!Appending(q)
BY DEF file, Ledger!Appending

LEMMA AbandonAppending ==
  ASSUME IInv, NEW p \in Procs, Ledger!Abandon(p)
  PROVE  /\ ~ Ledger!Appending(p)'
         /\ \A q \in Procs \ {p} : Ledger!Appending(q)' <=> Ledger!Appending(q)
BY LedgerLength DEF IInv, Ledger!Abandon, Ledger!EndAppend, Ledger!Appending

LEMMA UnrecordedEnds ==
  ASSUME IInv, NEW p \in Procs,
         ReleaseRaises(p) \/ Expire(p) \/ ReadLedgerRaises(p) \/ Crash(p)
  PROVE  \E o \in {"raised", "lost"}, l \in {"idle", "dead"} :
           Ends(p, o, l) /\ (Ledger!Abandon(p) \/ UNCHANGED file)
<1>1. ASSUME ReleaseRaises(p) \/ Expire(p) \/ ReadLedgerRaises(p)
      PROVE  Ends(p, "raised", "idle") /\ UNCHANGED file
  <2>1. /\ InCycle(p) /\ End(p, "raised") /\ Goto(p, "idle")
        /\ UNCHANGED <<lane, cycle>> /\ UNCHANGED file
    BY <1>1 DEF ReleaseRaises, Expire, ReadLedgerRaises, Recording, InCycle
  <2>2. ~ Ledger!Appending(p)
    <3>1. CASE ReadLedgerRaises(p)
      BY <3>1, SameFile DEF ReadLedgerRaises
    <3>2. CASE ReleaseRaises(p) \/ Expire(p)
      BY <3>2 DEF ReleaseRaises, Expire, IInv, CycleInv, Owned, Recording
    <3> QED
      BY <1>1, <3>1, <3>2
  <2> QED
    BY <2>1, <2>2, KeptAppending DEF Ends, Outcomes
<1>2. ASSUME Crash(p)
      PROVE  Ends(p, "lost", "dead") /\ (Ledger!Abandon(p) \/ UNCHANGED file)
  <2>1. /\ InCycle(p) /\ End(p, "lost") /\ Goto(p, "dead")
        /\ UNCHANGED <<lane, cycle>>
    BY <1>2 DEF Crash, InCycle
  <2>2. CASE Ledger!Abandon(p)
    BY <2>1, <2>2, AbandonAppending DEF Ends, Outcomes
  <2>3. CASE ~ Ledger!Appending(p) /\ UNCHANGED file
    BY <2>1, <2>3, KeptAppending DEF Ends, Outcomes
  <2> QED
    BY <1>2, <2>2, <2>3, SameFile DEF Crash
<1> QED
  BY <1>1, <1>2

\* The end of p's append, and with it of its cycle: what it leaves on the file.
Written(p) ==
  /\ Recording(p)
  /\ \E o \in Outcomes \ {"pending"}, l \in {"idle", "dead"} : Ends(p, o, l)
  /\ Ledger!WriteEntry(p, EventOf(p)) \/ Ledger!TornWrite(p, EventOf(p))

\* What the write of a cycle's line may be, failures included.
Writing(p) ==
  WriteLedger(p) \/ \E o \in {"raised", "lost"} : TearLedger(p, o) \/ LoseAnswer(p, o)

LEMMA WritingEnds ==
  ASSUME IInv, NEW p \in Procs, Writing(p)
  PROVE  \/ Written(p)
         \/ \E o \in {"raised", "lost"}, l \in {"idle", "dead"} : Ends(p, o, l) /\ Ledger!Abandon(p)
<1>1. \E o \in Outcomes \ {"pending"}, l \in {"idle", "dead"} :
        /\ Recording(p) /\ InCycle(p) /\ End(p, o) /\ Goto(p, l) /\ UNCHANGED <<lane, cycle>>
        /\ \/ Ledger!WriteEntry(p, EventOf(p)) \/ Ledger!TornWrite(p, EventOf(p))
           \/ Ledger!Abandon(p) /\ o \in {"raised", "lost"}
  <2>1. CASE WriteLedger(p)
    BY <2>1, SameFile DEF WriteLedger, Recording, InCycle, Outcomes
  <2>2. ASSUME NEW o \in {"raised", "lost"}, TearLedger(p, o) \/ LoseAnswer(p, o)
        PROVE  /\ Recording(p) /\ InCycle(p) /\ End(p, o) /\ UNCHANGED <<lane, cycle>>
               /\ \E l \in {"idle", "dead"} : Goto(p, l)
               /\ \/ Ledger!WriteEntry(p, EventOf(p)) \/ Ledger!TornWrite(p, EventOf(p))
                  \/ Ledger!Abandon(p)
    BY <2>2, SameFile DEF TearLedger, LoseAnswer, Break, Recording, InCycle
  <2> QED
    BY <2>1, <2>2 DEF Writing, Outcomes
<1>2. PICK o \in Outcomes \ {"pending"}, l \in {"idle", "dead"} :
        /\ Recording(p) /\ InCycle(p) /\ End(p, o) /\ Goto(p, l) /\ UNCHANGED <<lane, cycle>>
        /\ \/ Ledger!WriteEntry(p, EventOf(p)) \/ Ledger!TornWrite(p, EventOf(p))
           \/ Ledger!Abandon(p) /\ o \in {"raised", "lost"}
  BY <1>1
<1>3. CASE Ledger!WriteEntry(p, EventOf(p)) \/ Ledger!TornWrite(p, EventOf(p))
  <2>1. EventOf(p) \in Events
    BY <1>2, EventType DEF IInv
  <2>2. Ends(p, o, l)
    BY <1>2, <1>3, <2>1, WrittenFile DEF IInv, Ends
  <2> QED
    BY <1>2, <1>3, <2>2 DEF Written
<1>4. CASE Ledger!Abandon(p) /\ o \in {"raised", "lost"}
  BY <1>2, <1>4, AbandonAppending DEF Ends
<1> QED
  BY <1>2, <1>3, <1>4

LEMMA WritingKept ==
  ASSUME IInv, NEW p \in Procs, Writing(p)
  PROVE  Kept
<1>1. CASE Written(p)
  BY <1>1, RecordedKept DEF Written
<1> QED
  BY <1>1, WritingEnds, UnrecordedKept

LEMMA StepKept == IInv /\ [Next]_vars => Kept
<1> SUFFICES ASSUME IInv, [Next]_vars PROVE Kept
  OBVIOUS
<1>1. CASE UNCHANGED vars
  <2>1. UNCHANGED file /\ UNCHANGED <<pc, lane, cycle, cycles>> /\ Len(cycles) \in Nat
    BY <1>1, CyclesLength DEF vars, file, IInv, CycleInv
  <2>2. CycleInv'
    BY <2>1 DEF file, IInv, CycleInv, Typed, Owned, Decided, Remembers, Cycles, InCycle,
                Recording, Ledger!Appending
  <2> QED
    BY <2>1, <2>2, KeptFile, UntouchedLedger DEF file, Kept, IInv, CycleInv
<1>2. ASSUME NEW p \in Procs, NEW prop \in Proposals, Refuse(p, prop) PROVE UNCHANGED vars
  BY <1>2 DEF Refuse
<1>3. ASSUME NEW p \in Procs, NEW prop \in Proposals, Decides(p, prop) PROVE Kept
  BY <1>3, DecidesKept
<1>4. ASSUME NEW p \in Procs, Proceed(p) PROVE Kept
  <2>1. CASE ReleaseRaises(p) \/ Expire(p) \/ ReadLedgerRaises(p)
    BY <2>1, UnrecordedEnds, UnrecordedKept
  <2>2. CASE Release(p) \/ Finish(p) \/ ReadLedger(p) \/ WriteLedger(p)
    BY <2>2, ReleaseKept, FinishKept, ReadLedgerKept, WritingKept DEF Writing
  <2> QED
    BY <1>4, <2>1, <2>2 DEF Proceed
<1>5. ASSUME NEW p \in Procs, Writing(p) \/ Crash(p) PROVE Kept
  BY <1>5, UnrecordedEnds, UnrecordedKept, WritingKept
<1> QED
  BY <1>1, <1>2, <1>3, <1>4, <1>5 DEF Next, Decides, Writing

LEMMA Invariance == Spec => []IInv
<1>1. IInv /\ [Next]_vars => IInv'
  BY StepKept DEF Kept
<1> QED
  BY InitIInv, <1>1, PTL DEF Spec

-----------------------------------------------------------------------------
(* The theorems *)

LEMMA InvTypes == IInv => TypeOK
<1> SUFFICES ASSUME IInv PROVE TypeOK
  OBVIOUS
<1>1. File!TypeOK
  BY SameFile DEF IInv, Ledger!IInv
<1>2. Typed /\ Owned
  BY DEF IInv, CycleInv
<1> QED
  BY <1>1, <1>2 DEF TypeOK, Typed, Owned, InCycle, CycleRecord

(***************************************************************************)
(* Every variable keeps its type, and a process in a cycle is in its own.  *)
(***************************************************************************)
THEOREM TypeCorrect == Spec => []TypeOK
BY Invariance, InvTypes, PTL

\* What is true of a released cycle.
LEMMA ReleasedFacts ==
  ASSUME IInv, NEW c \in Cycles, cycles[c].released
  PROVE  /\ ~ (cycles[c].rc_state = "LOCKDOWN" /\ Hazardous(c))
         /\ cycles[c].rc_state \in RCStates
         /\ (cycles[c].rc_state # "NORMAL" \/ AtLeast(Score(c), HighThreshold)) /\ Effect(c) # "none" =>
              /\ Effect(c) # "destructive"
              /\ \E token \in cycles[c].proposal.consent_token :
                   \A e \in token.expires_at : e >= c
<1> DEFINE prop == cycles[c].proposal
           r == RequestOf(prop, cycles[c].rc_state)
<1>1. /\ c \in Nat /\ cycles[c].rc_state \in RCStates /\ prop \in Proposals
      /\ cycles[c].decision = Decision(r, c - 1) /\ cycles[c].decision.allowed
  <2>1. cycles[c] \in CycleRecord /\ c \in Nat
    BY CyclesLength DEF IInv, CycleInv, Cycles
  <2> QED
    BY <2>1 DEF IInv, CycleInv, Decided, CycleRecord
<1>2. /\ r.rc_state = cycles[c].rc_state /\ r.effect = Effect(c)
      /\ r.consent_token = prop.consent_token /\ r.score = Score(c)
  BY DEF RequestOf, Effect, Score
<1> HIDE DEF r
<1>3. /\ ~ (r.rc_state = "LOCKDOWN" /\ r.effect \in {"privileged", "destructive"})
      /\ RequiresConsent(r) => HasConsent(r, c - 1)
      /\ ~ (StrictMode(r) /\ r.effect = "destructive")
  <2>1. Reason(r, c - 1) = "allowed"
    BY <1>1, AllowedReason
  <2> QED
    BY <2>1, ReasonAllowed
<1>4. ASSUME cycles[c].rc_state # "NORMAL" \/ AtLeast(Score(c), HighThreshold), Effect(c) # "none"
      PROVE  /\ Effect(c) # "destructive"
             /\ \E token \in prop.consent_token : \A e \in token.expires_at : e >= c
  <2>1. StrictMode(r)
    BY <1>1, <1>2, <1>4 DEF StrictMode, RCStates
  <2>2. HasConsent(r, c - 1)
    BY <1>2, <1>3, <1>4, <2>1 DEF RequiresConsent
  <2>3. PICK token \in prop.consent_token : \A e \in token.expires_at : e > c - 1
    BY <1>2, <2>2 DEF HasConsent, IsValidFor
  <2>4. token.expires_at \subseteq Int
    BY <1>1, RuntimeAssumption
  <2>5. \A e \in token.expires_at : e >= c
    BY <1>1, <2>3, <2>4
  <2> QED
    BY <1>2, <1>3, <2>1, <2>5
<1> QED
  BY <1>1, <1>2, <1>3, <1>4 DEF Hazardous

LEMMA InvLockdown == IInv => NoReleaseInLockdown
<1> SUFFICES ASSUME IInv, NEW c \in Cycles, cycles[c].released, Hazardous(c)
             PROVE  /\ ~ AtLeast(Score(c), TLock)
                    /\ \A b \in 1 .. c - 1 :
                         SameProcess(b, c) /\ AtLeast(Score(b), TLock) =>
                           \E d \in b + 1 .. c : SameProcess(d, c) /\ Score(d) # NaN
  BY DEF NoReleaseInLockdown
<1>1. cycles[c].rc_state # "LOCKDOWN" /\ c \in 1 .. Len(cycles) /\ Len(cycles) \in Nat
  BY ReleasedFacts, CyclesLength DEF IInv, CycleInv, Cycles
<1>2. LockedAfter(cycles, cycles[c].proc, c, cycles[c].rc_state)
  BY DEF IInv, CycleInv, Remembers, Remembered
<1>3. ASSUME NEW b \in 1 .. c, SameProcess(b, c), AtLeast(Score(b), TLock)
      PROVE  \E d \in b + 1 .. c : SameProcess(d, c) /\ Score(d) # NaN
  BY <1>1, <1>2, <1>3 DEF LockedAfter, SameProcess, Score
<1>4. ASSUME AtLeast(Score(c), TLock) PROVE FALSE
  <2>1. c \in 1 .. c /\ SameProcess(c, c) /\ c + 1 .. c = {}
    BY <1>1 DEF SameProcess
  <2> QED
    BY <1>3, <1>4, <2>1
<1>5. \A b \in 1 .. c - 1 : b \in 1 .. c
  BY <1>1
<1> QED
  BY <1>3, <1>4, <1>5

(***************************************************************************)
(* Nothing privileged or destructive is released at a score at or above    *)
(* t_lock, nor at one that is no number after such a score.                *)
(***************************************************************************)
THEOREM LockdownHolds == Spec => []NoReleaseInLockdown
BY Invariance, InvLockdown, PTL

LEMMA InvStrict == IInv => StrictUntilRecovery
<1> SUFFICES ASSUME IInv, NEW c \in Cycles,
                    cycles[c].released, Effect(c) # "none", StrictAt(c)
             PROVE  /\ Effect(c) # "destructive"
                    /\ \E token \in cycles[c].proposal.consent_token :
                         \A e \in token.expires_at : e >= c
  BY DEF StrictUntilRecovery
<1>1. StrictAfter(cycles, cycles[c].proc, c, cycles[c].rc_state)
  BY DEF IInv, CycleInv, Remembers, Remembered
<1>2. cycles[c].rc_state # "NORMAL" \/ AtLeast(Score(c), HighThreshold)
  BY <1>1 DEF StrictAfter, StrictAt, SameProcess, Score, Recovered
<1> QED
  BY <1>2, ReleasedFacts

(***************************************************************************)
(* In a strict posture, the verifier's or the lane's, nothing with an      *)
(* effect is released without consent, and nothing destructive.            *)
(***************************************************************************)
THEOREM StrictHolds == Spec => []StrictUntilRecovery
BY Invariance, InvStrict, PTL

LEMMA InvTrace == IInv => TraceFaithful
BY DEF IInv, Traces, TraceFaithful

(***************************************************************************)
(* The ledger tells the truth about the cycles, whatever processes         *)
(* interleave, die, time out and tear their lines.                         *)
(***************************************************************************)
THEOREM TraceHolds == Spec => []TraceFaithful
BY Invariance, InvTrace, PTL

(***************************************************************************)
(* Each process is a legal writer of the ledger file ...                   *)
(***************************************************************************)
THEOREM ImplementsLedger == Spec => UsesLedger
<1>1. Init => File!Init
  BY DEF Init
<1>2. IInv /\ [Next]_vars => [File!Next]_(File!vars)
  BY StepKept DEF Kept, file, File!vars
<1> QED
  BY Invariance, <1>1, <1>2, PTL DEF Spec, UsesLedger, File!Spec

(***************************************************************************)
(* ... so that what is proved of the file holds under any number of        *)
(* run_cycles: lines that parse are linked, forks alone break the chain,   *)
(* nothing is removed, and damage stays.                                   *)
(***************************************************************************)
THEOREM LedgerGuarantees ==
  Spec => []Links /\ []ForkIsTheOnlyBreak /\ AppendOnly /\ DamageIsPermanent
<1>1. File!Init => Ledger!Init
  BY SameFile
<1>2. [File!Next]_(File!vars) => [Ledger!Next]_(Ledger!vars)
  BY SameFile DEF File!Next, Ledger!Next, File!vars, Ledger!vars
<1>3. UsesLedger => Ledger!Spec
  BY <1>1, <1>2, PTL DEF UsesLedger, File!Spec, Ledger!Spec
<1>4. Ledger!Links <=> Links
  BY DEF Links, File!Links, File!Linked, Ledger!Links, Ledger!Linked,
         File!Digest, Ledger!Digest, File!GENESIS, Ledger!GENESIS
<1>5. /\ Ledger!ForkIsTheOnlyBreak <=> ForkIsTheOnlyBreak
      /\ Ledger!Sound <=> File!Sound
  BY DEF ForkIsTheOnlyBreak, File!ForkIsTheOnlyBreak, Ledger!ForkIsTheOnlyBreak,
         File!Sound, Ledger!Sound, File!Readable, Ledger!Readable,
         File!VerifyChain, Ledger!VerifyChain, File!PreviousHash, Ledger!PreviousHash,
         File!Digest, Ledger!Digest, File!GENESIS, Ledger!GENESIS
<1>6. Ledger!AppendOnly => AppendOnly
  <2>1. (Ledger!Torn = File!Torn) /\ (Ledger!vars = File!vars)
    BY DEF Ledger!Torn, File!Torn, Ledger!vars, File!vars
  <2> QED
    BY <2>1, PTL DEF AppendOnly, File!AppendOnly, Ledger!AppendOnly, File!Torn, Ledger!Torn,
                     File!vars, Ledger!vars
<1>7. Ledger!DamageIsPermanent => DamageIsPermanent
  BY <1>5, PTL DEF DamageIsPermanent, File!DamageIsPermanent, Ledger!DamageIsPermanent,
                   File!vars, Ledger!vars
<1> QED
  BY ImplementsLedger, <1>3, <1>4, <1>5, <1>6, <1>7, RuntimeAssumption, Ledger!LinksHold,
     Ledger!OnlyForksBreak, Ledger!AppendOnlyHolds, Ledger!DamageStays, PTL

-----------------------------------------------------------------------------
(* The kinds of step *)

\* A step that neither decides, releases nor writes.
Quiet ==
  /\ ledger' = ledger /\ openLine' = openLine /\ Len(cycles') = Len(cycles)
  /\ \A c \in 1 .. Len(cycles) :
       /\ cycles'[c].decision = cycles[c].decision /\ cycles'[c].released = cycles[c].released
       /\ cycles'[c].outcome \in {cycles[c].outcome, "raised", "lost"}

LEMMA QuietSteps ==
  ASSUME IInv, [Next]_vars
  PROVE  \/ \E p \in Procs, prop \in Proposals : Decides(p, prop)
         \/ \E p \in Procs : Release(p)
         \/ \E p \in Procs : Writing(p) /\ Written(p)
         \/ Quiet
<1>1. ASSUME UNCHANGED <<ledger, openLine, cycles>> PROVE Quiet
  BY <1>1 DEF Quiet
<1>2. CASE UNCHANGED vars
  BY <1>1, <1>2 DEF vars
<1>3. ASSUME NEW p \in Procs, NEW prop \in Proposals, Refuse(p, prop) PROVE Quiet
  BY <1>1, <1>3 DEF Refuse, vars
<1>4. ASSUME NEW p \in Procs, Finish(p) \/ ReadLedger(p) PROVE Quiet
  BY <1>1, <1>4 DEF Finish, ReadLedger, file, File!ReadTail
<1>5. ASSUME NEW p \in Procs, NEW o \in {"raised", "lost"}, NEW l \in {"idle", "dead"},
             Ends(p, o, l), Ledger!Abandon(p) \/ UNCHANGED file
      PROVE  Quiet
  <2>1. /\ Len(cycles') = Len(cycles) /\ cycle[p] \in 1 .. Len(cycles)
        /\ cycles'[cycle[p]] = [cycles[cycle[p]] EXCEPT !.outcome = o]
        /\ \A c \in 1 .. Len(cycles) : c # cycle[p] => cycles'[c] = cycles[c]
        /\ cycles[cycle[p]] \in CycleRecord
    BY <1>5, EndsCycleInv DEF IInv
  <2>2. ledger' = ledger /\ openLine' = openLine
    BY <1>5 DEF Ledger!Abandon, file
  <2>3. /\ cycles'[cycle[p]].decision = cycles[cycle[p]].decision
        /\ cycles'[cycle[p]].released = cycles[cycle[p]].released
        /\ cycles'[cycle[p]].outcome = o
    BY <2>1 DEF CycleRecord
  <2> QED
    BY <2>1, <2>2, <2>3 DEF Quiet
<1>6. ASSUME NEW p \in Procs, ReleaseRaises(p) \/ Expire(p) \/ ReadLedgerRaises(p) \/ Crash(p)
      PROVE  Quiet
  BY <1>5, <1>6, UnrecordedEnds
<1>7. ASSUME NEW p \in Procs, Writing(p)
      PROVE  Written(p) \/ Quiet
  BY <1>5, <1>7, WritingEnds
<1> QED
  BY <1>2, <1>3, <1>4, <1>6, <1>7 DEF Next, Proceed, Decides, Writing

\* After the end of an append the cycles are what they were, but for how that
\* one ended.
LEMMA WrittenCycles ==
  ASSUME IInv, NEW p \in Procs, Written(p)
  PROVE  /\ Len(cycles') = Len(cycles) /\ cycle[p] \in 1 .. Len(cycles)
         /\ cycles[cycle[p]].outcome = "pending"
         /\ \A c \in 1 .. Len(cycles) :
              /\ cycles'[c].decision = cycles[c].decision
              /\ cycles'[c].released = cycles[c].released
              /\ c # cycle[p] => cycles'[c].outcome = cycles[c].outcome
<1>1. PICK o \in Outcomes \ {"pending"}, l \in {"idle", "dead"} : Ends(p, o, l)
  BY DEF Written
<1>2. /\ Len(cycles') = Len(cycles) /\ cycle[p] \in 1 .. Len(cycles)
      /\ cycles[cycle[p]].outcome = "pending"
      /\ cycles'[cycle[p]] = [cycles[cycle[p]] EXCEPT !.outcome = o]
      /\ \A c \in 1 .. Len(cycles) : c # cycle[p] => cycles'[c] = cycles[c]
      /\ cycles[cycle[p]] \in CycleRecord
  BY <1>1, EndsCycleInv DEF IInv
<1>3. /\ cycles'[cycle[p]].decision = cycles[cycle[p]].decision
      /\ cycles'[cycle[p]].released = cycles[cycle[p]].released
  BY <1>2 DEF CycleRecord
<1> QED
  BY <1>2, <1>3

\* A write that leaves the ledger readable found it so, and put the cycle's
\* line on it; one that was not torn leaves it readable.
LEMMA WrittenLedger ==
  ASSUME IInv, NEW p \in Procs, Written(p)
  PROVE  /\ Readable(ledger)' =>
              Readable(ledger) /\ \A c : Traced(c)' <=> Traced(c) \/ c = cycle[p]
         /\ Readable(ledger) /\ ~ openLine /\ Ledger!WriteEntry(p, EventOf(p)) =>
              Readable(ledger)' /\ ~ openLine'
<1> DEFINE e == EventOf(p)
<1>1. e \in Events /\ e.cycle = cycle[p]
  BY EventType DEF IInv, Written
<1>2. Ledger!IsSequence(ledger) /\ Len(ledger) \in Nat
  BY LedgerLength DEF IInv
<1>3. Ledger!WriteEntry(p, e) \/ Ledger!TornWrite(p, e)
  BY DEF Written
<1> HIDE DEF e
<1>4. \/ openLine /\ Ledger!RunTogether
      \/ ledger' = Append(ledger, Ledger!Torn)
      \/ ledger' = Append(ledger, Ledger!EntryOf(p, e))
  BY <1>3 DEF Ledger!WriteEntry, Ledger!TornWrite
<1>5. Ledger!EntryOf(p, e).intact /\ Ledger!EntryOf(p, e).payload = e
  BY DEF Ledger!EntryOf, Ledger!Entry
<1>6. ~ Ledger!Torn.intact
  BY RuntimeAssumption, Ledger!TornLine
<1>7. CASE openLine /\ Ledger!RunTogether
  <2>1. ledger # <<>> /\ ledger' = Ledger!WithLast(ledger, Ledger!Torn)
    BY <1>7 DEF Ledger!RunTogether, IInv, Ledger!IInv, Ledger!TypeOK
  <2>2. /\ Len(ledger') = Len(ledger) /\ Len(ledger) \in 1 .. Len(ledger)
        /\ ledger'[Len(ledger)] = Ledger!Torn
    <3>1. /\ Len(ledger') = Len(ledger)
          /\ \A i \in 1 .. Len(ledger) :
               ledger'[i] = IF i = Len(ledger) THEN Ledger!Torn ELSE ledger[i]
      BY <1>2, <2>1, RuntimeAssumption, Ledger!ReplaceLine
    <3>2. Len(ledger) # 0
      BY <1>2, <2>1, EmptySeq, LenProperties DEF Ledger!IsSequence
    <3> QED
      BY <1>2, <3>1, <3>2
  <2>3. ~ Readable(ledger)'
    BY <1>6, <2>2 DEF Readable
  <2> QED
    BY <1>7, <2>3
<1>8. ASSUME NEW line, ledger' = Append(ledger, line)
      PROVE  /\ Len(ledger') = Len(ledger) + 1
             /\ \A i \in 1 .. Len(ledger) : ledger'[i] = ledger[i]
             /\ ledger'[Len(ledger) + 1] = line
             /\ \A i : i \in 1 .. Len(ledger') <=> i \in 1 .. Len(ledger) \/ i = Len(ledger) + 1
             /\ Readable(ledger)' <=> Readable(ledger) /\ line.intact
  <2>1. /\ Len(ledger') = Len(ledger) + 1
        /\ \A i \in 1 .. Len(ledger) : ledger'[i] = ledger[i]
        /\ ledger'[Len(ledger) + 1] = line
    BY <1>2, <1>8, RuntimeAssumption, Ledger!AppendLine
  <2>2. \A i : i \in 1 .. Len(ledger') <=> i \in 1 .. Len(ledger) \/ i = Len(ledger) + 1
    BY <1>2, <2>1
  <2> QED
    BY <2>1, <2>2 DEF Readable
<1>9. CASE ledger' = Append(ledger, Ledger!Torn)
  <2>1. ~ Readable(ledger)'
    BY <1>6, <1>8, <1>9
  <2>2. Ledger!WriteEntry(p, e) => openLine \/ ledger' = Append(ledger, Ledger!EntryOf(p, e))
    BY DEF Ledger!WriteEntry
  <2>3. ledger' # Append(ledger, Ledger!EntryOf(p, e))
    BY <1>5, <1>6, <1>8, <1>9
  <2> QED
    BY <2>1, <2>2, <2>3 DEF e
<1>10. CASE ledger' = Append(ledger, Ledger!EntryOf(p, e))
  <2>1. /\ \A i \in 1 .. Len(ledger) : ledger'[i] = ledger[i]
        /\ ledger'[Len(ledger) + 1] = Ledger!EntryOf(p, e)
        /\ \A i : i \in 1 .. Len(ledger') <=> i \in 1 .. Len(ledger) \/ i = Len(ledger) + 1
        /\ Readable(ledger)' <=> Readable(ledger)
    BY <1>5, <1>8, <1>10
  <2>2. \A c : Traced(c)' <=> Traced(c) \/ c = cycle[p]
    BY <1>1, <1>5, <2>1 DEF Traced
  <2>3. Ledger!WriteEntry(p, e) => ~ openLine'
    BY DEF Ledger!WriteEntry
  <2> QED
    BY <2>1, <2>2, <2>3 DEF e
<1> QED
  BY <1>4, <1>7, <1>9, <1>10

\* An answer is given by a whole write alone.
LEMMA DurableKept ==
  ASSUME IInv, AnswerDurable, [Next]_vars
  PROVE  AnswerDurable'
<1>1. CASE Quiet
  BY <1>1 DEF Quiet, AnswerDurable, Traced, Cycles
<1>2. ASSUME NEW p \in Procs, NEW prop \in Proposals, Decides(p, prop) PROVE AnswerDurable'
  <2>1. /\ Len(cycles) \in Nat /\ Len(cycles') = Len(cycles) + 1
        /\ \A c \in 1 .. Len(cycles) : cycles'[c] = cycles[c]
        /\ cycles'[Len(cycles) + 1].outcome \in {"pending", "raised"}
        /\ ledger' = ledger
    BY <1>2, DecidesCycleInv DEF IInv, file
  <2>2. \A c \in 1 .. Len(cycles') : c \in 1 .. Len(cycles) \/ c = Len(cycles) + 1
    BY <2>1
  <2> QED
    BY <2>1, <2>2 DEF AnswerDurable, Traced, Cycles
<1>3. ASSUME NEW p \in Procs, Release(p) PROVE AnswerDurable'
  <2>1. ledger' = ledger
    BY <1>3 DEF Release, file
  <2>2. /\ Len(cycles') = Len(cycles)
        /\ \A c \in 1 .. Len(cycles) : cycles'[c].outcome = cycles[c].outcome
    BY <1>3, ReleaseCycleInv DEF IInv
  <2> QED
    BY <2>1, <2>2 DEF AnswerDurable, Traced, Cycles
<1>4. ASSUME NEW p \in Procs, Written(p) PROVE AnswerDurable'
  BY <1>4, WrittenCycles, WrittenLedger DEF AnswerDurable, Cycles
<1> QED
  BY <1>1, <1>2, <1>3, <1>4, QuietSteps

(***************************************************************************)
(* What run_cycle answered is in the ledger, whatever writes fail, for as  *)
(* long as the ledger can be read.                                         *)
(***************************************************************************)
THEOREM AnswersDurable == Spec => []AnswerDurable
<1>1. Init => AnswerDurable
  BY EmptySeq DEF Init, AnswerDurable, Cycles
<1> QED
  BY Invariance, <1>1, DurableKept, PTL DEF Spec

-----------------------------------------------------------------------------
(* With whole writes *)

Whole == ~ openLine /\ Readable(ledger)

\* A step that writes a whole line or none.
Untorn == [Next]_vars /\ \A p \in Procs, o \in {"raised", "lost"} : ~ TearLedger(p, o)

LEMMA UntornSteps ==
  ASSUME "tear" \notin Faults, [Next]_vars
  PROVE  Untorn
BY DEF Untorn, TearLedger

\* What a step puts in the ledger when writes are whole.
LEMMA WholeWrite ==
  ASSUME IInv, Whole, Untorn, NEW p \in Procs, Writing(p), Written(p)
  PROVE  Whole' /\ \A c : Traced(c)' <=> Traced(c) \/ c = cycle[p]
<1>1. Ledger!WriteEntry(p, EventOf(p))
  BY SameFile DEF Writing, Untorn, WriteLedger, LoseAnswer
<1> QED
  BY <1>1, WrittenLedger DEF Whole

LEMMA WholeKept ==
  ASSUME IInv, Whole, Untorn
  PROVE  Whole'
<1>1. ASSUME ledger' = ledger, openLine' = openLine PROVE Whole'
  BY <1>1 DEF Whole, Readable
<1>2. ASSUME NEW p \in Procs, NEW prop \in Proposals, Decides(p, prop) PROVE Whole'
  BY <1>1, <1>2, DecidesCycleInv DEF IInv, file
<1>3. ASSUME NEW p \in Procs, Release(p) PROVE Whole'
  BY <1>1, <1>3 DEF Release, file
<1> QED
  BY <1>1, <1>2, <1>3, QuietSteps, WholeWrite DEF Quiet, Untorn

-----------------------------------------------------------------------------
(* The contract's stages, as CommitBoundary maps them *)

Verdicts == [c \in Cycles |-> IF cycles[c].decision.allowed THEN "allowed" ELSE "denied"]
StageOf == [c \in Cycles |-> IF Traced(c) THEN "recorded"
                             ELSE IF cycles[c].released THEN "released" ELSE "decided"]

LEMMA MappedSequence ==
  ASSUME NEW n \in Nat, NEW S, NEW s \in [1 .. n -> S]
  PROVE  s \in Seq(S) /\ Len(s) = n /\ DOMAIN s = 1 .. n
<1>1. s \in Seq(S)
  BY SeqDef
<1>2. Len(s) \in Nat /\ 1 .. Len(s) = 1 .. n
  BY <1>1, LenProperties
<1> QED
  BY <1>1, <1>2

\* A function with one more argument is the sequence with one more element.
LEMMA MappedAppend ==
  ASSUME NEW n \in Nat, NEW S, NEW s \in [1 .. n -> S], NEW t \in [1 .. n + 1 -> S],
         \A c \in 1 .. n : t[c] = s[c]
  PROVE  t = Append(s, t[n + 1])
<1>1. s \in Seq(S) /\ Len(s) = n
  BY MappedSequence
<1>2. t[n + 1] \in S
  OBVIOUS
<1> DEFINE u == Append(s, t[n + 1])
<1>3. /\ u \in Seq(S) /\ Len(u) = n + 1
      /\ \A c \in 1 .. n : u[c] = s[c]
      /\ u[n + 1] = t[n + 1]
  BY <1>1, <1>2, AppendProperties
<1> HIDE DEF u
<1>4. u \in [1 .. n + 1 -> S]
  BY <1>3, LenProperties
<1>5. \A c \in 1 .. n + 1 : t[c] = u[c]
  <2>1. \A c \in 1 .. n + 1 : c \in 1 .. n \/ c = n + 1
    OBVIOUS
  <2> QED
    BY <1>3, <2>1
<1> QED
  BY <1>4, <1>5 DEF u

LEMMA MappedTypes ==
  /\ Verdicts \in [Cycles -> {"allowed", "denied"}]
  /\ StageOf \in [Cycles -> {"decided", "released", "recorded"}]
  /\ DOMAIN Verdicts = Cycles /\ DOMAIN StageOf = Cycles
BY DEF Verdicts, StageOf

LEMMA DecidesMapped ==
  ASSUME IInv, NEW p \in Procs, NEW prop \in Proposals, Decides(p, prop)
  PROVE  /\ \E v \in {"allowed", "denied"} : Verdicts' = Append(Verdicts, v)
         /\ StageOf' = Append(StageOf, "decided")
<1> DEFINE n == Len(cycles)
<1>1. /\ n \in Nat /\ Len(cycles') = n + 1
      /\ \A c \in 1 .. n : cycles'[c] = cycles[c]
      /\ ~ cycles'[n + 1].released
  BY DecidesCycleInv DEF IInv
<1>2. ledger' = ledger
  BY DecidesCycleInv DEF IInv, file
<1>3. \A c : Traced(c)' <=> Traced(c)
  BY <1>2 DEF Traced
<1>4. ~ Traced(n + 1)
  BY <1>1 DEF IInv, Traces, Traced, Cycles
<1>5. /\ Verdicts \in [1 .. n -> {"allowed", "denied"}]
      /\ StageOf \in [1 .. n -> {"decided", "released", "recorded"}]
      /\ Verdicts' \in [1 .. n + 1 -> {"allowed", "denied"}]
      /\ StageOf' \in [1 .. n + 1 -> {"decided", "released", "recorded"}]
  BY <1>1 DEF Verdicts, StageOf, Cycles
<1>6. \A c \in 1 .. n : Verdicts'[c] = Verdicts[c] /\ StageOf'[c] = StageOf[c]
  BY <1>1, <1>3 DEF Verdicts, StageOf, Cycles
<1>7. StageOf'[n + 1] = "decided" /\ Verdicts'[n + 1] \in {"allowed", "denied"}
  BY <1>1, <1>3, <1>4 DEF Verdicts, StageOf, Cycles
<1>8. Verdicts' = Append(Verdicts, Verdicts'[n + 1])
  BY <1>1, <1>5, <1>6, MappedAppend
<1>9. StageOf' = Append(StageOf, StageOf'[n + 1])
  BY <1>1, <1>5, <1>6, MappedAppend
<1> QED
  BY <1>7, <1>8, <1>9

\* A pending cycle has no line.
LEMMA PendingUntraced ==
  ASSUME IInv, NEW c, cycles[c].outcome = "pending"
  PROVE  ~ Traced(c)
BY DEF IInv, Traces, Traced

LEMMA ReleaseMapped ==
  ASSUME IInv, NEW p \in Procs, Release(p)
  PROVE  /\ cycle[p] \in Cycles
         /\ Verdicts[cycle[p]] = "allowed" /\ StageOf[cycle[p]] = "decided"
         /\ StageOf' = [StageOf EXCEPT ![cycle[p]] = "released"]
         /\ Verdicts' = Verdicts
<1> DEFINE c0 == cycle[p]
<1>1. /\ Len(cycles') = Len(cycles)
      /\ c0 \in 1 .. Len(cycles) /\ cycles[c0].outcome = "pending"
      /\ ~ cycles[c0].released /\ cycles'[c0].released
      /\ cycles[c0].decision.allowed /\ cycles'[c0].decision = cycles[c0].decision
      /\ \A c \in 1 .. Len(cycles) : c # c0 => cycles'[c] = cycles[c]
  BY ReleaseCycleInv DEF IInv
<1>2. \A c : Traced(c)' <=> Traced(c)
  BY DEF Release, file, Traced
<1>3. ~ Traced(c0)
  BY <1>1, PendingUntraced
<1>4. \A c \in 1 .. Len(cycles) : cycles'[c].decision = cycles[c].decision
  BY <1>1
<1>5. Verdicts' = Verdicts
  BY <1>1, <1>4 DEF Verdicts, Cycles
<1>6. StageOf' = [StageOf EXCEPT ![c0] = "released"]
  BY <1>1, <1>2, <1>3 DEF StageOf, Cycles
<1> QED
  BY <1>1, <1>3, <1>5, <1>6 DEF Verdicts, StageOf, Cycles

LEMMA WriteMapped ==
  ASSUME IInv, Whole, Untorn, NEW p \in Procs, Writing(p), Written(p)
  PROVE  /\ cycle[p] \in Cycles
         /\ StageOf[cycle[p]] = IF Verdicts[cycle[p]] = "allowed" THEN "released" ELSE "decided"
         /\ StageOf' = [StageOf EXCEPT ![cycle[p]] = "recorded"]
         /\ Verdicts' = Verdicts
<1> DEFINE c0 == cycle[p]
<1>1. /\ Len(cycles') = Len(cycles) /\ c0 \in 1 .. Len(cycles)
      /\ cycles[c0].outcome = "pending"
      /\ \A c \in 1 .. Len(cycles) :
           cycles'[c].decision = cycles[c].decision /\ cycles'[c].released = cycles[c].released
      /\ \A c : Traced(c)' <=> Traced(c) \/ c = c0
  BY WholeWrite, WrittenCycles
<1>2. ~ Traced(c0)
  BY <1>1, PendingUntraced
<1>3. cycles[c0].released <=> cycles[c0].decision.allowed
  BY DEF IInv, CycleInv, Owned, Written, Recording, InCycle
<1>4. Verdicts' = Verdicts
  BY <1>1 DEF Verdicts, Cycles
<1>5. StageOf' = [StageOf EXCEPT ![c0] = "recorded"]
  BY <1>1 DEF StageOf, Cycles
<1> QED
  BY <1>1, <1>2, <1>3, <1>4, <1>5 DEF Verdicts, StageOf, Cycles

LEMMA BoundaryInit ==
  Init => Boundary!Init
<1> SUFFICES ASSUME Init PROVE Verdicts = <<>> /\ StageOf = <<>>
  BY DEF Boundary!Init, Verdicts, StageOf
<1>1. Cycles = 1 .. 0
  BY EmptySeq DEF Init, Cycles
<1>2. /\ Verdicts \in Seq({"allowed", "denied"}) /\ Len(Verdicts) = 0
      /\ StageOf \in Seq({"decided", "released", "recorded"}) /\ Len(StageOf) = 0
  BY <1>1, MappedTypes, MappedSequence
<1> QED
  BY <1>2, EmptySeq

LEMMA BoundaryStep ==
  ASSUME IInv, Whole, Untorn
  PROVE  [Boundary!Next]_(Boundary!vars)
<1> SUFFICES Boundary!Next \/ (Verdicts' = Verdicts /\ StageOf' = StageOf)
  BY DEF Boundary!vars, Verdicts, StageOf
<1>1. ASSUME NEW p \in Procs, NEW prop \in Proposals, Decides(p, prop) PROVE Boundary!Next
  <2>1. /\ \E v \in {"allowed", "denied"} : Verdicts' = Append(Verdicts, v)
        /\ StageOf' = Append(StageOf, "decided")
    BY <1>1, DecidesMapped
  <2> QED
    BY <2>1 DEF Boundary!Next, Boundary!Decide, Verdicts, StageOf
<1>2. ASSUME NEW p \in Procs, Release(p) PROVE Boundary!Next
  <2>1. /\ cycle[p] \in DOMAIN StageOf
        /\ Verdicts[cycle[p]] = "allowed" /\ StageOf[cycle[p]] = "decided"
        /\ StageOf' = [StageOf EXCEPT ![cycle[p]] = "released"]
        /\ Verdicts' = Verdicts
    BY <1>2, ReleaseMapped, MappedTypes
  <2> QED
    BY <2>1 DEF Boundary!Next, Boundary!Release, Verdicts, StageOf
<1>3. ASSUME NEW p \in Procs, Writing(p), Written(p) PROVE Boundary!Next
  <2>1. /\ cycle[p] \in DOMAIN StageOf
        /\ StageOf[cycle[p]] = IF Verdicts[cycle[p]] = "allowed" THEN "released" ELSE "decided"
        /\ StageOf' = [StageOf EXCEPT ![cycle[p]] = "recorded"]
        /\ Verdicts' = Verdicts
    BY <1>3, WriteMapped, MappedTypes
  <2> QED
    BY <2>1 DEF Boundary!Next, Boundary!Record, Verdicts, StageOf
<1>4. CASE Quiet
  BY <1>4 DEF Quiet, Verdicts, StageOf, Cycles, Traced
<1> QED
  BY <1>1, <1>2, <1>3, <1>4, QuietSteps DEF Untorn

(***************************************************************************)
(* As long as no write is torn, run_cycle goes through the stages of the   *)
(* contract and no others.                                                 *)
(***************************************************************************)
THEOREM RuntimeImplementsBoundary ==
  ASSUME "tear" \notin Faults
  PROVE  Spec => ImplementsBoundary
<1>1. Init => Whole
  BY EmptySeq DEF Init, File!Init, Whole, Readable
<1>2. IInv /\ Whole /\ [Next]_vars => Whole'
  BY UntornSteps, WholeKept
<1>3. Init => Boundary!Init
  BY BoundaryInit
<1>4. IInv /\ Whole /\ [Next]_vars => [Boundary!Next]_(Boundary!vars)
  BY UntornSteps, BoundaryStep
<1> QED
  BY Invariance, <1>1, <1>2, <1>3, <1>4, PTL DEF Spec, ImplementsBoundary, Boundary!Spec
=============================================================================
