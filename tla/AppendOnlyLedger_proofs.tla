----------------------- MODULE AppendOnlyLedger_proofs -----------------------
(***************************************************************************)
(* Proofs about the ledger for any set of writers, any payloads and any    *)
(* length.  The invariant: what a writer has read is still a true account  *)
(* of the line its index points to, so the line it writes hangs from it.   *)
(***************************************************************************)
EXTENDS AppendOnlyLedger, SequenceTheorems, WellFoundedInduction, TLAPS

\* What an append in progress holds, against the file as it is now.
TailLinked(w) ==
  /\ tail[w].index \in 0 .. Len(ledger)
  /\ tail[w].index = 0 => tail[w].previous_hash = GENESIS
  /\ tail[w].index > 0 /\ ledger[tail[w].index].intact
       => tail[w].previous_hash = ledger[tail[w].index].entry_hash

IInv == TypeOK /\ Links /\ \A w \in Writers : Appending(w) => TailLinked(w)

-----------------------------------------------------------------------------
(* Induction on natural numbers, over a set instead of a predicate *)

LEMMA LeastNumber ==
  ASSUME NEW T \in SUBSET Nat, T # {}
  PROVE  \E x \in T : \A y \in T : x <= y
<1> DEFINE R == {pair \in Nat \X Nat : pair[1] < pair[2]}
<1>1. IsWellFoundedOn(R, Nat)
  BY NatLessThanWellFounded DEF OpToRel
<1>2. \E x \in T : \A y \in T : <<y, x>> \notin R
  <2> HIDE DEF R
  <2> QED
    BY <1>1, WFMin
<1>3. PICK x \in T : \A y \in T : <<y, x>> \notin R
  BY <1>2
<1>4. ASSUME NEW y \in T PROVE x <= y
  <2>1. x \in Nat /\ y \in Nat /\ ~ (<<y, x>>[1] < <<y, x>>[2])
    BY <1>3
  <2> QED
    BY <2>1
<1> QED
  BY <1>4

LEMMA Induction ==
  ASSUME NEW S, 0 \in S, \A n \in Nat : n \in S => n + 1 \in S
  PROVE  Nat \subseteq S
<1> DEFINE T == Nat \ S
<1> SUFFICES ASSUME T # {} PROVE FALSE
  OBVIOUS
<1>1. PICK x \in T : \A y \in T : x <= y
  <2>1. T \in SUBSET Nat
    OBVIOUS
  <2> HIDE DEF T
  <2> QED
    BY <2>1, LeastNumber
<1>2. x \in Nat /\ x # 0 /\ x \notin S
  OBVIOUS
<1>3. x - 1 \in Nat /\ ~ (x <= x - 1) /\ (x - 1) + 1 = x
  BY <1>2
<1>4. x - 1 \in S
  BY <1>1, <1>3
<1> QED
  BY <1>2, <1>3, <1>4

-----------------------------------------------------------------------------
(* Lines and sequences of lines *)

LEMMA TornLine == LineOK(Torn) /\ ~ Torn.intact
BY DEF LineOK, Torn

LEMMA IntactLine ==
  ASSUME NEW line, LineOK(line), line.intact
  PROVE  /\ line # Torn
         /\ line.index \in Nat
         /\ line.entry_hash = Digest(line.index, line.payload, line.previous_hash)
<1>1. line # Torn
  BY TornLine
<1>2. line.index \in Nat /\ line = Entry(line.index, line.payload, line.previous_hash)
  BY <1>1 DEF LineOK
<1>3. \A i, p, h : Entry(i, p, h).entry_hash = Digest(i, p, h)
  BY DEF Entry
<1> QED
  BY <1>1, <1>2, <1>3

LEMMA EntryLine ==
  ASSUME NEW i \in Nat, NEW p \in Payloads, NEW h
  PROVE  LineOK(Entry(i, p, h)) /\ Entry(i, p, h).intact
         /\ Entry(i, p, h).index = i /\ Entry(i, p, h).payload = p
         /\ Entry(i, p, h).previous_hash = h /\ Entry(i, p, h).entry_hash = Digest(i, p, h)
BY DEF LineOK, Entry

\* A sequence of some elements is a sequence of its own elements.
LEMMA OwnElements ==
  ASSUME NEW S, NEW s \in Seq(S)
  PROVE  IsSequence(s) /\ Len(s) \in Nat
<1>1. Len(s) \in Nat /\ s \in [1 .. Len(s) -> S] /\ DOMAIN s = 1 .. Len(s)
  BY LenProperties
<1> DEFINE T == {s[i] : i \in 1 .. Len(s)}
<1>2. s \in [1 .. Len(s) -> T]
  BY <1>1
<1>3. s \in Seq(T)
  BY <1>1, <1>2
<1> QED
  BY <1>1, <1>3 DEF IsSequence

LEMMA SequenceLength ==
  ASSUME NEW s, IsSequence(s)
  PROVE  Len(s) \in Nat /\ (Len(s) = 0 <=> s = <<>>) /\ DOMAIN s = 1 .. Len(s)
BY LenProperties, EmptySeq DEF IsSequence

LEMMA AppendLine ==
  ASSUME NEW s, IsSequence(s), NEW e
  PROVE  LET t == Append(s, e)
         IN  /\ IsSequence(t)
             /\ Len(s) \in Nat /\ Len(t) = Len(s) + 1
             /\ \A i \in 1 .. Len(s) : t[i] = s[i]
             /\ t[Len(s) + 1] = e
<1> DEFINE S == {s[i] : i \in 1 .. Len(s)} \cup {e}
           t == Append(s, e)
<1>1. s \in Seq(S)
  <2>1. {s[i] : i \in 1 .. Len(s)} \subseteq S
    OBVIOUS
  <2> QED
    BY <2>1, LenProperties DEF IsSequence
<1>2. /\ t \in Seq(S) /\ Len(t) = Len(s) + 1
      /\ \A i \in 1 .. Len(s) : t[i] = s[i]
      /\ t[Len(s) + 1] = e
  BY <1>1, AppendProperties
<1>3. IsSequence(t) /\ Len(s) \in Nat
  BY <1>1, <1>2, OwnElements
<1> QED
  BY <1>2, <1>3

LEMMA ReplaceLine ==
  ASSUME NEW s, IsSequence(s), s # <<>>, NEW e
  PROVE  /\ IsSequence(WithLast(s, e))
         /\ Len(s) \in Nat \ {0} /\ Len(WithLast(s, e)) = Len(s)
         /\ \A i \in 1 .. Len(s) : WithLast(s, e)[i] = IF i = Len(s) THEN e ELSE s[i]
<1> DEFINE S == {s[i] : i \in 1 .. Len(s)} \cup {e}
           t == WithLast(s, e)
<1>1. s \in Seq(S) /\ Len(s) \in Nat \ {0} /\ DOMAIN s = 1 .. Len(s)
  <2>1. s \in [1 .. Len(s) -> {s[i] : i \in 1 .. Len(s)}] /\ Len(s) \in Nat /\ DOMAIN s = 1 .. Len(s)
    BY LenProperties DEF IsSequence
  <2>2. Len(s) # 0
    BY SequenceLength
  <2>3. s \in [1 .. Len(s) -> S]
    BY <2>1
  <2> QED
    BY <2>1, <2>2, <2>3
<1>2. Len(s) \in 1 .. Len(s)
  BY <1>1
<1>3. t \in Seq(S) /\ Len(t) = Len(s)
  BY <1>1, <1>2, ExceptSeq DEF WithLast
<1>4. \A i \in 1 .. Len(s) : t[i] = IF i = Len(s) THEN e ELSE s[i]
  BY <1>1 DEF WithLast
<1>5. IsSequence(t)
  <2> HIDE DEF S, t
  <2> QED
    BY <1>3, OwnElements
<1> QED
  BY <1>1, <1>3, <1>4, <1>5

-----------------------------------------------------------------------------
(* What the two ways of writing do to the file *)

(***************************************************************************)
(* The file with one more line: the old lines keep their place and stay    *)
(* linked, and so does what the writers hold.                              *)
(***************************************************************************)
LEMMA AppendLinked ==
  ASSUME IInv, NEW e, LineOK(e), ledger' = Append(ledger, e),
         e.intact =>
           /\ e.index \in 0 .. Len(ledger)
           /\ e.index = 0 => e.previous_hash = GENESIS
           /\ e.index > 0 /\ ledger[e.index].intact
                => e.previous_hash = ledger[e.index].entry_hash,
         NEW w \in Writers, tail' = [tail EXCEPT ![w] = NoTail],
         openLine' \in BOOLEAN
  PROVE  IInv'
<1>1. /\ IsSequence(ledger')
      /\ Len(ledger) \in Nat /\ Len(ledger') = Len(ledger) + 1
      /\ \A i \in 1 .. Len(ledger) : ledger'[i] = ledger[i]
      /\ ledger'[Len(ledger) + 1] = e
  BY AppendLine DEF IInv, TypeOK
<1>2. \A i \in 1 .. Len(ledger') : i \in 1 .. Len(ledger) \/ i = Len(ledger) + 1
  BY <1>1
<1>3. \A i \in 1 .. Len(ledger') : LineOK(ledger'[i])
  BY <1>1, <1>2 DEF IInv, TypeOK
<1>4. /\ DOMAIN tail' = Writers
      /\ \A v \in Writers : tail'[v] # NoTail => tail'[v] = tail[v] /\ tail[v] # NoTail
  BY DEF IInv, TypeOK
<1>5. \A v \in Writers : tail'[v] # NoTail =>
        /\ tail'[v].index \in 0 .. Len(ledger')
        /\ tail'[v].index = 0 => tail'[v].previous_hash = GENESIS
        /\ tail'[v].index > 0 /\ ledger'[tail'[v].index].intact
             => tail'[v].previous_hash = ledger'[tail'[v].index].entry_hash
  <2> SUFFICES ASSUME NEW v \in Writers, tail'[v] # NoTail
               PROVE  /\ tail[v].index \in 0 .. Len(ledger')
                      /\ tail[v].index = 0 => tail[v].previous_hash = GENESIS
                      /\ tail[v].index > 0 /\ ledger'[tail[v].index].intact
                           => tail[v].previous_hash = ledger'[tail[v].index].entry_hash
    BY <1>4
  <2>1. TailLinked(v)
    BY <1>4 DEF IInv, Appending
  <2> QED
    BY <1>1, <2>1 DEF TailLinked
<1>6. ASSUME NEW i \in 1 .. Len(ledger'), ledger'[i].intact PROVE Linked(ledger', i)
  <2>1. CASE i \in 1 .. Len(ledger)
    <3>1. Linked(ledger, i) /\ ledger'[i] = ledger[i]
      BY <1>1, <1>6, <2>1 DEF IInv, Links
    <3>2. ledger[i].index \in 0 .. i - 1
      BY <3>1 DEF Linked
    <3>3. ledger[i].index > 0 => ledger'[ledger[i].index] = ledger[ledger[i].index]
      BY <1>1, <2>1, <3>2
    <3> QED
      BY <3>1, <3>3 DEF Linked
  <2>2. CASE i = Len(ledger) + 1
    <3>1. ledger'[i] = e /\ e.intact
      BY <1>1, <1>6, <2>2
    <3>2. e.entry_hash = Digest(e.index, e.payload, e.previous_hash)
      BY <3>1, IntactLine
    <3>3. e.index \in 0 .. Len(ledger)
      BY <3>1
    <3>4. e.index > 0 => ledger'[e.index] = ledger[e.index]
      BY <1>1, <3>3
    <3>5. e.index \in 0 .. i - 1
      BY <1>1, <2>2, <3>3
    <3> QED
      BY <3>1, <3>2, <3>4, <3>5 DEF Linked
  <2> QED
    BY <1>2, <2>1, <2>2
<1>7. ledger' # <<>>
  BY <1>1, SequenceLength
<1>8. TypeOK'
  BY <1>1, <1>3, <1>4, <1>5, <1>7 DEF TypeOK, Appending
<1>9. Links'
  BY <1>6 DEF Links
<1>10. \A v \in Writers : Appending(v)' => TailLinked(v)'
  BY <1>5 DEF Appending, TailLinked
<1> QED
  BY <1>8, <1>9, <1>10 DEF IInv

(***************************************************************************)
(* The file with its open last line torn: nothing else moves.              *)
(***************************************************************************)
LEMMA RunTogetherLinked ==
  ASSUME IInv, openLine, RunTogether,
         NEW w \in Writers, tail' = [tail EXCEPT ![w] = NoTail],
         openLine' \in BOOLEAN
  PROVE  IInv'
<1>1. /\ IsSequence(ledger')
      /\ Len(ledger) \in Nat \ {0} /\ Len(ledger') = Len(ledger)
      /\ \A i \in 1 .. Len(ledger) : ledger'[i] = IF i = Len(ledger) THEN Torn ELSE ledger[i]
  <2>1. IsSequence(ledger) /\ ledger # <<>>
    BY DEF IInv, TypeOK
  <2>2. ledger' = WithLast(ledger, Torn)
    BY DEF RunTogether
  <2> QED
    BY <2>1, <2>2, ReplaceLine
<1>2. \A i \in 1 .. Len(ledger') : LineOK(ledger'[i])
  BY <1>1, TornLine DEF IInv, TypeOK
<1>3. /\ DOMAIN tail' = Writers
      /\ \A v \in Writers : tail'[v] # NoTail => tail'[v] = tail[v] /\ tail[v] # NoTail
  BY DEF IInv, TypeOK
<1>4. \A v \in Writers : tail'[v] # NoTail =>
        /\ tail'[v].index \in 0 .. Len(ledger')
        /\ tail'[v].index = 0 => tail'[v].previous_hash = GENESIS
        /\ tail'[v].index > 0 /\ ledger'[tail'[v].index].intact
             => tail'[v].previous_hash = ledger'[tail'[v].index].entry_hash
  <2> SUFFICES ASSUME NEW v \in Writers, tail'[v] # NoTail
               PROVE  /\ tail[v].index \in 0 .. Len(ledger')
                      /\ tail[v].index = 0 => tail[v].previous_hash = GENESIS
                      /\ tail[v].index > 0 /\ ledger'[tail[v].index].intact
                           => tail[v].previous_hash = ledger'[tail[v].index].entry_hash
    BY <1>3
  <2>1. TailLinked(v)
    BY <1>3 DEF IInv, Appending
  <2> QED
    BY <1>1, <2>1, TornLine DEF TailLinked
<1>5. ASSUME NEW i \in 1 .. Len(ledger'), ledger'[i].intact PROVE Linked(ledger', i)
  <2>1. i \in 1 .. Len(ledger) /\ i # Len(ledger) /\ ledger'[i] = ledger[i]
    BY <1>1, <1>5, TornLine
  <2>2. Linked(ledger, i)
    BY <1>5, <2>1 DEF IInv, Links
  <2>3. ledger[i].index \in 0 .. i - 1
    BY <2>2 DEF Linked
  <2>4. ASSUME ledger[i].index > 0
        PROVE  ledger'[ledger[i].index] = ledger[ledger[i].index]
    <3>1. ledger[i].index \in 1 .. Len(ledger) /\ ledger[i].index # Len(ledger)
      BY <1>1, <2>1, <2>3, <2>4
    <3> QED
      BY <1>1, <3>1
  <2> QED
    BY <2>1, <2>2, <2>4 DEF Linked
<1>6. ledger' # <<>>
  BY <1>1, SequenceLength
<1>7. TypeOK'
  BY <1>1, <1>2, <1>3, <1>4, <1>6 DEF TypeOK, Appending
<1>8. Links'
  BY <1>5 DEF Links
<1>9. \A v \in Writers : Appending(v)' => TailLinked(v)'
  BY <1>4 DEF Appending, TailLinked
<1> QED
  BY <1>7, <1>8, <1>9 DEF IInv

-----------------------------------------------------------------------------
(* The steps *)

LEMMA InitIInv == Init => IInv
<1> SUFFICES ASSUME Init PROVE IInv
  OBVIOUS
<1>1. Len(ledger) = 0 /\ IsSequence(ledger)
  BY EmptySeq DEF Init, IsSequence
<1>2. \A w \in Writers : ~ Appending(w)
  BY DEF Init, Appending
<1>3. openLine \in BOOLEAN /\ ~ openLine /\ DOMAIN tail = Writers
  BY DEF Init
<1>4. TypeOK
  BY <1>1, <1>2, <1>3 DEF TypeOK
<1> QED
  BY <1>1, <1>2, <1>4 DEF IInv, Links

LEMMA ReadTailIInv ==
  ASSUME IInv, NEW w \in Writers, ReadTail(w)
  PROVE  IInv'
<1>1. ledger' = ledger /\ openLine' = openLine
  BY DEF ReadTail
<1>2. Len(ledger) \in Nat /\ (Len(ledger) = 0 <=> ledger = <<>>)
  BY SequenceLength DEF IInv, TypeOK
<1>3. tail' = [tail EXCEPT ![w] = [index |-> Len(ledger), previous_hash |-> TailHash(ledger)]]
  BY DEF ReadTail
<1>4. DOMAIN tail' = Writers /\ \A v \in Writers \ {w} : tail'[v] = tail[v]
  BY <1>3 DEF IInv, TypeOK
<1>5. tail'[w].index = Len(ledger) /\ tail'[w].previous_hash = TailHash(ledger)
  BY <1>3 DEF IInv, TypeOK
<1>6. ASSUME NEW v \in Writers, tail'[v] # NoTail PROVE TailLinked(v)'
  <2>1. CASE v = w
    BY <1>1, <1>2, <1>5, <2>1 DEF TailLinked, TailHash
  <2>2. CASE v # w
    BY <1>1, <1>4, <1>6, <2>2 DEF TailLinked, IInv, Appending
  <2> QED
    BY <2>1, <2>2
<1>7. \A v \in Writers : tail'[v] # NoTail => tail'[v].index \in 0 .. Len(ledger')
  BY <1>6 DEF TailLinked
<1>8. TypeOK' /\ Links'
  BY <1>1, <1>4, <1>7 DEF IInv, TypeOK, Links, Appending
<1> QED
  BY <1>6, <1>8 DEF IInv, Appending

LEMMA AbandonIInv ==
  ASSUME IInv, NEW w \in Writers, Abandon(w)
  PROVE  IInv'
<1>1. ledger' = ledger /\ openLine' = openLine /\ tail' = [tail EXCEPT ![w] = NoTail]
  BY DEF Abandon, EndAppend
<1>2. /\ DOMAIN tail' = Writers
      /\ \A v \in Writers : tail'[v] # NoTail => tail'[v] = tail[v] /\ tail[v] # NoTail
  BY <1>1 DEF IInv, TypeOK
<1>3. TypeOK' /\ Links'
  BY <1>1, <1>2 DEF IInv, TypeOK, Links, Appending
<1> QED
  BY <1>1, <1>2, <1>3 DEF IInv, Appending, TailLinked

\* What a writer puts on the file is an entry that hangs from it.
LEMMA EntryOfLinked ==
  ASSUME IInv, NEW w \in Writers, Appending(w), NEW p \in Payloads, NEW e, e = EntryOf(w, p)
  PROVE  /\ LineOK(e)
         /\ e.index \in 0 .. Len(ledger)
         /\ e.index = 0 => e.previous_hash = GENESIS
         /\ e.index > 0 /\ ledger[e.index].intact
              => e.previous_hash = ledger[e.index].entry_hash
<1>1. TailLinked(w)
  BY DEF IInv
<1>2. tail[w].index \in Nat
  BY <1>1 DEF TailLinked
<1>3. LineOK(e) /\ e.index = tail[w].index /\ e.previous_hash = tail[w].previous_hash
  BY <1>2, EntryLine DEF EntryOf
<1> QED
  BY <1>1, <1>3 DEF TailLinked

LEMMA WriteIInv ==
  ASSUME IInv, NEW w \in Writers, NEW p \in Payloads, WriteEntry(w, p) \/ TornWrite(w, p)
  PROVE  IInv'
<1>1. /\ Appending(w) /\ tail' = [tail EXCEPT ![w] = NoTail] /\ openLine' \in BOOLEAN
      /\ \/ openLine /\ RunTogether
         \/ ledger' = Append(ledger, EntryOf(w, p))
         \/ ledger' = Append(ledger, Torn)
  BY DEF WriteEntry, TornWrite, EndAppend
<1>2. CASE openLine /\ RunTogether
  BY <1>1, <1>2, RunTogetherLinked
<1>3. CASE ledger' = Append(ledger, EntryOf(w, p))
  BY <1>1, <1>3, EntryOfLinked, AppendLinked
<1>4. CASE ledger' = Append(ledger, Torn)
  BY <1>1, <1>4, TornLine, AppendLinked
<1> QED
  BY <1>1, <1>2, <1>3, <1>4

LEMMA NextIInv == IInv /\ [Next]_vars => IInv'
<1> SUFFICES ASSUME IInv, [Next]_vars PROVE IInv'
  OBVIOUS
<1>1. ASSUME NEW w \in Writers, ReadTail(w) PROVE IInv'
  BY <1>1, ReadTailIInv
<1>2. ASSUME NEW w \in Writers, Abandon(w) PROVE IInv'
  BY <1>2, AbandonIInv
<1>3. ASSUME NEW w \in Writers, NEW p \in Payloads, WriteEntry(w, p) \/ TornWrite(w, p)
      PROVE  IInv'
  BY <1>3, WriteIInv
<1>4. CASE UNCHANGED vars
  BY <1>4 DEF vars, IInv, TypeOK, Links, Appending, TailLinked
<1> QED
  BY <1>1, <1>2, <1>3, <1>4 DEF Next

THEOREM Invariance == Spec => []IInv
BY InitIInv, NextIInv, PTL DEF Spec

-----------------------------------------------------------------------------
(* The theorems *)

(***************************************************************************)
(* The file holds lines of the right shape and no writer holds an index    *)
(* past its end.                                                           *)
(***************************************************************************)
THEOREM TypeCorrect == Spec => []TypeOK
BY Invariance, PTL DEF IInv

(***************************************************************************)
(* Every line that parses hangs from the lines before it, for any number   *)
(* of writers and whatever tears or stops their appends.                   *)
(***************************************************************************)
THEOREM LinksHold == Spec => []Links
BY Invariance, PTL DEF IInv

(***************************************************************************)
(* A readable ledger verifies exactly when no line was written from a      *)
(* stale read.                                                             *)
(***************************************************************************)
LEMMA InPlaceVerifies ==
  ASSUME IInv, Readable(ledger), \A i \in 1 .. Len(ledger) : ledger[i].index = i - 1
  PROVE  VerifyChain(ledger)
<1> SUFFICES ASSUME NEW i \in 1 .. Len(ledger)
             PROVE  /\ ledger[i].previous_hash = PreviousHash(ledger, i)
                    /\ ledger[i].entry_hash
                         = Digest(i - 1, ledger[i].payload, PreviousHash(ledger, i))
  BY DEF VerifyChain
<1>1. Linked(ledger, i) /\ ledger[i].index = i - 1
  BY DEF IInv, Links, Readable
<1>2. Len(ledger) \in Nat
  BY SequenceLength DEF IInv, TypeOK
<1>3. i # 1 => i - 1 > 0 /\ i - 1 \in 1 .. Len(ledger)
  BY <1>2
<1>4. i # 1 => ledger[i - 1].intact
  BY <1>3 DEF Readable
<1>5. ledger[i].previous_hash = PreviousHash(ledger, i)
  BY <1>1, <1>3, <1>4 DEF Linked, PreviousHash
<1> QED
  BY <1>1, <1>5 DEF Linked

THEOREM OnlyForksBreak == Spec => []ForkIsTheOnlyBreak
<1>1. IInv => ForkIsTheOnlyBreak
  BY InPlaceVerifies DEF ForkIsTheOnlyBreak, VerifyChain
<1> QED
  BY Invariance, <1>1, PTL

(***************************************************************************)
(* No step removes or alters a line, but for an open last line that the    *)
(* next write runs into.                                                   *)
(***************************************************************************)
LEMMA StepAppends ==
  ASSUME IInv, Next
  PROVE  /\ Len(ledger) \in Nat /\ Len(ledger') \in Nat /\ Len(ledger') >= Len(ledger)
         /\ \A i \in 1 .. Len(ledger) :
              ledger'[i] = ledger[i] \/ (i = Len(ledger) /\ openLine /\ ledger'[i] = Torn)
<1>1. IsSequence(ledger) /\ Len(ledger) \in Nat
  BY SequenceLength DEF IInv, TypeOK
<1>2. CASE ledger' = ledger
  BY <1>1, <1>2
<1>3. ASSUME NEW e, ledger' = Append(ledger, e)
      PROVE  /\ Len(ledger') = Len(ledger) + 1
             /\ \A i \in 1 .. Len(ledger) : ledger'[i] = ledger[i]
  BY <1>1, <1>3, AppendLine
<1>4. CASE openLine /\ RunTogether
  <2>1. ledger # <<>> /\ ledger' = WithLast(ledger, Torn)
    BY <1>4 DEF RunTogether, IInv, TypeOK
  <2> QED
    BY <1>1, <1>4, <2>1, ReplaceLine
<1>5. \/ ledger' = ledger
      \/ \E e : ledger' = Append(ledger, e)
      \/ openLine /\ RunTogether
  BY DEF Next, ReadTail, Abandon, WriteEntry, TornWrite
<1> QED
  BY <1>1, <1>2, <1>3, <1>4, <1>5

THEOREM AppendOnlyHolds == Spec => AppendOnly
<1>1. IInv /\ [Next]_vars =>
        [/\ Len(ledger') >= Len(ledger)
         /\ \A i \in 1 .. Len(ledger) :
              ledger'[i] = ledger[i] \/ (i = Len(ledger) /\ openLine /\ ledger'[i] = Torn)]_vars
  BY StepAppends
<1> QED
  BY Invariance, <1>1, PTL DEF Spec, AppendOnly

(***************************************************************************)
(* A ledger that no longer verifies never verifies again.                  *)
(***************************************************************************)
THEOREM DamageStays == Spec => DamageIsPermanent
<1>1. IInv /\ [Next]_vars => [~ Sound => ~ Sound']_vars
  <2> SUFFICES ASSUME IInv, Next, Sound' PROVE Sound
    OBVIOUS
  <2>1. \A i \in 1 .. Len(ledger') : ledger'[i].intact
    BY DEF Sound, Readable
  <2>2. Len(ledger) \in Nat /\ Len(ledger') \in Nat /\ Len(ledger') >= Len(ledger)
    BY StepAppends
  <2>3. \A i \in 1 .. Len(ledger) : i \in 1 .. Len(ledger')
    BY <2>2
  <2>4. \A i \in 1 .. Len(ledger) : ledger'[i] = ledger[i]
    BY <2>1, <2>3, StepAppends, TornLine
  <2>5. Readable(ledger)
    BY <2>1, <2>3, <2>4 DEF Readable
  <2>6. ASSUME NEW i \in 1 .. Len(ledger)
        PROVE  ledger[i].index = i - 1
    BY <2>3, <2>4 DEF Sound, VerifyChain
  <2> QED
    BY <2>5, <2>6, InPlaceVerifies DEF Sound
<1> QED
  BY Invariance, <1>1, PTL DEF Spec, DamageIsPermanent

(***************************************************************************)
(* With one writer the chain is intact, whatever stops or tears its        *)
(* appends: what it read is never stale while the file parses.             *)
(***************************************************************************)
SoloInv ==
  Readable(ledger) =>
    /\ \A i \in 1 .. Len(ledger) : ledger[i].index = i - 1
    /\ \A w \in Writers : Appending(w) => tail[w].index = Len(ledger)

LEMMA SoloStep ==
  ASSUME NEW w0, Writers = {w0}, IInv, SoloInv, Next
  PROVE  SoloInv'
<1>1. PICK w \in Writers :
        ReadTail(w) \/ Abandon(w) \/ \E p \in Payloads : WriteEntry(w, p) \/ TornWrite(w, p)
  BY DEF Next
<1>2. w = w0
  OBVIOUS
<1>3. IsSequence(ledger) /\ Len(ledger) \in Nat /\ DOMAIN tail = Writers
  BY SequenceLength DEF IInv, TypeOK
<1>4. CASE ReadTail(w)
  <2>1. ledger' = ledger /\ Readable(ledger) /\ tail'[w].index = Len(ledger)
    BY <1>3, <1>4 DEF ReadTail
  <2> QED
    BY <1>2, <2>1 DEF SoloInv
<1>5. ASSUME EndAppend(w) PROVE ~ Appending(w)'
  BY <1>3, <1>5 DEF EndAppend, Appending
<1>6. CASE Abandon(w)
  BY <1>2, <1>5, <1>6 DEF Abandon, SoloInv
<1>7. ASSUME NEW p \in Payloads, WriteEntry(w, p) \/ TornWrite(w, p)
      PROVE  SoloInv'
  <2> SUFFICES ASSUME Readable(ledger')
               PROVE  \A i \in 1 .. Len(ledger') : ledger'[i].index = i - 1
    BY <1>2, <1>5, <1>7 DEF SoloInv, WriteEntry, TornWrite
  <2>1. CASE openLine /\ RunTogether
    <3>1. ledger # <<>> /\ ledger' = WithLast(ledger, Torn)
      BY <2>1 DEF RunTogether, IInv, TypeOK
    <3>2. Len(ledger) \in 1 .. Len(ledger') /\ ledger'[Len(ledger)] = Torn
      BY <1>3, <3>1, ReplaceLine
    <3> QED
      BY <3>2, TornLine DEF Readable
  <2>2. ASSUME NEW e, ledger' = Append(ledger, e), e \in {Torn, EntryOf(w, p)}, Appending(w)
        PROVE  \A i \in 1 .. Len(ledger') : ledger'[i].index = i - 1
    <3>1. /\ Len(ledger') = Len(ledger) + 1
          /\ \A i \in 1 .. Len(ledger) : ledger'[i] = ledger[i]
          /\ ledger'[Len(ledger) + 1] = e
      BY <1>3, <2>2, AppendLine
    <3>2. \A i \in 1 .. Len(ledger') : i \in 1 .. Len(ledger) \/ i = Len(ledger) + 1
      BY <1>3, <3>1
    <3>3. Readable(ledger) /\ e.intact
      BY <1>3, <3>1 DEF Readable
    <3>4. e = EntryOf(w, p) /\ tail[w].index = Len(ledger)
      BY <2>2, <3>3, TornLine DEF SoloInv
    <3>5. e.index = Len(ledger)
      BY <1>3, <3>4, EntryLine DEF EntryOf
    <3> QED
      BY <1>3, <3>1, <3>2, <3>3, <3>5 DEF SoloInv
  <2> QED
    BY <1>7, <2>1, <2>2 DEF WriteEntry, TornWrite
<1> QED
  BY <1>1, <1>4, <1>6, <1>7

THEOREM SoloChainIntact ==
  ASSUME NEW w0, Writers = {w0}
  PROVE  Spec => []ChainIntact
<1>1. Init => SoloInv
  BY EmptySeq DEF Init, SoloInv, Appending
<1>2. SoloInv /\ IInv /\ [Next]_vars => SoloInv'
  <2> SUFFICES ASSUME SoloInv, IInv, [Next]_vars PROVE SoloInv'
    OBVIOUS
  <2>1. CASE UNCHANGED vars
    BY <2>1 DEF vars, SoloInv, Appending
  <2> QED
    BY <2>1, SoloStep
<1>3. IInv /\ SoloInv => ChainIntact
  BY InPlaceVerifies DEF SoloInv, ChainIntact
<1> QED
  BY Invariance, <1>1, <1>2, <1>3, PTL DEF Spec
=============================================================================
