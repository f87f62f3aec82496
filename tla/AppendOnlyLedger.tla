--------------------------- MODULE AppendOnlyLedger ---------------------------
(***************************************************************************)
(* The ledger file under AppendOnlyLedger.append, called by any number of  *)
(* processes: the CLI gives every run, session and scheduler the same      *)
(* state directory, and nothing locks it.  An append is two steps, the     *)
(* read of the whole file and the write of one line at its end (O_APPEND,  *)
(* one write, flushed and fsynced), and a process may stop between or      *)
(* inside them.                                                            *)
(***************************************************************************)
EXTENDS HashChain

CONSTANTS Writers, Payloads,
          MaxLines   \* bound of the exploration

VARIABLES ledger,    \* the non-blank lines of the file
          openLine,  \* the last line has no newline yet
          tail       \* what each writer's append read, or NoTail

vars == <<ledger, openLine, tail>>

ASSUME MaxLinesAssumption == MaxLines \in Nat

NoTail == [index |-> -1, previous_hash |-> GENESIS]

Appending(w) == tail[w] # NoTail

LineOK(line) ==
  \/ line = Torn
  \/ /\ line.index \in Nat
     /\ line.payload \in Payloads
     /\ line = Entry(line.index, line.payload, line.previous_hash)

TypeOK ==
  /\ IsSequence(ledger)
  /\ \A i \in 1 .. Len(ledger) : LineOK(ledger[i])
  /\ openLine \in BOOLEAN
  /\ openLine => ledger # <<>>
  /\ DOMAIN tail = Writers
  /\ \A w \in Writers : Appending(w) => tail[w].index \in 0 .. Len(ledger)

Init == ledger = <<>> /\ openLine = FALSE /\ tail = [w \in Writers |-> NoTail]

\* Slips of the read: an index past the next one, or short of it; the hash of
\* the first entry.
ReadTailHigh(w) ==
  /\ ~ Appending(w)
  /\ Readable(ledger)
  /\ tail' = [tail EXCEPT ![w] = [index |-> Len(ledger) + 1, previous_hash |-> TailHash(ledger)]]
  /\ UNCHANGED <<ledger, openLine>>
ReadTailLow(w) ==
  /\ ~ Appending(w)
  /\ Readable(ledger)
  /\ tail' = [tail EXCEPT ![w] = [index |-> IF ledger = <<>> THEN 0 ELSE Len(ledger) - 1,
                                  previous_hash |-> TailHash(ledger)]]
  /\ UNCHANGED <<ledger, openLine>>
ReadTailFirst(w) ==
  /\ ~ Appending(w)
  /\ Readable(ledger)
  /\ tail' = [tail EXCEPT ![w] = [index |-> Len(ledger), previous_hash |->
                                  IF ledger = <<>> THEN GENESIS ELSE ledger[1].entry_hash]]
  /\ UNCHANGED <<ledger, openLine>>

\* append, up to its index and previous_hash.
ReadTail(w) ==
  /\ ~ Appending(w)
  /\ Readable(ledger)
  /\ tail' = [tail EXCEPT ![w] = [index |-> Len(ledger), previous_hash |-> TailHash(ledger)]]
  /\ UNCHANGED <<ledger, openLine>>

EntryOf(w, payload) == Entry(tail[w].index, payload, tail[w].previous_hash)

EndAppend(w) == tail' = [tail EXCEPT ![w] = NoTail]

RunTogether == ledger' = WithLast(ledger, Torn)

\* A write that opened the file "w" instead of "a" (not the code's), and one
\* that repairs an open line by overwriting it.
WriteEntryTruncating(w, payload) ==
  /\ Appending(w)
  /\ ledger' = <<EntryOf(w, payload)>>
  /\ openLine' = FALSE
  /\ EndAppend(w)
WriteEntryRepairing(w, payload) ==
  /\ Appending(w)
  /\ ledger' = IF openLine THEN WithLast(ledger, EntryOf(w, payload))
                           ELSE Append(ledger, EntryOf(w, payload))
  /\ openLine' = FALSE
  /\ EndAppend(w)

\* The rest of append.  After an open line the new entry ends up on it.
WriteEntry(w, payload) ==
  /\ Appending(w)
  /\ \/ ~ openLine /\ ledger' = Append(ledger, EntryOf(w, payload))
     \/ openLine /\ RunTogether
  /\ openLine' = FALSE
  /\ EndAppend(w)

\* The write stops short (no space, a kill): part of the entry, or all of it
\* but the newline, is in the file.
TornWrite(w, payload) ==
  /\ Appending(w)
  /\ \/ ~ openLine /\ \E line \in {Torn, EntryOf(w, payload)} : ledger' = Append(ledger, line)
     \/ openLine /\ RunTogether
  /\ openLine' = TRUE
  /\ EndAppend(w)

\* The process stops between the read and the write.
Abandon(w) ==
  /\ Appending(w)
  /\ EndAppend(w)
  /\ UNCHANGED <<ledger, openLine>>

Next ==
  \E w \in Writers :
    \/ ReadTail(w)
    \/ Abandon(w)
    \/ Len(ledger) < MaxLines /\ \E p \in Payloads : WriteEntry(w, p) \/ TornWrite(w, p)

Spec == Init /\ [][Next]_vars

-----------------------------------------------------------------------------
(* Properties *)

\* Every line that parses hangs from the lines before it, whatever the
\* interleaving: its index is at most its position, its hash is that of its
\* own contents, and its previous_hash is that of the line its index points
\* to (unless that line has been torn since).
Linked(lines, i) ==
  LET e == lines[i]
  IN  /\ e.index \in 0 .. i - 1
      /\ e.entry_hash = Digest(e.index, e.payload, e.previous_hash)
      /\ e.index = 0 => e.previous_hash = GENESIS
      /\ e.index > 0 /\ lines[e.index].intact => e.previous_hash = lines[e.index].entry_hash
Links == \A i \in 1 .. Len(ledger) : ledger[i].intact => Linked(ledger, i)

\* "Append-only": no step removes or alters a line, but for a last line still
\* without its newline, which the next write makes unreadable.
AppendOnly ==
  [][/\ Len(ledger') >= Len(ledger)
     /\ \A i \in 1 .. Len(ledger) :
          ledger'[i] = ledger[i] \/ (i = Len(ledger) /\ openLine /\ ledger'[i] = Torn)]_vars

\* The only way a readable ledger fails verification is a line written from a
\* stale read: an index other than its position.
ForkIsTheOnlyBreak ==
  Readable(ledger) =>
    (VerifyChain(ledger) <=> \A i \in 1 .. Len(ledger) : ledger[i].index = i - 1)

\* Nothing append does ever repairs a ledger that no longer verifies.
Sound == Readable(ledger) /\ VerifyChain(ledger)
DamageIsPermanent == [][~ Sound => ~ Sound']_vars

\* "Ledger remains hash-chained and append-only"
\* (docs/contracts/proposal_commit_execution_cycle.md:39): what can be read
\* verifies.  True of one writer, whatever crashes and torn writes it goes
\* through; false of two.
ChainIntact == Readable(ledger) => VerifyChain(ledger)
==============================================================================
