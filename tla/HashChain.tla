------------------------------ MODULE HashChain ------------------------------
(***************************************************************************)
(* The lines of the ledger file and what verify_chain asks of them         *)
(* (ledger/append_only.py).  SHA-256 is a free constructor: a digest is    *)
(* the triple it was computed from, so two digests are equal exactly when  *)
(* their material is.  The timestamp is in an entry but not in its         *)
(* material, and no property looks at it.                                  *)
(***************************************************************************)
EXTENDS Integers, Sequences

GENESIS == <<>>

Digest(index, payload, previous_hash) == <<index, payload, previous_hash>>

\* A line that parses, and one that does not: part of an entry, or two
\* entries run together.
Entry(index, payload, previous_hash) ==
  [intact |-> TRUE, index |-> index, payload |-> payload, previous_hash |-> previous_hash,
   entry_hash |-> Digest(index, payload, previous_hash)]
Torn == [intact |-> FALSE]

\* read_all returns, instead of raising JSONDecodeError.
Readable(lines) == \A i \in 1 .. Len(lines) : lines[i].intact

\* A sequence, of whatever lines.
IsSequence(s) == s \in Seq({s[i] : i \in 1 .. Len(s)})

\* The lines with another one in the place of the last.
WithLast(s, line) == [s EXCEPT ![Len(s)] = line]

\* What append takes from the entries it read.
TailHash(lines) == IF lines = <<>> THEN GENESIS ELSE lines[Len(lines)].entry_hash

PreviousHash(lines, i) == IF i = 1 THEN GENESIS ELSE lines[i - 1].entry_hash

\* verify_chain, on lines that parse.
VerifyChain(lines) ==
  \A i \in 1 .. Len(lines) :
    /\ lines[i].index = i - 1
    /\ lines[i].previous_hash = PreviousHash(lines, i)
    /\ lines[i].entry_hash = Digest(i - 1, lines[i].payload, PreviousHash(lines, i))
==============================================================================
