---------------------------- MODULE CommitBoundary ----------------------------
(***************************************************************************)
(* What docs/contracts/proposal_commit_execution_cycle.md promises of a    *)
(* proposal cycle, with no postures, processes or files: each cycle gets a *)
(* verdict once, only an allowed one is released, and only what was        *)
(* released or denied is recorded, once and for good.                      *)
(***************************************************************************)
EXTENDS Integers, Sequences

VARIABLES verdict,   \* of each cycle: "allowed" or "denied"
          stage      \* of each cycle: "decided", "released" or "recorded"

vars == <<verdict, stage>>

Init == verdict = <<>> /\ stage = <<>>

Decide ==
  /\ \E v \in {"allowed", "denied"} : verdict' = Append(verdict, v)
  /\ stage' = Append(stage, "decided")

Release(c) ==
  /\ verdict[c] = "allowed" /\ stage[c] = "decided"
  /\ stage' = [stage EXCEPT ![c] = "released"]
  /\ UNCHANGED verdict

Record(c) ==
  /\ stage[c] = IF verdict[c] = "allowed" THEN "released" ELSE "decided"
  /\ stage' = [stage EXCEPT ![c] = "recorded"]
  /\ UNCHANGED verdict

Next == Decide \/ \E c \in DOMAIN stage : Release(c) \/ Record(c)

Spec == Init /\ [][Next]_vars
==============================================================================
