---------------------------- MODULE PostureLatch ----------------------------
(***************************************************************************)
(* What the RC lane promises, with no mention of its three states: a       *)
(* Schmitt trigger `elevated' with a band between Low and High, and a      *)
(* comparator `locked' at Lock.  Nothing forces a lane to be told of every *)
(* reading, so a step may also leave both alone.                           *)
(***************************************************************************)
EXTENDS Integers

CONSTANTS Readings, Low, High, Lock

VARIABLES reading,   \* the last number read
          elevated,  \* strict posture
          locked     \* hard posture

vars == <<reading, elevated, locked>>

Init == reading = 0 /\ elevated = FALSE /\ locked = FALSE

Read(r) ==
  /\ reading' = r
  /\ elevated' = IF elevated THEN r > Low ELSE r >= High
  /\ locked' = (r >= Lock)

Next == \E r \in Readings : Read(r)

Spec == Init /\ [][Next]_vars
=============================================================================
