------------------------ MODULE MCOfflineConsolidator ------------------------
(***************************************************************************)
(* Entries that fall in every column of the summary, of two actions.       *)
(***************************************************************************)
EXTENDS OfflineConsolidator, TLC

Commit(action, code) ==
  [event |-> "commit_executed", action_class |-> action, returncode |-> code]
Rejection(action) == [event |-> "proposal_rejected", action_class |-> action]

MCPayloads == {Commit("WRITE_FILE", 0), Commit("WRITE_FILE", 1), Rejection("SEND_EMAIL")}

MCTriggers == {"scheduler", "user_ins"}

Interchangeable == Permutations(Writers) \cup Permutations(Consolidators)
==============================================================================
