--------------------------- MODULE MCExperimentPacks ---------------------------
(***************************************************************************)
(* Two probes, the second with a seed of the first, over a grid of 0.01    *)
(* and the default manifest.  Their runs answer as the rules do, or as a   *)
(* runtime would that refuses what it should allow.  A pack of another     *)
(* experiment may lie in the directory from the start.                     *)
(***************************************************************************)
EXTENDS ExperimentPacks

Keys == {"model_call_id", "prompt_hash", "input_provenance"}

Capability(effect, consent, scope, verifiers) ==
  [effect |-> effect, requires_consent |-> consent, allowed_scopes |-> {scope},
   required_verifiers |-> verifiers, provenance_bindings |-> Keys]

MCCapabilities ==
  [WRITE_FILE  |-> Capability("reversible", FALSE, "workspace:project", {"scope_verifier"}),
   SEND_EMAIL  |-> Capability("privileged", TRUE, "mailbox:primary",
                              {"scope_verifier", "consent_verifier"}),
   DELETE_FILE |-> Capability("destructive", TRUE, "workspace:sandbox",
                              {"scope_verifier", "consent_verifier",
                               "destructive_action_verifier"})]

MCDraws == [low : {-3, 3}, mid : {-4, 1, 2, 4}, high : {-2, 2}]

Honest == RunSeed([low |-> 0, mid |-> 0, high |-> 0])

Refused(row) == [Honest.rows[row] EXCEPT !.rc_state = "NORMAL", !.allowed = FALSE,
                   !.reason = "unknown_action_class", !.commit_id = FALSE,
                   !.ledger_event = "proposal_rejected"]

NothingExecuted == [Honest EXCEPT !.rows[1] = Refused(1), !.rows[2] = Refused(2)]

\* Nothing executed, as under a manifest that has SEND_EMAIL alone; or just a
\* destructive action refused, so that the lockdown meets no allowed cycle.
MCBreakages == {NothingExecuted, [Honest EXCEPT !.rows[2] = Refused(2)]}

MCProbes == {1, 2}
MCSeedLists == <<<<11, 29>>, <<11>>>>

MCForeign ==
  [id \in {[experiment_type |-> "other", seed |-> NoSeed, timestamp |-> 0]} |->
     [written |-> Steps,
      says |-> [PackOf(Honest, FALSE) EXCEPT !.evidence_direction = "neutral"]]]

ASSUME DefaultsSuitProbe == ProbedPolicy
================================================================================
