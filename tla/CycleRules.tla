------------------------------ MODULE CycleRules ------------------------------
(***************************************************************************)
(* What one proposal asks of OpenClawRuntime.run_cycle, as operators: the   *)
(* calls it raises for, and the request the verifier is given.             *)
(***************************************************************************)
EXTENDS VerifierRules

ImplementedVerifierLabels ==
  {"scope_verifier", "consent_verifier", "destructive_action_verifier", "provenance_verifier"}

\* The keys of the provenance dictionary that have a value: three always do,
\* the rest as the proposal gives them.
ProvenanceKeys(prop) == {"source_class", "source_id", "timestamp"} \cup prop.provenance

\* The conditions under which run_cycle does not raise ValueError before the
\* verifier is asked.  A score stands for the override or for what the scorer
\* makes of the signals.
WellFormed(prop) ==
  /\ prop.command # "empty"
  /\ prop.llm_role \in {"interpretation", "rollout", "execution_suggestion", "policy_draft"}
  /\ Accepts(prop.score)

RequestOf(prop, state) ==
  [action |-> prop.action, scope |-> prop.scope, effect |-> prop.effect,
   rc_state |-> state, score |-> prop.score, consent_token |-> prop.consent_token,
   provenance |-> ProvenanceKeys(prop), provided_verifiers |-> ImplementedVerifierLabels]
================================================================================
