------------------------------- MODULE MCRuntime -------------------------------
(***************************************************************************)
(* The default manifest and the default thresholds on a grid of 0.05.      *)
(* PostureProposals tell the postures apart; SharedProposals are the       *)
(* fewest that take every branch of run_cycle, for processes that          *)
(* interleave with every fault.                                            *)
(***************************************************************************)
EXTENDS Runtime, TLC

ProcSymmetry == Permutations(Procs)

Keys == {"model_call_id", "prompt_hash", "input_provenance"}

Capability(effect, consent, scope, verifiers) ==
  [effect |-> effect, requires_consent |-> consent, allowed_scopes |-> {scope},
   required_verifiers |-> verifiers, provenance_bindings |-> Keys]

MCCapabilities ==
  [READ_FILE   |-> Capability("none", FALSE, "workspace:readonly", {"scope_verifier"}),
   WRITE_FILE  |-> Capability("reversible", FALSE, "workspace:project", {"scope_verifier"}),
   SEND_EMAIL  |-> Capability("privileged", TRUE, "mailbox:primary",
                              {"scope_verifier", "consent_verifier"}),
   DELETE_FILE |-> Capability("destructive", TRUE, "workspace:sandbox",
                              {"scope_verifier", "consent_verifier",
                               "destructive_action_verifier"})]

Scope(action) == CHOOSE s \in MCCapabilities[action].allowed_scopes : TRUE

Token(action, expires) ==
  [action |-> action, scope |-> Scope(action), nonce |-> 1, expires_at |-> expires]

Proposal(action, score, tokens) ==
  [action |-> action, scope |-> Scope(action), effect |-> MCCapabilities[action].effect,
   command |-> "listed", llm_role |-> "rollout", score |-> score,
   consent_token |-> tokens, provenance |-> Keys]

PostureProposals ==
  {Proposal("READ_FILE", NaN, {}), Proposal("READ_FILE", Scale + 1, {}),
   [Proposal("READ_FILE", TLow, {}) EXCEPT !.provenance = Keys \ {"prompt_hash"}],
   [Proposal("READ_FILE", TLow, {}) EXCEPT !.command = "unlisted"]}
    \cup {Proposal("WRITE_FILE", score, {}) : score \in {TLow, THigh - 1}}
    \cup {Proposal("WRITE_FILE", THigh - 1, {Token("WRITE_FILE", {2})})}
    \cup {Proposal("SEND_EMAIL", score, {Token("SEND_EMAIL", {})}) :
            score \in {TLow + 1, TLock - 1, TLock, NaN}}
    \cup {Proposal("DELETE_FILE", score, {Token("DELETE_FILE", {})}) :
            score \in {TLow, TLow + 1, THigh}}

SharedProposals ==
  {Proposal("READ_FILE", TLow, {}), Proposal("WRITE_FILE", THigh, {}),
   [Proposal("READ_FILE", TLow, {}) EXCEPT !.command = "unlisted"],
   [Proposal("READ_FILE", TLow, {}) EXCEPT !.command = "empty"],
   [Proposal("READ_FILE", TLow, {}) EXCEPT !.llm_role = "none of them"]}
================================================================================
