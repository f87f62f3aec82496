------------------------ MODULE VerifierRules_proofs ------------------------
(***************************************************************************)
(* Facts about the verifier's decision on one request, for every manifest  *)
(* and threshold.                                                          *)
(***************************************************************************)
EXTENDS VerifierRules, TLAPS

LEMMA DecisionType ==
  ASSUME NEW r, NEW t
  PROVE  Decision(r, t) \in Decisions
<1>1. Reason(r, t) \in ShapeDenials \cup PostureDenials \cup {"allowed"}
  BY Zenon DEF Reason, ShapeDenials, PostureDenials
<1> QED
  BY <1>1 DEF Decision, Decisions

LEMMA AllowedReason ==
  ASSUME NEW r, NEW t
  PROVE  Decision(r, t).allowed <=> Reason(r, t) = "allowed"
BY DEF Decision

(***************************************************************************)
(* What is true of a request whose checks all pass.                        *)
(***************************************************************************)
LEMMA ReasonAllowed ==
  ASSUME NEW r, NEW t
  PROVE  Reason(r, t) = "allowed" <=>
           /\ r.action \in DOMAIN Capabilities
           /\ r.effect = Capabilities[r.action].effect
           /\ r.scope \in Capabilities[r.action].allowed_scopes
           /\ Capabilities[r.action].required_verifiers \subseteq r.provided_verifiers
           /\ MissingBindings(Capabilities[r.action].provenance_bindings, r.provenance) = {}
           /\ ~ (r.rc_state = "LOCKDOWN" /\ r.effect \in {"privileged", "destructive"})
           /\ RequiresConsent(r) => HasConsent(r, t)
           /\ ~ (StrictMode(r) /\ r.effect = "destructive")
BY Zenon DEF Reason
==============================================================================
