---------------------------- MODULE VerifierRules ----------------------------
(***************************************************************************)
(* The release policy of the capability verifier (verifier/verifier.py) as *)
(* operators on one request.  An optional value of the code (a consent     *)
(* token, its expires_at) is a set with at most one element; a provenance  *)
(* dictionary is the set of its keys whose value counts as present.        *)
(***************************************************************************)
EXTENDS RCHysteresis

CONSTANTS Capabilities,   \* action class -> capability, as the manifest gives it
          HighThreshold   \* rc_high_threshold

EffectClasses == {"none", "reversible", "privileged", "destructive"}

ASSUME PolicyAssumption ==
  /\ HighThreshold \in Int
  /\ \A a \in DOMAIN Capabilities : Capabilities[a].effect \in EffectClasses

\* A token that never lapses (not the code's).
IsValidForEver(token, action, scope, now) ==
  token.action = action /\ token.scope = scope

\* ConsentToken.is_valid_for.  The nonce is not looked at.
IsValidFor(token, action, scope, now) ==
  /\ token.action = action
  /\ token.scope = scope
  /\ \A e \in token.expires_at : e > now

HasConsent(request, now) ==
  \E token \in request.consent_token :
    IsValidFor(token, request.action, request.scope, now)

MissingBindings(required, provenance) == required \ provenance

\* Strict modes that forget LOCKDOWN, and the score (not the code's).
StrictModeVerify(request) ==
  AtLeast(request.score, HighThreshold) \/ request.rc_state = "VERIFY"
StrictModePosture(request) == request.rc_state \in {"VERIFY", "LOCKDOWN"}

StrictMode(request) ==
  \/ AtLeast(request.score, HighThreshold)
  \/ request.rc_state \in {"VERIFY", "LOCKDOWN"}

\* Consent asked for in strict posture only (not the code's).
RequiresConsentWhenStrict(request) == StrictMode(request) /\ request.effect # "none"

RequiresConsent(request) ==
  \/ Capabilities[request.action].requires_consent
  \/ StrictMode(request) /\ request.effect # "none"

\* A check that gives a reason of its own (not the code's).
ReasonUnlisted(request, now) ==
  IF request.action \notin DOMAIN Capabilities THEN "unknown_action_class"
  ELSE IF request.scope \notin Capabilities[request.action].allowed_scopes THEN "scope_denied"
  ELSE "allowed"

\* The reason verify ends with: the first check that fails, in its order.
Reason(request, now) ==
  LET capability == Capabilities[request.action]
  IN  IF request.action \notin DOMAIN Capabilities THEN "unknown_action_class"
      ELSE IF capability.effect # request.effect THEN "effect_class_mismatch"
      ELSE IF request.scope \notin capability.allowed_scopes THEN "scope_not_allowed"
      ELSE IF ~ capability.required_verifiers \subseteq request.provided_verifiers
        THEN "required_verifier_missing"
      ELSE IF MissingBindings(capability.provenance_bindings, request.provenance) # {}
        THEN "provenance_binding_missing"
      ELSE IF request.rc_state = "LOCKDOWN" /\ request.effect \in {"privileged", "destructive"}
        THEN "lockdown_posture_block"
      ELSE IF RequiresConsent(request) /\ ~ HasConsent(request, now) THEN "consent_required"
      ELSE IF StrictMode(request) /\ request.effect = "destructive"
        THEN "destructive_blocked_in_strict_mode"
      ELSE "allowed"

\* The denials decided before the posture is looked at.
ShapeDenials == {"unknown_action_class", "effect_class_mismatch", "scope_not_allowed",
                 "required_verifier_missing", "provenance_binding_missing"}

PostureDenials == {"lockdown_posture_block", "consent_required",
                   "destructive_blocked_in_strict_mode"}

Decisions == [allowed : BOOLEAN, reason : ShapeDenials \cup PostureDenials \cup {"allowed"},
              requires_consent : BOOLEAN, strict_mode : BOOLEAN]

Decision(request, now) ==
  LET reason == Reason(request, now)
      postured == reason \notin ShapeDenials
  IN  [allowed          |-> reason = "allowed",
       reason           |-> reason,
       requires_consent |-> postured /\ RequiresConsent(request),
       strict_mode      |-> postured /\ StrictMode(request)]
==============================================================================
