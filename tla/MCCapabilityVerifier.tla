------------------------ MODULE MCCapabilityVerifier ------------------------
(***************************************************************************)
(* The capabilities of config/capabilities/default_manifest.json, asked    *)
(* for in every posture, with scores on either side of the threshold, and  *)
(* with the credentials that tell the checks apart.                        *)
(***************************************************************************)
EXTENDS CapabilityVerifier

Keys == {"model_call_id", "prompt_hash", "input_provenance"}

Capability(effect, consent, scope, verifiers) ==
  [effect |-> effect, requires_consent |-> consent, allowed_scopes |-> {scope},
   required_verifiers |-> verifiers, provenance_bindings |-> Keys]

MCCapabilities ==
  [READ_FILE   |-> Capability("none", FALSE, "readonly", {"scope"}),
   WRITE_FILE  |-> Capability("reversible", FALSE, "project", {"scope"}),
   SEND_EMAIL  |-> Capability("privileged", TRUE, "mailbox", {"scope", "consent"}),
   DELETE_FILE |-> Capability("destructive", TRUE, "sandbox",
                              {"scope", "consent", "destructive"})]

Verifiers == {"scope", "consent", "destructive", "provenance"}

Token(action, scope, expires) == [action |-> action, scope |-> scope, expires_at |-> expires]
Scope(action) == CHOOSE s \in MCCapabilities[action].allowed_scopes : TRUE

Tokens(action) == {{}, {Token(action, Scope(action), {})}, {Token(action, Scope(action), {1})},
                   {Token("WRITE_FILE", "readonly", {})}}

\* Well-formed requests, in every posture.
Proper ==
  UNION {{[action |-> a, scope |-> Scope(a), effect |-> MCCapabilities[a].effect,
           rc_state |-> st, score |-> sc, consent_token |-> tok,
           provenance |-> Keys, provided_verifiers |-> Verifiers] :
             st \in RCStates, sc \in {0, HighThreshold, NaN}, tok \in Tokens(a)} :
         a \in DOMAIN MCCapabilities}

\* Requests with one thing wrong.
Plain == {r \in Proper : r.rc_state = "NORMAL" /\ r.score = 0}
Defective ==
  UNION {{[r EXCEPT !.action = "UNKNOWN"], [r EXCEPT !.effect = "reversible"],
          [r EXCEPT !.scope = "elsewhere"], [r EXCEPT !.provided_verifiers = {"scope"}],
          [r EXCEPT !.provenance = Keys \ {"prompt_hash"}]} : r \in Plain}

MCRequests == Proper \cup Defective
=============================================================================
