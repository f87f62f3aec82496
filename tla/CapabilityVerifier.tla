-------------------------- MODULE CapabilityVerifier --------------------------
(***************************************************************************)
(* A CapabilityVerifier object under successive calls, with time passing   *)
(* between them.  It keeps no state but its audit log; `calls' is that log *)
(* with the consent token the code leaves out of a record.                 *)
(***************************************************************************)
EXTENDS VerifierRules, Sequences

CONSTANTS Requests,   \* what callers ask for
          MaxCalls, MaxTime   \* bounds of the exploration

VARIABLES now, calls

vars == <<now, calls>>

ASSUME BoundsAssumption == MaxCalls \in Nat /\ MaxTime \in Nat
\* A request has a consent token or none.
ASSUME RequestsAssumption ==
  \A r \in Requests :
    /\ r.rc_state \in RCStates /\ r.score \in Float
    /\ \A token \in r.consent_token : token.expires_at \subseteq Int
    /\ \A token, other \in r.consent_token : token = other

Call(request, time) ==
  [request |-> request, time |-> time, decision |-> Decision(request, time)]

TypeOK ==
  /\ now \in 0 .. MaxTime
  /\ calls \in Seq([request : Requests, time : 0 .. now, decision : Decisions])
  /\ Len(calls) <= MaxCalls

Init == now = 0 /\ calls = <<>>

Verify(request) ==
  /\ Len(calls) < MaxCalls
  /\ calls' = Append(calls, Call(request, now))
  /\ UNCHANGED now

Tick == now < MaxTime /\ now' = now + 1 /\ UNCHANGED calls

Next == Tick \/ \E r \in Requests : Verify(r)

Spec == Init /\ [][Next]_vars

-----------------------------------------------------------------------------
(* Properties *)

PostureRank == [NORMAL |-> 0, VERIFY |-> 1, LOCKDOWN |-> 2]

\* The two requests ask for the same thing with the same credentials.
SameProposal(r1, r2) ==
  /\ r1.action = r2.action /\ r1.scope = r2.scope /\ r1.effect = r2.effect
  /\ r1.consent_token = r2.consent_token
  /\ r1.provenance = r2.provenance
  /\ r1.provided_verifiers = r2.provided_verifiers

\* r2 is asked in a posture and with a score at least as strict as r1's.
NoLaxer(r1, r2) ==
  /\ PostureRank[r1.rc_state] <= PostureRank[r2.rc_state]
  /\ r1.score # NaN => AtLeast(r2.score, r1.score)

\* Raising the conflict score, tightening the posture or letting time pass
\* never turns a denial into a release: what is allowed later, under no laxer
\* conditions, was allowed before (the order of verify's checks, and the
\* verifier's own threshold beside the lane's state).
PostureMonotone ==
  \A i, j \in 1 .. Len(calls) :
    (/\ i < j
     /\ SameProposal(calls[i].request, calls[j].request)
     /\ NoLaxer(calls[i].request, calls[j].request)
     /\ calls[j].decision.allowed) => calls[i].decision.allowed

\* A consent token that was needed binds what it released: two calls it let
\* through are for the same action class and scope, and neither came after it
\* expired, whatever was asked in between (is_valid_for and its place in
\* verify).
ConsentBinds ==
  \A i, j \in 1 .. Len(calls) :
    (/\ calls[i].decision.allowed /\ calls[i].decision.requires_consent
     /\ calls[j].decision.allowed /\ calls[j].decision.requires_consent
     /\ calls[i].request.consent_token = calls[j].request.consent_token)
      => /\ calls[i].request.action = calls[j].request.action
         /\ calls[i].request.scope = calls[j].request.scope
         /\ \A token \in calls[j].request.consent_token :
              \A e \in token.expires_at : e > calls[j].time

\* The release policy written as what must be true of a release, not as an
\* order of checks: verify allows exactly these requests.
Releasable(r, time) ==
  /\ r.action \in DOMAIN Capabilities
  /\ LET capability == Capabilities[r.action]
     IN  /\ r.effect = capability.effect
         /\ r.scope \in capability.allowed_scopes
         /\ capability.required_verifiers \subseteq r.provided_verifiers
         /\ capability.provenance_bindings \subseteq r.provenance
         /\ (r.effect # "none" /\ StrictMode(r)) \/ capability.requires_consent
              => HasConsent(r, time)
  /\ r.effect = "privileged" => r.rc_state # "LOCKDOWN"
  /\ r.effect = "destructive" => r.rc_state = "NORMAL" /\ ~ AtLeast(r.score, HighThreshold)
AllowsExactlyReleasable ==
  \A i \in 1 .. Len(calls) :
    calls[i].decision.allowed <=> Releasable(calls[i].request, calls[i].time)
==============================================================================
