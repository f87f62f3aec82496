------------------------- MODULE MCAutonomousSession -------------------------
(***************************************************************************)
(* Calls that meet every way through a session, over a manifest with one   *)
(* capability for each answer: a trajectory that is always rejected and    *)
(* ranked first by what its bias can cover, or by more than that; a        *)
(* reading at t_high, so that what another session allowed is rejected;    *)
(* two candidates with one reference; signals out of range; commands that  *)
(* are empty or off the allowlist; each of the guards.                     *)
(***************************************************************************)
EXTENDS AutonomousSession

MCCapabilities ==
  [READ_FILE  |-> [effect |-> "none", requires_consent |-> FALSE, allowed_scopes |-> {"any"},
                   required_verifiers |-> {"scope_verifier"}, provenance_bindings |-> {"prompt_hash"}],
   WRITE_FILE |-> [effect |-> "reversible", requires_consent |-> FALSE, allowed_scopes |-> {"any"},
                   required_verifiers |-> {"scope_verifier"}, provenance_bindings |-> {"prompt_hash"}],
   SEND_EMAIL |-> [effect |-> "privileged", requires_consent |-> TRUE, allowed_scopes |-> {"any"},
                   required_verifiers |-> {"scope_verifier"}, provenance_bindings |-> {"prompt_hash"}]]

Candidate(ref, viability, valence, action, score) ==
  [ref |-> ref, viability |-> viability, valence |-> valence,
   proposal |-> [action |-> action, scope |-> "any", effect |-> MCCapabilities[action].effect,
                 command |-> "listed", llm_role |-> "rollout", score |-> score,
                 consent_token |-> {}, provenance |-> {"prompt_hash"}]]

Send  == Candidate("send", 1, 4, "SEND_EMAIL", TLow)
Write == Candidate("write", 3, 1, "WRITE_FILE", TLow + 1)
Loud  == Candidate("send", 4, 0, "SEND_EMAIL", THigh)
Worst == Candidate("worst", 2, 1, "READ_FILE", TLow)
Empty == [Write EXCEPT !.proposal.command = "empty"]
Unranked == [Send EXCEPT !.viability = 5]
Off   == [Write EXCEPT !.proposal.command = "unlisted"]

Guards(steps, commands, seconds, stop) ==
  [max_steps |-> steps, max_command_count |-> commands,
   max_wall_clock_seconds |-> seconds, stop_on_reject |-> stop]

Call(goal, policy) == [goal |-> goal, policy |-> policy]

MCCalls ==
  [bias     |-> Call(<< <<Send, Write>>, <<Off>> >>, Guards(5, {}, {}, TRUE)),
   loud     |-> Call(<< <<Worst, Loud>>, <<Write>> >>, Guards(5, {1}, {}, FALSE)),
   twins    |-> Call(<< <<Write, [Worst EXCEPT !.ref = "write"]>> >>, Guards(5, {}, {1}, TRUE)),
   over     |-> Call(<< <<Write>> >>, Guards(0, {}, {}, TRUE)),
   none     |-> Call(<< <<>> >>, Guards(5, {}, {}, TRUE)),
   unranked |-> Call(<< <<Unranked>> >>, Guards(5, {}, {}, TRUE)),
   empty    |-> Call(<< <<Empty>> >>, Guards(5, {}, {}, TRUE))]

MCProposals ==
  {candidate.proposal : candidate \in {Send, Loud, Write, Worst, Empty, Off}}
================================================================================
