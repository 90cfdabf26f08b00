------------------------------ MODULE Policies ------------------------------
(***************************************************************************)
(* PolicyEngine.check as an operator: the verdict on an irreversible       *)
(* action.  An input is a record of what the engine reads; the fields an   *)
(* action does not read may be missing from it.                            *)
(***************************************************************************)
PolicyModes == { "read_only", "dry_run_apply", "review_first",
                 "controlled_auto_apply", "full_auto_apply",
                 "conversation_only", "paused" }

PolicyVerdicts == { "allow", "requires_user_approval", "deny" }

\* The hard checks every action passes.
CommonChecks(in) ==
  /\ in.mode # "paused"
  /\ in.keyed /\ in.proofReady /\ in.valid
  /\ in.provider = "stable"
  /\ in.rate

\* The hard checks of each action.
ActionChecks(in) ==
  /\ in.action = "send_application" =>
       /\ in.consent /\ in.shortlisted /\ in.new
       /\ in.mode \notin {"read_only", "dry_run_apply"}
  /\ in.action = "send_recruiter_reply" =>
       in.consent /\ in.replyAllowed /\ in.confident /\ ~in.sensitive
  /\ in.action = "confirm_interview_slot" =>
       in.consent /\ in.slotConfirmed

\* A failed hard check denies; a disabled irreversible flag or review_first
\* asks the user; only then is the action allowed outright.
PolicyVerdict(in) ==
  IF ~(CommonChecks(in) /\ ActionChecks(in)) THEN "deny"
  ELSE IF ~in.irreversible \/ in.mode = "review_first"
       THEN "requires_user_approval"
       ELSE "allow"
=============================================================================
