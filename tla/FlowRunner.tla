----------------------------- MODULE FlowRunner -----------------------------
\* The browser flow runner of packages/automation: a provider's form is walked
\* state by state, and the walk ends before the action that cannot be undone.
\* One run at a time, over pages captured before it starts.  Its names are
\* prefixed, so that a model can hold this machine beside others.
EXTENDS Naturals, Sequences

CONSTANTS
  FlowTurns,     \* states a run visits at most
  FlowStops,     \* the sets of actions a caller may ask to stop before
  OtherFlows     \* flows a caller passes besides the two shipped ones

ASSUME FlowAssumption == FlowTurns \in Nat
ASSUME OtherFlowsAssumption ==
  \A f \in OtherFlows : \A s \in DOMAIN f.states :
    LET actions == f.states[s].actions
    IN  Len(actions) \in Nat /\ DOMAIN actions = 1..Len(actions)

NoKey == "no selector key"
NoFlowValue == "none"

Act(id, key) == [id |-> id, key |-> key]
FormState(fingerprint, guards, actions, next, terminal) ==
  [fingerprint |-> fingerprint, guards |-> guards, actions |-> actions,
   next |-> next, terminal |-> terminal]
Goes(action, to) == [a \in {action} |-> to]
Nowhere == [a \in {} |-> NoFlowValue]

\* The way on from submit_boundary.
AfterBoundaryLooping == Goes("dry_run_complete", "submit_boundary")
AfterBoundary == Goes("dry_run_complete", "dry_run_complete")

\* The states of the shipped flows, which differ in the key of the letter.
Form(letterKey) ==
  [search_results |-> FormState("results", {"vacancy_is_active"},
     <<Act("open_job", "job_card")>>, Goes("open_job", "job_details"), FALSE),
   job_details |-> FormState("job",
     {"not_already_applied", "vacancy_is_active", "apply_button_exists"},
     <<Act("click_apply", "apply_button")>>, Goes("click_apply", "application_form"), FALSE),
   application_form |-> FormState("form",
     {"resume_available", "cover_letter_valid", "no_captcha"},
     <<Act("select_resume", NoKey), Act("fill_cover_letter", letterKey),
       Act("submit_application", "apply_button")>>,
     Goes("submit_application", "submit_boundary"), FALSE),
   unsupported_form_variant |-> FormState("form", {"supported_form_variant"},
     <<>>, Nowhere, TRUE),
   submit_boundary |-> FormState("form", {},
     <<Act("dry_run_complete", NoKey)>>, AfterBoundary, FALSE),
   dry_run_complete |-> FormState("form", {}, <<>>, Nowhere, TRUE)]

hhDryRunFlow == [entry |-> "search_results",
  states |-> [s \in DOMAIN Form(NoKey) \ {"unsupported_form_variant"} |->
                Form("cover_letter_textarea")[s]]]
robotaDryRunFlow == [entry |-> "search_results", states |-> Form(NoKey)]
Shipped == {hhDryRunFlow, robotaDryRunFlow}
Flows == Shipped \cup OtherFlows

FlowGuards == {"vacancy_is_active", "not_already_applied", "apply_button_exists",
           "resume_available", "cover_letter_valid", "no_captcha",
           "supported_form_variant"}
SelectorKeys == {"job_card", "apply_button", "cover_letter_textarea"}
RequiredKey(key) == key # "cover_letter_textarea"

\* What a page shows, if not what its fingerprint requires; a page that was not
\* captured is a mismatch as well.
BadPages == {"captcha_required", "page_fingerprint_mismatch"}

GuardFailureCodeShort(g) ==
  IF g = "vacancy_is_active" THEN "job_closed" ELSE "form_schema_changed"
GuardFailureCode(g) ==
  LET codes == [not_already_applied |-> "job_already_applied",
                vacancy_is_active |-> "job_closed",
                apply_button_exists |-> "selector_missing",
                resume_available |-> "resume_not_available",
                cover_letter_valid |-> "cover_letter_policy_failed",
                no_captcha |-> "captcha_required"]
  IN  IF g \in DOMAIN codes THEN codes[g] ELSE "form_schema_changed"

ErrorCodes == {"page_fingerprint_mismatch", "captcha_required", "form_schema_changed",
               "selector_missing", "selector_ambiguous", "job_already_applied",
               "job_closed", "resume_not_available", "cover_letter_policy_failed"}

VARIABLES
  flowInput,    \* what the caller passed: flow, pages, guards, selectors, stops
  flowAt,       \* the state the run is in
  flowTurn,     \* states visited so far
  flowAct,      \* the next action of the state; 0 before its page is checked
  flowTrail,    \* the steps of the result: states left, and how
  flowPassed,   \* history: actions the run went past
  flowResult,   \* status, boundary and error of the result
  flowSafeMode, \* markProviderNeedsReview was called
  flowProof     \* NoFlowValue, or the final status of the recorded proof pack

flowVars == <<flowInput, flowAt, flowTurn, flowAct, flowTrail, flowPassed,
              flowResult, flowSafeMode, flowProof>>

FlowStatuses == {"succeeded", "failed", "manual_review_required"}
FlowResults == [status : FlowStatuses \cup {"running"}, boundary : BOOLEAN, err : ErrorCodes \cup {NoFlowValue}]

FlowTypeOK ==
  /\ flowInput.flow \in Flows
  /\ flowAct # 0 => flowAt \in DOMAIN flowInput.flow.states
  /\ flowTurn \in 0..FlowTurns
  /\ flowAct \in Nat
  /\ Len(flowTrail) <= FlowTurns
  /\ flowResult \in FlowResults
  /\ flowSafeMode \in BOOLEAN
  /\ flowProof \in FlowStatuses \cup {NoFlowValue}

FlowStates == DOMAIN Form(NoKey)

\* Pages, guards and selectors are as they should be, except for at most one of
\* each; hence each of them is met alone and together with one of another kind.
\* A selector has no, one or many candidates on the pages.
FlowInputs ==
  [flow : Flows, stop : FlowStops, failedGuards : {{}} \cup {{g} : g \in FlowGuards},
   badPage : {<<"matched", NoFlowValue>>} \cup (BadPages \X FlowStates),
   badKey : {<<"one", NoFlowValue>>} \cup ({"no", "many"} \X SelectorKeys)]

Page(s) == IF s = flowInput.badPage[2] THEN flowInput.badPage[1] ELSE "matched"
Found(key) == IF key = flowInput.badKey[2] THEN flowInput.badKey[1] ELSE "one"

\* The state the run is in.
Here == flowInput.flow.states[flowAt]

\* FingerprintEngine.matches, and the error of a page that was not captured.
PageError(s) == IF Page(s) = "matched" THEN NoFlowValue ELSE Page(s)

\* SelectorRegistry.resolve: an optional selector may be absent, and none may be
\* ambiguous.
SelectorError(key) ==
  CASE key = NoKey -> NoFlowValue
    [] Found(key) = "many" -> "selector_ambiguous"
    [] Found(key) = "no" /\ RequiredKey(key) -> "selector_missing"
    [] OTHER -> NoFlowValue

FlowInit ==
  /\ flowInput \in FlowInputs
  /\ flowAt = flowInput.flow.entry
  /\ flowTurn = 0 /\ flowAct = 0
  /\ flowTrail = <<>> /\ flowPassed = <<>>
  /\ flowResult = [status |-> "running", boundary |-> FALSE, err |-> NoFlowValue]
  /\ flowSafeMode = FALSE /\ flowProof = NoFlowValue

Running == flowResult.status = "running"
Ended(status, boundary, err) ==
  flowResult' = [status |-> status, boundary |-> boundary, err |-> err]
\* A run that fails returns the captcha to a person.
FailedWith(err) ==
  Ended(IF err = "captcha_required" THEN "manual_review_required" ELSE "failed", FALSE, err)
Step(ok) == flowTrail' = Append(flowTrail, [state |-> flowAt, ok |-> ok])

TurnsLeftOneMore == flowTurn <= FlowTurns
TurnsLeft == flowTurn < FlowTurns

\* The loop's bound: the run gives up and names no error.
GiveUp ==
  /\ Running /\ flowAct = 0 /\ ~TurnsLeft
  /\ FailedWith(NoFlowValue)
  /\ UNCHANGED <<flowInput, flowAt, flowTurn, flowAct, flowTrail, flowPassed,
                 flowSafeMode, flowProof>>

\* A transition led to a state the flow does not define.
StateMissing ==
  /\ Running /\ flowAct = 0 /\ TurnsLeft
  /\ flowAt \notin DOMAIN flowInput.flow.states
  /\ flowTurn' = flowTurn + 1
  /\ FailedWith("form_schema_changed")
  /\ UNCHANGED <<flowInput, flowAt, flowAct, flowTrail, flowPassed, flowSafeMode, flowProof>>

\* A guard whose result is absent counts as failed; here all are given.
FailedGuardsIfAll(state) ==
  IF state.guards \subseteq flowInput.failedGuards THEN state.guards ELSE {}
FailedGuards(state) == state.guards \cap flowInput.failedGuards

\* The page of the state is compared and its guards are asked.
EnterState ==
  /\ Running /\ flowAct = 0 /\ TurnsLeft
  /\ flowAt \in DOMAIN flowInput.flow.states
  /\ flowTurn' = flowTurn + 1
  /\ LET failed == FailedGuards(Here)
         err == IF PageError(flowAt) # NoFlowValue THEN PageError(flowAt)
                ELSE IF failed # {} THEN GuardFailureCode(CHOOSE g \in failed : TRUE)
                ELSE NoFlowValue
     IN IF err = NoFlowValue
        THEN /\ flowAct' = 1
             /\ UNCHANGED <<flowTrail, flowResult>>
        ELSE /\ FailedWith(err) /\ Step(FALSE)
             /\ UNCHANGED flowAct
  /\ UNCHANGED <<flowInput, flowAt, flowPassed, flowSafeMode, flowProof>>

AtAction == Running /\ flowAct > 0 /\ flowAct <= Len(Here.actions)
NextAction == Here.actions[flowAct]
\* stopBeforeActions.includes(action.actionId)
StopsAtFirst(action) == action.id \in flowInput.stop /\ flowAct = 1
Stops(action) == action.id \in flowInput.stop

SelectorFails ==
  /\ AtAction
  /\ SelectorError(NextAction.key) # NoFlowValue
  /\ Ended("failed", FALSE, SelectorError(NextAction.key)) /\ Step(FALSE)
  /\ UNCHANGED <<flowInput, flowAt, flowTurn, flowAct, flowPassed, flowSafeMode, flowProof>>

\* The selector of the action is found, and the action is not performed.
StopBefore ==
  /\ AtAction
  /\ Stops(NextAction)
  /\ SelectorError(NextAction.key) = NoFlowValue
  /\ Ended("succeeded", TRUE, NoFlowValue) /\ Step(TRUE)
  /\ UNCHANGED <<flowInput, flowAt, flowTurn, flowAct, flowPassed, flowSafeMode, flowProof>>

PassAction ==
  /\ AtAction
  /\ ~Stops(NextAction)
  /\ SelectorError(NextAction.key) = NoFlowValue
  /\ flowAct' = flowAct + 1
  /\ flowPassed' = Append(flowPassed, NextAction.id)
  /\ UNCHANGED <<flowInput, flowAt, flowTurn, flowTrail, flowResult, flowSafeMode, flowProof>>

\* state.transitions[state.actions.at(-1)?.actionId ?? ""]
Successor(state) ==
  LET n == Len(state.actions)
  IN IF n > 0 /\ state.actions[n].id \in DOMAIN state.next
     THEN state.next[state.actions[n].id] ELSE NoFlowValue

LeaveState ==
  /\ Running /\ flowAct > 0 /\ flowAct > Len(Here.actions)
  /\ Step(TRUE)
  /\ CASE Here.terminal -> Ended("succeeded", FALSE, NoFlowValue) /\ UNCHANGED <<flowAt, flowAct>>
       [] ~Here.terminal /\ Successor(Here) = NoFlowValue ->
            FailedWith("form_schema_changed") /\ UNCHANGED <<flowAt, flowAct>>
       [] OTHER -> /\ flowAt' = Successor(Here) /\ flowAct' = 0
                   /\ UNCHANGED flowResult
  /\ UNCHANGED <<flowInput, flowTurn, flowPassed, flowSafeMode, flowProof>>

\* runApplyWorker puts the provider in safe mode after a captcha and records
\* the proof pack.
RecordRun ==
  /\ ~Running /\ flowProof = NoFlowValue
  /\ flowSafeMode' = (flowResult.err = "captcha_required")
  /\ flowProof' = flowResult.status
  /\ UNCHANGED <<flowInput, flowAt, flowTurn, flowAct, flowTrail, flowPassed, flowResult>>

FlowNext ==
  \/ GiveUp \/ StateMissing \/ EnterState \/ SelectorFails \/ StopBefore \/ PassAction
  \/ LeaveState \/ RecordRun

FlowSpec == FlowInit /\ [][FlowNext]_flowVars

-----------------------------------------------------------------------------
\* Properties.

StateOf(s) == flowInput.flow.states[s]
LastStep == flowTrail[Len(flowTrail)]

\* A run that says it reached the submit boundary has come there on its own
\* feet: from the entry along transitions, over pages that match and guards
\* that hold, with every selector found up to and including that of the action
\* it stopped before, and past no action it was told to stop at.
BoundaryEarned ==
  flowResult.boundary =>
    /\ flowTrail[1].state = flowInput.flow.entry
    /\ \A i \in DOMAIN flowTrail :
         /\ flowTrail[i].ok
         /\ Page(flowTrail[i].state) = "matched"
         /\ StateOf(flowTrail[i].state).guards \cap flowInput.failedGuards = {}
    /\ \A i \in 1..Len(flowTrail) - 1 :
         /\ flowTrail[i + 1].state = Successor(StateOf(flowTrail[i].state))
         /\ \A k \in DOMAIN StateOf(flowTrail[i].state).actions :
              LET a == StateOf(flowTrail[i].state).actions[k]
              IN SelectorError(a.key) = NoFlowValue /\ a.id \notin flowInput.stop
    /\ \E k \in DOMAIN StateOf(LastStep.state).actions :
         /\ StateOf(LastStep.state).actions[k].id \in flowInput.stop
         /\ \A j \in 1..k : SelectorError(StateOf(LastStep.state).actions[j].key) = NoFlowValue

\* A caller that stops before submit_application gets a run that never goes past
\* it, and a success of a shipped flow always means that the boundary was
\* reached: no other way through hhDryRunFlow or robotaDryRunFlow ends well.
SubmitStopsRun ==
  "submit_application" \in flowInput.stop =>
    /\ \A i \in DOMAIN flowPassed : flowPassed[i] # "submit_application"
    /\ flowInput.flow \in Shipped /\ flowResult.status = "succeeded"
         => flowResult.boundary

\* A run of a shipped flow that does not succeed names its error: it never runs
\* into the bound of 25 states, whose result has none.
ErrorNamed ==
  flowInput.flow \in Shipped /\ flowResult.status \in {"failed", "manual_review_required"}
    => flowResult.err # NoFlowValue

\* Once recorded, the provider is in safe mode exactly when the run met a
\* captcha, by the page it shows or by the guard, wherever it met it.
CaptchaSafeMode ==
  flowProof # NoFlowValue =>
    (flowSafeMode <=>
       /\ flowTrail # <<>> /\ ~LastStep.ok
       /\ \/ Page(LastStep.state) = "captcha_required"
          \/ /\ Page(LastStep.state) = "matched"
             /\ "no_captcha" \in StateOf(LastStep.state).guards \cap flowInput.failedGuards)
=============================================================================
