-------------------------- MODULE FlowRunnerProofs --------------------------
(***************************************************************************)
(* Proofs about FlowRunner, for any flows and any sets of actions to stop  *)
(* before.  While a run goes on, its trail is a walk from the entry along  *)
(* transitions over good states, and the actions already past in the       *)
(* current state were found and were not to be stopped at.                 *)
(***************************************************************************)
EXTENDS FlowRunner, TLAPS

Numbered(actions) == Len(actions) \in Nat /\ DOMAIN actions = 1..Len(actions)

LEMMA FormActions ==
  ASSUME NEW letterKey, NEW s \in DOMAIN Form(letterKey)
  PROVE  Numbered(Form(letterKey)[s].actions)
<1> DEFINE F == Form(letterKey)
<1>1. s \in {"search_results", "job_details", "application_form",
             "unsupported_form_variant", "submit_boundary", "dry_run_complete"}
  BY DEF Form
<1>2. /\ \A x : Numbered(<<x>>)
      /\ \A x, y, z : Numbered(<<x, y, z>>)
      /\ Numbered(<<>>)
  BY DEF Numbered
<1>3. CASE s = "search_results"
  <2>1. F[s].actions = <<Act("open_job", "job_card")>> BY <1>3 DEF Form, FormState
  <2> QED BY <1>2, <2>1
<1>4. CASE s = "job_details"
  <2>1. F[s].actions = <<Act("click_apply", "apply_button")>> BY <1>4 DEF Form, FormState
  <2> QED BY <1>2, <2>1
<1>5. CASE s = "application_form"
  <2>1. F[s].actions =
          <<Act("select_resume", NoKey), Act("fill_cover_letter", letterKey),
            Act("submit_application", "apply_button")>>
    BY <1>5 DEF Form, FormState
  <2> QED BY <1>2, <2>1
<1>6. CASE s \in {"unsupported_form_variant", "dry_run_complete"}
  <2>1. F[s].actions = <<>> BY <1>6 DEF Form, FormState
  <2> QED BY <1>2, <2>1
<1>7. CASE s = "submit_boundary"
  <2>1. F[s].actions = <<Act("dry_run_complete", NoKey)>> BY <1>7 DEF Form, FormState
  <2> QED BY <1>2, <2>1
<1> QED BY <1>1, <1>3, <1>4, <1>5, <1>6, <1>7

LEMMA FlowActions ==
  \A f \in Flows : \A s \in DOMAIN f.states : Numbered(f.states[s].actions)
<1> SUFFICES ASSUME NEW f \in Flows, NEW s \in DOMAIN f.states
             PROVE  Numbered(f.states[s].actions)
  OBVIOUS
<1>1. CASE f = hhDryRunFlow
  <2> DEFINE names == DOMAIN Form(NoKey) \ {"unsupported_form_variant"}
  <2>1. f.states = [n \in names |-> Form("cover_letter_textarea")[n]]
    BY <1>1 DEF hhDryRunFlow
  <2>2. s \in names BY <2>1
  <2>3. f.states[s] = Form("cover_letter_textarea")[s] BY <2>1, <2>2
  <2>4. s \in DOMAIN Form("cover_letter_textarea") BY <2>2 DEF Form
  <2> QED BY <2>3, <2>4, FormActions
<1>2. CASE f = robotaDryRunFlow
  <2>1. f.states = Form(NoKey) BY <1>2 DEF robotaDryRunFlow
  <2>2. s \in DOMAIN Form(NoKey) BY <2>1
  <2> QED BY <2>1, <2>2, FormActions
<1>3. CASE f \in OtherFlows BY <1>3, OtherFlowsAssumption DEF Numbered
<1> QED BY <1>1, <1>2, <1>3 DEF Flows, Shipped

-----------------------------------------------------------------------------
(* The invariant. *)

Places == DOMAIN flowInput.flow.states

\* The page of a state matches and its guards hold.
Entered(s) ==
  Page(s) = "matched" /\ StateOf(s).guards \cap flowInput.failedGuards = {}

\* The first n actions of a state were found and passed.
PassedUpTo(s, n) ==
  \A j \in 1..n :
    j \in DOMAIN StateOf(s).actions =>
      /\ SelectorError(StateOf(s).actions[j].key) = NoFlowValue
      /\ StateOf(s).actions[j].id \notin flowInput.stop

\* What a run leaves behind while it goes on.
Walk ==
  /\ \A i \in DOMAIN flowTrail :
       /\ flowTrail[i].ok /\ Entered(flowTrail[i].state)
       /\ PassedUpTo(flowTrail[i].state, Len(StateOf(flowTrail[i].state).actions))
  /\ \A i \in 1..Len(flowTrail) - 1 :
       flowTrail[i + 1].state = Successor(StateOf(flowTrail[i].state))
  /\ IF Len(flowTrail) = 0 THEN flowAt = flowInput.flow.entry
     ELSE /\ flowTrail[1].state = flowInput.flow.entry
          /\ flowAt = Successor(StateOf(flowTrail[Len(flowTrail)].state))
  /\ flowAct > 0 => Entered(flowAt) /\ PassedUpTo(flowAt, flowAct - 1)

FlowShape ==
  /\ flowInput \in FlowInputs
  /\ flowTurn \in 0..FlowTurns
  /\ flowAct \in Nat
  /\ flowAct > 0 => flowAt \in Places
  /\ flowTrail \in Seq([state : Places, ok : BOOLEAN])
  /\ Len(flowTrail) <= flowTurn
  /\ Running /\ flowAct > 0 => Len(flowTrail) < flowTurn

FlowInv ==
  /\ FlowShape
  /\ Running => Walk /\ ~flowResult.boundary
  /\ BoundaryEarned

LEMMA FlowInvInit == FlowInit => FlowInv
<1> SUFFICES ASSUME FlowInit PROVE FlowInv
  OBVIOUS
<1>1. flowInput \in FlowInputs BY DEF FlowInit
<1>2. FlowShape BY <1>1, FlowAssumption DEF FlowInit, FlowShape
<1>3. Walk BY DEF FlowInit, Walk
<1>4. ~flowResult.boundary BY DEF FlowInit
<1> QED BY <1>2, <1>3, <1>4 DEF FlowInv, BoundaryEarned

-----------------------------------------------------------------------------
(* Steps. *)

\* Nothing a page shows or a flow says changes during a run.
LEMMA InputKept ==
  ASSUME flowInput' = flowInput
  PROVE  /\ Places' = Places
         /\ \A s : /\ (StateOf(s))' = StateOf(s) /\ (Page(s))' = Page(s)
                   /\ (Entered(s))' = Entered(s)
         /\ \A key : (SelectorError(key))' = SelectorError(key)
         /\ \A s, n : (PassedUpTo(s, n))' = PassedUpTo(s, n)
<1>1. \A s : (StateOf(s))' = StateOf(s) /\ (Page(s))' = Page(s)
  BY DEF StateOf, Page
<1>2. \A key : (SelectorError(key))' = SelectorError(key)
  BY DEF SelectorError, Found
<1>3. \A s : (Entered(s))' = Entered(s) BY <1>1 DEF Entered
<1>4. \A s, n : (PassedUpTo(s, n))' = PassedUpTo(s, n)
  BY <1>1, <1>2 DEF PassedUpTo
<1> QED BY <1>1, <1>2, <1>3, <1>4 DEF Places

LEMMA ElementOf ==
  ASSUME NEW S, NEW seq \in Seq(S), NEW i \in 1..Len(seq)
  PROVE  seq[i] \in S
  OBVIOUS

\* What a step of the result adds to the trail.
LEMMA TrailStep ==
  ASSUME FlowShape, NEW ok \in BOOLEAN, flowAt \in Places, Step(ok)
  PROVE  /\ flowTrail' \in Seq([state : Places, ok : BOOLEAN])
         /\ Len(flowTrail') = Len(flowTrail) + 1
         /\ \A i \in 1..Len(flowTrail) : flowTrail'[i] = flowTrail[i]
         /\ flowTrail'[Len(flowTrail) + 1] = [state |-> flowAt, ok |-> ok]
         /\ Len(flowTrail) \in Nat /\ DOMAIN flowTrail = 1..Len(flowTrail)
         /\ DOMAIN flowTrail' = 1..(Len(flowTrail) + 1)
<1> DEFINE e == [state |-> flowAt, ok |-> ok]
<1>1. e \in [state : Places, ok : BOOLEAN] OBVIOUS
<1>2. flowTrail \in Seq([state : Places, ok : BOOLEAN]) /\ flowTrail' = Append(flowTrail, e)
  BY DEF FlowShape, Step
<1> HIDE DEF e
<1>3. flowTrail' \in Seq([state : Places, ok : BOOLEAN])
  BY <1>1, <1>2
<1> QED BY <1>1, <1>2, <1>3 DEF e

LEMMA GuardCodes == \A g : GuardFailureCode(g) # NoFlowValue
  BY DEF GuardFailureCode, NoFlowValue

LEMMA PageCodes ==
  ASSUME NEW s, flowInput \in FlowInputs, PageError(s) = NoFlowValue
  PROVE  Page(s) = "matched"
<1>1. flowInput.badPage \in {<<"matched", NoFlowValue>>} \cup (BadPages \X FlowStates)
  BY DEF FlowInputs
<1>2. flowInput.badPage[1] \in {"matched"} \cup BadPages BY <1>1
<1>3. Page(s) \in {"matched"} \cup BadPages BY <1>2 DEF Page
<1> QED BY <1>3 DEF PageError, BadPages, NoFlowValue

\* A run that ends without the boundary has nothing to earn.
LEMMA EndsWithout ==
  ASSUME FlowShape', ~flowResult'.boundary, flowResult'.status # "running"
  PROVE  FlowInv'
  BY DEF FlowInv, Running, BoundaryEarned

LEMMA BoundaryKept ==
  ASSUME UNCHANGED <<flowInput, flowTrail, flowResult>>, BoundaryEarned
  PROVE  BoundaryEarned'
<1> SUFFICES ASSUME flowResult.boundary PROVE BoundaryEarned'
  BY DEF BoundaryEarned
<1> USE InputKept
<1>0. /\ flowInput' = flowInput /\ flowTrail' = flowTrail
      /\ \A i \in DOMAIN flowTrail :
           /\ flowTrail[i].ok
           /\ Page(flowTrail[i].state) = "matched"
           /\ StateOf(flowTrail[i].state).guards \cap flowInput.failedGuards = {}
      /\ \A i \in 1..Len(flowTrail) - 1 :
           /\ flowTrail[i + 1].state = Successor(StateOf(flowTrail[i].state))
           /\ \A k \in DOMAIN StateOf(flowTrail[i].state).actions :
                /\ SelectorError(StateOf(flowTrail[i].state).actions[k].key) = NoFlowValue
                /\ StateOf(flowTrail[i].state).actions[k].id \notin flowInput.stop
  BY Zenon DEF BoundaryEarned
<1>1. (flowTrail[1].state = flowInput.flow.entry)' BY DEF BoundaryEarned
<1>2. (\A i \in DOMAIN flowTrail :
         /\ flowTrail[i].ok
         /\ Page(flowTrail[i].state) = "matched"
         /\ StateOf(flowTrail[i].state).guards \cap flowInput.failedGuards = {})'
  BY <1>0
<1>3. (\A i \in 1..Len(flowTrail) - 1 :
         /\ flowTrail[i + 1].state = Successor(StateOf(flowTrail[i].state))
         /\ \A k \in DOMAIN StateOf(flowTrail[i].state).actions :
              LET a == StateOf(flowTrail[i].state).actions[k]
              IN SelectorError(a.key) = NoFlowValue /\ a.id \notin flowInput.stop)'
  <2>1. \A i \in 1..Len(flowTrail') - 1 :
          /\ flowTrail'[i + 1].state = Successor(StateOf(flowTrail'[i].state))
          /\ \A k \in DOMAIN StateOf(flowTrail'[i].state).actions :
               /\ SelectorError(StateOf(flowTrail'[i].state).actions[k].key) = NoFlowValue
               /\ StateOf(flowTrail'[i].state).actions[k].id \notin flowInput.stop
    BY <1>0, Zenon
  <2> QED BY <1>0, <2>1
<1>4. LastStep' = LastStep BY DEF LastStep
<1>5. (\E k \in DOMAIN StateOf(LastStep.state).actions :
         /\ StateOf(LastStep.state).actions[k].id \in flowInput.stop
         /\ \A j \in 1..k :
              SelectorError(StateOf(LastStep.state).actions[j].key) = NoFlowValue)'
  BY <1>4 DEF BoundaryEarned
<1> QED BY <1>1, <1>2, <1>3, <1>5 DEF BoundaryEarned

LEMMA WalkKept ==
  ASSUME UNCHANGED <<flowInput, flowAt, flowTrail>>, Walk,
         flowAct' > 0 => Entered(flowAt) /\ PassedUpTo(flowAt, flowAct' - 1)
  PROVE  Walk'
<1> USE InputKept
<1>1. (\A i \in DOMAIN flowTrail :
         /\ flowTrail[i].ok /\ Entered(flowTrail[i].state)
         /\ PassedUpTo(flowTrail[i].state, Len(StateOf(flowTrail[i].state).actions)))'
  BY DEF Walk
<1>2. (\A i \in 1..Len(flowTrail) - 1 :
         flowTrail[i + 1].state = Successor(StateOf(flowTrail[i].state)))'
  BY DEF Walk
<1>3. (IF Len(flowTrail) = 0 THEN flowAt = flowInput.flow.entry
       ELSE /\ flowTrail[1].state = flowInput.flow.entry
            /\ flowAt = Successor(StateOf(flowTrail[Len(flowTrail)].state)))'
  BY DEF Walk
<1>4. (flowAct > 0 => Entered(flowAt) /\ PassedUpTo(flowAt, flowAct - 1))'
  OBVIOUS
<1> QED BY <1>1, <1>2, <1>3, <1>4 DEF Walk

LEMMA EndedResult ==
  ASSUME NEW status, NEW boundary, NEW err, Ended(status, boundary, err)
  PROVE  flowResult'.status = status /\ flowResult'.boundary = boundary
  BY DEF Ended

LEMMA FailedResult ==
  ASSUME NEW err, FailedWith(err)
  PROVE  ~flowResult'.boundary /\ flowResult'.status # "running"
<1>1. PICK status \in {"failed", "manual_review_required"} : Ended(status, FALSE, err)
  BY DEF FailedWith
<1> QED BY <1>1, EndedResult

LEMMA EnterStep == ASSUME FlowInv, EnterState PROVE FlowInv'
<1> USE FlowAssumption
<1>0. FlowShape /\ Running /\ flowAct = 0 /\ flowAt \in Places /\ flowTurn < FlowTurns
  BY DEF FlowInv, EnterState, Places, TurnsLeft
<1>1. flowInput' = flowInput /\ flowTurn' = flowTurn + 1 /\ flowAt' = flowAt
  BY DEF EnterState
<1>2. CASE flowAct' = 1 /\ UNCHANGED <<flowTrail, flowResult>>
              /\ Page(flowAt) = "matched" /\ FailedGuards(Here) = {}
  <2>1. FlowShape'
    BY <1>0, <1>1, <1>2 DEF FlowShape, Places, Running
  <2>2. Entered(flowAt) BY <1>2 DEF Entered, FailedGuards, Here, StateOf
  <2>3. PassedUpTo(flowAt, flowAct' - 1)
    <3>1. flowAct' - 1 = 0 BY <1>2
    <3> QED BY <3>1 DEF PassedUpTo
  <2>4. Walk BY <1>0 DEF FlowInv
  <2>5. Walk' BY <1>1, <1>2, <2>2, <2>3, <2>4, WalkKept
  <2>6. ~flowResult'.boundary BY <1>0, <1>2 DEF FlowInv
  <2> QED BY <2>1, <2>5, <2>6 DEF FlowInv, BoundaryEarned
<1>3. CASE \E err : FailedWith(err) /\ Step(FALSE) /\ UNCHANGED flowAct
  <2>1. ~flowResult'.boundary /\ flowResult'.status # "running"
    BY <1>3, FailedResult
  <2>2. Step(FALSE) /\ flowAct' = flowAct BY <1>3
  <2>3. /\ flowTrail' \in Seq([state : Places, ok : BOOLEAN])
        /\ Len(flowTrail') = Len(flowTrail) + 1
        /\ Len(flowTrail) \in Nat
    BY <1>0, <2>2, TrailStep
  <2>4. FlowShape'
    BY <1>0, <1>1, <2>1, <2>2, <2>3 DEF FlowShape, Places, Running
  <2> QED BY <2>1, <2>4, EndsWithout
<1> DEFINE failed == FailedGuards(Here)
           err == IF PageError(flowAt) # NoFlowValue THEN PageError(flowAt)
                  ELSE IF failed # {} THEN GuardFailureCode(CHOOSE g \in failed : TRUE)
                  ELSE NoFlowValue
<1>4. IF err = NoFlowValue
      THEN flowAct' = 1 /\ UNCHANGED <<flowTrail, flowResult>>
      ELSE FailedWith(err) /\ Step(FALSE) /\ UNCHANGED flowAct
  BY DEF EnterState
<1>5. flowInput \in FlowInputs BY <1>0 DEF FlowShape
<1>6. err = NoFlowValue => PageError(flowAt) = NoFlowValue /\ failed = {}
  BY GuardCodes
<1>7. err = NoFlowValue => Page(flowAt) = "matched"
  BY <1>5, <1>6, PageCodes
<1> HIDE DEF err
<1>8. CASE err = NoFlowValue BY <1>2, <1>4, <1>6, <1>7, <1>8
<1>9. CASE err # NoFlowValue BY <1>3, <1>4, <1>9
<1> QED BY <1>8, <1>9

LEMMA PassStep == ASSUME FlowInv, PassAction PROVE FlowInv'
<1>0. /\ FlowShape /\ Running /\ Walk /\ flowAct \in Nat /\ flowAct > 0
      /\ flowAct <= Len(Here.actions) /\ ~flowResult.boundary
  BY DEF FlowInv, FlowShape, PassAction, AtAction
<1>1. /\ SelectorError(NextAction.key) = NoFlowValue
      /\ NextAction.id \notin flowInput.stop
      /\ flowAct' = flowAct + 1
      /\ UNCHANGED <<flowInput, flowAt, flowTurn, flowTrail, flowResult>>
  BY DEF PassAction, Stops
<1>2. NextAction = StateOf(flowAt).actions[flowAct] BY DEF NextAction, Here, StateOf
<1>3. FlowShape' BY <1>0, <1>1 DEF FlowShape, Places, Running
<1>4. Entered(flowAt) /\ PassedUpTo(flowAt, flowAct - 1) BY <1>0 DEF Walk
<1>5. \A j \in 1..flowAct : j = flowAct \/ j \in 1..(flowAct - 1) BY <1>0
<1>6. PassedUpTo(flowAt, flowAct) BY <1>1, <1>2, <1>4, <1>5 DEF PassedUpTo
<1>7. (flowAct + 1) - 1 = flowAct BY <1>0
<1>8. Walk' BY <1>0, <1>1, <1>4, <1>6, <1>7, InputKept DEF Walk
<1> QED BY <1>0, <1>1, <1>3, <1>8 DEF FlowInv, BoundaryEarned

\* A state left by its last action joins the walk.
LEMMA LeaveStep == ASSUME FlowInv, LeaveState PROVE FlowInv'
<1>0. /\ FlowShape /\ Running /\ Walk /\ flowAct \in Nat /\ flowAct > 0
      /\ flowAct > Len(Here.actions) /\ ~flowResult.boundary /\ flowAt \in Places
  BY DEF FlowInv, FlowShape, LeaveState
<1>1. Step(TRUE) /\ UNCHANGED <<flowInput, flowTurn>> BY DEF LeaveState
<1>2. /\ flowTrail' \in Seq([state : Places, ok : BOOLEAN])
      /\ Len(flowTrail') = Len(flowTrail) + 1
      /\ \A i \in 1..Len(flowTrail) : flowTrail'[i] = flowTrail[i]
      /\ flowTrail'[Len(flowTrail) + 1] = [state |-> flowAt, ok |-> TRUE]
      /\ Len(flowTrail) \in Nat /\ DOMAIN flowTrail = 1..Len(flowTrail)
      /\ DOMAIN flowTrail' = 1..(Len(flowTrail) + 1)
  BY <1>0, <1>1, TrailStep
<1>3. CASE UNCHANGED <<flowAt, flowAct>> /\ \E err : FailedWith(err) \/ Ended("succeeded", FALSE, err)
  <2>1. ~flowResult'.boundary /\ flowResult'.status # "running"
    BY <1>3, FailedResult, EndedResult
  <2>2. FlowShape' BY <1>0, <1>1, <1>2, <1>3, <2>1 DEF FlowShape, Places, Running
  <2> QED BY <2>1, <2>2, EndsWithout
<1>4. CASE flowAt' = Successor(Here) /\ flowAct' = 0 /\ flowResult' = flowResult
  <2>1. FlowShape' BY <1>0, <1>1, <1>2, <1>4 DEF FlowShape, Places, Running
  <2> DEFINE n == Len(flowTrail)
             actions == StateOf(flowAt).actions
  <2>2. flowInput.flow \in Flows BY <1>0 DEF FlowShape, FlowInputs
  <2>3. Len(actions) \in Nat /\ flowAct > Len(actions)
    BY <1>0, <2>2, FlowActions DEF Numbered, StateOf, Here, Places
  <2>4. PassedUpTo(flowAt, flowAct - 1) /\ Entered(flowAt) BY <1>0 DEF Walk
  <2>5. PassedUpTo(flowAt, Len(actions))
    <3>1. \A j \in 1..Len(actions) : j \in 1..(flowAct - 1) BY <1>0, <2>3
    <3> QED BY <2>4, <3>1 DEF PassedUpTo
  <2>6. flowAt' = Successor(StateOf(flowAt)) BY <1>4 DEF Here, StateOf
  <2>7. \A i \in DOMAIN flowTrail' :
          /\ flowTrail'[i].ok /\ Entered(flowTrail'[i].state)
          /\ PassedUpTo(flowTrail'[i].state, Len(StateOf(flowTrail'[i].state).actions))
    <3> SUFFICES ASSUME NEW i \in 1..(n + 1)
                 PROVE  /\ flowTrail'[i].ok /\ Entered(flowTrail'[i].state)
                        /\ PassedUpTo(flowTrail'[i].state,
                                      Len(StateOf(flowTrail'[i].state).actions))
      BY <1>2
    <3>1. CASE i = n + 1 BY <1>2, <2>4, <2>5, <3>1
    <3>2. CASE i # n + 1
      <4>1. i \in 1..n BY <1>2, <3>2
      <4>2. flowTrail'[i] = flowTrail[i] /\ i \in DOMAIN flowTrail BY <1>2, <4>1
      <4> QED BY <1>0, <4>2 DEF Walk
    <3> QED BY <3>1, <3>2
  <2>8. \A i \in 1..n :
          flowTrail'[i + 1].state = Successor(StateOf(flowTrail'[i].state))
    <3> SUFFICES ASSUME NEW i \in 1..n
                 PROVE  flowTrail'[i + 1].state = Successor(StateOf(flowTrail[i].state))
      BY <1>2
    <3>1. CASE i = n
      <4>1. n # 0 BY <3>1, <1>2
      <4>2. flowAt = Successor(StateOf(flowTrail[n].state)) BY <1>0, <4>1 DEF Walk
      <4> QED BY <1>2, <3>1, <4>2
    <3>2. CASE i # n
      <4>0. n \in Nat BY <1>2
      <4>1. i \in 1..(n - 1) /\ i + 1 \in 1..n BY <4>0, <3>2
      <4>2. flowTrail'[i + 1] = flowTrail[i + 1] BY <1>2, <4>1
      <4> QED BY <1>0, <4>1, <4>2 DEF Walk
    <3> QED BY <3>1, <3>2
  <2>9. flowTrail'[1].state = flowInput.flow.entry
    <3>1. CASE n = 0
      <4>1. flowAt = flowInput.flow.entry BY <1>0, <3>1 DEF Walk
      <4>2. n + 1 = 1 BY <3>1
      <4> QED BY <1>2, <4>1, <4>2
    <3>2. CASE n # 0
      <4>1. 1 \in 1..n BY <1>2, <3>2
      <4>2. flowTrail[1].state = flowInput.flow.entry BY <1>0, <3>2 DEF Walk
      <4> QED BY <1>2, <4>1, <4>2
    <3> QED BY <3>1, <3>2
  <2>10. /\ Len(flowTrail') = n + 1 /\ n + 1 # 0 /\ (n + 1) - 1 = n
         /\ flowTrail'[n + 1].state = flowAt
    BY <1>2
  <2>11. Walk'
    <3>1. (\A i \in DOMAIN flowTrail :
             /\ flowTrail[i].ok /\ Entered(flowTrail[i].state)
             /\ PassedUpTo(flowTrail[i].state, Len(StateOf(flowTrail[i].state).actions)))'
      BY <1>1, <2>7, InputKept
    <3>2. (\A i \in 1..Len(flowTrail) - 1 :
             flowTrail[i + 1].state = Successor(StateOf(flowTrail[i].state)))'
      BY <1>1, <2>8, <2>10, InputKept
    <3>3. (/\ Len(flowTrail) # 0 /\ flowTrail[1].state = flowInput.flow.entry
           /\ flowAt = Successor(StateOf(flowTrail[Len(flowTrail)].state)))'
      BY <1>1, <2>6, <2>9, <2>10, InputKept
    <3>4. ~(flowAct' > 0) BY <1>4
    <3> QED BY <3>1, <3>2, <3>3, <3>4 DEF Walk
  <2> QED BY <1>0, <1>4, <2>1, <2>11 DEF FlowInv, BoundaryEarned
<1> QED BY <1>3, <1>4 DEF LeaveState

\* Before the action the caller named, the walk is what the boundary claims.
LEMMA StopStep == ASSUME FlowInv, StopBefore PROVE FlowInv'
<1>0. /\ FlowShape /\ Running /\ Walk /\ flowAct \in Nat /\ flowAct > 0
      /\ flowAct <= Len(Here.actions) /\ flowAt \in Places
  BY DEF FlowInv, FlowShape, StopBefore, AtAction
<1>1. /\ Step(TRUE) /\ UNCHANGED <<flowInput, flowAt, flowTurn, flowAct>>
      /\ NextAction.id \in flowInput.stop
      /\ SelectorError(NextAction.key) = NoFlowValue
      /\ Ended("succeeded", TRUE, NoFlowValue)
  BY DEF StopBefore, Stops
<1>2. flowResult'.status = "succeeded" BY <1>1, EndedResult
<1>3. /\ flowTrail' \in Seq([state : Places, ok : BOOLEAN])
      /\ Len(flowTrail') = Len(flowTrail) + 1
      /\ \A i \in 1..Len(flowTrail) : flowTrail'[i] = flowTrail[i]
      /\ flowTrail'[Len(flowTrail) + 1] = [state |-> flowAt, ok |-> TRUE]
      /\ Len(flowTrail) \in Nat /\ DOMAIN flowTrail = 1..Len(flowTrail)
      /\ DOMAIN flowTrail' = 1..(Len(flowTrail) + 1)
  BY <1>0, <1>1, TrailStep
<1>4. FlowShape' BY <1>0, <1>1, <1>2, <1>3 DEF FlowShape, Places, Running
<1> DEFINE n == Len(flowTrail)
           actions == StateOf(flowAt).actions
<1>5. actions[flowAct] = NextAction /\ flowAct <= Len(actions)
  BY <1>0 DEF NextAction, Here, StateOf
<1>6. flowInput.flow \in Flows BY <1>0 DEF FlowShape, FlowInputs
<1>7. flowAct \in DOMAIN actions /\ DOMAIN actions = 1..Len(actions) /\ Len(actions) \in Nat
  BY <1>0, <1>5, <1>6, FlowActions DEF Numbered, StateOf, Places
<1>8. Entered(flowAt) /\ PassedUpTo(flowAt, flowAct - 1) BY <1>0 DEF Walk
<1>9. \A j \in 1..flowAct : SelectorError(actions[j].key) = NoFlowValue
  <2> SUFFICES ASSUME NEW j \in 1..flowAct PROVE SelectorError(actions[j].key) = NoFlowValue
    OBVIOUS
  <2>1. CASE j = flowAct BY <1>1, <1>5, <2>1
  <2>2. CASE j # flowAct
    <3>1. j \in 1..(flowAct - 1) /\ j \in DOMAIN actions BY <1>0, <1>5, <1>7, <2>2
    <3> QED BY <1>8, <3>1 DEF PassedUpTo
  <2> QED BY <2>1, <2>2
<1>10. \A i \in DOMAIN flowTrail' : flowTrail'[i].ok /\ Entered(flowTrail'[i].state)
  <2> SUFFICES ASSUME NEW i \in 1..(n + 1)
               PROVE  flowTrail'[i].ok /\ Entered(flowTrail'[i].state)
    BY <1>3
  <2>1. CASE i = n + 1 BY <1>3, <1>8, <2>1
  <2>2. CASE i # n + 1
    <3>1. i \in 1..n BY <1>3, <2>2
    <3>2. flowTrail'[i] = flowTrail[i] /\ i \in DOMAIN flowTrail BY <1>3, <3>1
    <3> QED BY <1>0, <3>2 DEF Walk
  <2> QED BY <2>1, <2>2
<1>11. \A i \in 1..n :
         /\ flowTrail'[i + 1].state = Successor(StateOf(flowTrail'[i].state))
         /\ \A k \in DOMAIN StateOf(flowTrail'[i].state).actions :
              /\ SelectorError(StateOf(flowTrail'[i].state).actions[k].key) = NoFlowValue
              /\ StateOf(flowTrail'[i].state).actions[k].id \notin flowInput.stop
  <2> SUFFICES ASSUME NEW i \in 1..n
               PROVE  /\ flowTrail'[i + 1].state = Successor(StateOf(flowTrail[i].state))
                      /\ \A k \in DOMAIN StateOf(flowTrail[i].state).actions :
                           /\ SelectorError(StateOf(flowTrail[i].state).actions[k].key) = NoFlowValue
                           /\ StateOf(flowTrail[i].state).actions[k].id \notin flowInput.stop
    BY <1>3
  <2>1. flowTrail'[i + 1].state = Successor(StateOf(flowTrail[i].state))
    <3>1. CASE i = n
      <4>1. n # 0 BY <1>3, <3>1
      <4>2. flowAt = Successor(StateOf(flowTrail[n].state)) BY <1>0, <4>1 DEF Walk
      <4> QED BY <1>3, <3>1, <4>2
    <3>2. CASE i # n
      <4>0. n \in Nat BY <1>3
      <4>1. i \in 1..(n - 1) /\ i + 1 \in 1..n BY <4>0, <3>2
      <4>2. flowTrail'[i + 1] = flowTrail[i + 1] BY <1>3, <4>1
      <4> QED BY <1>0, <4>1, <4>2 DEF Walk
    <3> QED BY <3>1, <3>2
  <2>2. i \in DOMAIN flowTrail BY <1>3
  <2>3. PassedUpTo(flowTrail[i].state, Len(StateOf(flowTrail[i].state).actions))
    BY <1>0, <2>2 DEF Walk
  <2>4. flowTrail[i].state \in Places
    <3>1. flowTrail \in Seq([state : Places, ok : BOOLEAN]) BY <1>0 DEF FlowShape
    <3>2. i \in 1..Len(flowTrail) OBVIOUS
    <3>3. flowTrail[i] \in [state : Places, ok : BOOLEAN] BY <3>1, <3>2, ElementOf
    <3> QED BY <3>3
  <2>5. DOMAIN StateOf(flowTrail[i].state).actions = 1..Len(StateOf(flowTrail[i].state).actions)
    BY <1>6, <2>4, FlowActions DEF Numbered, StateOf, Places
  <2> QED BY <2>1, <2>3, <2>5 DEF PassedUpTo
<1>12. flowTrail'[1].state = flowInput.flow.entry
  <2>1. CASE n = 0
    <3>1. flowAt = flowInput.flow.entry BY <1>0, <2>1 DEF Walk
    <3>2. n + 1 = 1 BY <2>1
    <3> QED BY <1>3, <3>1, <3>2
  <2>2. CASE n # 0
    <3>1. 1 \in 1..n BY <1>3, <2>2
    <3>2. flowTrail[1].state = flowInput.flow.entry BY <1>0, <2>2 DEF Walk
    <3> QED BY <1>3, <3>1, <3>2
  <2> QED BY <2>1, <2>2
<1>13. /\ Len(flowTrail') = n + 1 /\ (n + 1) - 1 = n
       /\ flowTrail'[n + 1].state = flowAt
  BY <1>3
<1>14. BoundaryEarned'
  <2>1. (flowTrail[1].state = flowInput.flow.entry)' BY <1>1, <1>12
  <2>2. (\A i \in DOMAIN flowTrail :
           /\ flowTrail[i].ok
           /\ Page(flowTrail[i].state) = "matched"
           /\ StateOf(flowTrail[i].state).guards \cap flowInput.failedGuards = {})'
    BY <1>1, <1>10, InputKept DEF Entered
  <2>3. (\A i \in 1..Len(flowTrail) - 1 :
           /\ flowTrail[i + 1].state = Successor(StateOf(flowTrail[i].state))
           /\ \A k \in DOMAIN StateOf(flowTrail[i].state).actions :
                LET a == StateOf(flowTrail[i].state).actions[k]
                IN SelectorError(a.key) = NoFlowValue /\ a.id \notin flowInput.stop)'
    <3>1. \A s : (StateOf(s))' = StateOf(s) BY <1>1, InputKept
    <3>2. \A key : (SelectorError(key))' = SelectorError(key) BY <1>1, InputKept
    <3>3. SUFFICES ASSUME NEW i \in 1..n
                   PROVE  (/\ flowTrail[i + 1].state = Successor(StateOf(flowTrail[i].state))
                           /\ \A k \in DOMAIN StateOf(flowTrail[i].state).actions :
                                LET a == StateOf(flowTrail[i].state).actions[k]
                                IN /\ SelectorError(a.key) = NoFlowValue
                                   /\ a.id \notin flowInput.stop)'
      BY <1>13
    <3>4. PICK state : state = flowTrail'[i].state OBVIOUS
    <3>5. (StateOf(flowTrail[i].state))' = StateOf(state) BY <3>1, <3>4
    <3>6. (flowTrail[i + 1].state = Successor(StateOf(flowTrail[i].state)))'
      BY <1>11, <3>4, <3>5
    <3>7. ASSUME NEW k \in DOMAIN StateOf(state).actions
          PROVE  (LET a == StateOf(flowTrail[i].state).actions[k]
                  IN SelectorError(a.key) = NoFlowValue /\ a.id \notin flowInput.stop)'
      <4>1. /\ SelectorError(StateOf(state).actions[k].key) = NoFlowValue
            /\ StateOf(state).actions[k].id \notin flowInput.stop
        BY <1>11, <3>4
      <4>2. (StateOf(flowTrail[i].state).actions[k])' = StateOf(state).actions[k] BY <3>5
      <4>3. (SelectorError(StateOf(flowTrail[i].state).actions[k].key))'
              = SelectorError(StateOf(state).actions[k].key)
        BY <3>2, <4>2
      <4> QED BY <1>1, <4>1, <4>2, <4>3
    <3> QED BY <3>5, <3>6, <3>7
  <2>4. (LastStep.state)' = flowAt BY <1>13 DEF LastStep
  <2>5. (\E k \in DOMAIN StateOf(LastStep.state).actions :
           /\ StateOf(LastStep.state).actions[k].id \in flowInput.stop
           /\ \A j \in 1..k :
                SelectorError(StateOf(LastStep.state).actions[j].key) = NoFlowValue)'
    <3>1. \E k \in DOMAIN actions :
            /\ actions[k].id \in flowInput.stop
            /\ \A j \in 1..k : SelectorError(actions[j].key) = NoFlowValue
      BY <1>1, <1>5, <1>7, <1>9
    <3> QED BY <1>1, <2>4, <3>1, InputKept
  <2> QED BY <2>1, <2>2, <2>3, <2>5 DEF BoundaryEarned
<1> QED BY <1>2, <1>4, <1>14 DEF FlowInv, Running

LEMMA FlowInvStep == FlowInv /\ [FlowNext]_flowVars => FlowInv'
<1> SUFFICES ASSUME FlowInv, [FlowNext]_flowVars PROVE FlowInv'
  OBVIOUS
<1> USE FlowAssumption
<1>0. FlowShape BY DEF FlowInv
<1>1. CASE GiveUp
  <2>1. ~flowResult'.boundary /\ flowResult'.status # "running"
    BY <1>1, FailedResult DEF GiveUp
  <2>2. FlowShape' BY <1>0, <1>1, <2>1 DEF GiveUp, FlowShape, Places, Running
  <2> QED BY <2>1, <2>2, EndsWithout
<1>2. CASE StateMissing
  <2>1. ~flowResult'.boundary /\ flowResult'.status # "running"
    BY <1>2, FailedResult DEF StateMissing
  <2>2. FlowShape' BY <1>0, <1>2, <2>1 DEF StateMissing, FlowShape, Places, Running, TurnsLeft
  <2> QED BY <2>1, <2>2, EndsWithout
<1>3. CASE SelectorFails
  <2>1. ~flowResult'.boundary /\ flowResult'.status # "running"
    BY <1>3, EndedResult DEF SelectorFails
  <2>2. /\ Step(FALSE) /\ Running /\ flowAct > 0
        /\ UNCHANGED <<flowInput, flowAt, flowTurn, flowAct>>
    BY <1>3 DEF SelectorFails, AtAction
  <2>3. flowAt \in Places BY <1>0, <2>2 DEF FlowShape
  <2>4. /\ flowTrail' \in Seq([state : Places, ok : BOOLEAN])
        /\ Len(flowTrail') = Len(flowTrail) + 1
        /\ Len(flowTrail) \in Nat
    BY <1>0, <2>2, <2>3, TrailStep
  <2>5. FlowShape' BY <1>0, <2>1, <2>2, <2>4 DEF FlowShape, Places, Running
  <2> QED BY <2>1, <2>5, EndsWithout
<1>4. CASE UNCHANGED <<flowInput, flowAt, flowTurn, flowAct, flowTrail, flowResult>>
  <2>1. FlowShape' BY <1>0, <1>4 DEF FlowShape, Places, Running
  <2>2. Walk => Walk' BY <1>4, InputKept DEF Walk
  <2>3. BoundaryEarned => BoundaryEarned' BY <1>4, BoundaryKept
  <2> QED BY <1>4, <2>1, <2>2, <2>3 DEF FlowInv, Running
<1>5. CASE RecordRun BY <1>4, <1>5 DEF RecordRun
<1>6. CASE UNCHANGED flowVars BY <1>4, <1>6 DEF flowVars
<1> QED BY <1>1, <1>2, <1>3, <1>5, <1>6, EnterStep, PassStep, LeaveStep, StopStep DEF FlowNext

\* Whatever flow a caller passes and wherever it asks to stop, a run claims
\* the submit boundary only for a walk from the entry over good states and
\* found selectors, to an action it was told to stop before.
THEOREM FlowBoundaryEarned == FlowSpec => []BoundaryEarned
<1>1. FlowInv => BoundaryEarned BY DEF FlowInv
<1> QED BY <1>1, FlowInvInit, FlowInvStep, PTL DEF FlowSpec

-----------------------------------------------------------------------------
(* Type correctness. *)

ResultTyped ==
  /\ flowResult \in FlowResults
  /\ flowSafeMode \in BOOLEAN
  /\ flowProof \in FlowStatuses \cup {NoFlowValue}

LEMMA Codes ==
  /\ \A g : GuardFailureCode(g) \in ErrorCodes
  /\ \A key : SelectorError(key) \in ErrorCodes \cup {NoFlowValue}
<1>1. \A g : GuardFailureCode(g) \in ErrorCodes
  BY DEF GuardFailureCode, ErrorCodes
<1>2. ASSUME NEW key PROVE SelectorError(key) \in ErrorCodes \cup {NoFlowValue}
  <2>1. SelectorError(key) \in {NoFlowValue, "selector_ambiguous", "selector_missing"}
    BY DEF SelectorError
  <2> QED BY <2>1 DEF ErrorCodes
<1> QED BY <1>1, <1>2

LEMMA PageErrors ==
  ASSUME NEW s, flowInput \in FlowInputs
  PROVE  PageError(s) \in ErrorCodes \cup {NoFlowValue}
<1>1. flowInput.badPage \in {<<"matched", NoFlowValue>>} \cup (BadPages \X FlowStates)
  BY DEF FlowInputs
<1>2. flowInput.badPage[1] \in {"matched"} \cup BadPages BY <1>1
<1>3. Page(s) \in {"matched"} \cup BadPages BY <1>2 DEF Page
<1> QED BY <1>3 DEF PageError, BadPages, ErrorCodes

LEMMA EndedTyped ==
  /\ \A status \in FlowStatuses, boundary \in BOOLEAN, err \in ErrorCodes \cup {NoFlowValue} :
       Ended(status, boundary, err) => flowResult' \in FlowResults
  /\ \A err \in ErrorCodes \cup {NoFlowValue} : FailedWith(err) => flowResult' \in FlowResults
<1>1. ASSUME NEW status \in FlowStatuses, NEW boundary \in BOOLEAN,
             NEW err \in ErrorCodes \cup {NoFlowValue}, Ended(status, boundary, err)
      PROVE  flowResult' \in FlowResults
  BY <1>1 DEF Ended, FlowResults
<1>2. ASSUME NEW err \in ErrorCodes \cup {NoFlowValue}, FailedWith(err)
      PROVE  flowResult' \in FlowResults
  <2>1. PICK status \in {"failed", "manual_review_required"} : Ended(status, FALSE, err)
    BY <1>2 DEF FailedWith
  <2> QED BY <1>1, <2>1 DEF FlowStatuses
<1> QED BY <1>1, <1>2

LEMMA ResultStep == FlowInv /\ ResultTyped /\ [FlowNext]_flowVars => ResultTyped'
<1> SUFFICES ASSUME FlowInv, ResultTyped, [FlowNext]_flowVars PROVE ResultTyped'
  OBVIOUS
<1> USE DEF ResultTyped
<1>0. flowInput \in FlowInputs BY DEF FlowInv, FlowShape
<1>1. CASE GiveUp \/ StateMissing
  <2>1. \/ FailedWith(NoFlowValue)
        \/ FailedWith("form_schema_changed")
    BY <1>1 DEF GiveUp, StateMissing
  <2>2. UNCHANGED <<flowSafeMode, flowProof>> BY <1>1 DEF GiveUp, StateMissing
  <2> QED BY <2>1, <2>2, EndedTyped DEF ErrorCodes
<1>2. CASE EnterState
  <2>1. UNCHANGED <<flowSafeMode, flowProof>> BY <1>2 DEF EnterState
  <2>2. \/ flowResult' = flowResult
        \/ FailedWith(PageError(flowAt))
        \/ \E g : FailedWith(GuardFailureCode(g))
    BY <1>2 DEF EnterState
  <2> QED BY <1>0, <2>1, <2>2, EndedTyped, PageErrors, Codes
<1>3. CASE SelectorFails
  <2>1. UNCHANGED <<flowSafeMode, flowProof>> /\ Ended("failed", FALSE, SelectorError(NextAction.key))
    BY <1>3 DEF SelectorFails
  <2>2. SelectorError(NextAction.key) \in ErrorCodes \cup {NoFlowValue} BY Codes
  <2>3. flowResult' \in FlowResults BY <2>1, <2>2, EndedTyped DEF FlowStatuses
  <2> QED BY <2>1, <2>3
<1>4. CASE StopBefore
  <2>1. UNCHANGED <<flowSafeMode, flowProof>> /\ Ended("succeeded", TRUE, NoFlowValue)
    BY <1>4 DEF StopBefore
  <2>2. flowResult' \in FlowResults BY <2>1, EndedTyped DEF FlowStatuses
  <2> QED BY <2>1, <2>2
<1>5. CASE PassAction BY <1>5 DEF PassAction
<1>6. CASE LeaveState
  <2>1. UNCHANGED <<flowSafeMode, flowProof>> BY <1>6 DEF LeaveState
  <2>2. \/ flowResult' = flowResult
        \/ Ended("succeeded", FALSE, NoFlowValue)
        \/ FailedWith("form_schema_changed")
    BY <1>6 DEF LeaveState
  <2>3. "form_schema_changed" \in ErrorCodes /\ "succeeded" \in FlowStatuses
    BY DEF ErrorCodes, FlowStatuses
  <2> QED BY <2>1, <2>2, <2>3, EndedTyped
<1>7. CASE RecordRun
  <2>1. /\ flowResult' = flowResult /\ flowResult.status # "running"
        /\ flowSafeMode' = (flowResult.err = "captcha_required")
        /\ flowProof' = flowResult.status
    BY <1>7 DEF RecordRun, Running
  <2>2. flowResult.status \in FlowStatuses BY <2>1 DEF FlowResults
  <2> QED BY <2>1, <2>2
<1>8. CASE UNCHANGED flowVars BY <1>8 DEF flowVars
<1> QED BY <1>1, <1>2, <1>3, <1>4, <1>5, <1>6, <1>7, <1>8 DEF FlowNext

\* A run keeps its types and its bound of states whatever flow it is given.
THEOREM FlowTypeCorrect == FlowSpec => []FlowTypeOK
<1>1. FlowInit => ResultTyped
  <2> SUFFICES ASSUME FlowInit PROVE ResultTyped
    OBVIOUS
  <2>1. flowResult = [status |-> "running", boundary |-> FALSE, err |-> NoFlowValue]
    BY DEF FlowInit
  <2>2. flowResult \in FlowResults BY <2>1 DEF FlowResults
  <2>3. flowSafeMode = FALSE /\ flowProof = NoFlowValue BY DEF FlowInit
  <2> QED BY <2>2, <2>3 DEF ResultTyped
<1>2. FlowInv /\ ResultTyped => FlowTypeOK
  <2> SUFFICES ASSUME FlowInv, ResultTyped PROVE FlowTypeOK
    OBVIOUS
  <2>1. FlowShape BY DEF FlowInv
  <2>2. flowInput.flow \in Flows BY <2>1 DEF FlowShape, FlowInputs
  <2>3. Len(flowTrail) <= FlowTurns
    <3>1. Len(flowTrail) \in Nat /\ flowTurn \in 0..FlowTurns /\ Len(flowTrail) <= flowTurn
      BY <2>1 DEF FlowShape
    <3> QED BY <3>1, FlowAssumption
  <2>4. flowAct # 0 => flowAt \in DOMAIN flowInput.flow.states
    BY <2>1 DEF FlowShape, Places
  <2> QED BY <2>1, <2>2, <2>3, <2>4 DEF FlowTypeOK, FlowShape, ResultTyped
<1> QED BY <1>1, <1>2, FlowInvInit, FlowInvStep, ResultStep, PTL DEF FlowSpec

-----------------------------------------------------------------------------
(* A run that met a captcha.                                               *)

\* The last step of the trail met a captcha, on the page or by the guard.
MetCaptcha ==
  /\ flowTrail # <<>> /\ ~LastStep.ok
  /\ \/ Page(LastStep.state) = "captcha_required"
     \/ /\ Page(LastStep.state) = "matched"
        /\ "no_captcha" \in StateOf(LastStep.state).guards \cap flowInput.failedGuards

\* The error of a run that has ended tells whether its last step met a captcha.
CaptchaNamed ==
  /\ ~Running => (flowResult.err = "captcha_required" <=> MetCaptcha)
  /\ flowProof # NoFlowValue =>
       ~Running /\ (flowSafeMode <=> flowResult.err = "captcha_required")

LEMMA EndedError ==
  ASSUME NEW status, NEW boundary, NEW err, Ended(status, boundary, err)
  PROVE  flowResult'.err = err
  BY DEF Ended

LEMMA FailedError ==
  ASSUME NEW err, FailedWith(err)
  PROVE  flowResult'.err = err /\ flowResult'.status \in {"failed", "manual_review_required"}
<1>1. PICK status \in {"failed", "manual_review_required"} : Ended(status, FALSE, err)
  BY DEF FailedWith
<1> QED BY <1>1, EndedError, EndedResult

\* Steps that end well: a trail without a failed step met no captcha.
LEMMA GoodTrail ==
  ASSUME flowTrail' \in Seq([state : Places, ok : BOOLEAN]),
         \A i \in 1..Len(flowTrail') : flowTrail'[i].ok
  PROVE  ~MetCaptcha'
<1> SUFFICES ASSUME MetCaptcha' PROVE FALSE
  OBVIOUS
<1>1. flowTrail' # <<>> /\ ~flowTrail'[Len(flowTrail')].ok BY DEF MetCaptcha, LastStep
<1>2. Len(flowTrail') \in 1..Len(flowTrail') BY <1>1
<1> QED BY <1>1, <1>2

\* The step that ends a run with a failure.
LEMMA FailedStep ==
  ASSUME FlowShape, flowAt \in Places, Step(FALSE), flowInput' = flowInput
  PROVE  MetCaptcha' <=> \/ Page(flowAt) = "captcha_required"
                        \/ /\ Page(flowAt) = "matched"
                           /\ "no_captcha" \in StateOf(flowAt).guards \cap flowInput.failedGuards
<1>1. /\ flowTrail' \in Seq([state : Places, ok : BOOLEAN])
      /\ Len(flowTrail') = Len(flowTrail) + 1 /\ Len(flowTrail) \in Nat
      /\ flowTrail'[Len(flowTrail) + 1] = [state |-> flowAt, ok |-> FALSE]
  BY TrailStep
<1>2. LastStep' = [state |-> flowAt, ok |-> FALSE] BY <1>1 DEF LastStep
<1>3. flowTrail' # <<>> BY <1>1
<1>4. ~LastStep'.ok /\ LastStep'.state = flowAt BY <1>2
<1> QED BY <1>3, <1>4, InputKept DEF MetCaptcha

\* Among the guards that failed only one has this code.
LEMMA CaptchaGuard ==
  \A g : GuardFailureCode(g) = "captcha_required" <=> g = "no_captcha"
  BY DEF GuardFailureCode

LEMMA OneGuardFails ==
  ASSUME flowInput \in FlowInputs, NEW state, FailedGuards(state) # {}
  PROVE  GuardFailureCode(CHOOSE g \in FailedGuards(state) : TRUE) = "captcha_required"
           <=> "no_captcha" \in state.guards \cap flowInput.failedGuards
<1>1. PICK g0 : flowInput.failedGuards \subseteq {g0} BY DEF FlowInputs
<1>2. FailedGuards(state) = {g0} BY <1>1 DEF FailedGuards
<1>3. (CHOOSE g \in FailedGuards(state) : TRUE) = g0 BY <1>2
<1> QED BY <1>2, <1>3, CaptchaGuard DEF FailedGuards

LEMMA PageKinds ==
  ASSUME flowInput \in FlowInputs, NEW s
  PROVE  Page(s) \in {"matched"} \cup BadPages
<1>1. flowInput.badPage \in {<<"matched", NoFlowValue>>} \cup (BadPages \X FlowStates)
  BY DEF FlowInputs
<1>2. flowInput.badPage[1] \in {"matched"} \cup BadPages BY <1>1
<1> QED BY <1>2 DEF Page

LEMMA CaptchaNamedStep == FlowInv /\ CaptchaNamed /\ [FlowNext]_flowVars => CaptchaNamed'
<1> SUFFICES ASSUME FlowInv, CaptchaNamed, [FlowNext]_flowVars PROVE CaptchaNamed'
  OBVIOUS
<1>0. FlowShape /\ flowInput \in FlowInputs /\ (Running => Walk) BY DEF FlowInv, FlowShape
<1>a. Running => flowProof = NoFlowValue BY DEF CaptchaNamed
\* A step of a run under way: the run goes on, or ends with the error it met.
<1>b. ASSUME Running, flowProof' = flowProof,
             Running' \/ (flowResult'.err = "captcha_required" <=> MetCaptcha')
      PROVE  CaptchaNamed'
  BY <1>b, <1>a DEF CaptchaNamed
<1>c. ASSUME Running
      PROVE  \A i \in 1..Len(flowTrail) : flowTrail[i].ok
  <2>1. DOMAIN flowTrail = 1..Len(flowTrail) BY <1>0 DEF FlowShape
  <2> QED BY <1>0, <1>c, <2>1 DEF Walk
<1>1. CASE GiveUp \/ StateMissing
  <2>1. Running /\ UNCHANGED <<flowInput, flowTrail, flowProof>> BY <1>1 DEF GiveUp, StateMissing
  <2>2. flowResult'.err # "captcha_required"
    BY <1>1, FailedError DEF GiveUp, StateMissing, NoFlowValue
  <2>3. ~MetCaptcha' BY <1>0, <1>c, <2>1, GoodTrail DEF FlowShape, Places
  <2> QED BY <1>b, <2>1, <2>2, <2>3
<1>2. CASE EnterState
  <2> DEFINE failed == FailedGuards(Here)
             err == IF PageError(flowAt) # NoFlowValue THEN PageError(flowAt)
                    ELSE IF failed # {} THEN GuardFailureCode(CHOOSE g \in failed : TRUE)
                    ELSE NoFlowValue
  <2>1. /\ Running /\ flowAt \in Places /\ UNCHANGED <<flowInput, flowProof>>
        /\ \/ UNCHANGED flowResult
           \/ err # NoFlowValue /\ FailedWith(err) /\ Step(FALSE)
    BY <1>2 DEF EnterState, Places
  <2>2. Page(flowAt) \in {"matched"} \cup BadPages BY <1>0, PageKinds
  <2>3. Here = StateOf(flowAt) BY DEF Here, StateOf
  <2>4. ASSUME err # NoFlowValue
        PROVE  err = "captcha_required" <=>
                 \/ Page(flowAt) = "captcha_required"
                 \/ /\ Page(flowAt) = "matched"
                    /\ "no_captcha" \in StateOf(flowAt).guards \cap flowInput.failedGuards
    <3>1. CASE Page(flowAt) # "matched"
      <4>1. err = Page(flowAt) BY <3>1, <2>2 DEF PageError, BadPages, NoFlowValue
      <4> QED BY <3>1, <4>1
    <3>2. CASE Page(flowAt) = "matched"
      <4>1. PageError(flowAt) = NoFlowValue BY <3>2 DEF PageError
      <4>2. failed # {} /\ err = GuardFailureCode(CHOOSE g \in failed : TRUE)
        BY <2>4, <4>1
      <4>3. err = "captcha_required" <=> "no_captcha" \in Here.guards \cap flowInput.failedGuards
        BY <1>0, <4>2, OneGuardFails
      <4> QED BY <2>3, <3>2, <4>3
    <3> QED BY <3>1, <3>2
  <2> HIDE DEF err
  <2>5. CASE UNCHANGED flowResult BY <1>b, <2>1, <2>5 DEF Running
  <2>6. CASE err # NoFlowValue /\ FailedWith(err) /\ Step(FALSE)
    <3>1. flowResult'.err = err BY <2>6, FailedError
    <3>2. MetCaptcha' <=> err = "captcha_required" BY <1>0, <2>1, <2>4, <2>6, FailedStep
    <3> QED BY <1>b, <2>1, <3>1, <3>2
  <2> QED BY <2>1, <2>5, <2>6
<1>3. CASE SelectorFails
  <2>1. /\ Running /\ flowAct > 0 /\ Step(FALSE) /\ UNCHANGED <<flowInput, flowProof>>
        /\ Ended("failed", FALSE, SelectorError(NextAction.key))
    BY <1>3 DEF SelectorFails, AtAction
  <2>2. flowAt \in Places /\ Entered(flowAt) BY <1>0, <2>1 DEF FlowShape, Walk
  <2>3. SelectorError(NextAction.key) # "captcha_required" BY DEF SelectorError, NoFlowValue
  <2>4. flowResult'.err # "captcha_required" BY <2>1, <2>3, EndedError
  <2>5. ~MetCaptcha' BY <1>0, <2>1, <2>2, FailedStep DEF Entered
  <2> QED BY <1>b, <2>1, <2>4, <2>5
<1>4. CASE StopBefore \/ LeaveState
  <2>1. /\ Running /\ flowAct > 0 /\ Step(TRUE) /\ UNCHANGED <<flowInput, flowProof>>
        /\ \/ UNCHANGED flowResult
           \/ \E boundary : Ended("succeeded", boundary, NoFlowValue)
           \/ FailedWith("form_schema_changed")
    BY <1>4 DEF StopBefore, LeaveState, AtAction
  <2>2. flowAt \in Places BY <1>0, <2>1 DEF FlowShape
  <2>3. /\ flowTrail' \in Seq([state : Places, ok : BOOLEAN])
        /\ \A i \in 1..Len(flowTrail') : flowTrail'[i].ok
    <3>1. /\ flowTrail' \in Seq([state : Places, ok : BOOLEAN])
          /\ Len(flowTrail') = Len(flowTrail) + 1
          /\ \A i \in 1..Len(flowTrail) : flowTrail'[i] = flowTrail[i]
          /\ flowTrail'[Len(flowTrail) + 1] = [state |-> flowAt, ok |-> TRUE]
          /\ Len(flowTrail) \in Nat
      BY <1>0, <2>1, <2>2, TrailStep
    <3>2. \A i \in 1..Len(flowTrail') : i \in 1..Len(flowTrail) \/ i = Len(flowTrail) + 1
      BY <3>1
    <3> QED BY <1>c, <2>1, <3>1, <3>2
  <2>4. ~MetCaptcha' BY <2>3, GoodTrail
  <2>5. CASE UNCHANGED flowResult BY <1>b, <2>1, <2>5 DEF Running
  <2>6. CASE ~UNCHANGED flowResult
    <3>1. flowResult'.err \in {NoFlowValue, "form_schema_changed"}
      BY <2>1, <2>6, EndedError, FailedError
    <3> QED BY <1>b, <2>1, <2>4, <3>1 DEF NoFlowValue
  <2> QED BY <2>5, <2>6
<1>5. CASE PassAction BY <1>5, <1>b DEF PassAction, AtAction, Running
<1>6. CASE RecordRun \/ UNCHANGED flowVars
  <2>1. UNCHANGED <<flowInput, flowTrail, flowResult>> BY <1>6 DEF RecordRun, flowVars
  <2>2. MetCaptcha' = MetCaptcha
    <3>1. LastStep' = LastStep BY <2>1 DEF LastStep
    <3> QED BY <2>1, <3>1, InputKept DEF MetCaptcha
  <2>3. ~Running => (flowResult.err = "captcha_required" <=> MetCaptcha)
    BY DEF CaptchaNamed
  <2>4. CASE UNCHANGED flowVars
    <3>1. UNCHANGED <<flowProof, flowSafeMode>> BY <2>4 DEF flowVars
    <3> QED BY <2>1, <2>2, <3>1 DEF CaptchaNamed, Running
  <2>5. CASE RecordRun
    <3>1. ~Running /\ flowSafeMode' = (flowResult.err = "captcha_required")
      BY <2>5 DEF RecordRun
    <3>2. flowSafeMode' <=> flowResult.err = "captcha_required" BY <3>1, Zenon
    <3> QED BY <2>1, <2>2, <2>3, <3>1, <3>2 DEF CaptchaNamed, Running
  <2> QED BY <1>6, <2>4, <2>5
<1> QED BY <1>1, <1>2, <1>3, <1>4, <1>5, <1>6 DEF FlowNext

\* The provider is put in safe mode exactly when the run met a captcha, on a page
\* or by a guard, wherever in the flow it met it.
THEOREM FlowCaptchaSafeMode == FlowSpec => []CaptchaSafeMode
<1>1. FlowInit => CaptchaNamed BY DEF FlowInit, CaptchaNamed, Running
<1>2. CaptchaNamed => CaptchaSafeMode BY DEF CaptchaNamed, CaptchaSafeMode, MetCaptcha
<1> QED BY <1>1, <1>2, FlowInvInit, FlowInvStep, CaptchaNamedStep, PTL DEF FlowSpec

-----------------------------------------------------------------------------
(* The way through a shipped flow.                                         *)

\* The states a run of a shipped flow comes through, each with its turn.
Way == {"search_results", "job_details", "application_form", "submit_boundary",
        "dry_run_complete"}
Turn(s) ==
  CASE s = "search_results" -> 0 [] s = "job_details" -> 1 [] s = "application_form" -> 2
    [] s = "submit_boundary" -> 3 [] OTHER -> 4

\* A state of the way leads to the one of the next turn, and only the last ends.
LEMMA FormWay ==
  ASSUME NEW letterKey, NEW s \in Way
  PROVE  /\ s \in DOMAIN Form(letterKey)
         /\ Form(letterKey)[s].terminal <=> s = "dry_run_complete"
         /\ s # "dry_run_complete" =>
              LET next == Successor(Form(letterKey)[s])
              IN  next \in Way /\ Turn(next) = Turn(s) + 1
         /\ s = "application_form" =>
              /\ Len(Form(letterKey)[s].actions) = 3
              /\ Form(letterKey)[s].actions[3].id = "submit_application"
<1> DEFINE F == Form(letterKey)
<1>0. s \in DOMAIN F BY DEF Form, Way
<1>1. CASE s = "search_results"
  <2>1. /\ F[s].actions = <<Act("open_job", "job_card")>>
        /\ F[s].next = Goes("open_job", "job_details") /\ ~F[s].terminal
    BY <1>1 DEF Form, FormState
  <2>2. Successor(F[s]) = "job_details" BY <2>1 DEF Successor, Act, Goes
  <2> QED BY <1>0, <1>1, <2>1, <2>2 DEF Way, Turn
<1>2. CASE s = "job_details"
  <2>1. /\ F[s].actions = <<Act("click_apply", "apply_button")>>
        /\ F[s].next = Goes("click_apply", "application_form") /\ ~F[s].terminal
    BY <1>2 DEF Form, FormState
  <2>2. Successor(F[s]) = "application_form" BY <2>1 DEF Successor, Act, Goes
  <2> QED BY <1>0, <1>2, <2>1, <2>2 DEF Way, Turn
<1>3. CASE s = "application_form"
  <2>1. /\ F[s].actions =
             <<Act("select_resume", NoKey), Act("fill_cover_letter", letterKey),
               Act("submit_application", "apply_button")>>
        /\ F[s].next = Goes("submit_application", "submit_boundary") /\ ~F[s].terminal
    BY <1>3 DEF Form, FormState
  <2>2. Len(F[s].actions) = 3 /\ F[s].actions[3] = Act("submit_application", "apply_button")
    BY <2>1
  <2>3. F[s].actions[3].id = "submit_application" BY <2>2 DEF Act
  <2>4. Successor(F[s]) = "submit_boundary" BY <2>1, <2>2, <2>3 DEF Successor, Goes
  <2> QED BY <1>0, <1>3, <2>1, <2>2, <2>3, <2>4 DEF Way, Turn
<1>4. CASE s = "submit_boundary"
  <2>1. /\ F[s].actions = <<Act("dry_run_complete", NoKey)>>
        /\ F[s].next = Goes("dry_run_complete", "dry_run_complete") /\ ~F[s].terminal
    BY <1>4 DEF Form, FormState, AfterBoundary
  <2>2. Successor(F[s]) = "dry_run_complete" BY <2>1 DEF Successor, Act, Goes
  <2> QED BY <1>0, <1>4, <2>1, <2>2 DEF Way, Turn
<1>5. CASE s = "dry_run_complete"
  <2>1. F[s].terminal BY <1>5 DEF Form, FormState
  <2> QED BY <1>0, <1>5, <2>1
<1> QED BY <1>1, <1>2, <1>3, <1>4, <1>5 DEF Way

LEMMA ShippedWay ==
  ASSUME NEW f \in Shipped
  PROVE  /\ f.entry = "search_results"
         /\ \A s \in Way :
              /\ s \in DOMAIN f.states
              /\ \E letterKey : f.states[s] = Form(letterKey)[s]
<1>1. CASE f = hhDryRunFlow
  <2> DEFINE names == DOMAIN Form(NoKey) \ {"unsupported_form_variant"}
  <2>1. /\ f.entry = "search_results"
        /\ f.states = [s \in names |-> Form("cover_letter_textarea")[s]]
    BY <1>1 DEF hhDryRunFlow
  <2>2. \A s \in Way : s \in names BY FormWay DEF Way
  <2> QED BY <2>1, <2>2
<1>2. CASE f = robotaDryRunFlow
  <2>1. f.entry = "search_results" /\ f.states = Form(NoKey)
    BY <1>2 DEF robotaDryRunFlow
  <2> QED BY <2>1, FormWay
<1> QED BY <1>1, <1>2 DEF Shipped

\* What a run of a shipped flow meets in the state it is in.
LEMMA ShippedHere ==
  ASSUME flowInput.flow \in Shipped, flowAt \in Way
  PROVE  /\ flowAt \in DOMAIN flowInput.flow.states
         /\ Here.terminal <=> flowAt = "dry_run_complete"
         /\ flowAt # "dry_run_complete" =>
              Successor(Here) \in Way /\ Turn(Successor(Here)) = Turn(flowAt) + 1
         /\ flowAt = "application_form" =>
              Len(Here.actions) = 3 /\ Here.actions[3].id = "submit_application"
<1>1. flowAt \in DOMAIN flowInput.flow.states BY ShippedWay
<1>2. PICK letterKey : Here = Form(letterKey)[flowAt] BY ShippedWay DEF Here
<1> QED BY <1>1, <1>2, FormWay

LEMMA FailedNotRunning ==
  ASSUME NEW err, FailedWith(err)
  PROVE  ~Running' /\ flowResult'.err = err
<1>1. flowResult'.status # "running" BY FailedError
<1> QED BY <1>1, FailedError DEF Running

\* A run of a shipped flow is at its state in its turn, and one that failed has
\* named its error.
NamedInv ==
  /\ ErrorNamed
  /\ flowInput.flow \in Shipped /\ Running =>
       flowAt \in Way /\ flowTurn = Turn(flowAt) + (IF flowAct > 0 THEN 1 ELSE 0)

LEMMA NamedInvInit == FlowInit => NamedInv
<1> SUFFICES ASSUME FlowInit PROVE NamedInv
  OBVIOUS
<1>1. ErrorNamed BY DEF FlowInit, ErrorNamed
<1>2. ASSUME flowInput.flow \in Shipped PROVE flowAt = "search_results"
  BY <1>2, ShippedWay DEF FlowInit
<1> QED BY <1>1, <1>2 DEF NamedInv, FlowInit, Way, Turn

LEMMA NamedInvStep ==
  ASSUME FlowTurns >= 5, FlowInv, NamedInv, [FlowNext]_flowVars
  PROVE  NamedInv'
<1>0. FlowShape BY DEF FlowInv
<1>a. flowInput' = flowInput
  BY DEF FlowNext, flowVars, GiveUp, StateMissing, EnterState, SelectorFails, StopBefore,
         PassAction, LeaveState, RecordRun
<1> SUFFICES ASSUME flowInput.flow \in Shipped PROVE NamedInv'
  BY <1>a DEF NamedInv, ErrorNamed
<1>b. ASSUME ~Running', flowResult'.err # NoFlowValue PROVE NamedInv'
  BY <1>b DEF NamedInv, ErrorNamed
<1>c. ASSUME ~Running', flowResult'.status = "succeeded" PROVE NamedInv'
  BY <1>c DEF NamedInv, ErrorNamed
<1>d. ASSUME UNCHANGED flowResult, Running,
             flowAt' \in Way /\ flowTurn' = Turn(flowAt') + (IF flowAct' > 0 THEN 1 ELSE 0)
      PROVE  NamedInv'
  BY <1>d DEF NamedInv, ErrorNamed, Running
<1>e. Running => /\ flowAt \in Way
                 /\ flowTurn = Turn(flowAt) + (IF flowAct > 0 THEN 1 ELSE 0)
  BY DEF NamedInv
<1>f. \A s : Turn(s) \in 0..4 BY DEF Turn
<1>1. CASE GiveUp
  <2>1. Running /\ flowAct = 0 /\ ~(flowTurn < FlowTurns) BY <1>1 DEF GiveUp, TurnsLeft
  <2>2. flowTurn \in 0..4 BY <1>e, <1>f, <2>1
  <2> QED BY <2>1, <2>2, FlowAssumption
<1>2. CASE StateMissing
  BY <1>2, <1>b, FailedNotRunning DEF StateMissing, NoFlowValue
<1>3. CASE EnterState
  <2> DEFINE failed == FailedGuards(Here)
             err == IF PageError(flowAt) # NoFlowValue THEN PageError(flowAt)
                    ELSE IF failed # {} THEN GuardFailureCode(CHOOSE g \in failed : TRUE)
                    ELSE NoFlowValue
  <2>1. /\ Running /\ flowAct = 0 /\ flowTurn' = flowTurn + 1 /\ UNCHANGED flowAt
        /\ \/ flowAct' = 1 /\ UNCHANGED flowResult
           \/ err # NoFlowValue /\ FailedWith(err)
    BY <1>3 DEF EnterState
  <2> HIDE DEF err
  <2>2. CASE flowAct' = 1 /\ UNCHANGED flowResult
    <3>1. flowAt \in Way /\ flowTurn = Turn(flowAt) BY <1>e, <1>f, <2>1
    <3> QED BY <1>d, <1>f, <2>1, <2>2, <3>1
  <2>3. CASE err # NoFlowValue /\ FailedWith(err) BY <1>b, <2>3, FailedNotRunning
  <2> QED BY <2>1, <2>2, <2>3
<1>4. CASE SelectorFails
  <2>1. SelectorError(NextAction.key) # NoFlowValue
        /\ Ended("failed", FALSE, SelectorError(NextAction.key))
    BY <1>4 DEF SelectorFails
  <2> QED BY <1>b, <2>1, EndedResult, EndedError DEF Running
<1>5. CASE StopBefore
  <2>1. Ended("succeeded", TRUE, NoFlowValue) BY <1>5 DEF StopBefore
  <2> QED BY <1>c, <2>1 DEF Running, Ended
<1>6. CASE PassAction
  <2>1. /\ Running /\ flowAct > 0 /\ flowAct' = flowAct + 1
        /\ UNCHANGED <<flowAt, flowTurn, flowResult>>
    BY <1>6 DEF PassAction, AtAction
  <2>2. flowAct' > 0 BY <1>0, <2>1 DEF FlowShape
  <2> QED BY <1>d, <1>e, <2>1, <2>2
<1>7. CASE LeaveState
  <2>1. /\ Running /\ flowAct > 0 /\ UNCHANGED flowTurn
        /\ \/ Ended("succeeded", FALSE, NoFlowValue)
           \/ FailedWith("form_schema_changed")
           \/ ~Here.terminal /\ flowAt' = Successor(Here) /\ flowAct' = 0 /\ UNCHANGED flowResult
    BY <1>7 DEF LeaveState
  <2>2. CASE Ended("succeeded", FALSE, NoFlowValue)
    BY <1>c, <2>2 DEF Running, Ended
  <2>3. CASE FailedWith("form_schema_changed")
    BY <1>b, <2>3, FailedNotRunning DEF NoFlowValue
  <2>4. CASE ~Here.terminal /\ flowAt' = Successor(Here) /\ flowAct' = 0 /\ UNCHANGED flowResult
    <3>1. Successor(Here) \in Way /\ Turn(Successor(Here)) = Turn(flowAt) + 1
      BY <1>e, <2>1, <2>4, ShippedHere
    <3>2. flowTurn = Turn(flowAt) + 1 BY <1>e, <2>1
    <3>3. Turn(flowAt) + 1 + 0 = Turn(flowAt) + 1 BY <1>f
    <3>4. flowTurn' = Turn(flowAt') /\ flowAt' \in Way BY <2>1, <2>4, <3>1, <3>2
    <3>5. Turn(flowAt') = Turn(flowAt') + (IF flowAct' > 0 THEN 1 ELSE 0) BY <1>f, <2>4
    <3> QED BY <1>d, <2>1, <2>4, <3>4, <3>5
  <2> QED BY <2>1, <2>2, <2>3, <2>4
<1>8. CASE RecordRun \/ UNCHANGED flowVars
  <2>1. UNCHANGED flowResult BY <1>8 DEF RecordRun, flowVars
  <2>2. CASE Running
    <3>1. UNCHANGED <<flowAt, flowTurn, flowAct>> BY <1>8, <2>2 DEF RecordRun, flowVars
    <3> QED BY <1>d, <1>e, <2>1, <2>2, <3>1
  <2>3. CASE ~Running
    BY <1>a, <2>1, <2>3 DEF NamedInv, ErrorNamed, Running
  <2> QED BY <2>2, <2>3
<1> QED BY <1>1, <1>2, <1>3, <1>4, <1>5, <1>6, <1>7, <1>8 DEF FlowNext

\* A run of a shipped flow never runs into the bound on its turns, the code's 25
\* or any of at least the five states on its way: when it fails it says why.
THEOREM FlowErrorNamed ==
  ASSUME FlowTurns >= 5
  PROVE  FlowSpec => []ErrorNamed
<1>1. NamedInv => ErrorNamed BY DEF NamedInv
<1>2. FlowInv /\ NamedInv /\ [FlowNext]_flowVars => NamedInv' BY NamedInvStep
<1> QED BY <1>1, <1>2, FlowInvInit, FlowInvStep, NamedInvInit, PTL DEF FlowSpec

-----------------------------------------------------------------------------
(* A caller that stops before the submission.                              *)

BeforeSubmit == {"search_results", "job_details", "application_form"}
ActionIds == {StateOf(s).actions[k].id : s \in Places, k \in Nat}

\* While such a run of a shipped flow goes on, it is before the submission.
StopInv ==
  /\ flowPassed \in Seq(ActionIds)
  /\ SubmitStopsRun
  /\ "submit_application" \in flowInput.stop /\ flowInput.flow \in Shipped /\ Running =>
       flowAt \in BeforeSubmit /\ (flowAt = "application_form" => flowAct <= 3)

LEMMA StopInvInit == FlowInit => StopInv
<1> SUFFICES ASSUME FlowInit PROVE StopInv
  OBVIOUS
<1>1. flowPassed = <<>> /\ flowResult.status # "succeeded" /\ flowAct = 0 BY DEF FlowInit
<1>2. ASSUME flowInput.flow \in Shipped PROVE flowAt = "search_results"
  BY <1>2, ShippedWay DEF FlowInit
<1> QED BY <1>1, <1>2 DEF StopInv, SubmitStopsRun, BeforeSubmit

LEMMA StopInvStep == FlowInv /\ StopInv /\ [FlowNext]_flowVars => StopInv'
<1> SUFFICES ASSUME FlowInv, StopInv, [FlowNext]_flowVars PROVE StopInv'
  OBVIOUS
<1> DEFINE told == "submit_application" \in flowInput.stop
           shipped == flowInput.flow \in Shipped
           before == flowAt \in BeforeSubmit /\ (flowAt = "application_form" => flowAct <= 3)
<1>0. FlowShape /\ flowPassed \in Seq(ActionIds) BY DEF FlowInv, StopInv
<1>a. flowInput' = flowInput
  BY DEF FlowNext, flowVars, GiveUp, StateMissing, EnterState, SelectorFails, StopBefore,
         PassAction, LeaveState, RecordRun
<1>b. ActionIds' = ActionIds BY <1>a, InputKept DEF ActionIds
<1>c. told => \A i \in DOMAIN flowPassed : flowPassed[i] # "submit_application"
  BY DEF StopInv, SubmitStopsRun
<1>d. told /\ shipped => /\ Running => before
                         /\ flowResult.status = "succeeded" => flowResult.boundary
  BY DEF StopInv, SubmitStopsRun
\* A step that passes no action.
<1>e. ASSUME UNCHANGED flowPassed,
             told /\ shipped => /\ Running' => before'
                                /\ flowResult'.status = "succeeded" => flowResult'.boundary
      PROVE  StopInv'
  <2>1. flowPassed' \in Seq(ActionIds') BY <1>0, <1>b, <1>e
  <2> QED BY <1>a, <1>c, <1>e, <2>1 DEF StopInv, SubmitStopsRun
<1>1. CASE GiveUp \/ StateMissing \/ SelectorFails
  <2>1. UNCHANGED flowPassed BY <1>1 DEF GiveUp, StateMissing, SelectorFails
  <2>2. flowResult'.status \in {"failed", "manual_review_required"}
    BY <1>1, FailedError, EndedResult DEF GiveUp, StateMissing, SelectorFails
  <2> QED BY <1>e, <2>1, <2>2 DEF Running
<1>2. CASE EnterState
  <2> DEFINE failed == FailedGuards(Here)
             err == IF PageError(flowAt) # NoFlowValue THEN PageError(flowAt)
                    ELSE IF failed # {} THEN GuardFailureCode(CHOOSE g \in failed : TRUE)
                    ELSE NoFlowValue
  <2>1. /\ Running /\ UNCHANGED <<flowAt, flowPassed>>
        /\ \/ flowAct' = 1 /\ UNCHANGED flowResult
           \/ FailedWith(err)
    BY <1>2 DEF EnterState
  <2> HIDE DEF err
  <2>2. CASE flowAct' = 1 /\ UNCHANGED flowResult
    BY <1>d, <1>e, <2>1, <2>2 DEF Running
  <2>3. CASE FailedWith(err)
    <3>1. flowResult'.status \in {"failed", "manual_review_required"} BY <2>3, FailedError
    <3> QED BY <1>e, <2>1, <3>1 DEF Running
  <2> QED BY <2>1, <2>2, <2>3
<1>3. CASE StopBefore
  <2>1. UNCHANGED flowPassed /\ Ended("succeeded", TRUE, NoFlowValue) BY <1>3 DEF StopBefore
  <2> QED BY <1>e, <2>1 DEF Ended, Running
<1>4. CASE PassAction
  <2>1. /\ Running /\ flowAct > 0 /\ flowAct <= Len(Here.actions)
        /\ NextAction.id \notin flowInput.stop /\ flowAct' = flowAct + 1
        /\ flowPassed' = Append(flowPassed, NextAction.id) /\ UNCHANGED <<flowAt, flowResult>>
    BY <1>4 DEF PassAction, AtAction, Stops
  <2>2. NextAction.id \in ActionIds
    <3>1. flowAt \in Places /\ flowAct \in Nat BY <1>0, <2>1 DEF FlowShape
    <3> QED BY <3>1 DEF ActionIds, NextAction, Here, StateOf
  <2>3. /\ flowPassed' \in Seq(ActionIds)
        /\ told => \A i \in DOMAIN flowPassed' : flowPassed'[i] # "submit_application"
    BY <1>0, <1>c, <2>1, <2>2
  <2>4. ASSUME told, shipped PROVE before'
    <3>1. before BY <1>d, <2>1, <2>4
    <3>2. ASSUME flowAt = "application_form", flowAct = 3 PROVE FALSE
      <4>1. Here.actions[3].id = "submit_application"
        BY <2>4, <3>2, ShippedHere DEF Way
      <4> QED BY <2>1, <2>4, <3>2, <4>1 DEF NextAction
    <3>3. flowAct \in Nat BY <1>0 DEF FlowShape
    <3> QED BY <2>1, <3>1, <3>2, <3>3
  <2>5. told /\ shipped => (flowResult'.status = "succeeded" => flowResult'.boundary)
    BY <1>d, <2>1
  <2> QED BY <1>a, <1>b, <2>3, <2>4, <2>5 DEF StopInv, SubmitStopsRun
<1>5. CASE LeaveState
  <2>1. /\ Running /\ flowAct > Len(Here.actions) /\ UNCHANGED flowPassed
        /\ \/ Here.terminal
           \/ FailedWith("form_schema_changed")
           \/ flowAt' = Successor(Here) /\ flowAct' = 0 /\ UNCHANGED flowResult
    BY <1>5 DEF LeaveState
  <2>2. ASSUME told, shipped
        PROVE  /\ Running' => before'
               /\ flowResult'.status = "succeeded" => flowResult'.boundary
    <3>1. before BY <1>d, <2>1, <2>2
    <3>2. flowAt \in Way /\ flowAt # "dry_run_complete" BY <3>1 DEF BeforeSubmit, Way
    <3>3. flowAt # "application_form"
      <4>1. flowAct \in Nat BY <1>0 DEF FlowShape
      <4> QED BY <2>1, <2>2, <3>1, <3>2, <4>1, ShippedHere
    <3>4. ~Here.terminal BY <2>2, <3>2, ShippedHere
    <3>5. CASE FailedWith("form_schema_changed")
      BY <3>5, FailedError DEF Running
    <3>6. CASE flowAt' = Successor(Here) /\ flowAct' = 0 /\ UNCHANGED flowResult
      <4>1. Successor(Here) \in Way /\ Turn(Successor(Here)) = Turn(flowAt) + 1
        BY <2>2, <3>2, ShippedHere
      <4>2. Turn(flowAt) <= 1 /\ Turn(flowAt) \in Nat
        BY <3>1, <3>3 DEF BeforeSubmit, Turn
      <4>3. Successor(Here) \in BeforeSubmit BY <4>1, <4>2 DEF Way, Turn, BeforeSubmit
      <4> QED BY <2>1, <3>6, <4>3 DEF Running
    <3> QED BY <2>1, <3>4, <3>5, <3>6
  <2> QED BY <1>e, <2>1, <2>2
<1>6. CASE RecordRun \/ UNCHANGED flowVars
  BY <1>6, <1>d, <1>e DEF RecordRun, flowVars, Running
<1> QED BY <1>1, <1>2, <1>3, <1>4, <1>5, <1>6 DEF FlowNext

\* A caller that stops before submit_application gets a run that never goes past
\* it, in any flow, and a success of a shipped flow is the boundary.
THEOREM FlowSubmitStopsRun == FlowSpec => []SubmitStopsRun
<1>1. StopInv => SubmitStopsRun BY DEF StopInv
<1> QED BY <1>1, FlowInvInit, FlowInvStep, StopInvInit, StopInvStep, PTL DEF FlowSpec
=============================================================================
