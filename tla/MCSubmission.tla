---------------------------- MODULE MCSubmission ----------------------------
(***************************************************************************)
(* The components a submission passes and which share no state, in one     *)
(* model for TLC: the pipeline run that prepares it, the browser flow that *)
(* walks its form and the release gate.  A behaviour picks one of them,    *)
(* and the others stay in an initial state, so that the states of the      *)
(* model are the sum of theirs.                                            *)
(***************************************************************************)
EXTENDS FlowRunner, ReleaseGate, Intake, TLC

CONSTANTS r1, r2

-----------------------------------------------------------------------------
\* Flows besides the shipped ones: one that returns to its entry and two whose
\* transition leads nowhere.
MCResults(to) == FormState("results", {}, <<Act("open_job", "job_card")>>, to, FALSE)
MCCyclic == [entry |-> "search_results", states |->
  [s \in {"search_results", "job_details"} |->
     [MCResults(Goes("open_job", IF s = "job_details" THEN "search_results" ELSE "job_details"))
        EXCEPT !.guards = {"vacancy_is_active"}]]]
MCOther == {MCCyclic} \cup
  {[entry |-> "search_results", states |-> [s \in {"search_results"} |-> MCResults(to)]] :
     to \in {Nowhere, Goes("open_job", "job_details")}}

\* Two vacancies, the second a copy of the first under another address, of
\* another role, one that does not fit, or one no draft can be made of; the second may be edited.
MCPosting(url, text, role, company) ==
  [url |-> url, text |-> text, role |-> role, company |-> company,
   fits |-> TRUE, draftable |-> TRUE]
MCListing == <<"first", "second">>
MCShown == {[v \in {"first", "second"} |-> IF v = "first" THEN MCPosting(1, 1, 1, 1) ELSE p] :
  p \in {MCPosting(2, 1, 1, 1), MCPosting(2, 2, 2, 1),
         [MCPosting(2, 2, 2, 1) EXCEPT !.fits = FALSE],
         [MCPosting(2, 2, 2, 1) EXCEPT !.draftable = FALSE]}}
MCRevisions == {[of |-> "second", to |-> MCPosting(1, 3, 2, 2)]}

RunSymmetry == Permutations(PipelineRuns)

-----------------------------------------------------------------------------
VARIABLE part

MCInit ==
  /\ part \in {"flow", "gate", "intake"}
  /\ part # "flow" => flowInput = CHOOSE i \in FlowInputs : TRUE
  /\ FlowInit
  /\ GateInit
  /\ part # "gate" => ledger = [v \in {"api", "db"} |-> Kept]
  /\ part # "intake" => shown = (CHOOSE f \in FirstShown : TRUE) /\ inMode = "review_first"
  /\ IntakeInit

MCNext ==
  /\ \/ part = "flow" /\ FlowNext /\ UNCHANGED <<gateVars, intakeVars>>
     \/ part = "gate" /\ GateNext /\ UNCHANGED <<flowVars, intakeVars>>
     \/ part = "intake" /\ IntakeNext /\ UNCHANGED <<flowVars, gateVars>>
  /\ UNCHANGED part

MCSpec == MCInit /\ [][MCNext]_<<part, flowVars, gateVars, intakeVars>>
=============================================================================
