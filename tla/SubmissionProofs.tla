-------------------------- MODULE SubmissionProofs --------------------------
(***************************************************************************)
(* Proofs about the pipeline that prepares submissions (Intake) and the    *)
(* gate that lets them be sent (ReleaseGate), for any vacancies, runs,     *)
(* postings, limits and evidence.                                          *)
(***************************************************************************)
EXTENDS Intake, ReleaseGate, FiniteSetTheorems, TLAPS

-----------------------------------------------------------------------------
(* Types of the pipeline.                                                  *)

RunStates ==
  [pc : {"idle", "fetching", "preparing"}, at : Nat, job : Postings \cup {NotStored},
   dedup : DedupStatuses, answer : ProviderAnswers]
AppliedSpace == [vacancy : IntakeVacancies, record : Applications]
AskSpace == [vacancy : IntakeVacancies, draft : Postings, status : {"pending", "approved"}]

RunShape(run) ==
  /\ run \in RunStates
  /\ run.pc # "idle" => run.at \in DOMAIN Listing
  /\ run.pc = "preparing" => run.job \in Postings

\* Runs stand at an entry of the listing, and an application is alone with its
\* vacancy.
Shape ==
  /\ shown \in [IntakeVacancies -> Postings]
  /\ stored \in [Copies -> [IntakeVacancies -> Postings \cup {NotStored}]]
  /\ health \in ProviderAnswers \cup {"unknown"}
  /\ applied \subseteq AppliedSpace /\ IsFiniteSet(applied)
  /\ \A a, b \in applied : a.vacancy = b.vacancy => a = b
  /\ asks \subseteq AskSpace
  /\ runs \in [PipelineRuns -> RunStates]
  /\ \A r \in PipelineRuns : RunShape(runs[r])
  /\ inMode \in IntakeModes /\ inClock \in 0..IntakeHorizon

LEMMA ListingEntry ==
  /\ Len(Listing) \in Nat /\ DOMAIN Listing = 1..Len(Listing)
  /\ \A i \in DOMAIN Listing : Listing[i] \in IntakeVacancies
  BY ListingAssumption

LEMMA IdleShape ==
  /\ RunShape(IdleRun) /\ IdleRun.pc = "idle"
  BY DEF RunShape, IdleRun, RunStates, ProviderAnswers, DedupStatuses

LEMMA FetchingShape ==
  ASSUME NEW i \in DOMAIN Listing, NEW answer \in ProviderAnswers
  PROVE  RunShape(Fetching(i, answer)) /\ Fetching(i, answer).pc = "fetching"
  BY ListingEntry DEF RunShape, Fetching, RunStates, DedupStatuses

LEMMA FirstPostings ==
  \A f \in FirstShown : f \in [IntakeVacancies -> Postings]
<1> SUFFICES ASSUME NEW f \in FirstShown PROVE f \in [IntakeVacancies -> Postings]
  OBVIOUS
<1>1. \A v \in IntakeVacancies : f[v] \in Postings BY DEF Postings
<1> QED BY <1>1, ListingAssumption

LEMMA IntakeInitShape == IntakeInit => Shape
<1> SUFFICES ASSUME IntakeInit PROVE Shape
  OBVIOUS
<1>1. shown \in [IntakeVacancies -> Postings] BY FirstPostings DEF IntakeInit
<1>2. stored \in [Copies -> [IntakeVacancies -> Postings \cup {NotStored}]]
  BY DEF IntakeInit
<1>3. IsFiniteSet(applied) BY FS_EmptySet DEF IntakeInit
<1>4. runs \in [PipelineRuns -> RunStates] /\ \A r \in PipelineRuns : RunShape(runs[r])
  BY IdleShape DEF IntakeInit, RunShape
<1>5. inClock \in 0..IntakeHorizon BY IntakeAssumption DEF IntakeInit
<1> QED BY <1>1, <1>2, <1>3, <1>4, <1>5 DEF IntakeInit, Shape

\* One run moves to a state of its own.
LEMMA RunMoves ==
  ASSUME Shape, NEW r \in PipelineRuns, NEW run, RunShape(run),
         runs' = [runs EXCEPT ![r] = run]
  PROVE  /\ runs' \in [PipelineRuns -> RunStates]
         /\ \A s \in PipelineRuns : RunShape(runs'[s])
         /\ runs'[r] = run /\ \A s \in PipelineRuns \ {r} : runs'[s] = runs[s]
  BY DEF Shape, RunShape

LEMMA Advanced ==
  ASSUME Shape, NEW r \in PipelineRuns, runs[r].pc # "idle", Advance(r)
  PROVE  /\ runs' \in [PipelineRuns -> RunStates]
         /\ \A s \in PipelineRuns : RunShape(runs'[s])
         /\ runs'[r].pc # "preparing"
         /\ \A s \in PipelineRuns \ {r} : runs'[s] = runs[s]
<1> DEFINE next == Fetching(runs[r].at + 1, runs[r].answer)
           run == IF runs[r].at = Len(Listing) THEN IdleRun ELSE next
<1>1. runs' = [runs EXCEPT ![r] = run] BY DEF Advance, Shape
<1>2. runs[r].at \in 1..Len(Listing) /\ Len(Listing) \in Nat /\ runs[r].answer \in ProviderAnswers
  BY ListingEntry DEF Shape, RunShape, RunStates
<1>3. CASE runs[r].at = Len(Listing)
  <2>1. run = IdleRun BY <1>3
  <2> QED BY <1>1, <2>1, IdleShape, RunMoves
<1>4. CASE runs[r].at # Len(Listing)
  <2>1. run = next BY <1>4
  <2>2. runs[r].at + 1 \in DOMAIN Listing BY <1>2, <1>4, ListingEntry
  <2>3. RunShape(next) /\ next.pc = "fetching" BY <1>2, <2>2, FetchingShape
  <2> HIDE DEF next
  <2> QED BY <1>1, <2>1, <2>3, RunMoves
<1> QED BY <1>3, <1>4

-----------------------------------------------------------------------------
(* Every step keeps the types.                                             *)

LEMMA StartKeepsShape ==
  ASSUME Shape, NEW r \in PipelineRuns, NEW answer \in ProviderAnswers,
         NEW listed \in BOOLEAN, StartRun(r, answer, listed)
  PROVE  Shape'
<1> DEFINE run == IF answer = "blocked" \/ ~listed \/ Listing = <<>> THEN IdleRun
                  ELSE Fetching(1, answer)
<1>2. runs' = [runs EXCEPT ![r] = run] BY DEF StartRun
<1>3. RunShape(run)
  <2>1. CASE Listing = <<>> BY <2>1, IdleShape
  <2>2. CASE Listing # <<>>
    <3>1. 1 \in DOMAIN Listing
      <4>1. Len(Listing) # 0 BY <2>2, ListingAssumption
      <4> QED BY <4>1, ListingEntry
    <3> QED BY <3>1, FetchingShape, IdleShape
  <2> QED BY <2>1, <2>2
<1>4. health' \in ProviderAnswers \cup {"unknown"} BY DEF StartRun
<1>5. UNCHANGED <<shown, stored, applied, asks, openReviews, inMode, inClock, revised>>
  BY DEF StartRun
<1> HIDE DEF run
<1>6. runs' \in [PipelineRuns -> RunStates] /\ \A s \in PipelineRuns : RunShape(runs'[s])
  BY <1>2, <1>3, RunMoves
<1> QED BY <1>4, <1>5, <1>6 DEF Shape, RunShape

\* What a step leaves alone of the pipeline, and what it does to its runs.
LEMMA RunsKeepShape ==
  ASSUME Shape, UNCHANGED <<shown, stored, health, applied, asks, inMode, inClock>>,
         runs' \in [PipelineRuns -> RunStates], \A s \in PipelineRuns : RunShape(runs'[s])
  PROVE  Shape'
  BY DEF Shape, RunShape

LEMMA MeetKeepsShape ==
  ASSUME Shape, NEW r \in PipelineRuns, MeetVacancy(r)
  PROVE  Shape'
<1> DEFINE v == Listing[runs[r].at]
           p == shown[v]
           dedup == DedupDecision(p, OtherJobs(v))
           met == [runs[r] EXCEPT !.pc = "preparing", !.job = p, !.dedup = dedup]
<1>1. runs[r].pc = "fetching" /\ v \in IntakeVacancies
  BY ListingEntry DEF MeetVacancy, Shape, RunShape
<1>2. p \in Postings BY <1>1 DEF Shape
<1>3. stored' \in [Copies -> [IntakeVacancies -> Postings \cup {NotStored}]]
  <2>1. stored' = [c \in Copies |-> [stored[c] EXCEPT ![v] = p]] BY DEF MeetVacancy
  <2>2. ASSUME NEW c \in Copies
        PROVE  [stored[c] EXCEPT ![v] = p] \in [IntakeVacancies -> Postings \cup {NotStored}]
    BY <1>1, <1>2 DEF Shape
  <2> QED BY <2>1, <2>2
<1>4. UNCHANGED <<shown, health, applied, asks, inMode, inClock>> BY DEF MeetVacancy
<1>5. runs' \in [PipelineRuns -> RunStates] /\ \A s \in PipelineRuns : RunShape(runs'[s])
  <2>1. CASE Advance(r) BY <2>1, <1>1, Advanced
  <2>2. CASE runs' = [runs EXCEPT ![r].pc = "preparing", ![r].job = p, ![r].dedup = dedup]
    <3>1. runs' = [runs EXCEPT ![r] = met] BY <2>2 DEF Shape
    <3>2. dedup \in DedupStatuses BY DEF DedupDecision, DedupStatuses
    <3> HIDE DEF dedup
    <3>3. runs[r] \in RunStates /\ runs[r].at \in DOMAIN Listing
      BY <1>1 DEF Shape, RunShape
    <3> HIDE DEF p
    <3>4. met \in RunStates /\ met.pc = "preparing" /\ met.job = p /\ met.at = runs[r].at
      BY <3>2, <3>3, <1>2 DEF RunStates
    <3>5. RunShape(met) BY <3>3, <3>4, <1>2 DEF RunShape
    <3> HIDE DEF met
    <3> QED BY <3>1, <3>5, RunMoves
  <2> QED BY <2>1, <2>2 DEF MeetVacancy
<1> QED BY <1>3, <1>4, <1>5 DEF Shape, RunShape

\* The draft of an application is fixed when it is created; what createApplication
\* returns is stored.
LEMMA ExistingIsStored ==
  ASSUME Shape, NEW v \in IntakeVacancies, NEW new \in AppliedSpace, new.vacancy = v,
         NEW more, more = NoneYet(v, {new})
  PROVE  /\ Existing(v, new) \in applied \cup more
         /\ Existing(v, new).vacancy = v /\ Existing(v, new) \in AppliedSpace
<1>1. CASE \E a \in applied : a.vacancy = v
  <2>1. Existing(v, new) \in applied /\ Existing(v, new).vacancy = v
    BY <1>1 DEF Existing
  <2> QED BY <2>1 DEF Shape
<1>2. CASE ~\E a \in applied : a.vacancy = v
  <2>1. Existing(v, new) = new /\ more = {new} BY <1>2 DEF Existing, NoneYet
  <2> QED BY <2>1
<1> QED BY <1>1, <1>2

\* What a dry run that returns makes of its run: DryRunReturns, its new application.
NewApplication(r, dry) ==
  [vacancy |-> Listing[runs[r].at], record |->
     [status |-> StatusOf(Verdict(r, dry)), at |-> inClock, draft |-> runs[r].job]]

LEMMA NewApplicationShape ==
  ASSUME Shape, NEW r \in PipelineRuns, NEW dry \in DryRuns, runs[r].pc = "preparing"
  PROVE  /\ NewApplication(r, dry) \in AppliedSpace
         /\ Listing[runs[r].at] \in IntakeVacancies
<1>1. Listing[runs[r].at] \in IntakeVacancies BY ListingEntry DEF Shape, RunShape
<1>2. runs[r].job \in Postings BY DEF Shape, RunShape
<1>3. StatusOf(Verdict(r, dry)) \in ApplicationStatuses
  BY DEF StatusOf, ApplicationStatuses, CountedStatuses
<1>4. inClock \in 0..IntakeHorizon BY DEF Shape
<1> QED BY <1>1, <1>2, <1>3, <1>4 DEF NewApplication, AppliedSpace, Applications

LEMMA DryRunKeepsShape ==
  ASSUME Shape, NEW r \in PipelineRuns, NEW dry \in DryRuns, DryRunReturns(r, dry)
  PROVE  Shape'
<1> DEFINE v == Listing[runs[r].at]
           new == NewApplication(r, dry)
<1>1. runs[r].pc = "preparing" BY DEF DryRunReturns
<1>2. new \in AppliedSpace /\ new.vacancy = v /\ v \in IntakeVacancies
  BY <1>1, NewApplicationShape DEF NewApplication
<1>3. applied' = applied \cup NoneYet(v, {new}) BY DEF DryRunReturns, NewApplication
<1>4. \/ asks' = asks
      \/ asks' = asks \cup {Asked(v, new)}
  BY DEF DryRunReturns, NewApplication
<1>5. runs' \in [PipelineRuns -> RunStates] /\ \A s \in PipelineRuns : RunShape(runs'[s])
  BY <1>1, Advanced DEF DryRunReturns
<1>6. health' \in ProviderAnswers \cup {"unknown"}
  BY DEF DryRunReturns, Shape, ProviderAnswers
<1>7. UNCHANGED <<shown, stored, inMode, inClock, revised>> BY DEF DryRunReturns
<1> HIDE DEF new, v
<1>8. applied' \subseteq AppliedSpace BY <1>2, <1>3 DEF Shape, NoneYet
<1>9. IsFiniteSet(applied')
  <2>1. applied' = applied \/ applied' = applied \cup {new} BY <1>3 DEF NoneYet
  <2>2. IsFiniteSet(applied \cup {new}) BY FS_AddElement DEF Shape
  <2> QED BY <2>1, <2>2 DEF Shape
<1>10. \A a, b \in applied' : a.vacancy = b.vacancy => a = b
  BY <1>2, <1>3 DEF Shape, NoneYet
<1>11. asks' \subseteq AskSpace
  <2>1. Existing(v, new) \in AppliedSpace BY <1>2, ExistingIsStored
  <2>2. Asked(v, new) \in AskSpace
    <3>1. Existing(v, new).record.draft \in Postings BY <2>1 DEF AppliedSpace, Applications
    <3> QED BY <3>1, <1>2 DEF Asked, AskSpace
  <2> QED BY <2>2, <1>4 DEF Shape
<1> QED BY <1>5, <1>6, <1>7, <1>8, <1>9, <1>10, <1>11 DEF Shape, RunShape

\* An approval gives the application a status and a time stamp.
LEMMA ApprovalRestamps ==
  ASSUME Shape, NEW q \in asks, NEW a \in applied, NEW queued \in BOOLEAN,
         ApproveAsk(q, a, queued)
  PROVE  \E status \in CountedStatuses :
           /\ applied' = (applied \ {a}) \cup {Stamped(a, status)}
           /\ Stamped(a, status) \in AppliedSpace
           /\ status = "apply_queued" => queued
<1> DEFINE status == IF queued THEN "apply_queued" ELSE "manual_review_required"
<1>1. status \in CountedStatuses /\ (status = "apply_queued" => queued)
  BY DEF CountedStatuses
<1>2. applied' = (applied \ {a}) \cup {Stamped(a, status)}
  BY DEF ApproveAsk, Restamped
<1> HIDE DEF status
<1>3. a \in AppliedSpace /\ inClock \in 0..IntakeHorizon BY DEF Shape
<1>5. Stamped(a, status) \in AppliedSpace
  BY <1>1, <1>3 DEF AppliedSpace, Applications, Stamped, ApplicationStatuses
<1> QED BY <1>1, <1>2, <1>5

LEMMA ApprovalKeepsShape ==
  ASSUME Shape, NEW q \in asks, NEW a \in applied, NEW queued \in BOOLEAN,
         ApproveAsk(q, a, queued)
  PROVE  Shape'
<1>1. PICK status \in CountedStatuses :
        /\ applied' = (applied \ {a}) \cup {Stamped(a, status)}
        /\ Stamped(a, status) \in AppliedSpace
  BY ApprovalRestamps
<1>2. applied' \subseteq AppliedSpace BY <1>1 DEF Shape
<1>3. IsFiniteSet(applied')
  <2>1. IsFiniteSet(applied \ {a}) BY FS_Difference DEF Shape
  <2> QED BY <1>1, <2>1, FS_AddElement
<1>4. \A b, c \in applied' : b.vacancy = c.vacancy => b = c
  BY <1>1 DEF Shape, Stamped
<1>5. asks' \subseteq AskSpace
  <2>1. asks' = (asks \ {q}) \cup {[q EXCEPT !.status = "approved"]} BY DEF ApproveAsk
  <2>2. q \in AskSpace BY DEF Shape
  <2>3. [q EXCEPT !.status = "approved"] \in AskSpace BY <2>2 DEF AskSpace
  <2> QED BY <2>1, <2>3 DEF Shape
<1>6. UNCHANGED <<shown, stored, health, runs, inMode, inClock>> BY DEF ApproveAsk
<1> QED BY <1>2, <1>3, <1>4, <1>5, <1>6 DEF Shape, RunShape

\* The rest of the steps: the ingest worker, the site, a restart, time, modes.
LEMMA SurroundingsKeepShape ==
  ASSUME Shape,
         \/ \E r \in PipelineRuns : FetchFails(r)
         \/ \E v \in IntakeVacancies : IngestVacancy(v)
         \/ \E q \in asks : RejectAsk(q)
         \/ \E m \in IntakeModes : PutInMode(m)
         \/ \E x \in Revisions : Revise(x)
         \/ IntakeRestarts \/ IntakeTick
  PROVE  Shape'
<1>1. CASE \E r \in PipelineRuns : FetchFails(r)
  <2> PICK r \in PipelineRuns : FetchFails(r) BY <1>1
  <2>1. runs' \in [PipelineRuns -> RunStates] /\ \A s \in PipelineRuns : RunShape(runs'[s])
    BY Advanced DEF FetchFails
  <2> QED BY <2>1, RunsKeepShape DEF FetchFails
<1>2. CASE \E v \in IntakeVacancies : IngestVacancy(v)
  <2> PICK v \in IntakeVacancies : IngestVacancy(v) BY <1>2
  <2>1. stored' \in [Copies -> [IntakeVacancies -> Postings \cup {NotStored}]]
    BY DEF IngestVacancy, Shape, Copies
  <2> QED BY <2>1 DEF IngestVacancy, Shape, RunShape
<1>3. CASE \E q \in asks : RejectAsk(q)
  BY <1>3 DEF RejectAsk, Shape, RunShape
<1>4. CASE \E m \in IntakeModes : PutInMode(m)
  BY <1>4 DEF PutInMode, Shape, RunShape
<1>5. CASE \E x \in Revisions : Revise(x)
  <2> PICK x \in Revisions : Revise(x) BY <1>5
  <2>1. shown' = [shown EXCEPT ![x.of] = x.to] /\ x.to \in Postings BY DEF Revise, Postings
  <2>2. shown' \in [IntakeVacancies -> Postings] BY <2>1 DEF Shape
  <2> QED BY <2>2 DEF Revise, Shape, RunShape
<1>6. CASE IntakeRestarts
  <2>1. stored' \in [Copies -> [IntakeVacancies -> Postings \cup {NotStored}]]
    BY <1>6 DEF IntakeRestarts, Shape, Copies
  <2>2. runs' \in [PipelineRuns -> RunStates] /\ \A s \in PipelineRuns : RunShape(runs'[s])
    BY <1>6, IdleShape DEF IntakeRestarts, RunShape
  <2> QED BY <1>6, <2>1, <2>2 DEF IntakeRestarts, Shape, RunShape
<1>7. CASE IntakeTick
  BY <1>7, IntakeAssumption DEF IntakeTick, Shape, RunShape
<1> QED BY <1>1, <1>2, <1>3, <1>4, <1>5, <1>6, <1>7

LEMMA IntakeStepKeepsShape == Shape /\ [IntakeNext]_intakeVars => Shape'
<1> SUFFICES ASSUME Shape, [IntakeNext]_intakeVars PROVE Shape'
  OBVIOUS
<1>1. CASE UNCHANGED intakeVars BY <1>1 DEF intakeVars, Shape, RunShape
<1>2. CASE IntakeNext
  BY <1>2, StartKeepsShape, MeetKeepsShape, DryRunKeepsShape, ApprovalKeepsShape,
     SurroundingsKeepShape DEF IntakeNext
<1> QED BY <1>1, <1>2

\* Jobs, health, applications and runs stay what the pipeline makes of them, and
\* a vacancy has at most one application.
THEOREM IntakeTypes == IntakeSpec => []IntakeTypeOK
<1>1. Shape => IntakeTypeOK
  BY DEF Shape, RunShape, RunStates, IntakeTypeOK, AppliedSpace
<1> QED BY <1>1, IntakeInitShape, IntakeStepKeepsShape, PTL DEF IntakeSpec
-----------------------------------------------------------------------------
(* Requests follow their applications.                                     *)

\* Every request, approved or not, is about the text its application holds.
AsksHeld ==
  \A q \in asks : \E a \in applied : a.vacancy = q.vacancy /\ a.record.draft = q.draft

LEMMA StepKeepsAsks == Shape /\ AsksHeld /\ [IntakeNext]_intakeVars => AsksHeld'
<1> SUFFICES ASSUME Shape, AsksHeld, [IntakeNext]_intakeVars PROVE AsksHeld'
  OBVIOUS
<1>1. ASSUME applied' = applied, asks' \subseteq asks PROVE AsksHeld'
  BY <1>1 DEF AsksHeld
<1>2. ASSUME NEW r \in PipelineRuns, NEW dry \in DryRuns, DryRunReturns(r, dry)
      PROVE  AsksHeld'
  <2> DEFINE v == Listing[runs[r].at]
             new == NewApplication(r, dry)
  <2>1. runs[r].pc = "preparing" BY <1>2 DEF DryRunReturns
  <2>2. new \in AppliedSpace /\ new.vacancy = v /\ v \in IntakeVacancies
    BY <2>1, NewApplicationShape DEF NewApplication
  <2>3. applied' = applied \cup NoneYet(v, {new})
    BY <1>2 DEF DryRunReturns, NewApplication
  <2>4. asks' \subseteq asks \cup {Asked(v, new)}
    BY <1>2 DEF DryRunReturns, NewApplication
  <2> HIDE DEF new, v
  <2>5. Existing(v, new) \in applied' /\ Existing(v, new).vacancy = v
    BY <2>2, <2>3, ExistingIsStored
  <2> QED BY <2>3, <2>4, <2>5 DEF AsksHeld, Asked
<1>3. ASSUME NEW q \in asks, NEW a \in applied, NEW queued \in BOOLEAN,
             ApproveAsk(q, a, queued)
      PROVE  AsksHeld'
  <2>1. PICK status \in CountedStatuses :
          applied' = (applied \ {a}) \cup {Stamped(a, status)}
    BY <1>3, ApprovalRestamps
  <2>2. asks' = (asks \ {q}) \cup {[q EXCEPT !.status = "approved"]}
    BY <1>3 DEF ApproveAsk
  <2>3. Stamped(a, status).vacancy = a.vacancy /\ Stamped(a, status).record.draft = a.record.draft
    BY DEF Stamped
  <2>4. ASSUME NEW b \in applied
        PROVE  \E c \in applied' : c.vacancy = b.vacancy /\ c.record.draft = b.record.draft
    BY <2>1, <2>3
  <2>5. q \in AskSpace BY DEF Shape
  <2>6. \A s \in asks' : \E x \in asks : s.vacancy = x.vacancy /\ s.draft = x.draft
    BY <2>2, <2>5 DEF AskSpace
  <2> QED BY <2>4, <2>6 DEF AsksHeld
<1>4. CASE UNCHANGED intakeVars BY <1>4, <1>1 DEF intakeVars
<1>5. CASE IntakeNext
  BY <1>5, <1>1, <1>2, <1>3 DEF IntakeNext, StartRun, FetchFails, MeetVacancy, IngestVacancy,
     RejectAsk, PutInMode, Revise, IntakeRestarts, IntakeTick
<1> QED BY <1>4, <1>5

\* A pending approval request can be approved: its draft is the one its
\* application holds, though runs of the pipeline draft the vacancy again.
THEOREM AsksStayApprovable == IntakeSpec => []AsksApprovable
<1>1. IntakeInit => AsksHeld BY DEF IntakeInit, AsksHeld
<1>2. AsksHeld => AsksApprovable BY DEF AsksHeld, AsksApprovable
<1> QED BY <1>1, <1>2, IntakeInitShape, IntakeStepKeepsShape, StepKeepsAsks, PTL DEF IntakeSpec

-----------------------------------------------------------------------------
(* Rate limits when an application appears.                                *)

LEMMA VerdictAsksLimits ==
  ASSUME NEW r, NEW dry, StatusOf(Verdict(r, dry)) \in CountedStatuses
  PROVE  Room(Prepared, runs[r].job, inClock)
<1> DEFINE in == [action |-> "send_application", mode |-> inMode, keyed |-> TRUE,
                 proofReady |-> TRUE, valid |-> dry = "passed",
                 provider |-> runs[r].answer, rate |-> Room(Prepared, runs[r].job, inClock),
                 consent |-> TRUE, shortlisted |-> TRUE, new |-> runs[r].dedup = "new",
                 irreversible |-> IrreversibleOn]
<1>1. Verdict(r, dry) = PolicyVerdict(in) BY DEF Verdict
<1>2. in.rate = Room(Prepared, runs[r].job, inClock) OBVIOUS
<1> HIDE DEF in
<1>3. PolicyVerdict(in) # "deny" BY <1>1 DEF StatusOf, CountedStatuses
<1>4. CommonChecks(in) BY <1>3 DEF PolicyVerdict
<1> QED BY <1>2, <1>4 DEF CommonChecks

LEMMA StepFindsRoom ==
  Shape /\ [IntakeNext]_intakeVars =>
    [\A a \in applied' \ applied :
       a.record.status \in CountedStatuses /\ (\A b \in applied : b.vacancy # a.vacancy) =>
         Room(Prepared, a.record.draft, inClock)]_intakeVars
<1> DEFINE Fresh == \A a \in applied' \ applied :
       a.record.status \in CountedStatuses /\ (\A b \in applied : b.vacancy # a.vacancy) =>
         Room(Prepared, a.record.draft, inClock)
<1> SUFFICES ASSUME Shape, IntakeNext PROVE Fresh
  OBVIOUS
<1>1. ASSUME applied' = applied PROVE Fresh BY <1>1
<1>2. ASSUME NEW r \in PipelineRuns, NEW dry \in DryRuns, DryRunReturns(r, dry)
      PROVE  Fresh
  <2>1. applied' \subseteq applied \cup {NewApplication(r, dry)}
    BY <1>2 DEF DryRunReturns, NewApplication, NoneYet
  <2>2. /\ NewApplication(r, dry).record.status = StatusOf(Verdict(r, dry))
        /\ NewApplication(r, dry).record.draft = runs[r].job
    BY DEF NewApplication
  <2> QED BY <2>1, <2>2, VerdictAsksLimits
<1>3. ASSUME NEW q \in asks, NEW a \in applied, NEW queued \in BOOLEAN,
             ApproveAsk(q, a, queued)
      PROVE  Fresh
  <2>1. PICK status \in CountedStatuses :
          applied' = (applied \ {a}) \cup {Stamped(a, status)}
    BY <1>3, ApprovalRestamps
  <2>2. Stamped(a, status).vacancy = a.vacancy BY DEF Stamped
  <2> QED BY <2>1, <2>2
<1> HIDE DEF Fresh
<1> QED
  BY <1>1, <1>2, <1>3 DEF IntakeNext, StartRun, FetchFails, MeetVacancy, IngestVacancy,
     RejectAsk, PutInMode, Revise, IntakeRestarts, IntakeTick

\* An application that appears and counts against the limits finds room among
\* those prepared before it, with the clock of that moment.
THEOREM PreparedWithRoom == IntakeSpec => RoomWhenPrepared
BY IntakeInitShape, IntakeStepKeepsShape, StepFindsRoom, PTL DEF IntakeSpec, RoomWhenPrepared
-----------------------------------------------------------------------------
(* Copies of a vacancy.                                                    *)

\* A vacancy is engaged once a run prepares it or it has an application.
Preparing(v) == \E r \in PipelineRuns : runs[r].pc = "preparing" /\ Listing[runs[r].at] = v
HasApplication(v) == \E a \in applied : a.vacancy = v
Engaged == {v \in IntakeVacancies : Preparing(v) \/ HasApplication(v)}

Differ(p, q) == p.url # q.url /\ p.text # q.text /\ p.role # q.role

\* What is engaged and was not changed is stored as it is shown, in both copies,
\* and no two of them share a key.  A run that meets a vacancy compares it with
\* what is stored, so with all that is engaged.
TwinsApart ==
  /\ \A v \in Engaged \ revised, c \in Copies : stored[c][v] = shown[v]
  /\ \A v, w \in Engaged \ revised : v # w => Differ(shown[v], shown[w])

\* A step that engages nothing and leaves alone what is stored of the engaged.
LEMMA NothingEngaged ==
  ASSUME TwinsApart, Engaged' \subseteq Engaged, revised \subseteq revised',
         \A v \in Engaged \ revised' : shown'[v] = shown[v],
         \A v \in Engaged \ revised', c \in Copies : stored'[c][v] = stored[c][v]
  PROVE  TwinsApart'
<1>1. Engaged' \ revised' \subseteq Engaged \ revised OBVIOUS
<1> QED BY <1>1 DEF TwinsApart

LEMMA RunsLeave ==
  ASSUME \A r \in PipelineRuns : runs'[r] = runs[r] \/ runs'[r].pc # "preparing",
         \A a \in applied' : \E b \in applied : b.vacancy = a.vacancy
  PROVE  Engaged' \subseteq Engaged
<1>1. ASSUME NEW v \in IntakeVacancies, Preparing(v)' PROVE Preparing(v)
  BY <1>1 DEF Preparing
<1>2. ASSUME NEW v \in IntakeVacancies, HasApplication(v)' PROVE HasApplication(v)
  BY <1>2 DEF HasApplication
<1> QED BY <1>1, <1>2 DEF Engaged

\* What decides "new" tells the posting from every other stored job.
LEMMA NewDiffers ==
  ASSUME Shape, NEW v \in IntakeVacancies, NEW p, DedupDecision(p, OtherJobs(v)) = "new",
         NEW w \in IntakeVacancies \ {v}, stored["api"][w] # NotStored
  PROVE  Differ(p, stored["api"][w])
<1>1. stored["api"][w] \in OtherJobs(v) BY DEF OtherJobs
<1>2. ~\E q \in OtherJobs(v) : q.url = p.url
  BY DEF DedupDecision
<1>3. \A q \in OtherJobs(v) : q.url # p.url /\ q.text # p.text /\ q.role # p.role
  BY <1>2 DEF DedupDecision
<1> QED BY <1>1, <1>3 DEF Differ

LEMMA MeetKeepsApart ==
  ASSUME Shape, TwinsApart, NEW r \in PipelineRuns, MeetVacancy(r)
  PROVE  TwinsApart'
<1> DEFINE v == Listing[runs[r].at]
           p == shown[v]
<1>1. v \in IntakeVacancies /\ p \in Postings
  BY ListingEntry DEF MeetVacancy, Shape, RunShape
<1>2. UNCHANGED <<shown, applied, revised>> BY DEF MeetVacancy
<1>3. \A c \in Copies, w \in IntakeVacancies :
        stored'[c][w] = IF w = v THEN shown[v] ELSE stored[c][w]
  BY DEF MeetVacancy, Shape
<1>4. CASE Advance(r)
  <2>1. runs[r].pc # "idle" BY DEF MeetVacancy
  <2>2. \A s \in PipelineRuns : runs'[s] = runs[s] \/ runs'[s].pc # "preparing"
    BY <2>1, <1>4, Advanced
  <2>3. Engaged' \subseteq Engaged BY <1>2, <2>2, RunsLeave
  <2>4. \A w \in Engaged \ revised', c \in Copies : stored'[c][w] = stored[c][w]
    BY <1>2, <1>3 DEF TwinsApart, Engaged
  <2> QED BY <1>2, <2>3, <2>4, NothingEngaged
<1>5. CASE ~Advance(r)
  <2>1. /\ DedupDecision(p, OtherJobs(v)) = "new"
        /\ runs' = [runs EXCEPT ![r].pc = "preparing", ![r].job = p,
                                ![r].dedup = DedupDecision(p, OtherJobs(v))]
    BY <1>5 DEF MeetVacancy
  <2>2. \A s \in PipelineRuns \ {r} : runs'[s] = runs[s] BY <2>1 DEF Shape
  <2>3. runs'[r].at = runs[r].at BY <2>1 DEF Shape, RunStates
  <2>4. Engaged' \subseteq Engaged \cup {v}
    <3>1. ASSUME NEW w \in IntakeVacancies, Preparing(w)', w # v PROVE Preparing(w)
      BY <3>1, <2>2, <2>3 DEF Preparing
    <3>2. ASSUME NEW w \in IntakeVacancies, HasApplication(w)' PROVE HasApplication(w)
      BY <3>2, <1>2 DEF HasApplication
    <3> QED BY <3>1, <3>2 DEF Engaged
  <2>5. \A w \in Engaged' \ revised', c \in Copies : stored'[c][w] = shown'[w]
    BY <2>4, <1>1, <1>2, <1>3 DEF TwinsApart, Engaged
  <2>6. ASSUME NEW w \in Engaged \ revised, w # v PROVE Differ(p, shown[w])
    <3>1. w \in IntakeVacancies /\ stored["api"][w] = shown[w] /\ shown[w] \in Postings
      BY <2>6 DEF Engaged, TwinsApart, Copies, Shape
    <3>2. stored["api"][w] # NotStored BY <3>1, ListingAssumption
    <3> QED BY <2>1, <2>6, <3>1, <3>2, <1>1, NewDiffers
  <2> HIDE DEF v
  <2>7. \A w, x \in Engaged' \ revised' : w # x => Differ(shown'[w], shown'[x])
    BY <2>4, <2>6, <1>2 DEF TwinsApart, Differ
  <2> QED BY <2>5, <2>7 DEF TwinsApart
<1> QED BY <1>4, <1>5

LEMMA DryRunKeepsApart ==
  ASSUME Shape, TwinsApart, NEW r \in PipelineRuns, NEW dry \in DryRuns, DryRunReturns(r, dry)
  PROVE  TwinsApart'
<1>1. runs[r].pc = "preparing" /\ Listing[runs[r].at] \in IntakeVacancies
  BY NewApplicationShape DEF DryRunReturns
<1>2. applied' \subseteq applied \cup {NewApplication(r, dry)}
  BY DEF DryRunReturns, NewApplication, NoneYet
<1>3. NewApplication(r, dry).vacancy = Listing[runs[r].at] BY DEF NewApplication
<1>4. \A s \in PipelineRuns : runs'[s] = runs[s] \/ runs'[s].pc # "preparing"
  BY <1>1, Advanced DEF DryRunReturns
<1>5. Engaged' \subseteq Engaged
  <2>1. ASSUME NEW w \in IntakeVacancies, Preparing(w)' PROVE Preparing(w)
    BY <2>1, <1>4 DEF Preparing
  <2>2. ASSUME NEW w \in IntakeVacancies, HasApplication(w)'
        PROVE  HasApplication(w) \/ Preparing(w)
    BY <2>2, <1>1, <1>2, <1>3 DEF HasApplication, Preparing
  <2> QED BY <2>1, <2>2 DEF Engaged
<1> QED BY <1>5, NothingEngaged DEF DryRunReturns

LEMMA ApprovalKeepsApart ==
  ASSUME Shape, TwinsApart, NEW q \in asks, NEW a \in applied, NEW queued \in BOOLEAN,
         ApproveAsk(q, a, queued)
  PROVE  TwinsApart'
<1>1. PICK status \in CountedStatuses :
        applied' = (applied \ {a}) \cup {Stamped(a, status)}
  BY ApprovalRestamps
<1>2. \A b \in applied' : \E c \in applied : c.vacancy = b.vacancy BY <1>1 DEF Stamped
<1>3. UNCHANGED <<shown, stored, runs, revised>> BY DEF ApproveAsk
<1>4. Engaged' \subseteq Engaged BY <1>2, <1>3, RunsLeave
<1> QED BY <1>3, <1>4, NothingEngaged

LEMMA StepKeepsApart == Shape /\ TwinsApart /\ [IntakeNext]_intakeVars => TwinsApart'
<1> SUFFICES ASSUME Shape, TwinsApart, [IntakeNext]_intakeVars PROVE TwinsApart'
  OBVIOUS
<1>1. ASSUME UNCHANGED <<shown, stored, applied, revised>>,
             \A r \in PipelineRuns : runs'[r] = runs[r] \/ runs'[r].pc # "preparing"
      PROVE  TwinsApart'
  <2>1. Engaged' \subseteq Engaged BY <1>1, RunsLeave
  <2> QED BY <1>1, <2>1, NothingEngaged
<1>2. CASE UNCHANGED intakeVars BY <1>2, <1>1 DEF intakeVars
<1>3. ASSUME NEW r \in PipelineRuns, NEW answer \in ProviderAnswers, NEW listed \in BOOLEAN,
             StartRun(r, answer, listed)
      PROVE  TwinsApart'
  <2>1. runs' = [runs EXCEPT ![r] = runs'[r]] /\ runs'[r].pc # "preparing"
    BY <1>3 DEF StartRun, Shape, IdleRun, Fetching
  <2>2. \A s \in PipelineRuns : runs'[s] = runs[s] \/ runs'[s].pc # "preparing"
    BY <2>1 DEF Shape
  <2> QED BY <1>3, <2>2, <1>1 DEF StartRun
<1>4. ASSUME NEW r \in PipelineRuns, FetchFails(r) PROVE TwinsApart'
  <2>1. \A s \in PipelineRuns : runs'[s] = runs[s] \/ runs'[s].pc # "preparing"
    BY <1>4, Advanced DEF FetchFails
  <2> QED BY <1>4, <2>1, <1>1 DEF FetchFails
<1>5. ASSUME NEW v \in IntakeVacancies, IngestVacancy(v) PROVE TwinsApart'
  <2>1. UNCHANGED <<shown, applied, runs, revised>> BY <1>5 DEF IngestVacancy
  <2>2. Engaged' \subseteq Engaged BY <2>1, RunsLeave
  <2>3. \A c \in Copies, w \in IntakeVacancies :
          stored'[c][w] = stored[c][w] \/ (w = v /\ stored'[c][w] = shown[v])
    BY <1>5 DEF IngestVacancy, Shape, Copies
  <2>4. \A w \in Engaged \ revised', c \in Copies : stored'[c][w] = stored[c][w]
    BY <2>1, <2>3 DEF TwinsApart, Engaged
  <2> QED BY <2>1, <2>2, <2>4, NothingEngaged
<1>6. ASSUME NEW x \in Revisions, Revise(x) PROVE TwinsApart'
  <2>1. UNCHANGED <<stored, applied, runs>> /\ revised' = revised \cup {x.of}
    BY <1>6 DEF Revise
  <2>2. Engaged' \subseteq Engaged BY <2>1, RunsLeave
  <2>3. \A v \in Engaged \ revised' : shown'[v] = shown[v]
    BY <1>6, <2>1 DEF Revise, Shape, Engaged
  <2> QED BY <2>1, <2>2, <2>3, NothingEngaged
<1>7. CASE IntakeRestarts
  <2>1. UNCHANGED <<shown, applied, revised>> BY <1>7 DEF IntakeRestarts
  <2>2. \A s \in PipelineRuns : runs'[s].pc # "preparing"
    BY <1>7, IdleShape DEF IntakeRestarts
  <2>3. Engaged' \subseteq Engaged BY <2>1, <2>2, RunsLeave
  <2>4. \A c \in Copies : stored'[c] = stored["pg"] \/ stored'[c] = stored[c]
    BY <1>7 DEF IntakeRestarts, Shape, Copies
  <2>5. \A w \in Engaged \ revised', c \in Copies : stored'[c][w] = stored[c][w]
    BY <2>1, <2>4 DEF TwinsApart, Copies
  <2> QED BY <2>1, <2>3, <2>5, NothingEngaged
<1>8. CASE IntakeNext
  BY <1>8, <1>1, <1>3, <1>4, <1>5, <1>6, <1>7, MeetKeepsApart, DryRunKeepsApart,
     ApprovalKeepsApart DEF IntakeNext, RejectAsk, PutInMode, IntakeTick
<1> QED BY <1>2, <1>8

LEMMA NothingEngagedFirst == IntakeInit => TwinsApart
<1> SUFFICES ASSUME IntakeInit PROVE TwinsApart
  OBVIOUS
<1>1. \A r \in PipelineRuns : runs[r].pc # "preparing" BY IdleShape DEF IntakeInit
<1>2. Engaged = {} BY <1>1 DEF IntakeInit, Engaged, Preparing, HasApplication
<1> QED BY <1>2 DEF TwinsApart

\* Of vacancies that did not change, no two that share an address, a text or a
\* role both get an application, whichever process stores them first and however
\* runs overlap.
THEOREM TwinsNeverBothApplied == IntakeSpec => []TwinsAppliedOnce
<1>1. Shape /\ TwinsApart => TwinsAppliedOnce
  <2> SUFFICES ASSUME Shape, TwinsApart, NEW a \in applied, NEW b \in applied, a # b,
                      a.vacancy \notin revised, b.vacancy \notin revised
               PROVE  Differ(shown[a.vacancy], shown[b.vacancy])
    BY DEF TwinsAppliedOnce, Differ
  <2>1. a.vacancy # b.vacancy BY DEF Shape
  <2>2. a.vacancy \in Engaged /\ b.vacancy \in Engaged
    BY DEF Shape, AppliedSpace, Engaged, HasApplication
  <2> QED BY <2>1, <2>2 DEF TwinsApart
<1> QED BY <1>1, NothingEngagedFirst, IntakeInitShape, IntakeStepKeepsShape, StepKeepsApart, PTL
   DEF IntakeSpec
-----------------------------------------------------------------------------
(* Limits of what is sent.                                                 *)

Spans == {HourSpan, DaySpan, WeekSpan}
Window(xs, span, t) == {a \in xs : Within(span, a, t)}
Count(xs, span, t) == Cardinality(Window(xs, span, t))

LEMMA WindowFinite ==
  ASSUME NEW xs, IsFiniteSet(xs), NEW span, NEW t
  PROVE  IsFiniteSet(Window(xs, span, t)) /\ Count(xs, span, t) \in Nat
<1>1. Window(xs, span, t) \subseteq xs BY DEF Window
<1>2. IsFiniteSet(Window(xs, span, t)) BY <1>1, FS_Subset
<1> QED BY <1>2, FS_CardinalityType DEF Count

\* Fewer applications, fewer of them in a window.
LEMMA WindowShrinks ==
  ASSUME NEW xs, IsFiniteSet(xs), NEW ys, ys \subseteq xs, NEW span, NEW t
  PROVE  Count(ys, span, t) <= Count(xs, span, t)
<1>1. Window(ys, span, t) \subseteq Window(xs, span, t) BY DEF Window
<1> QED BY <1>1, WindowFinite, FS_Subset DEF Count

\* An application with the present time stamp is in no earlier window, and in the
\* present one it finds the room that was looked for.
LEMMA WindowAdds ==
  ASSUME NEW xs, IsFiniteSet(xs), NEW new, NEW ys, ys \subseteq xs \cup {new},
         NEW span \in Int, NEW now \in Int, NEW t \in Int, t <= now, new.record.at = now,
         NEW limit \in Int, Count(xs, span, t) <= limit, t = now => Count(xs, span, t) < limit
  PROVE  Count(ys, span, t) <= limit
<1>1. CASE t < now
  <2>1. ~Within(span, new, t) BY <1>1 DEF Within
  <2>2. Window(ys, span, t) \subseteq Window(xs, span, t) BY <2>1 DEF Window
  <2>3. Count(ys, span, t) <= Count(xs, span, t) /\ Count(ys, span, t) \in Nat
    BY <2>2, WindowFinite, FS_Subset, FS_CardinalityType DEF Count
  <2> QED BY <2>3, WindowFinite
<1>2. CASE t = now
  <2> DEFINE W == Window(xs, span, t)
  <2>1. IsFiniteSet(W) /\ Cardinality(W) \in Nat /\ Cardinality(W) < limit
    BY <1>2, WindowFinite DEF Count
  <2>2. Window(ys, span, t) \subseteq W \cup {new} BY DEF Window
  <2> HIDE DEF W
  <2>3. IsFiniteSet(W \cup {new}) /\ Cardinality(W \cup {new}) <= Cardinality(W) + 1
    <3>1. /\ IsFiniteSet(W \cup {new})
          /\ Cardinality(W \cup {new}) = IF new \in W THEN Cardinality(W) ELSE Cardinality(W) + 1
      BY <2>1, FS_AddElement
    <3> QED BY <2>1, <3>1
  <2>4. /\ Count(ys, span, t) <= Cardinality(W \cup {new})
        /\ Count(ys, span, t) \in Nat /\ Cardinality(W \cup {new}) \in Nat
    BY <2>2, <2>3, FS_Subset, FS_CardinalityType DEF Count
  <2> QED BY <2>1, <2>3, <2>4
<1> QED BY <1>1, <1>2

\* When time passes and nothing is sent, the present window only loses.
LEMMA WindowTicks ==
  ASSUME NEW xs, IsFiniteSet(xs), NEW now \in Int, NEW span \in Int,
         \A a \in xs : a.record.at \in Int /\ a.record.at <= now
  PROVE  Count(xs, span, now + 1) <= Count(xs, span, now)
<1>1. Window(xs, span, now + 1) \subseteq Window(xs, span, now) BY DEF Window, Within
<1> QED BY <1>1, WindowFinite, FS_Subset DEF Count

\* The company a vacancy shows, and what was sent to it.
SentTo(k) == {a \in Sent : shown[a.vacancy].company = k}
Companies == {shown[v].company : v \in IntakeVacancies}

\* The limits hold in all windows up to now; stamps are not of the future.
LimitsKept ==
  /\ \A a \in applied : a.record.at <= inClock
  /\ \A t \in 0..inClock : Count(Sent, HourSpan, t) <= PerHour /\ Count(Sent, DaySpan, t) <= PerDay
  /\ revised = {} => \A t \in 0..inClock, k \in Companies :
       /\ Count(SentTo(k), DaySpan, t) <= PerCompanyDay
       /\ Count(SentTo(k), WeekSpan, t) <= PerCompanyWeek

LEMMA LimitNumbers ==
  /\ HourSpan \in Int /\ DaySpan \in Int /\ WeekSpan \in Int
  /\ PerHour \in Nat /\ PerDay \in Nat /\ PerCompanyDay \in Nat /\ PerCompanyWeek \in Nat
  /\ IntakeHorizon \in Nat
  BY IntakeAssumption

LEMMA SentFinite ==
  ASSUME Shape
  PROVE  /\ IsFiniteSet(Sent) /\ Sent \subseteq applied
         /\ \A k : IsFiniteSet(SentTo(k)) /\ SentTo(k) \subseteq Sent
<1>1. Sent \subseteq applied /\ IsFiniteSet(Sent) BY FS_Subset DEF Sent, Shape
<1>2. \A k : SentTo(k) \subseteq Sent BY DEF SentTo
<1> QED BY <1>1, <1>2, FS_Subset

\* Of vacancies that did not change the server knows the company.
LEMMA CompanyKnown ==
  ASSUME Shape, TwinsApart, revised = {}, NEW p, NEW xs, xs \subseteq applied
  PROVE  SameCompany(xs, p) = {a \in xs : shown[a.vacancy].company = p.company}
<1>1. ASSUME NEW a \in xs PROVE stored["api"][a.vacancy] = shown[a.vacancy]
  <2>1. a.vacancy \in Engaged BY DEF Shape, AppliedSpace, Engaged, HasApplication
  <2> QED BY <2>1 DEF TwinsApart, Copies
<1> QED BY <1>1 DEF SameCompany

\* The step that sends: within the limits, as asked of Room.
LEMMA ApprovalKeepsLimits ==
  ASSUME Shape, TwinsApart, LimitsKept, NEW q \in asks, NEW a \in applied,
         NEW queued \in BOOLEAN, ApproveAsk(q, a, queued)
  PROVE  LimitsKept'
<1> DEFINE p == stored["api"][a.vacancy]
           rest == Sent \ {a}
<1>1. PICK status \in CountedStatuses :
        applied' = (applied \ {a}) \cup {Stamped(a, status)}
  BY ApprovalRestamps
<1> DEFINE new == Stamped(a, status)
<1>2. new.vacancy = a.vacancy /\ new.record.at = inClock BY DEF Stamped
<1>3. UNCHANGED <<shown, stored, inClock, revised>> BY DEF ApproveAsk
<1>4. Room(rest, p, inClock) BY DEF ApproveAsk
<1>5. inClock \in Nat BY DEF Shape
<1>6. IsFiniteSet(rest) BY SentFinite, FS_Difference
<1>7. Sent' \subseteq rest \cup {new} BY <1>1 DEF Sent
<1> HIDE DEF new
<1>8. \A b \in applied' : b.record.at <= inClock' BY <1>1, <1>2, <1>3, <1>5 DEF LimitsKept, new
<1>9. ASSUME NEW t \in 0..inClock
      PROVE  Count(Sent', HourSpan, t) <= PerHour /\ Count(Sent', DaySpan, t) <= PerDay
  <2>1. Count(rest, HourSpan, inClock) < PerHour /\ Count(rest, DaySpan, inClock) < PerDay
    BY <1>4 DEF Room, Count, Window
  <2>2. /\ Count(rest, HourSpan, t) <= Count(Sent, HourSpan, t)
        /\ Count(rest, DaySpan, t) <= Count(Sent, DaySpan, t)
    BY SentFinite, WindowShrinks
  <2>3. Count(rest, HourSpan, t) <= PerHour /\ Count(rest, DaySpan, t) <= PerDay
    BY <2>2, <1>6, SentFinite, WindowFinite, LimitNumbers DEF LimitsKept
  <2>4. Count(Sent', HourSpan, t) <= PerHour
    BY <1>2, <1>5, <1>6, <1>7, <2>1, <2>3, LimitNumbers, WindowAdds
  <2>5. Count(Sent', DaySpan, t) <= PerDay
    BY <1>2, <1>5, <1>6, <1>7, <2>1, <2>3, LimitNumbers, WindowAdds
  <2> QED BY <2>4, <2>5
<1>10. ASSUME revised = {}, NEW t \in 0..inClock, NEW k \in Companies
       PROVE  /\ Count(SentTo(k)', DaySpan, t) <= PerCompanyDay
              /\ Count(SentTo(k)', WeekSpan, t) <= PerCompanyWeek
  <2>1. /\ Count(SentTo(k), DaySpan, t) <= PerCompanyDay
        /\ Count(SentTo(k), WeekSpan, t) <= PerCompanyWeek
    BY <1>10 DEF LimitsKept
  <2>2. p = shown[a.vacancy]
    <3>1. a.vacancy \in Engaged BY DEF Shape, AppliedSpace, Engaged, HasApplication
    <3> QED BY <1>10, <3>1 DEF TwinsApart, Copies
  <2>3. CASE shown[a.vacancy].company # k
    <3>1. SentTo(k)' \subseteq SentTo(k) BY <1>2, <1>3, <1>7, <2>3 DEF SentTo
    <3>2. /\ Count(SentTo(k)', DaySpan, t) <= Count(SentTo(k), DaySpan, t)
          /\ Count(SentTo(k)', WeekSpan, t) <= Count(SentTo(k), WeekSpan, t)
      BY <3>1, SentFinite, WindowShrinks
    <3>3. /\ Count(SentTo(k)', DaySpan, t) \in Nat /\ Count(SentTo(k), DaySpan, t) \in Nat
          /\ Count(SentTo(k)', WeekSpan, t) \in Nat /\ Count(SentTo(k), WeekSpan, t) \in Nat
      BY <3>1, SentFinite, FS_Subset, WindowFinite
    <3> QED BY <2>1, <3>2, <3>3, LimitNumbers
  <2>4. CASE shown[a.vacancy].company = k
    <3> DEFINE mine == SameCompany(rest, p)
    <3>1. mine = {b \in rest : shown[b.vacancy].company = k}
      BY <1>10, <2>2, <2>4, SentFinite, CompanyKnown
    <3>2. SentTo(k)' \subseteq mine \cup {new} BY <1>3, <1>7, <3>1 DEF SentTo
    <3>3. mine \subseteq SentTo(k) /\ IsFiniteSet(mine)
      BY <3>1, <1>6, FS_Subset DEF SentTo
    <3>4. Count(mine, DaySpan, inClock) < PerCompanyDay /\ Count(mine, WeekSpan, inClock) < PerCompanyWeek
      BY <1>4 DEF Room, Count, Window
    <3> HIDE DEF mine
    <3>5. /\ Count(mine, DaySpan, t) <= Count(SentTo(k), DaySpan, t)
          /\ Count(mine, WeekSpan, t) <= Count(SentTo(k), WeekSpan, t)
      BY <3>3, SentFinite, WindowShrinks
    <3>6. Count(mine, DaySpan, t) <= PerCompanyDay /\ Count(mine, WeekSpan, t) <= PerCompanyWeek
      BY <2>1, <3>3, <3>5, SentFinite, WindowFinite, LimitNumbers
    <3>7. Count(SentTo(k)', DaySpan, t) <= PerCompanyDay
      BY <1>2, <1>5, <3>2, <3>3, <3>4, <3>6, LimitNumbers, WindowAdds
    <3>8. Count(SentTo(k)', WeekSpan, t) <= PerCompanyWeek
      BY <1>2, <1>5, <3>2, <3>3, <3>4, <3>6, LimitNumbers, WindowAdds
    <3> QED BY <3>7, <3>8
  <2> QED BY <2>3, <2>4
<1> QED BY <1>3, <1>8, <1>9, <1>10 DEF LimitsKept, Count, Window, Within, Companies

\* Steps that send nothing, at the same time.
LEMMA LimitsFrame ==
  ASSUME LimitsKept, UNCHANGED <<shown, inClock, revised>>, Sent' = Sent,
         \A a \in applied' : a.record.at <= inClock
  PROVE  LimitsKept'
<1>1. (\A k : SentTo(k)' = SentTo(k)) /\ Companies' = Companies BY DEF SentTo, Companies
<1> QED BY <1>1 DEF LimitsKept, Count, Window, Within

\* No other step sends, and time only closes windows.
LEMMA StepKeepsLimits ==
  Shape /\ TwinsApart /\ LimitsKept /\ [IntakeNext]_intakeVars => LimitsKept'
<1> SUFFICES ASSUME Shape, TwinsApart, LimitsKept, [IntakeNext]_intakeVars PROVE LimitsKept'
  OBVIOUS
<1>1. ASSUME UNCHANGED <<shown, applied, inClock, revised>> PROVE LimitsKept'
  <2>1. Sent' = Sent /\ \A a \in applied' : a.record.at <= inClock
    BY <1>1 DEF Sent, LimitsKept
  <2> QED BY <1>1, <2>1, LimitsFrame
<1>2. CASE UNCHANGED intakeVars BY <1>2, <1>1 DEF intakeVars
<1>3. ASSUME NEW r \in PipelineRuns, NEW dry \in DryRuns, DryRunReturns(r, dry)
      PROVE  LimitsKept'
  <2>1. applied \subseteq applied' /\ applied' \subseteq applied \cup {NewApplication(r, dry)}
    BY <1>3 DEF DryRunReturns, NewApplication, NoneYet
  <2>2. /\ NewApplication(r, dry).record.status # "apply_queued"
        /\ NewApplication(r, dry).record.at = inClock
    BY DEF NewApplication, StatusOf
  <2>3. UNCHANGED <<shown, inClock, revised>> BY <1>3 DEF DryRunReturns
  <2>4. Sent' = Sent BY <2>1, <2>2 DEF Sent
  <2>5. \A a \in applied' : a.record.at <= inClock'
    BY <2>1, <2>2, <2>3 DEF LimitsKept, Shape
  <2> QED BY <2>3, <2>4, <2>5, LimitsFrame
<1>4. ASSUME NEW x \in Revisions, Revise(x) PROVE LimitsKept'
  <2>1. UNCHANGED <<applied, inClock>> /\ revised' # {} BY <1>4 DEF Revise
  <2> QED BY <2>1 DEF LimitsKept, Count, Window, Within, Sent
<1>5. CASE IntakeTick
  <2>1. UNCHANGED <<shown, applied, revised>> /\ inClock' = inClock + 1 /\ inClock \in Nat
    BY <1>5 DEF IntakeTick, Shape
  <2>2. Sent' = Sent /\ (\A k : SentTo(k)' = SentTo(k)) /\ Companies' = Companies
    BY <2>1 DEF Sent, SentTo, Companies
  <2>3. \A a \in applied : a.record.at \in Int /\ a.record.at <= inClock
    BY DEF LimitsKept, Shape, AppliedSpace, Applications
  <2>4. \A a \in applied : a.record.at <= inClock + 1 BY <2>1, <2>3
  <2>5. ASSUME NEW xs, IsFiniteSet(xs), xs \subseteq applied, NEW span \in Spans,
               NEW limit \in Nat, \A t \in 0..inClock : Count(xs, span, t) <= limit
        PROVE  \A t \in 0..(inClock + 1) : Count(xs, span, t) <= limit
    <3>1. span \in Int BY LimitNumbers DEF Spans
    <3>2. Count(xs, span, inClock + 1) <= Count(xs, span, inClock)
      <4>1. inClock \in Int /\ \A a \in xs : a.record.at \in Int /\ a.record.at <= inClock
        BY <2>1, <2>3, <2>5
      <4> QED BY <2>5, <3>1, <4>1, WindowTicks
    <3>3. Count(xs, span, inClock + 1) <= limit
      BY <2>1, <2>5, <3>2, WindowFinite
    <3>4. \A t \in 0..(inClock + 1) : t \in 0..inClock \/ t = inClock + 1 BY <2>1
    <3> QED BY <2>5, <3>3, <3>4
  <2>6. \A t \in 0..(inClock + 1) :
          Count(Sent, HourSpan, t) <= PerHour /\ Count(Sent, DaySpan, t) <= PerDay
    BY <2>5, SentFinite, LimitNumbers DEF LimitsKept, Spans
  <2>7. ASSUME revised = {}, NEW k \in Companies
        PROVE  \A t \in 0..(inClock + 1) : /\ Count(SentTo(k), DaySpan, t) <= PerCompanyDay
                                          /\ Count(SentTo(k), WeekSpan, t) <= PerCompanyWeek
    <3>1. IsFiniteSet(SentTo(k)) /\ SentTo(k) \subseteq applied BY SentFinite
    <3>2. \A t \in 0..inClock : Count(SentTo(k), DaySpan, t) <= PerCompanyDay
      BY <2>7 DEF LimitsKept
    <3>3. \A t \in 0..inClock : Count(SentTo(k), WeekSpan, t) <= PerCompanyWeek
      BY <2>7 DEF LimitsKept
    <3> QED BY <2>5, <3>1, <3>2, <3>3, LimitNumbers DEF Spans
  <2> QED BY <2>1, <2>2, <2>4, <2>6, <2>7 DEF LimitsKept, Count, Window, Within
<1>6. CASE IntakeNext
  <2>1. CASE \/ \E r \in PipelineRuns :
                  \/ \E answer \in ProviderAnswers, listed \in BOOLEAN : StartRun(r, answer, listed)
                  \/ FetchFails(r) \/ MeetVacancy(r)
             \/ \E v \in IntakeVacancies : IngestVacancy(v)
             \/ \E q \in asks : RejectAsk(q)
             \/ \E m \in IntakeModes : PutInMode(m)
             \/ IntakeRestarts
    <3>1. UNCHANGED <<shown, applied, inClock, revised>>
      <4>1. ASSUME NEW r \in PipelineRuns, NEW answer, NEW listed, StartRun(r, answer, listed)
            PROVE  UNCHANGED <<shown, applied, inClock, revised>>
        BY <4>1 DEF StartRun
      <4>2. ASSUME NEW r \in PipelineRuns, FetchFails(r) \/ MeetVacancy(r)
            PROVE  UNCHANGED <<shown, applied, inClock, revised>>
        BY <4>2 DEF FetchFails, MeetVacancy
      <4> QED BY <2>1, <4>1, <4>2 DEF IngestVacancy, RejectAsk, PutInMode, IntakeRestarts
    <3> QED BY <3>1, <1>1
  <2> QED BY <1>6, <2>1, <1>3, <1>4, <1>5, ApprovalKeepsLimits DEF IntakeNext
<1> QED BY <1>2, <1>6

LEMMA NothingSentFirst == IntakeInit => LimitsKept
<1> SUFFICES ASSUME IntakeInit PROVE LimitsKept
  OBVIOUS
<1>1. Sent = {} /\ \A k : SentTo(k) = {} BY DEF IntakeInit, Sent, SentTo
<1>2. \A span, t : Count({}, span, t) = 0
  <2>1. \A span, t : Window({}, span, t) = {} BY DEF Window
  <2> QED BY <2>1, FS_EmptySet DEF Count
<1>3. \A span, t : Count(Sent, span, t) = 0 /\ \A k : Count(SentTo(k), span, t) = 0
  BY <1>1, <1>2
<1>4. applied = {} BY DEF IntakeInit
<1> QED BY <1>3, <1>4, LimitNumbers DEF LimitsKept

\* The applications that approvals send stay within the limits of an hour and a
\* day, in every window, and within those of a company as long as no vacancy
\* changes; an approval that the queue refuses is counted at its new time.
THEOREM LimitsNeverExceeded == IntakeSpec => []SentWithinLimits
<1>1. Shape /\ TwinsApart /\ LimitsKept => SentWithinLimits
  <2> SUFFICES ASSUME Shape, TwinsApart, LimitsKept PROVE SentWithinLimits
    OBVIOUS
  <2>1. ASSUME revised = {}, NEW a \in Sent
        PROVE  /\ SameCompany(Sent, shown[a.vacancy]) = SentTo(shown[a.vacancy].company)
               /\ shown[a.vacancy].company \in Companies
    <3>1. a.vacancy \in IntakeVacancies BY SentFinite DEF Shape, AppliedSpace
    <3> QED BY <2>1, <3>1, SentFinite, CompanyKnown DEF SentTo, Companies
  <2>2. ASSUME NEW t \in 0..inClock
        PROVE  /\ Cardinality({a \in Sent : Within(HourSpan, a, t)}) <= PerHour
               /\ Cardinality({a \in Sent : Within(DaySpan, a, t)}) <= PerDay
    BY DEF LimitsKept, Count, Window
  <2>3. ASSUME NEW t \in 0..inClock, revised = {}, NEW a \in Sent
        PROVE  LET xs == SameCompany(Sent, shown[a.vacancy])
               IN /\ Cardinality({b \in xs : Within(DaySpan, b, t)}) <= PerCompanyDay
                  /\ Cardinality({b \in xs : Within(WeekSpan, b, t)}) <= PerCompanyWeek
    BY <2>1, <2>3 DEF LimitsKept, Count, Window
  <2> QED BY <2>2, <2>3 DEF SentWithinLimits
<1> QED BY <1>1, NothingSentFirst, NothingEngagedFirst, IntakeInitShape, IntakeStepKeepsShape,
           StepKeepsApart, StepKeepsLimits, PTL DEF IntakeSpec
-----------------------------------------------------------------------------
(* The release gate.                                                       *)

\* Instants are numbers, and what was posted as passed is still in order: the
\* validation compares the record with a clock that only moves on.
GateInv ==
  /\ gateClock \in Nat
  /\ submitting \in [AutoApply -> Int]
  /\ DOMAIN ledger = {"api", "db"} /\ DOMAIN canaries = {"api", "db"}
  /\ \A v \in {"api", "db"} : \A r \in ledger[v] :
       /\ r.at \in Int /\ r.observed \in Int
       /\ r.by = "post" /\ r.status = "passed" => ValidRecord(r, gateClock)
  /\ \A v \in {"api", "db"} : \A c \in canaries[v] : c.at \in Int

LEMMA GateNumbers ==
  /\ SoakSpan \in Nat /\ SoakSpan > 0 /\ GateHorizon \in Nat /\ GateHorizon > 0
  /\ AutoApply \subseteq GateProviders
  BY GateAssumption

\* A record that is in order is valid from its instant on.
LEMMA InOrderValid ==
  ASSUME NEW n, NEW type \in EvidenceTypes, NEW p, type \in ProviderTypes => p \in GateProviders,
         NEW now \in Nat, NEW t \in 0..now, NEW d \in Nat, d > 0
  PROVE  ValidRecord(InOrder(n, type, p, t, d), now)
<1>1. t \in Int /\ t <= now /\ t + d # Forever /\ t + d > t /\ t - SoakSpan < t
      /\ t - (t - SoakSpan) >= SoakSpan
  BY GateNumbers DEF Forever
<1> QED BY <1>1 DEF ValidRecord, InOrder

\* Time does not make a record invalid.
LEMMA ValidLater ==
  ASSUME NEW r, r.at \in Int, r.observed \in Int, NEW now \in Nat, ValidRecord(r, now)
  PROVE  ValidRecord(r, now + 1)
  BY DEF ValidRecord

LEMMA GateInitInv == GateInit => GateInv
<1> SUFFICES ASSUME GateInit PROVE GateInv
  OBVIOUS
<1>1. gateClock = 0 BY DEF GateInit
<1>2. PICK ps \in {{}, GateProviders}, missing \in {{}, {"seven_day_soak_passed"}} :
        ledger = [v \in {"api", "db"} |->
          {r \in Kept : r.type \notin missing}
            \cup {InOrder(0, "live_canary_passed", p, 0, GateHorizon) : p \in ps}
            \cup {InOrder(0, "provider_submit_proof_ready", p, 0, GateHorizon) :
                    p \in ps \cap AutoApply}]
  BY DEF GateInit
<1>3. ASSUME NEW r \in Kept PROVE r.at = 0 /\ r.observed = 0 /\ ValidRecord(r, 0)
  <2>1. PICK type \in GlobalTypes : r = InOrder(0, type, NoProvider, 0, GateHorizon + 1)
    BY DEF Kept
  <2>2. type \in EvidenceTypes /\ type \notin ProviderTypes BY DEF GlobalTypes
  <2>3. ValidRecord(r, 0) BY <2>1, <2>2, GateNumbers, InOrderValid
  <2> QED BY <2>1, <2>3 DEF InOrder
<1>4. ASSUME NEW p \in GateProviders, NEW type \in ProviderTypes, NEW r,
             r = InOrder(0, type, p, 0, GateHorizon)
      PROVE  r.at = 0 /\ r.observed = 0 /\ ValidRecord(r, 0)
  <2>1. type \in EvidenceTypes BY DEF ProviderTypes, EvidenceTypes
  <2>2. ValidRecord(r, 0) BY <1>4, <2>1, GateNumbers, InOrderValid
  <2> QED BY <1>4, <2>2 DEF InOrder
<1>5. \A v \in {"api", "db"} : \A r \in ledger[v] :
        r.at = 0 /\ r.observed = 0 /\ ValidRecord(r, 0)
  BY <1>2, <1>3, <1>4 DEF ProviderTypes
<1> QED BY <1>1, <1>2, <1>5 DEF GateInit, GateInv, Forever

LEMMA RequestInstants ==
  ASSUME GateInv, NEW n, NEW r \in Requests(n)
  PROVE  r.at \in Int /\ r.observed \in Int
<1> DEFINE Timed(x) == x.at \in Int /\ x.observed \in Int
           good == {InOrder(n, type, p, t, d) : type \in ProviderTypes, p \in AutoApply,
                     t \in 0..(gateClock + 1), d \in 1..2}
                    \cup {InOrder(n, type, NoProvider, t, 2) :
                            type \in {"seven_day_soak_passed"}, t \in 0..gateClock}
<1>1. gateClock \in Nat BY DEF GateInv
<1>2. ASSUME NEW x \in good
      PROVE  /\ Timed(x) /\ Timed([x EXCEPT !.status = "failed"])
             /\ Timed([x EXCEPT !.sound = FALSE]) /\ Timed([x EXCEPT !.expires = Forever])
             /\ Timed([x EXCEPT !.observed = gateClock])
             /\ Timed([x EXCEPT !.from = x.from + 1])
  <2>1. \E type, p, d : \E t \in Int : x = InOrder(n, type, p, t, d) BY <1>1
  <2> HIDE DEF good
  <2>2. PICK type, p, d : \E t \in Int : x = InOrder(n, type, p, t, d) BY <2>1
  <2>3. PICK t \in Int : x = InOrder(n, type, p, t, d) BY <2>2
  <2>4. x = [by |-> "post", n |-> n, type |-> type, provider |-> p, status |-> "passed",
             observed |-> t, at |-> t, from |-> x.from, expires |-> t + d, sound |-> TRUE]
    BY <2>3 DEF InOrder
  <2>5. x.at = t /\ x.observed = t BY <2>3 DEF InOrder
  <2>6. Timed([x EXCEPT !.observed = gateClock]) BY <2>4, <1>1
  <2>7. /\ Timed([x EXCEPT !.status = "failed"]) /\ Timed([x EXCEPT !.sound = FALSE])
        /\ Timed([x EXCEPT !.expires = Forever]) /\ Timed([x EXCEPT !.from = x.from + 1])
    BY <2>4
  <2> QED BY <2>5, <2>6, <2>7
<1>3. \E x \in good : r \in {x, [x EXCEPT !.status = "failed"], [x EXCEPT !.sound = FALSE],
                            [x EXCEPT !.expires = Forever], [x EXCEPT !.observed = gateClock],
                            [x EXCEPT !.from = x.from + 1]}
  BY DEF Requests
<1> HIDE DEF good
<1>4. Timed(r) BY <1>2, <1>3
<1> QED BY <1>4

LEMMA GateStepInv == GateInv /\ [GateNext]_gateVars => GateInv'
<1> SUFFICES ASSUME GateInv, [GateNext]_gateVars PROVE GateInv'
  OBVIOUS
<1>1. CASE UNCHANGED gateVars BY <1>1 DEF gateVars, GateInv, ValidRecord
<1>2. CASE PostEvidence
  <2>1. PICK r \in Requests(posted + 1) :
          /\ AcceptedRequest(r)
          /\ ledger' = [v \in {"api", "db"} |-> ledger[v] \cup {r}]
    BY <1>2 DEF PostEvidence
  <2>2. UNCHANGED <<gateClock, canaries, submitting>> BY <1>2 DEF PostEvidence
  <2>3. r.at \in Int /\ r.observed \in Int BY RequestInstants
  <2>4. r.status = "passed" => ValidRecord(r, gateClock) BY <2>1 DEF AcceptedRequest
  <2> QED BY <2>1, <2>2, <2>3, <2>4 DEF GateInv, ValidRecord
<1>3. CASE RunCanaries
  <2>1. UNCHANGED <<gateClock, ledger, submitting>> BY <1>3 DEF RunCanaries
  <2>2. \A v \in {"api", "db"} : \A c \in canaries'[v] : c.at \in Int
    BY <1>3 DEF RunCanaries, GateInv
  <2>3. DOMAIN canaries' = {"api", "db"} BY <1>3 DEF RunCanaries, GateInv
  <2> QED BY <2>1, <2>2, <2>3 DEF GateInv, ValidRecord
<1>4. CASE ServerRestarts
  <2>1. UNCHANGED <<gateClock, submitting>> BY <1>4 DEF ServerRestarts
  <2>2. \A v \in {"api", "db"} : ledger'[v] = ledger["db"] /\ canaries'[v] = canaries["db"]
    BY <1>4 DEF ServerRestarts, GateInv
  <2>3. DOMAIN ledger' = {"api", "db"} /\ DOMAIN canaries' = {"api", "db"}
    BY <1>4 DEF ServerRestarts, GateInv
  <2> QED BY <2>1, <2>2, <2>3 DEF GateInv, ValidRecord
<1>5. CASE GateTick
  <2>1. UNCHANGED <<ledger, canaries, submitting>> /\ gateClock' = gateClock + 1
        /\ gateClock \in Nat
    BY <1>5 DEF GateTick, GateInv
  <2>2. \A v \in {"api", "db"} : \A r \in ledger[v] :
          r.by = "post" /\ r.status = "passed" => ValidRecord(r, gateClock + 1)
    BY <2>1, ValidLater DEF GateInv
  <2> QED BY <2>1, <2>2 DEF GateInv, ValidRecord
<1>6. ASSUME NEW p \in AutoApply, SubmitStarts(p) PROVE GateInv'
  <2>1. UNCHANGED <<gateClock, ledger, canaries>> /\ submitting' \in [AutoApply -> Int]
    BY <1>6 DEF SubmitStarts, GateInv
  <2> QED BY <2>1 DEF GateInv, ValidRecord
<1>7. ASSUME NEW p \in AutoApply, SubmitReturns(p) PROVE GateInv'
  <2>1. UNCHANGED <<gateClock, canaries>> /\ submitting' \in [AutoApply -> Int]
    BY <1>7 DEF SubmitReturns, GateInv, Forever
  <2> DEFINE e == SubmitEvidence(p)
  <2>2. e.by = "submit" /\ e.at \in Int /\ e.observed \in Int
    BY DEF SubmitEvidence, InOrder, GateInv
  <2>3. ledger' = [ledger EXCEPT !["db"] = {r \in @ : ~(r.by = "submit" /\ r.provider = p)} \cup {e}]
    BY <1>7 DEF SubmitReturns
  <2> HIDE DEF e
  <2>4. /\ DOMAIN ledger' = {"api", "db"}
        /\ \A v \in {"api", "db"} : ledger'[v] \subseteq ledger[v] \cup {e}
    BY <2>3 DEF GateInv
  <2> QED BY <2>1, <2>2, <2>4 DEF GateInv, ValidRecord
<1> QED BY <1>1, <1>2, <1>3, <1>4, <1>5, <1>6, <1>7 DEF GateNext

\* Evidence that POST /release-evidence took as passed is accepted by every later
\* evaluation until it expires, in either copy of the ledger.
THEOREM PostedEvidenceStays == GateSpec => []PostedStaysAccepted
<1>1. GateInv => PostedStaysAccepted
  BY DEF GateInv, PostedStaysAccepted, Accepted, Unexpired
<1> QED BY <1>1, GateInitInv, GateStepInv, PTL DEF GateSpec

\* A gate is open for a provider only on a canary that passed, is recent and is
\* not older than a failed one that is still current.
THEOREM FailedCanaryClosesGate == GateSpec => []FailedCanaryBlocks
<1>1. GateInv => FailedCanaryBlocks
  <2> SUFFICES ASSUME GateInv, GateOpen("api", gateClock), NEW p \in AutoApply
               PROVE  \E c \in Looked("api", p, gateClock) :
                        /\ c.passed /\ gateClock - c.at <= CanaryAge
                        /\ \A r \in ledger["api"] :
                             /\ r.type = "live_canary_passed" /\ r.provider = p
                             /\ r.status = "failed" /\ Unexpired(r, gateClock)
                             => r.at <= c.at
    BY DEF FailedCanaryBlocks
  <2>1. PICK c \in Looked("api", p, gateClock) :
          /\ \A d \in Looked("api", p, gateClock) : d.at < c.at \/ (d.at = c.at /\ d.n <= c.n)
          /\ c.at <= gateClock /\ gateClock - c.at <= CanaryAge
          /\ c.passed
    BY DEF GateOpen, Ready, CanaryStatusPassed
  <2>2. c.at \in Int BY DEF Looked, CanaryEvidence, GateInv
  <2>3. ASSUME NEW r \in ledger["api"], r.type = "live_canary_passed", r.provider = p,
               Unexpired(r, gateClock)
        PROVE  r.at <= c.at
    <3>1. r.at \in Int BY DEF GateInv
    <3>2. \E d \in Looked("api", p, gateClock) : d.at = r.at
      <4> DEFINE d == [at |-> r.at, n |-> r.n,
                       passed |-> r.status = "passed" /\ ValidRecord(r, gateClock)]
      <4>1. d \in CanaryEvidence("api", p, gateClock) BY <2>3 DEF CanaryEvidence
      <4>2. d \in Looked("api", p, gateClock) BY <4>1 DEF Looked
      <4>3. d.at = r.at OBVIOUS
      <4> HIDE DEF d
      <4> QED BY <4>2, <4>3
    <3> QED BY <2>1, <2>2, <3>1, <3>2
  <2> QED BY <2>1, <2>3
<1> QED BY <1>1, GateInitInv, GateStepInv, PTL DEF GateSpec

\* A record of the ledger, whatever the instants and the metadata of its request.
LEMMA InOrderEvidence ==
  ASSUME NEW n \in 0..MaxEvidence, NEW type \in EvidenceTypes,
         NEW p \in GateProviders \cup {NoProvider}, NEW t \in Instants, NEW d \in Nat
  PROVE  InOrder(n, type, p, t, d) \in Evidence
<1>1. t \in Nat /\ t - SoakSpan \in Int /\ t + d \in Nat BY GateNumbers DEF Instants
<1> QED BY <1>1 DEF InOrder, Evidence

LEMMA RequestEvidence ==
  ASSUME GateTypeOK, posted < MaxEvidence, NEW r \in Requests(posted + 1)
  PROVE  r \in Evidence /\ r.by = "post"
<1> DEFINE n == posted + 1
           good == {InOrder(n, type, p, t, d) : type \in ProviderTypes, p \in AutoApply,
                     t \in 0..(gateClock + 1), d \in 1..2}
                    \cup {InOrder(n, type, NoProvider, t, 2) :
                            type \in {"seven_day_soak_passed"}, t \in 0..gateClock}
           posts == {x \in Evidence : x.by = "post"}
<1>1. /\ n \in 0..MaxEvidence /\ gateClock \in Instants
      /\ 0..(gateClock + 1) \subseteq Instants /\ 0..gateClock \subseteq Instants
  BY GateAssumption DEF GateTypeOK, Instants
<1>2. ASSUME NEW type \in EvidenceTypes, NEW p \in GateProviders \cup {NoProvider},
             NEW t \in Instants, NEW d \in Nat
      PROVE  InOrder(n, type, p, t, d) \in posts
  <2>1. InOrder(n, type, p, t, d) \in Evidence BY <1>1, InOrderEvidence
  <2> QED BY <2>1 DEF InOrder
<1>3. ProviderTypes \subseteq EvidenceTypes /\ "seven_day_soak_passed" \in EvidenceTypes
  BY DEF ProviderTypes, EvidenceTypes
<1>4. good \subseteq posts
  BY <1>1, <1>2, <1>3, GateNumbers
<1>5. ASSUME NEW x \in posts
      PROVE  /\ [x EXCEPT !.status = "failed"] \in posts
             /\ [x EXCEPT !.sound = FALSE] \in posts
             /\ [x EXCEPT !.expires = Forever] \in posts
             /\ [x EXCEPT !.observed = gateClock] \in posts
             /\ [x EXCEPT !.from = x.from + 1] \in posts
  <2>1. x.from + 1 \in Int /\ x \in Evidence BY DEF Evidence
  <2>2. [x EXCEPT !.status = "failed"] \in posts BY DEF Evidence
  <2>3. [x EXCEPT !.sound = FALSE] \in posts BY DEF Evidence
  <2>4. [x EXCEPT !.expires = Forever] \in posts BY DEF Evidence
  <2>5. [x EXCEPT !.observed = gateClock] \in posts BY <1>1 DEF Evidence
  <2>6. [x EXCEPT !.from = x.from + 1] \in posts BY <2>1 DEF Evidence
  <2> QED BY <2>2, <2>3, <2>4, <2>5, <2>6
<1>6. \E x \in good : r \in {x, [x EXCEPT !.status = "failed"], [x EXCEPT !.sound = FALSE],
                            [x EXCEPT !.expires = Forever], [x EXCEPT !.observed = gateClock],
                            [x EXCEPT !.from = x.from + 1]}
  BY DEF Requests
<1> HIDE DEF good
<1>7. r \in posts BY <1>4, <1>5, <1>6
<1> QED BY <1>7

LEMMA GateInitTypes == GateInit => GateTypeOK
<1> SUFFICES ASSUME GateInit PROVE GateTypeOK
  OBVIOUS
<1> DEFINE posts == {x \in Evidence : x.by = "post"}
<1>1. PICK ps \in {{}, GateProviders}, missing \in {{}, {"seven_day_soak_passed"}} :
        ledger = [v \in {"api", "db"} |->
          {r \in Kept : r.type \notin missing}
            \cup {InOrder(0, "live_canary_passed", p, 0, GateHorizon) : p \in ps}
            \cup {InOrder(0, "provider_submit_proof_ready", p, 0, GateHorizon) :
                    p \in ps \cap AutoApply}]
  BY DEF GateInit
<1>2. 0 \in 0..MaxEvidence /\ 0 \in Instants /\ GateHorizon \in Nat /\ GateHorizon + 1 \in Nat
  BY GateAssumption DEF Instants
<1>3. ASSUME NEW type \in EvidenceTypes, NEW p \in GateProviders \cup {NoProvider}, NEW d \in Nat
      PROVE  InOrder(0, type, p, 0, d) \in posts
  <2>1. InOrder(0, type, p, 0, d) \in Evidence BY <1>2, InOrderEvidence
  <2> QED BY <2>1 DEF InOrder
<1>4. /\ GlobalTypes \subseteq EvidenceTypes
      /\ {"live_canary_passed", "provider_submit_proof_ready"} \subseteq EvidenceTypes
  BY DEF GlobalTypes, EvidenceTypes
<1>5. Kept \subseteq posts BY <1>2, <1>3, <1>4 DEF Kept
<1>6. \A v \in {"api", "db"} : ledger[v] \subseteq posts
  BY <1>1, <1>2, <1>3, <1>4, <1>5
<1>7. gateClock \in 0..GateHorizon /\ posted \in 0..MaxEvidence
  BY GateAssumption DEF GateInit
<1>8. /\ \A v \in {"api", "db"} : canaries[v] = {}
      /\ submitting \in [AutoApply -> Instants \cup {Forever}]
  BY DEF GateInit
<1> QED BY <1>6, <1>7, <1>8 DEF GateTypeOK

LEMMA GateStepTypes == GateInv /\ GateTypeOK /\ [GateNext]_gateVars => GateTypeOK'
<1> SUFFICES ASSUME GateInv, GateTypeOK, [GateNext]_gateVars PROVE GateTypeOK'
  OBVIOUS
<1> DEFINE OnePerProvider(xs) == \A r, s \in xs :
             r.by = "submit" /\ s.by = "submit" /\ r.provider = s.provider => r = s
           Typed(xs, cs) == xs \subseteq Evidence /\ OnePerProvider(xs) /\ cs \subseteq CanaryRuns
<1>a. GateTypeOK <=> /\ gateClock \in 0..GateHorizon /\ posted \in 0..MaxEvidence
                     /\ submitting \in [AutoApply -> Instants \cup {Forever}]
                     /\ \A v \in {"api", "db"} : Typed(ledger[v], canaries[v])
  BY DEF GateTypeOK
<1>b. GateTypeOK' <=> /\ gateClock' \in 0..GateHorizon /\ posted' \in 0..MaxEvidence
                      /\ submitting' \in [AutoApply -> Instants \cup {Forever}]
                      /\ \A v \in {"api", "db"} : Typed(ledger'[v], canaries'[v])
  BY DEF GateTypeOK
<1>c. DOMAIN ledger = {"api", "db"} /\ DOMAIN canaries = {"api", "db"} BY DEF GateInv
<1>d. gateClock \in Instants /\ 0..GateHorizon \subseteq Instants
  BY <1>a, GateNumbers DEF Instants
<1>1. CASE UNCHANGED gateVars BY <1>1 DEF gateVars, GateTypeOK
<1>2. CASE PostEvidence
  <2>1. PICK r \in Requests(posted + 1) :
          /\ posted' = posted + 1
          /\ ledger' = [v \in {"api", "db"} |-> ledger[v] \cup {r}]
    BY <1>2 DEF PostEvidence
  <2>2. UNCHANGED <<gateClock, canaries, submitting>> /\ posted < MaxEvidence
    BY <1>2 DEF PostEvidence
  <2>3. r \in Evidence /\ r.by = "post" BY <2>2, RequestEvidence
  <2>4. posted' \in 0..MaxEvidence BY <1>a, <2>1, <2>2, GateAssumption
  <2>5. ASSUME NEW v \in {"api", "db"} PROVE Typed(ledger'[v], canaries'[v])
    BY <1>a, <2>1, <2>2, <2>3
  <2> QED BY <1>a, <1>b, <2>2, <2>4, <2>5
<1>3. CASE RunCanaries
  <2> DEFINE new == {[provider |-> p, passed |-> p \in Packed, at |-> gateClock] : p \in AutoApply}
  <2>1. /\ UNCHANGED <<gateClock, ledger, submitting, posted>>
        /\ canaries' = [canaries EXCEPT !["db"] = @ \cup new]
    BY <1>3 DEF RunCanaries
  <2>2. \A p \in AutoApply : (p \in Packed) \in BOOLEAN /\ p \in GateProviders BY GateNumbers
  <2>3. \A p \in AutoApply, b \in BOOLEAN :
          p \in GateProviders => [provider |-> p, passed |-> b, at |-> gateClock] \in CanaryRuns
    BY <1>d DEF CanaryRuns
  <2>4. new \subseteq CanaryRuns BY <2>2, <2>3, Zenon
  <2> HIDE DEF new
  <2>5. \A v \in {"api", "db"} : canaries'[v] \subseteq canaries[v] \cup new BY <1>c, <2>1
  <2> QED BY <1>a, <1>b, <2>1, <2>4, <2>5
<1>4. CASE ServerRestarts
  <2>1. /\ UNCHANGED <<gateClock, submitting, posted>>
        /\ \A v \in {"api", "db"} : ledger'[v] = ledger["db"] /\ canaries'[v] = canaries["db"]
    BY <1>4, <1>c DEF ServerRestarts
  <2> QED BY <1>a, <1>b, <2>1
<1>5. CASE GateTick
  <2>1. UNCHANGED <<ledger, canaries, submitting, posted>> /\ gateClock' \in 0..GateHorizon
    BY <1>5, <1>a, GateNumbers DEF GateTick
  <2> QED BY <1>a, <1>b, <2>1
<1>6. ASSUME NEW p \in AutoApply, SubmitStarts(p) PROVE GateTypeOK'
  <2>1. UNCHANGED <<gateClock, ledger, canaries, posted>>
        /\ submitting' \in [AutoApply -> Instants \cup {Forever}]
    BY <1>6, <1>a, <1>d DEF SubmitStarts
  <2> QED BY <1>a, <1>b, <2>1
<1>7. ASSUME NEW p \in AutoApply, SubmitReturns(p) PROVE GateTypeOK'
  <2> DEFINE e == SubmitEvidence(p)
             others == {r \in ledger["db"] : ~(r.by = "submit" /\ r.provider = p)}
  <2>1. /\ UNCHANGED <<gateClock, canaries, posted>> /\ submitting[p] # Forever
        /\ submitting' = [submitting EXCEPT ![p] = Forever]
        /\ ledger' = [ledger EXCEPT !["db"] = others \cup {e}]
    BY <1>7 DEF SubmitReturns
  <2>2. submitting[p] \in Instants BY <1>a, <2>1
  <2>3. InOrder(0, "provider_submit_proof_ready", p, submitting[p], SubmitTtl) \in Evidence
    BY <2>2, InOrderEvidence, GateAssumption, GateNumbers DEF EvidenceTypes
  <2>4. e \in Evidence BY <1>d, <2>3 DEF SubmitEvidence, Evidence
  <2>5. e.by = "submit" /\ e.provider = p BY DEF SubmitEvidence, InOrder
  <2> HIDE DEF e
  <2>6. ledger'["api"] = ledger["api"] /\ ledger'["db"] = others \cup {e} BY <1>c, <2>1
  <2>7. OnePerProvider(others \cup {e})
    <3> SUFFICES ASSUME NEW r \in others \cup {e}, NEW s \in others \cup {e}, r.by = "submit",
                        s.by = "submit", r.provider = s.provider
                 PROVE  r = s
      OBVIOUS
    <3>1. CASE r \in others /\ s \in others BY <1>a, <3>1
    <3>2. CASE r = e \/ s = e BY <2>5, <3>2
    <3> QED BY <3>1, <3>2
  <2>8. Typed(ledger'["db"], canaries'["db"]) BY <1>a, <2>1, <2>4, <2>6, <2>7
  <2>9. submitting' \in [AutoApply -> Instants \cup {Forever}] BY <1>a, <2>1
  <2> QED BY <1>a, <1>b, <2>1, <2>6, <2>8, <2>9
<1> QED BY <1>1, <1>2, <1>3, <1>4, <1>5, <1>6, <1>7 DEF GateNext

\* Every record of the ledger and every canary run has the fields of its type, and
\* a provider has one submit evidence at most in each copy: recordReleaseEvidence
\* replaces the one before it.
THEOREM GateTypeCorrect == GateSpec => []GateTypeOK
<1> QED BY GateInitInv, GateStepInv, GateInitTypes, GateStepTypes, PTL DEF GateSpec
=============================================================================
