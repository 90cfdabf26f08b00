------------------------------- MODULE Intake -------------------------------
\* How vacancies become prepared applications: runs of the pipeline in the API
\* process (POST /ingest/run) and of the ingest worker, over the vacancies one
\* provider lists.  A run is cut where it awaits the provider.  Its names are
\* prefixed, so that a model can hold this machine beside others.
EXTENDS Integers, Sequences, FiniteSets, Functions, Policies

CONSTANTS
  PipelineRuns,    \* calls of POST /ingest/run that may overlap
  Listing,         \* external ids, in the order the provider lists them
  FirstShown,      \* what they may show at first: functions to postings
  Revisions,       \* records [of, to]: what a vacancy may show later
  IntakeModes,     \* modes the system is put in
  IrreversibleOn,  \* irreversibleActionsEnabled
  HourSpan, DaySpan, WeekSpan,                \* windows, in units of time
  PerHour, PerDay, PerCompanyDay, PerCompanyWeek, \* rateLimits of the profile
  IntakeHorizon,   \* bound: the time that is looked at
  MaxRevisions     \* bound: revisions that happen

IntakeVacancies == Range(Listing)

\* A posting has the keys the deduplication compares (url, text: title, company
\* and description, role: company, title and seniority), its company, and what
\* the score and the draft say of it.
Postings == {f[v] : f \in FirstShown, v \in IntakeVacancies} \cup {x.to : x \in Revisions}
NotStored == [url |-> 0, text |-> 0, role |-> 0, company |-> 0, fits |-> FALSE,
              draftable |-> FALSE]

ASSUME IntakeAssumption ==
  /\ {HourSpan, DaySpan, WeekSpan} \subseteq Nat \ {0}
  /\ HourSpan <= DaySpan /\ DaySpan <= WeekSpan
  /\ {PerHour, PerDay, PerCompanyDay, PerCompanyWeek, IntakeHorizon} \subseteq Nat
  /\ IntakeModes \subseteq PolicyModes /\ IrreversibleOn \in BOOLEAN
ASSUME ListingAssumption ==
  /\ IsInjective(Listing) /\ Listing \in Seq(IntakeVacancies)
  /\ \A f \in FirstShown : DOMAIN f = IntakeVacancies /\ f = [v \in IntakeVacancies |-> f[v]]
  \* every posting has an address
  /\ NotStored \notin Postings

Copies == {"api", "pg"}

ProviderAnswers == {"stable", "needs_review", "blocked"}
DryRuns == {"passed", "failed", "captcha_required"}
DedupStatuses == {"new", "duplicate", "possible_duplicate"}

VARIABLES
  shown,        \* what the provider's site shows; external
  stored,       \* jobs, in the API's copy and in Postgres
  health,       \* provider health in the API's copy
  applied,      \* applications, written by the API alone
  asks,         \* approval requests, pending or approved
  openReviews,  \* open manual review items
  runs,         \* where each run is, and what it holds over its awaits
  inMode, inClock,
  revised       \* history: vacancies that changed

intakeVars == <<shown, stored, health, applied, asks, openReviews,
                runs, inMode, inClock, revised>>

CountedStatuses ==
  {"application_prepared", "manual_review_required", "apply_queued"}
ApplicationStatuses == CountedStatuses \cup {"apply_blocked_by_policy"}
Applications ==
  [status : ApplicationStatuses, at : 0..IntakeHorizon, draft : Postings]

\* A run is at an entry of the listing, awaiting the posting or the dry run of
\* the draft made of it; it remembers the answer of the healthcheck.
IdleRun == [pc |-> "idle", at |-> 0, job |-> NotStored, dedup |-> "new", answer |-> "stable"]
Fetching(i, answer) ==
  [pc |-> "fetching", at |-> i, job |-> NotStored, dedup |-> "new", answer |-> answer]

IntakeTypeOK ==
  /\ \A c \in Copies, v \in IntakeVacancies :
       stored[c][v] \in Postings \cup {NotStored}
  /\ health \in ProviderAnswers \cup {"unknown"}
  /\ \A a \in applied : a.vacancy \in IntakeVacancies /\ a.record \in Applications
  \* one application per user, provider and external id
  /\ \A a, b \in applied : a.vacancy = b.vacancy => a = b
  /\ \A r \in PipelineRuns :
       /\ runs[r].pc \in {"idle", "fetching", "preparing"}
       /\ runs[r].pc # "idle" => runs[r].at \in DOMAIN Listing
  /\ inMode \in IntakeModes

IntakeInit ==
  /\ shown \in FirstShown
  /\ stored = [c \in Copies |-> [v \in IntakeVacancies |-> NotStored]]
  /\ health = "unknown"
  /\ applied = {} /\ asks = {} /\ openReviews = {}
  /\ runs = [r \in PipelineRuns |-> IdleRun]
  /\ inMode \in IntakeModes /\ inClock = 0 /\ revised = {}

-----------------------------------------------------------------------------
\* DedupEngine.decide.  The id of a job is made of provider and external id, so
\* two jobs never share the first key the engine compares.
DedupDecisionLoose(p, existing) ==
  IF \E q \in existing : q.url = p.url THEN "duplicate" ELSE "new"
DedupDecision(p, existing) ==
  CASE \E q \in existing : q.url = p.url -> "duplicate"
    [] \A q \in existing : q.url # p.url /\ q.text # p.text /\ q.role # p.role -> "new"
    [] OTHER -> "possible_duplicate"

OtherJobs(v) == {stored["api"][w] : w \in IntakeVacancies \ {v}} \ {NotStored}

\* applicationTimestamp in a window that ends now.
Within(span, a, now) == a.record.at > now - span /\ a.record.at <= now

\* evaluateApplicationRateLimits over applications xs, of the statuses asked for
\* and without the application itself.
SameCompany(xs, p) == {a \in xs : stored["api"][a.vacancy].company = p.company}
SameRole(xs, p) == {a \in xs : stored["api"][a.vacancy].role = p.role}
Room(xs, p, now) ==
  LET Fits(ys, span, limit) == Cardinality({a \in ys : Within(span, a, now)}) < limit
  IN /\ Fits(xs, HourSpan, PerHour) /\ Fits(xs, DaySpan, PerDay)
     /\ Fits(SameCompany(xs, p), DaySpan, PerCompanyDay)
     /\ Fits(SameCompany(xs, p), WeekSpan, PerCompanyWeek)
     /\ Fits(SameRole(xs, p), DaySpan, PerCompanyDay)
     /\ Fits(SameRole(xs, p), WeekSpan, PerCompanyWeek)
Prepared == {a \in applied : a.record.status \in CountedStatuses}
Sent == {a \in applied : a.record.status = "apply_queued"}


-----------------------------------------------------------------------------
\* A run starts with a healthcheck, whose answer replaces whatever was recorded.
\* A provider that is blocked is passed over, and so is, with an error, one that
\* cannot be searched.
StartRun(r, answer, listed) ==
  /\ runs[r].pc = "idle"
  /\ health' = answer
  /\ runs' = [runs EXCEPT ![r] =
       IF answer = "blocked" \/ ~listed \/ Listing = <<>> THEN IdleRun
       ELSE Fetching(1, answer)]
  /\ UNCHANGED <<shown, stored, applied, asks, openReviews, inMode, inClock, revised>>

\* The loop goes on to the next entry, or ends.
Advance(r) ==
  runs' = [runs EXCEPT ![r] =
    IF @.at = Len(Listing) THEN IdleRun
    ELSE Fetching(runs[r].at + 1, runs[r].answer)]

FetchFails(r) ==
  /\ runs[r].pc = "fetching"
  /\ Advance(r)
  /\ UNCHANGED <<shown, stored, health, applied, asks, openReviews, inMode,
                 inClock, revised>>

\* The ingest worker, on a copy of its own: the job it stores reaches Postgres;
\* the decision and the score it stores with it, and the health, are read by
\* nothing but reports before a run of the pipeline replaces them.
IngestVacancy(v) ==
  /\ stored' = [stored EXCEPT !["pg"][v] = shown[v]]
  /\ UNCHANGED <<shown, health, applied, asks, openReviews, runs, inMode, inClock, revised>>

\* fetchJob and normalizeJob return: the job is stored, compared with the other
\* stored jobs and scored.  The pipeline goes on to the application, or not: a vacancy that is rejected
\* or known, or any in read_only, ends here, and one without a resume or a valid
\* letter becomes a review.
MeetVacancy(r) ==
  LET v == Listing[runs[r].at]
      p == shown[v]
      dedup == DedupDecision(p, OtherJobs(v))
      wanted == p.fits /\ dedup = "new" /\ inMode # "read_only"
  IN /\ runs[r].pc = "fetching"
     /\ stored' = [c \in Copies |-> [stored[c] EXCEPT ![v] = p]]
     /\ IF wanted /\ p.draftable
        THEN runs' = [runs EXCEPT ![r].pc = "preparing", ![r].job = p, ![r].dedup = dedup]
        ELSE Advance(r)
     /\ openReviews' = IF wanted /\ ~p.draftable
                       THEN openReviews \cup {<<"job", v>>} ELSE openReviews
     /\ UNCHANGED <<shown, health, applied, asks, inMode, inClock, revised>>

\* The draft comes back from its dry run: a captcha puts the provider in safe
\* mode, and the policy decides with the healthcheck the run began with.
VerdictAfterSent(r, dry) ==
  PolicyVerdict([action |-> "send_application", mode |-> inMode, keyed |-> TRUE,
                 proofReady |-> TRUE, valid |-> dry = "passed",
                 provider |-> runs[r].answer, rate |-> Room(Sent, runs[r].job, inClock),
                 consent |-> TRUE, shortlisted |-> TRUE, new |-> runs[r].dedup = "new",
                 irreversible |-> IrreversibleOn])
Verdict(r, dry) ==
  PolicyVerdict([action |-> "send_application", mode |-> inMode, keyed |-> TRUE,
                 proofReady |-> TRUE, valid |-> dry = "passed",
                 provider |-> runs[r].answer, rate |-> Room(Prepared, runs[r].job, inClock),
                 consent |-> TRUE, shortlisted |-> TRUE, new |-> runs[r].dedup = "new",
                 irreversible |-> IrreversibleOn])
StatusOf(verdict) ==
  CASE verdict = "deny" -> "apply_blocked_by_policy"
    [] verdict = "requires_user_approval" -> "manual_review_required"
    [] OTHER -> "application_prepared"

\* createApplication: an application with the key is returned as it is.
NoneYetInRun(v, xs) == xs
NoneYet(v, xs) == IF \E a \in applied : a.vacancy = v THEN {} ELSE xs
\* The application as createApplication returns it.
Existing(v, new) ==
  IF \E a \in applied : a.vacancy = v THEN CHOOSE a \in applied : a.vacancy = v ELSE new

\* createApprovalRequest asks for the text of the stored application.
AskedNewDraft(v, new) == [vacancy |-> v, draft |-> new.record.draft, status |-> "pending"]
Asked(v, new) == [vacancy |-> v, draft |-> Existing(v, new).record.draft, status |-> "pending"]

DryRunReturns(r, dry) ==
  LET v == Listing[runs[r].at]
      verdict == Verdict(r, dry)
      new == [vacancy |-> v, record |->
               [status |-> StatusOf(verdict), at |-> inClock, draft |-> runs[r].job]]
      asking == verdict = "requires_user_approval"
  IN /\ runs[r].pc = "preparing"
     /\ applied' = applied \cup NoneYet(v, {new})
     /\ asks' = IF asking THEN asks \cup {Asked(v, new)} ELSE asks
     /\ openReviews' = openReviews
          \cup (IF asking THEN {<<"application", v>>} ELSE {})
          \cup (IF dry = "captcha_required" THEN {<<"provider", dry>>} ELSE {})
     /\ health' = IF dry = "captcha_required"
                  THEN "needs_review" ELSE health
     /\ Advance(r)
     /\ UNCHANGED <<shown, stored, inMode, inClock, revised>>

\* POST /approval-requests/:id/resolve, with the draft hash of the application;
\* a request that was approved before is approved again.  When the queue
\* refuses the task the application goes back, with its new time stamp.
Stamped(a, status) ==
  [vacancy |-> a.vacancy, record |-> [status |-> status, at |-> inClock, draft |-> a.record.draft]]
RestampedOnce(a, status) ==
  (applied \ {a}) \cup {[a EXCEPT !.record.status = status]}
Restamped(a, status) == (applied \ {a}) \cup {Stamped(a, status)}
ApproveAsk(q, a, queued) ==
  /\ q \in asks /\ a \in applied /\ a.vacancy = q.vacancy
  /\ q.status \in {"pending", "approved"} /\ q.draft = a.record.draft
  /\ IrreversibleOn
  /\ Room(Sent \ {a}, stored["api"][a.vacancy], inClock)
  /\ asks' = (asks \ {q}) \cup {[q EXCEPT !.status = "approved"]}
  /\ applied' = Restamped(a, IF queued THEN "apply_queued" ELSE "manual_review_required")
  /\ UNCHANGED <<shown, stored, health, openReviews, runs, inMode, inClock, revised>>

\* A rejection changes the request only, which nothing reads any more: not the
\* application, and not the next run of the pipeline, which asks again.
RejectAsk(q) ==
  /\ q \in asks /\ q.status = "pending"
  /\ asks' = asks \ {q}
  /\ UNCHANGED <<shown, stored, health, applied, openReviews, runs, inMode,
                 inClock, revised>>

PutInMode(m) ==
  /\ m # inMode /\ inMode' = m
  /\ UNCHANGED <<shown, stored, health, applied, asks, openReviews, runs,
                 inClock, revised>>

\* The API process dies with its runs and reads Postgres again.
IntakeRestarts ==
  /\ stored' = [stored EXCEPT !["api"] = stored["pg"]]
  /\ runs' = [r \in PipelineRuns |-> IdleRun]
  /\ UNCHANGED <<shown, health, applied, asks, openReviews, inMode, inClock, revised>>

\* Outside: the site changes a vacancy; time passes.
Revise(x) ==
  /\ Cardinality(revised) < MaxRevisions
  /\ shown[x.of] # x.to
  /\ shown' = [shown EXCEPT ![x.of] = x.to]
  /\ revised' = revised \cup {x.of}
  /\ UNCHANGED <<stored, health, applied, asks, openReviews, runs, inMode, inClock>>

IntakeTick ==
  /\ inClock < IntakeHorizon /\ inClock' = inClock + 1
  /\ UNCHANGED <<shown, stored, health, applied, asks, openReviews, runs,
                 inMode, revised>>

IntakeNext ==
  \/ \E r \in PipelineRuns :
       \/ \E answer \in ProviderAnswers, listed \in BOOLEAN : StartRun(r, answer, listed)
       \/ FetchFails(r) \/ MeetVacancy(r)
       \/ \E dry \in DryRuns : DryRunReturns(r, dry)
  \/ \E v \in IntakeVacancies : IngestVacancy(v)
  \/ \E q \in asks, a \in applied, queued \in BOOLEAN : ApproveAsk(q, a, queued)
  \/ \E q \in asks : RejectAsk(q)
  \/ \E m \in IntakeModes : PutInMode(m)
  \/ \E x \in Revisions : Revise(x)
  \/ IntakeRestarts \/ IntakeTick

IntakeSpec == IntakeInit /\ [][IntakeNext]_intakeVars

-----------------------------------------------------------------------------
\* Properties.

\* Two copies of one vacancy, posted under two ids, never both get an
\* application, however runs overlap and whichever process stores them first,
\* unless one of them was changed.
TwinsAppliedOnce ==
  \A a, b \in applied :
    a # b /\ a.vacancy \notin revised /\ b.vacancy \notin revised =>
      LET p == shown[a.vacancy]
          q == shown[b.vacancy]
      IN p.url # q.url /\ p.text # q.text /\ p.role # q.role

\* An approval request that is open is about the text its application holds, the
\* one hash with which it can be approved, though the vacancy was drafted again.
AsksApprovable ==
  \A q \in asks : q.status = "pending" =>
    \E a \in applied : a.vacancy = q.vacancy /\ a.record.draft = q.draft

\* The applications an approval sends never exceed the limits of the profile, in
\* any hour and on any day, nor those of a company that did not change.
SentWithinLimits ==
  \A t \in 0..inClock :
    LET In(xs, span) == {a \in xs : Within(span, a, t)}
    IN /\ Cardinality(In(Sent, HourSpan)) <= PerHour
       /\ Cardinality(In(Sent, DaySpan)) <= PerDay
       /\ revised = {} => \A a \in Sent :
            /\ Cardinality(In(SameCompany(Sent, shown[a.vacancy]), DaySpan)) <= PerCompanyDay
            /\ Cardinality(In(SameCompany(Sent, shown[a.vacancy]), WeekSpan)) <= PerCompanyWeek

\* An application that is prepared has room among those prepared before it, at
\* the moment it appears and not when its vacancy was fetched.
RoomWhenPrepared ==
  [][\A a \in applied' \ applied :
       a.record.status \in CountedStatuses /\ (\A b \in applied : b.vacancy # a.vacancy) =>
         Room(Prepared, a.record.draft, inClock)]_intakeVars

\* Signals of a captcha stop automation: no application is prepared for a
\* provider while it is in safe mode.
SafeModeStops ==
  [][health = "needs_review" /\ health' = health =>
       \A a \in applied' \ applied : a.record.status = "apply_blocked_by_policy"]_intakeVars
=============================================================================
