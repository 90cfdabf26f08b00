--------------------------- MODULE ApprovedSubmit ---------------------------
(***************************************************************************)
(* The approved-submit path: how a prepared application gets from a        *)
(* vacancy, through the user's approval, to the one irreversible call of   *)
(* the system, provider.submitApplication.                                 *)
(*                                                                         *)
(* The program runs as several operating-system processes: the API server  *)
(* (which also serves the Telegram webhook), the stand-alone Telegram      *)
(* bot, BullMQ consumers of auto_apply_queue, and one-shot runs of         *)
(* worker-apply.  Each keeps a PRIVATE copy of the database in memory,     *)
(* read from Postgres once, when the process starts.  Every change is made *)
(* to that copy first and mirrored to Postgres by a statement that is sent *)
(* through a pool and not awaited: such statements land in any order, and  *)
(* one that fails is forgotten.  Processes meet only in Postgres (at their *)
(* next start) and in the BullMQ queue.                                    *)
(*                                                                         *)
(* Not represented: the text of drafts (a draft is the content version it  *)
(* was generated from), time stamps, audit events, task runs, the status   *)
(* of review items (no decision of this path reads it) and the wording of  *)
(* policy results.                                                         *)
(***************************************************************************)
EXTENDS Naturals, FiniteSets, Bags

CONSTANTS
  Api,            \* the API server process
  Bots,           \* stand-alone Telegram bot processes
  Consumers,      \* worker-apply processes with WORKER_CONSUME_BULLMQ=true
  Clis,           \* worker-apply processes with APPROVED_SUBMIT_APPLICATION_ID
  Db,             \* the Postgres database
  App,            \* application record ids
  Req,            \* approval request ids
  ReqApp,         \* the application a request asks about
  Content,        \* versions of a vacancy's text
  Outcomes,       \* answers of provider.submitApplication
  Orphan,         \* applications whose provider no worker has registered
  Modes,          \* the modes the operator switches between
  InitialMode,    \* the mode the system is found in
  IrreversibleActionsEnabled,
  MaxAttempts,    \* queuePolicies.auto_apply_queue.attempts
  MaxStalls,      \* BullMQ's maxStalledCount
  MaxPending,     \* bound: statements in flight
  MaxOps,         \* bound: operations of users and operators
  MaxRestarts,    \* bound: process starts after the first
  None

Gateways == {Api} \union Bots
Workers  == Consumers \union Clis
Procs    == Gateways \union Workers
Copies   == Procs \union {Db}

AppModes == { "read_only", "dry_run_apply", "review_first",
              "controlled_auto_apply", "full_auto_apply",
              "conversation_only", "paused" }

ASSUME ProcessAssumption ==
  /\ Db \notin Procs
  /\ Gateways \intersect Workers = {}
  /\ Consumers \intersect Clis = {}
ASSUME RequestAssumption == ReqApp \in [Req -> App]
ASSUME NoneAssumption ==
  /\ None \notin App /\ None \notin Req /\ None \notin Content
  /\ None \notin Procs
ASSUME ModeAssumption ==
  /\ Modes \subseteq AppModes /\ InitialMode \in AppModes
  /\ IrreversibleActionsEnabled \in BOOLEAN
  /\ Outcomes \subseteq {"submitted", "blocked", "failed"}
ASSUME BoundAssumption ==
  /\ MaxAttempts \in Nat \ {0} /\ MaxStalls \in Nat
  /\ MaxPending \in Nat /\ MaxOps \in Nat /\ MaxRestarts \in Nat

-----------------------------------------------------------------------------
VARIABLES
  status,     \* status[c][a]: applications.status in copy c
  proof,      \* proof[c][a]: what the application's proof pack records
  req,        \* req[c][r]: approval_requests.status in copy c
  mode,       \* mode[c]: systemMode in copy c
  review,     \* review[c]: applications with a manual review item
  content,    \* content[c][a]: the vacancy text, in Postgres and in workers
  draft,      \* draft[a]: draftVariantKey, written once by createApplication
  writes,     \* statements sent to Postgres and not yet settled (a bag)
  jobs,       \* the BullMQ jobs of auto_apply_queue, by job id
  calls,      \* gateway handlers waiting for queue.enqueue
  run,        \* what each worker process is executing
  expired,    \* requests whose expiresAt has passed
  minted,     \* request ids handed out so far
  ops, restarts,   \* bounded counters
  userApproved,    \* history: requests an approval handler accepted
  sends,           \* history: submit calls of a worker since it started
  submitted        \* history: applications submitted at least once

copies  == <<status, proof, req, mode, review, content, draft>>
queue   == <<jobs, calls>>
clock   == <<expired, minted, ops, restarts>>
history == <<userApproved, sends, submitted>>
vars == <<copies, writes, queue, run, clock, history>>

ApplicationStatus ==
  { "application_prepared", "manual_review_required", "apply_queued",
    "applying", "applied", "apply_failed", "apply_blocked_by_policy",
    "apply_blocked_by_provider" }

\* "missing": the artifact row of the proof pack never reached Postgres.
ProofStatus == { "none", "dry_run", "missing", "submit" }

RequestStatus == { "pending", "approved", "rejected", "expired" }

\* BullMQ job ids.  Gateways derive theirs from the application and its
\* draft hash (fixed per application); the one-shot run adds the request.
Keys == [app : App, cli : Req \union {None}]

JobStates == { "none", "waiting", "active", "completed", "failed" }

Job == [state : JobStates, req : Req \union {None},
        owner : Consumers \union {None},
        tries : 0 .. MaxAttempts, stalls : 0 .. MaxStalls + 1]

JobRecord(s, r, o, t, n) ==
  [state |-> s, req |-> r, owner |-> o, tries |-> t, stalls |-> n]

NoJob == JobRecord("none", None, None, 0, 0)

Run == [phase : {"exited", "idle", "health", "submit"},
        app : App \union {None}, req : Req \union {None},
        job : Keys \union {None}]

Idle   == [phase |-> "idle",   app |-> None, req |-> None, job |-> None]
Exited == [phase |-> "exited", app |-> None, req |-> None, job |-> None]

\* A statement sent to Postgres by process p.
Statement(p, k, i, v) == [by |-> p, kind |-> k, id |-> i, val |-> v]

Statements ==
  [by : Procs, kind : {"create", "status"}, id : App, val : ApplicationStatus]
  \union [by : Procs, kind : {"proof"},     id : App, val : {"submit"}]
  \union [by : Procs, kind : {"newReq"},    id : Req, val : {"pending"}]
  \union [by : Procs, kind : {"req"},       id : Req, val : RequestStatus]
  \union [by : Procs, kind : {"mode"},      id : {"global"}, val : AppModes]

TypeOK ==
  /\ status  \in [Copies -> [App -> ApplicationStatus \union {"absent"}]]
  /\ proof   \in [Workers \union {Db} -> [App -> ProofStatus]]
  /\ req     \in [Copies -> [Req -> RequestStatus \union {"none"}]]
  /\ mode    \in [Copies -> AppModes]
  /\ review  \in [Gateways \union {Db} -> SUBSET App]
  /\ content \in [Workers \union {Db} -> [App -> Content \union {None}]]
  /\ draft   \in [App -> Content \union {None}]
  /\ IsABag(writes) /\ DOMAIN writes \subseteq Statements
  /\ jobs    \in [Keys -> Job]
  /\ calls   \subseteq [by : Gateways, req : Req]
  /\ run     \in [Workers -> Run]
  /\ expired \subseteq Req /\ minted \subseteq Req
  /\ ops \in 0 .. MaxOps /\ restarts \in 0 .. MaxRestarts
  /\ userApproved \subseteq Req
  /\ sends \in [Workers -> [App -> Nat]]
  /\ submitted \subseteq App

Init ==
  /\ status  = [c \in Copies |-> [a \in App |-> "absent"]]
  /\ proof   = [c \in Workers \union {Db} |-> [a \in App |-> "none"]]
  /\ req     = [c \in Copies |-> [r \in Req |-> "none"]]
  /\ mode    = [c \in Copies |-> InitialMode]
  /\ review  = [c \in Gateways \union {Db} |-> {}]
  /\ content = [c \in Workers \union {Db} |-> [a \in App |-> None]]
  /\ draft   = [a \in App |-> None]
  /\ writes  = EmptyBag
  /\ jobs    = [k \in Keys |-> NoJob]
  /\ calls   = {}
  /\ run     = [w \in Workers |-> IF w \in Clis THEN Exited ELSE Idle]
  /\ expired = {} /\ minted = {}
  /\ ops = 0 /\ restarts = 0
  /\ userApproved = {}
  /\ sends = [w \in Workers |-> [a \in App |-> 0]]
  /\ submitted = {}

-----------------------------------------------------------------------------
(* Pieces of the handlers.                                                 *)

\* One more operation of a user or operator, within the bound.
Operation == ops < MaxOps /\ ops' = ops + 1

\* persist(): hand a set of statements to the pool, within the bound.
Persist(S) ==
  /\ BagCardinality(writes) + Cardinality(S) <= MaxPending
  /\ writes' = writes (+) SetToBag(S)

\* PolicyEngine.check for send_application.  hardOk stands for the hard
\* checks that do not depend on the mode: provider status, rate limits,
\* consent, score, deduplication, proof, validation.
PolicyDecision(m, hardOk) ==
  IF m \in {"paused", "read_only", "dry_run_apply"} \/ ~hardOk
  THEN "deny"
  ELSE IF ~IrreversibleActionsEnabled \/ m = "review_first"
       THEN "requires_user_approval"
       ELSE "allow"

\* createManualReview in process p.  Items are only ever added, so the insert
\* is not delayed: that a lost one cannot be approved is the same as nobody
\* approving it.  Workers never read theirs.
OpenReview(p, a) ==
  [c \in DOMAIN review |-> IF c \in {p, Db} THEN review[c] \union {a} ELSE review[c]]

\* createApprovalRequest returns r: the pending request of the same
\* application if there is one, else a request with a fresh id.
ReturnsRequest(p, a, r) ==
  LET pending == {q \in Req : ReqApp[q] = a /\ req[p][q] = "pending"}
  IN /\ ReqApp[r] = a
     /\ IF pending = {} THEN r \notin minted ELSE r \in pending

\* resolveApprovalRequest: the status the request gets.  late says whether
\* the handler's clock is past expiresAt.
Resolved(current, resolution, late) ==
  CASE current \in {"pending", "approved"} /\ late -> "expired"
    [] current = "pending" /\ ~late                -> resolution
    [] OTHER                                       -> current

\* queue.add: a job id that is already known is left as it is.
AddJob(k, r) ==
  IF jobs[k].state # "none" THEN jobs
  ELSE [jobs EXCEPT ![k] = JobRecord("waiting", r, None, 0, 0)]

\* ReviewFirstSubmitGate and the gateways' policies: a request of status s
\* may be queued.  (The first form forgets to look at the status.)
MayQueueAnyStatus(r, s) == r \notin expired /\ IrreversibleActionsEnabled /\ s # ""
MayQueue(r, s) == /\ s = "approved" /\ r \notin expired
                  /\ IrreversibleActionsEnabled

-----------------------------------------------------------------------------
(* Gateways: the API server and the Telegram command handlers.  A handler  *)
(* that refuses (rate limit, policy, unknown id) changes nothing here.     *)

\* createApplication finds no record with the same idempotency key.  Without
\* that lookup the INSERT ... ON CONFLICT would reset the stored record.
NoLookup(a) == a \in App
NoApplicationYet(a) == draft[a] = None

\* runLocalPipeline reaches a shortlisted vacancy with no application yet.
\* In read_only mode the pipeline only records the vacancy.
PrepareApplication(a, v, hardOk) ==
  LET decision == PolicyDecision(mode[Api], hardOk)
      first == CASE decision = "deny"  -> "apply_blocked_by_policy"
                 [] decision = "allow" -> "application_prepared"
                 [] OTHER              -> "manual_review_required"
      create == Statement(Api, "create", a, first)
  IN /\ mode[Api] # "read_only"
     /\ NoApplicationYet(a)
     /\ Operation
     /\ status' = [status EXCEPT ![Api][a] = first]
     /\ draft' = [draft EXCEPT ![a] = v]
     /\ content' = [content EXCEPT ![Db][a] = v]
     /\ \/ /\ decision # "requires_user_approval"
           /\ Persist({create})
           /\ UNCHANGED <<review, req, minted>>
        \/ /\ decision = "requires_user_approval"
           /\ \E r \in Req :
                /\ ReturnsRequest(Api, a, r)
                /\ req' = [req EXCEPT ![Api][r] = "pending"]
                /\ minted' = minted \union {r}
                /\ Persist({create, Statement(Api, "newReq", r, "pending")})
           /\ review' = OpenReview(Api, a)
     /\ UNCHANGED <<proof, mode, queue, run, expired, restarts, history>>

\* runLocalPipeline, or worker-ingest, meets the vacancy again: the text is
\* stored; createApplication returns the record it has, whatever its state,
\* and a decision that asks for approval opens a review and a request.
ReingestVacancy(a, v, hardOk) ==
  /\ draft[a] # None
  /\ Operation
  /\ content' = [content EXCEPT ![Db][a] = v]
  /\ \/ UNCHANGED <<review, req, minted, writes>>
     \/ /\ status[Api][a] # "absent"
        /\ PolicyDecision(mode[Api], hardOk) = "requires_user_approval"
        /\ \E r \in Req :
             /\ ReturnsRequest(Api, a, r)
             /\ req' = [req EXCEPT ![Api][r] = "pending"]
             /\ minted' = minted \union {r}
             /\ Persist({Statement(Api, "newReq", r, "pending")})
        /\ review' = OpenReview(Api, a)
  /\ UNCHANGED <<status, proof, mode, draft, queue, run, expired, restarts,
                 history>>

\* POST /approval-requests for send_application.
PostApprovalRequest(a, r) ==
  /\ status[Api][a] # "absent"
  /\ ReturnsRequest(Api, a, r)
  /\ Operation
  /\ req' = [req EXCEPT ![Api][r] = "pending"]
  /\ minted' = minted \union {r}
  /\ Persist({Statement(Api, "newReq", r, "pending")})
  /\ UNCHANGED <<status, proof, mode, review, content, draft, queue, run,
                 expired, restarts, history>>

\* resolveApprovalRequest in gateway g, and, when the outcome may be queued,
\* the status change and the start of queue.enqueue.
Resolve(g, r, resolution, late) ==
  LET a == ReqApp[r]
      s == Resolved(req[g][r], resolution, late)
      enqueue == /\ resolution = "approved" /\ MayQueue(r, s)
                 /\ status[g][a] # "absent"
      stored == {Statement(g, "req", r, s)}
  IN /\ req' = [req EXCEPT ![g][r] = s]
     /\ userApproved' = IF s = "approved" /\ resolution = "approved"
                        THEN userApproved \union {r} ELSE userApproved
     /\ \/ /\ enqueue
           /\ [by |-> g, req |-> r] \notin calls
           /\ status' = [status EXCEPT ![g][a] = "apply_queued"]
           /\ calls' = calls \union {[by |-> g, req |-> r]}
           /\ Persist(stored \union
                      {Statement(g, "status", a, "apply_queued")})
        \/ /\ ~enqueue
           /\ Persist(stored)
           /\ UNCHANGED <<status, calls>>

\* POST /approval-requests/:id/resolve.  The caller may pass its own "now",
\* so late is free; the plan that gates the queue uses the real clock.  An
\* approval is refused when the policy does not allow it.
ApiResolve(r, resolution, late) ==
  LET a == ReqApp[r]
  IN /\ req[Api][r] # "none"
     /\ resolution = "approved" /\ status[Api][a] # "absent"
          => IrreversibleActionsEnabled
     /\ Operation
     /\ Resolve(Api, r, resolution, late)
     /\ UNCHANGED <<proof, mode, review, content, draft, jobs, run, expired,
                    minted, restarts, sends, submitted>>

\* /approve <request id>: refused before anything is written unless the
\* plan for an approved request allows the queue.
ApproveCommand(g, r) ==
  /\ req[g][r] # "none"
  /\ status[g][ReqApp[r]] # "absent"
  /\ MayQueue(r, "approved")
  /\ Operation
  /\ Resolve(g, r, "approved", FALSE)
  /\ UNCHANGED <<proof, mode, review, content, draft, jobs, run, expired,
                 minted, restarts, sends, submitted>>

\* /reject <request id>.  On an approved request that has not expired the
\* handler stores the status again and then throws (there is no plan).
RejectCommand(g, r) ==
  /\ req[g][r] # "none"
  /\ status[g][ReqApp[r]] # "absent"
  /\ Operation
  /\ Resolve(g, r, "rejected", r \in expired)
  /\ UNCHANGED <<proof, mode, review, content, draft, jobs, run, expired,
                 minted, restarts, sends, submitted>>

\* /approve <manual review id> (approveApplicationManualReview): creates or
\* reuses a request and resolves it at once; a reused request that has
\* expired meanwhile ends the command there.
ApproveApplicationManualReview(g, a, r) ==
  LET s == Resolved("pending", "approved", r \in expired)
      stored == {Statement(g, "newReq", r, "pending"),
                 Statement(g, "req", r, s)}
  IN /\ a \in review[g]
     /\ status[g][a] # "absent"
     /\ IrreversibleActionsEnabled
     /\ ReturnsRequest(g, a, r)
     /\ Operation
     /\ req' = [req EXCEPT ![g][r] = s]
     /\ minted' = minted \union {r}
     /\ \/ /\ s = "approved"
           /\ [by |-> g, req |-> r] \notin calls
           /\ userApproved' = userApproved \union {r}
           /\ status' = [status EXCEPT ![g][a] = "apply_queued"]
           /\ calls' = calls \union {[by |-> g, req |-> r]}
           /\ Persist(stored \union
                      {Statement(g, "status", a, "apply_queued")})
        \/ /\ s # "approved"
           /\ Persist(stored)
           /\ UNCHANGED <<userApproved, status, calls>>
     /\ UNCHANGED <<proof, mode, review, content, draft, jobs, run, expired,
                    restarts, sends, submitted>>

\* queue.enqueue returns to the handler: the job was added (or was there
\* already), or the call failed, or it failed after Redis took the job.
EnqueueReturns(c, added, ok) ==
  LET a == ReqApp[c.req]
      k == [app |-> a, cli |-> None]
  IN /\ c \in calls
     /\ ok => added
     /\ calls' = calls \ {c}
     /\ jobs' = IF added THEN AddJob(k, c.req) ELSE jobs
     /\ \/ ok /\ UNCHANGED <<status, writes>>
        \/ /\ ~ok
           /\ status' = [status EXCEPT ![c.by][a] = "manual_review_required"]
           /\ Persist({Statement(c.by, "status", a, "manual_review_required")})
     /\ UNCHANGED <<proof, req, mode, review, content, draft, run, clock,
                    history>>

\* POST /mode, /mode, /pause, /resume_bot.
SetMode(g, m) ==
  /\ Operation
  /\ mode' = [mode EXCEPT ![g] = m]
  /\ Persist({Statement(g, "mode", "global", m)})
  /\ UNCHANGED <<status, proof, req, review, content, draft, queue, run,
                 expired, minted, restarts, history>>

-----------------------------------------------------------------------------
(* Workers: processApprovedSubmit, cut at its two awaits.                  *)

\* validateApprovedSubmitPayload, on the worker's own copy.  Draft hashes
\* are per application and never change, so they always agree.  (The first
\* form forgets the status of the request.)
ValidPayloadAnyStatus(w, a, r) ==
  r # None /\ req[w][r] # "none" /\ ReqApp[r] = a /\ r \notin expired
ValidPayload(w, a, r) ==
  /\ r # None
  /\ req[w][r] = "approved"
  /\ ReqApp[r] = a
  /\ r \notin expired

\* A retryable error: BullMQ runs the job again while attempts are left.
\* (The first form allows one attempt too many, the second any number.)
RetryOnceMore(j) ==
  JobRecord(IF j.tries < MaxAttempts THEN "waiting" ELSE "failed",
            j.req, None, j.tries + 1, j.stalls)
RetryForever(j) == JobRecord("waiting", j.req, None, j.tries, j.stalls)
Retry(j) ==
  JobRecord(IF j.tries + 1 < MaxAttempts THEN "waiting" ELSE "failed",
            j.req, None, j.tries + 1, j.stalls)

\* What a worker process is when its handler has returned.
Rest(w) == IF w \in Clis THEN Exited ELSE Idle

\* The handler of w returns: BullMQ completes the job if w still holds its
\* lock; after a stall the job belongs to another worker, or to nobody.
Completed(w) ==
  LET k == run[w].job
  IN IF k # None /\ jobs[k].owner = w
     THEN [jobs EXCEPT ![k] =
            JobRecord("completed", @.req, None, @.tries, @.stalls)]
     ELSE jobs

\* setApplicationStatus in the worker's copy, mirrored to Postgres.
WorkerStatus(w, a, s, more) ==
  /\ status' = [status EXCEPT ![w][a] = s]
  /\ Persist(more \union {Statement(w, "status", a, s)})

\* The handler up to its first await: the application is unknown, its
\* provider is not registered, the payload is refused, or it is accepted.
Entry(w, a, r) ==
  CASE status[w][a] = "absent"  -> "application_missing"
    [] status[w][a] # "absent" /\ a \in Orphan -> "provider_missing"
    [] OTHER -> IF ValidPayload(w, a, r) THEN "accepted" ELSE "refused"

EntryEffect(w, a, e) ==
  \/ /\ e \in {"application_missing", "accepted"}
     /\ UNCHANGED <<status, review, writes>>
  \/ /\ e = "provider_missing"
     /\ WorkerStatus(w, a, "apply_failed", {})
     /\ UNCHANGED review
  \/ /\ e = "refused"
     /\ WorkerStatus(w, a, "manual_review_required", {})
     /\ review' = OpenReview(w, a)

\* A consumer takes job k: errors thrown are retried, a refusal completes
\* the job, an accepted payload goes on to the healthcheck.
StartJob(w, k) ==
  LET r == jobs[k].req
      e == Entry(w, k.app, r)
  IN /\ w \in Consumers
     /\ run[w] = Idle
     /\ jobs[k].state = "waiting"
     /\ EntryEffect(w, k.app, e)
     /\ jobs' = [jobs EXCEPT ![k] =
          CASE e = "accepted" -> JobRecord("active", r, w, @.tries, @.stalls)
            [] e = "refused"  -> JobRecord("completed", r, None, @.tries, @.stalls)
            [] OTHER          -> Retry(@)]
     /\ run' = IF e = "accepted"
               THEN [run EXCEPT ![w] = [phase |-> "health", app |-> k.app,
                                        req |-> r, job |-> k]]
               ELSE run
     /\ UNCHANGED <<proof, req, mode, content, draft, calls, clock, history>>

\* The one-shot run: it enqueues a job under its own id (visible to the
\* consumers when the queue is Redis, private when it is in memory) and then
\* executes the handler itself, holding no lock.
RunCli(w, a, r, shared) ==
  LET e == Entry(w, a, r)
  IN /\ w \in Clis
     /\ run[w] = Idle
     /\ EntryEffect(w, a, e)
     /\ jobs' = IF shared THEN AddJob([app |-> a, cli |-> r], r) ELSE jobs
     /\ run' = [run EXCEPT ![w] =
          IF e = "accepted"
          THEN [phase |-> "health", app |-> a, req |-> r, job |-> None]
          ELSE Exited]
     /\ UNCHANGED <<proof, req, mode, content, draft, calls, clock, history>>

\* policy.check with what the worker's copy says after the healthcheck.
\* (The first form passes proofReady and validationPassed unchecked.)
SubmitDecisionUnchecked(w, a, hardOk) ==
  PolicyDecision(mode[w], hardOk /\ a \in App)
SubmitDecision(w, a, hardOk) ==
  PolicyDecision(mode[w],
    /\ hardOk
    /\ proof[w][a] = "dry_run"                              \* proofReady
    /\ status[w][a] \in {"application_prepared", "apply_queued"})

\* SubmitGuardSequence: the policy allows and a recent canary passed.
GuardPassed(w, a, hardOk, canary) ==
  SubmitDecision(w, a, hardOk) = "allow" /\ canary

\* buildApprovedApplicationDraft: the draft rebuilt from the worker's copy of
\* the vacancy has the approved hash.  (The first form skips the hash.)
DraftNotCompared(w, a) == w \in Workers /\ a \in App
DraftUnchanged(w, a) == content[w][a] = draft[a]

\* provider.healthcheck returns: policy, guard and draft are checked, then
\* the application is marked applying and submitApplication is called.
HealthcheckReturns(w, hardOk, canary) ==
  LET a == run[w].app
      passed == GuardPassed(w, a, hardOk, canary)
  IN /\ run[w].phase = "health"
     /\ \/ /\ ~passed
           /\ WorkerStatus(w, a,
                IF SubmitDecision(w, a, hardOk) = "deny"
                THEN "apply_blocked_by_policy" ELSE "manual_review_required",
                {})
           /\ review' = OpenReview(w, a)
           /\ run' = [run EXCEPT ![w] = Rest(w)]
           /\ jobs' = Completed(w)
           /\ UNCHANGED <<sends, submitted>>
        \/ /\ passed /\ ~DraftUnchanged(w, a)
           /\ WorkerStatus(w, a, "manual_review_required", {})
           /\ review' = OpenReview(w, a)
           /\ run' = [run EXCEPT ![w] = Rest(w)]
           /\ jobs' = Completed(w)
           /\ UNCHANGED <<sends, submitted>>
        \/ /\ passed /\ DraftUnchanged(w, a)
           /\ WorkerStatus(w, a, "applying", {})
           /\ run' = [run EXCEPT ![w] = [phase |-> "submit", app |-> a,
                                        req |-> run[w].req, job |-> run[w].job]]
           /\ sends' = [sends EXCEPT ![w][a] = @ + 1]
           /\ submitted' = submitted \union {a}
           /\ UNCHANGED <<review, jobs>>
     /\ UNCHANGED <<proof, req, mode, content, draft, calls, clock, userApproved>>

\* submitApplication returns (it never throws): the proof pack replaces the
\* dry run's, and the status records the outcome.
SubmitReturns(w, outcome) ==
  LET a == run[w].app
  IN /\ run[w].phase = "submit"
     /\ proof' = [proof EXCEPT ![w][a] = "submit"]
     /\ WorkerStatus(w, a,
          CASE outcome = "submitted" -> "applied"
            [] outcome = "blocked"   -> "apply_blocked_by_provider"
            [] OTHER                 -> "apply_failed",
          {Statement(w, "proof", a, "submit")})
     /\ run' = [run EXCEPT ![w] = Rest(w)]
     /\ jobs' = Completed(w)
     /\ UNCHANGED <<req, mode, review, content, draft, calls, clock, history>>

-----------------------------------------------------------------------------
(* The environment: Postgres, Redis, the clock and process lifetimes.      *)

\* Statement s takes effect in Postgres.  An UPDATE of a row that is not
\* there changes nothing, an INSERT of one that is there changes nothing.
\* artifact: the dry run's proof pack row was stored as well.
Land(s, artifact) ==
  LET a == s.id
  IN /\ BagIn(s, writes)
     /\ writes' = writes (-) SetToBag({s})
     /\ status' = IF s.kind = "create" \/ (s.kind = "status" /\ status[Db][a] # "absent")
                  THEN [status EXCEPT ![Db][a] = s.val] ELSE status
     /\ \/ /\ s.kind = "create"
           /\ proof' = [proof EXCEPT ![Db][a] = IF artifact THEN "dry_run" ELSE "missing"]
        \/ /\ s.kind = "proof" /\ status[Db][a] # "absent"
           /\ proof' = [proof EXCEPT ![Db][a] = "submit"]
        \/ /\ s.kind # "create" /\ (s.kind = "proof" => status[Db][a] = "absent")
           /\ UNCHANGED proof
     /\ req' = IF \/ s.kind = "newReq" /\ req[Db][s.id] = "none"
                  \/ s.kind = "req" /\ req[Db][s.id] # "none"
               THEN [req EXCEPT ![Db][s.id] = s.val] ELSE req
     /\ mode' = IF s.kind = "mode" THEN [mode EXCEPT ![Db] = s.val] ELSE mode
     /\ UNCHANGED <<review, content, draft, queue, run, clock, history>>

\* Statement s fails or its process dies first; nobody sends it again.
Lose(s) ==
  /\ BagIn(s, writes)
  /\ writes' = writes (-) SetToBag({s})
  /\ UNCHANGED <<copies, queue, run, clock, history>>

\* The process dies, loses what it was doing and starts again with what
\* Postgres holds.  Its statements have settled by then.
Restart(p) ==
  /\ restarts < MaxRestarts /\ restarts' = restarts + 1
  /\ \A s \in BagToSet(writes) : s.by # p
  /\ status' = [status EXCEPT ![p] = status[Db]]
  /\ req' = [req EXCEPT ![p] = req[Db]]
  /\ mode' = [mode EXCEPT ![p] = mode[Db]]
  /\ \/ /\ p \in Gateways
        /\ review' = [review EXCEPT ![p] = review[Db]]
        /\ calls' = {c \in calls : c.by # p}
        /\ UNCHANGED <<proof, content, run, sends>>
     \/ /\ p \in Workers
        /\ proof' = [proof EXCEPT ![p] = proof[Db]]
        /\ content' = [content EXCEPT ![p] = content[Db]]
        /\ run' = [run EXCEPT ![p] = Idle]
        /\ sends' = [sends EXCEPT ![p] = [a \in App |-> 0]]
        /\ UNCHANGED <<review, calls>>
  /\ UNCHANGED <<draft, writes, jobs, expired, minted, ops, userApproved,
                 submitted>>

\* The lock of an active job was not renewed: its worker died or was held
\* up longer than lockDuration.  BullMQ gives the job to another worker, or
\* fails it once it has stalled too often.
StallJob(k) ==
  LET again == IF jobs[k].stalls < MaxStalls THEN "waiting" ELSE "failed"
  IN /\ jobs[k].state = "active"
     /\ jobs' = [jobs EXCEPT ![k] =
          JobRecord(again, @.req, None, @.tries, @.stalls + 1)]
     /\ UNCHANGED <<copies, writes, calls, run, clock, history>>

\* removeOnComplete: an old completed job is forgotten, its id is free again.
EvictJob(k) ==
  /\ jobs[k].state = "completed"
  /\ jobs' = [jobs EXCEPT ![k] = NoJob]
  /\ UNCHANGED <<copies, writes, calls, run, clock, history>>

\* expiresAt of a request passes.
Expire(r) ==
  /\ r \in minted \ expired
  /\ expired' = expired \union {r}
  /\ UNCHANGED <<copies, writes, queue, run, minted, ops, restarts, history>>

-----------------------------------------------------------------------------
GatewayStep ==
  \/ \E a \in App, v \in Content, hardOk \in BOOLEAN :
       PrepareApplication(a, v, hardOk) \/ ReingestVacancy(a, v, hardOk)
  \/ \E a \in App, r \in Req : PostApprovalRequest(a, r)
  \/ \E r \in Req, resolution \in {"approved", "rejected"}, late \in BOOLEAN :
       ApiResolve(r, resolution, late)
  \/ \E g \in Gateways, r \in Req : ApproveCommand(g, r) \/ RejectCommand(g, r)
  \/ \E g \in Gateways, a \in App, r \in Req :
       ApproveApplicationManualReview(g, a, r)
  \/ \E c \in calls, added, ok \in BOOLEAN : EnqueueReturns(c, added, ok)
  \/ \E g \in Gateways, m \in Modes : SetMode(g, m)

WorkerStep(w) ==
  \/ \E k \in Keys : StartJob(w, k)
  \/ \E a \in App, r \in Req, shared \in BOOLEAN : RunCli(w, a, r, shared)
  \/ \E hardOk, canary \in BOOLEAN : HealthcheckReturns(w, hardOk, canary)
  \/ \E outcome \in Outcomes : SubmitReturns(w, outcome)

Settle == \E s \in BagToSet(writes) :
             Lose(s) \/ \E artifact \in BOOLEAN : Land(s, artifact)

Environment ==
  \/ Settle
  \/ \E p \in Procs : Restart(p)
  \/ \E k \in Keys : StallJob(k) \/ EvictJob(k)
  \/ \E r \in Req : Expire(r)

Next == GatewayStep \/ (\E w \in Workers : WorkerStep(w)) \/ Environment

Spec == Init /\ [][Next]_vars

\* What the runtime guarantees: BullMQ hands a waiting job to a consumer and
\* takes back the job of a worker that is gone, the provider's calls time
\* out, and a statement sent to Postgres succeeds or fails.
AbandonedJob(k) ==
  /\ \A w \in Consumers : run[w].job # k
  /\ StallJob(k)

Fairness ==
  /\ \A w \in Workers : WF_vars(WorkerStep(w))
  /\ \A k \in Keys : WF_vars(AbandonedJob(k))
  /\ WF_vars(Settle)

FairSpec == Spec /\ Fairness

-----------------------------------------------------------------------------
(* Properties.                                                             *)

\* The step in which worker w calls submitApplication.
CallsSubmit(w) == run[w].phase = "health" /\ run'[w].phase = "submit"

\* Every call of provider.submitApplication is backed by an approval handler
\* that accepted the very request the worker is acting on, which asks about
\* the application being submitted, and sends the text that was approved,
\* whatever was redelivered, restarted, lost or reordered on the way
\* (validateApprovedSubmitPayload, buildApprovedApplicationDraft).
SubmitBackedByApproval ==
  \A w \in Workers : run[w].phase = "submit" =>
    /\ run[w].req \in userApproved
    /\ ReqApp[run[w].req] = run[w].app
    /\ content[w][run[w].app] = draft[run[w].app]

\* A worker process calls submitApplication at most once per application
\* between two starts, however often the job is redelivered or approved
\* again: the proof pack of the first call closes the guard.
SubmitOncePerLifetime ==
  \A w \in Workers, a \in App : sends[w][a] <= 1

\* The path implements the ledger of SubmitLedger: reading only which
\* requests were approved and what each process has sent since it started,
\* every step is an approval, a covered submit, a process start or nothing.
Ledger == INSTANCE SubmitLedger WITH
  Worker <- Workers, approved <- userApproved,
  sent <- [w \in Workers |-> {a \in App : sends[w][a] > 0}]
ImplementsLedger == Ledger!Spec

\* A job that a gateway queued carries a request that was approved, also
\* after stalls, retries and re-queueing under the same job id.
QueuedJobsApproved ==
  \A k \in Keys : k.cli = None /\ jobs[k].state # "none" =>
    jobs[k].req \in userApproved /\ ReqApp[jobs[k].req] = k.app

\* Once Postgres holds the proof pack of a submit call, no later statement
\* of any process, in whatever order they land, brings the dry run's back:
\* a worker started from then on cannot pass the guard again.
DurableProofKept ==
  [][\A a \in App : proof[Db][a] = "submit" => proof'[Db][a] = "submit"]_vars

\* Every job handed to the queue leaves it: completed, failed or evicted.
JobsSettle ==
  \A k \in Keys : jobs[k].state = "waiting" ~> jobs[k].state \in {"none", "completed", "failed"}

\* docs/architecture/queues-and-workers.md: irreversible work must not run
\* unless idempotency acquisition succeeds, so no application is submitted
\* a second time.
SubmitOnce ==
  [][\A w \in Workers : CallsSubmit(w) => run[w].app \notin submitted]_vars

\* docs/architecture/application-lifecycle.md: applied is terminal.
AppliedIsTerminal ==
  [][\A a \in App : status[Db][a] = "applied" => status'[Db][a] = "applied"]_vars

\* /pause: "New irreversible actions are blocked."
PausedBlocksSubmit ==
  [][\A w \in Workers : CallsSubmit(w) => mode[Db] # "paused"]_vars

\* docs/architecture/manual-review.md: an approval that is reported as
\* queued has a task that will run.
ApprovalQueuesWork ==
  [][\A c \in calls :
       LET a == ReqApp[c.req]
       IN c \notin calls' /\ restarts' = restarts /\ status'[c.by][a] = "apply_queued"
          => jobs'[[app |-> a, cli |-> None]].state \in {"waiting", "active"}]_vars
=============================================================================
