------------------------ MODULE ApprovedSubmitProofs ------------------------
(***************************************************************************)
(* Theorems about ApprovedSubmit, for any set of processes, applications   *)
(* and requests and any bounds: its types, and what must not go wrong on   *)
(* the path: every submit call is backed by an approval, a process submits *)
(* an application once between two starts, a stored submit proof is never  *)
(* replaced, and the path implements the abstract ledger.                  *)
(***************************************************************************)
EXTENDS ApprovedSubmit, TLAPS

-----------------------------------------------------------------------------
(* What handing statements to the pool, and settling one, does to the bag. *)

\* Persist adds its statements to the ones in flight and keeps the bag a bag.
LEMMA PersistAdds ==
  ASSUME NEW S, Persist(S), IsABag(writes)
  PROVE  /\ IsABag(writes')
         /\ DOMAIN writes' = DOMAIN writes \union S
         /\ \A s \in DOMAIN writes \ S : writes'[s] = writes[s]
         /\ \A s \in S \ DOMAIN writes : writes'[s] = 1
<1>. DEFINE one == SetToBag(S)
<1>1. writes' = [e \in DOMAIN writes \union DOMAIN one |->
                  (IF e \in DOMAIN writes THEN writes[e] ELSE 0)
                + (IF e \in DOMAIN one THEN one[e] ELSE 0)]
  BY DEF Persist, (+)
<1>2. DOMAIN one = S /\ \A e \in S : one[e] = 1
  BY DEF SetToBag
<1>3. \A e \in DOMAIN writes : writes[e] \in Nat /\ writes[e] > 0
  BY DEF IsABag
<1>4. DOMAIN writes' = DOMAIN writes \union S
  BY <1>1, <1>2
<1>5. \A e \in DOMAIN writes' : writes'[e] \in {n \in Nat : n > 0}
  BY <1>1, <1>2, <1>3
<1>6. writes' \in [DOMAIN writes' -> {n \in Nat : n > 0}]
  BY <1>1, <1>5
<1>. QED
  BY <1>1, <1>2, <1>3, <1>4, <1>6 DEF IsABag

\* Settling a statement leaves only statements that were in flight, each as
\* often as before, except for one copy of the one that settled.
LEMMA SettleRemoves ==
  ASSUME NEW s, IsABag(writes), BagIn(s, writes),
         writes' = writes (-) SetToBag({s})
  PROVE  /\ IsABag(writes')
         /\ DOMAIN writes' \subseteq DOMAIN writes
         /\ \A t \in DOMAIN writes' : t # s => writes'[t] = writes[t]
         /\ writes[s] = 1 => s \notin DOMAIN writes'
<1>. DEFINE one == SetToBag({s})
            left == [e \in DOMAIN writes |->
                      IF e \in DOMAIN one THEN writes[e] - one[e] ELSE writes[e]]
<1>1. writes' = [e \in {d \in DOMAIN left : left[d] > 0} |-> left[e]]
  BY DEF (-)
<1>2. DOMAIN one = {s} /\ one[s] = 1
  BY DEF SetToBag
<1>3. \A e \in DOMAIN writes : writes[e] \in Nat /\ writes[e] > 0
  BY DEF IsABag
<1>4. /\ DOMAIN left = DOMAIN writes
      /\ \A e \in DOMAIN left : left[e] \in Nat
      /\ \A e \in DOMAIN left : e # s => left[e] = writes[e]
      /\ s \in DOMAIN left => left[s] = writes[s] - 1
  BY <1>2, <1>3
<1>. HIDE DEF left, one
<1>5. writes' \in [DOMAIN writes' -> {n \in Nat : n > 0}]
  BY <1>1, <1>4
<1>. QED
  BY <1>1, <1>4, <1>5 DEF IsABag

-----------------------------------------------------------------------------
(* Type correctness.                                                       *)

\* The statements the handlers send are well formed.
LEMMA StatementTypes ==
  /\ \A p \in Procs, a \in App, v \in ApplicationStatus :
       /\ Statement(p, "create", a, v) \in Statements
       /\ Statement(p, "status", a, v) \in Statements
  /\ \A p \in Procs, a \in App : Statement(p, "proof", a, "submit") \in Statements
  /\ \A p \in Procs, r \in Req : Statement(p, "newReq", r, "pending") \in Statements
  /\ \A p \in Procs, r \in Req, v \in RequestStatus :
       Statement(p, "req", r, v) \in Statements
  /\ \A p \in Procs, m \in AppModes :
       Statement(p, "mode", "global", m) \in Statements
BY DEF Statement, Statements

\* Statements stay well formed when well-formed ones are added.
WritesTyped == IsABag(writes) /\ DOMAIN writes \subseteq Statements

\* Handing well-formed statements to the pool keeps the bag well formed.
LEMMA PersistTypes ==
  ASSUME WritesTyped, NEW S \in SUBSET Statements, Persist(S)
  PROVE  WritesTyped'
<1>1. IsABag(writes') /\ DOMAIN writes' = DOMAIN writes \union S
  BY PersistAdds DEF WritesTyped
<1>. QED
  BY <1>1 DEF WritesTyped

\* queue.add keeps the jobs well formed.
LEMMA AddJobTypes ==
  ASSUME TypeOK, NEW k \in Keys, NEW r \in Req
  PROVE  AddJob(k, r) \in [Keys -> Job]
BY BoundAssumption DEF TypeOK, AddJob, JobRecord, Job, JobStates

\* Completing a job keeps the jobs well formed.
LEMMA CompletedTypes ==
  ASSUME TypeOK, NEW w \in Workers
  PROVE  Completed(w) \in [Keys -> Job]
BY DEF TypeOK, Completed, JobRecord, Job, JobStates, Run

\* createManualReview keeps the review items well formed.
LEMMA OpenReviewTypes ==
  ASSUME TypeOK, NEW p \in Procs, NEW a \in App
  PROVE  OpenReview(p, a) \in [Gateways \union {Db} -> SUBSET App]
BY DEF TypeOK, OpenReview

\* A job with an attempt left stays within its attempts when retried.
LEMMA RetryTypes ==
  ASSUME NEW j \in Job, j.tries < MaxAttempts
  PROVE  Retry(j) \in Job
BY BoundAssumption DEF Job, Retry, JobRecord, JobStates

\* Jobs that may still run have attempts and stalls left, and only an active
\* job is held by a worker.
JobLimits ==
  \A k \in Keys :
    /\ jobs[k].state \in {"waiting", "active"} =>
         jobs[k].tries < MaxAttempts /\ jobs[k].stalls <= MaxStalls
    /\ jobs[k].owner # None => jobs[k].state = "active"

\* A busy worker knows the application and the request it works on, and a
\* job in the queue carries a request.
BusyShape ==
  /\ \A w \in Workers : run[w].phase \in {"health", "submit"} =>
       run[w].app \in App /\ run[w].req \in Req
  /\ \A k \in Keys : jobs[k].state # "none" => jobs[k].req \in Req

TypeInv == TypeOK /\ JobLimits /\ BusyShape

\* The initial state is well typed.
LEMMA TypeInit == Init => TypeInv
BY BoundAssumption, ModeAssumption, ProcessAssumption
DEF Init, TypeInv, TypeOK, JobLimits, BusyShape, NoJob, JobRecord, Job, JobStates, Run, Idle,
    Exited, ProofStatus, EmptyBag, SetToBag, IsABag, Keys, Copies, Procs, Workers

\* The statuses the handlers use are application statuses.
LEMMA StatusNames ==
  {"application_prepared", "manual_review_required", "apply_queued", "applying",
   "applied", "apply_failed", "apply_blocked_by_policy",
   "apply_blocked_by_provider"} \subseteq ApplicationStatus
BY DEF ApplicationStatus

\* setApplicationStatus keeps the status table typed.
StatusTyped == status \in [Copies -> [App -> ApplicationStatus \union {"absent"}]]

\* Setting one status of one copy keeps the status table typed.
LEMMA StatusUpdate ==
  ASSUME StatusTyped, NEW c \in Copies, NEW a \in App, NEW v \in ApplicationStatus,
         status' = [status EXCEPT ![c][a] = v]
  PROVE  StatusTyped'
BY DEF StatusTyped

\* The operations counter stays within its bound.
LEMMA OperationTypes ==
  ASSUME TypeOK, Operation
  PROVE  ops' \in 0 .. MaxOps
BY BoundAssumption DEF TypeOK, Operation

\* How the sets of processes lie in each other.
LEMMA ProcessSets ==
  /\ Api \in Gateways /\ Db \in Copies /\ Db \notin Procs
  /\ Gateways \subseteq Procs /\ Workers \subseteq Procs /\ Procs \subseteq Copies
  /\ Consumers \subseteq Workers /\ Clis \subseteq Workers
BY ProcessAssumption DEF Gateways, Workers, Procs, Copies

\* createApplication in the pipeline keeps the types.
LEMMA PrepareTypes ==
  ASSUME TypeInv, NEW a \in App, NEW v \in Content, NEW hardOk \in BOOLEAN,
         PrepareApplication(a, v, hardOk)
  PROVE  TypeInv'
<1>. DEFINE decision == PolicyDecision(mode[Api], hardOk)
            first == CASE decision = "deny"  -> "apply_blocked_by_policy"
                       [] decision = "allow" -> "application_prepared"
                       [] OTHER              -> "manual_review_required"
            create == Statement(Api, "create", a, first)
<1>1. first \in ApplicationStatus
  BY DEF ApplicationStatus
<1>2. create \in Statements /\ WritesTyped
  BY <1>1, ProcessSets, StatementTypes DEF TypeInv, TypeOK, WritesTyped
<1>3. /\ status' = [status EXCEPT ![Api][a] = first]
      /\ draft' = [draft EXCEPT ![a] = v]
      /\ content' = [content EXCEPT ![Db][a] = v]
      /\ Operation
      /\ UNCHANGED <<proof, mode, queue, run, expired, restarts, history>>
  BY DEF PrepareApplication
<1>4. \/ /\ Persist({create})
         /\ UNCHANGED <<review, req, minted>>
      \/ /\ \E r \in Req :
              /\ req' = [req EXCEPT ![Api][r] = "pending"]
              /\ minted' = minted \union {r}
              /\ Persist({create, Statement(Api, "newReq", r, "pending")})
         /\ review' = OpenReview(Api, a)
  BY DEF PrepareApplication
<1>. HIDE DEF first, create
<1>5. /\ WritesTyped'
      /\ review' \in [Gateways \union {Db} -> SUBSET App]
      /\ req' \in [Copies -> [Req -> RequestStatus \union {"none"}]]
      /\ minted' \subseteq Req
  <2>1. CASE Persist({create}) /\ UNCHANGED <<review, req, minted>>
    <3>1. WritesTyped'
      BY <2>1, <1>2, PersistTypes
    <3>. QED
      BY <2>1, <3>1 DEF TypeInv, TypeOK
  <2>2. ASSUME NEW r \in Req,
               req' = [req EXCEPT ![Api][r] = "pending"],
               minted' = minted \union {r},
               Persist({create, Statement(Api, "newReq", r, "pending")}),
               review' = OpenReview(Api, a)
        PROVE  /\ WritesTyped'
               /\ review' \in [Gateways \union {Db} -> SUBSET App]
               /\ req' \in [Copies -> [Req -> RequestStatus \union {"none"}]]
               /\ minted' \subseteq Req
    <3>1. {create, Statement(Api, "newReq", r, "pending")} \in SUBSET Statements
      BY <1>2, ProcessSets, StatementTypes
    <3>2. WritesTyped'
      BY <3>1, <2>2, <1>2, PersistTypes
    <3>3. review' \in [Gateways \union {Db} -> SUBSET App]
      BY <2>2, OpenReviewTypes, ProcessSets DEF TypeInv
    <3>. QED
      BY <2>2, <3>2, <3>3, ProcessSets DEF TypeInv, TypeOK, RequestStatus
  <2>. QED
    BY <1>4, <2>1, <2>2
<1>6. ops' \in 0 .. MaxOps
  BY <1>3, OperationTypes DEF TypeInv
<1>7. /\ status' \in [Copies -> [App -> ApplicationStatus \union {"absent"}]]
      /\ content' \in [Workers \union {Db} -> [App -> Content \union {None}]]
      /\ draft' \in [App -> Content \union {None}]
  BY <1>1, <1>3, ProcessSets DEF TypeInv, TypeOK
<1>. QED
  BY <1>3, <1>5, <1>6, <1>7
  DEF TypeInv, TypeOK, JobLimits, BusyShape, queue, history, WritesTyped

\* Meeting a vacancy again keeps the types.
LEMMA ReingestTypes ==
  ASSUME TypeInv, NEW a \in App, NEW v \in Content, NEW hardOk \in BOOLEAN,
         ReingestVacancy(a, v, hardOk)
  PROVE  TypeInv'
<1>1. WritesTyped
  BY DEF TypeInv, TypeOK, WritesTyped
<1>2. /\ WritesTyped'
      /\ review' \in [Gateways \union {Db} -> SUBSET App]
      /\ req' \in [Copies -> [Req -> RequestStatus \union {"none"}]]
      /\ minted' \subseteq Req
  <2>1. CASE UNCHANGED <<review, req, minted, writes>>
    BY <2>1 DEF TypeInv, TypeOK, WritesTyped
  <2>2. ASSUME NEW r \in Req,
               req' = [req EXCEPT ![Api][r] = "pending"],
               minted' = minted \union {r},
               Persist({Statement(Api, "newReq", r, "pending")}),
               review' = OpenReview(Api, a)
        PROVE  /\ WritesTyped'
               /\ review' \in [Gateways \union {Db} -> SUBSET App]
               /\ req' \in [Copies -> [Req -> RequestStatus \union {"none"}]]
               /\ minted' \subseteq Req
    <3>1. {Statement(Api, "newReq", r, "pending")} \in SUBSET Statements
      BY ProcessSets, StatementTypes
    <3>2. WritesTyped'
      BY <3>1, <2>2, <1>1, PersistTypes
    <3>3. review' \in [Gateways \union {Db} -> SUBSET App]
      BY <2>2, OpenReviewTypes, ProcessSets DEF TypeInv
    <3>. QED
      BY <2>2, <3>2, <3>3, ProcessSets DEF TypeInv, TypeOK, RequestStatus
  <2>. QED
    BY <2>1, <2>2 DEF ReingestVacancy
<1>3. /\ content' = [content EXCEPT ![Db][a] = v]
      /\ Operation
      /\ UNCHANGED <<status, proof, mode, draft, queue, run, expired, restarts, history>>
  BY DEF ReingestVacancy
<1>4. ops' \in 0 .. MaxOps
  BY <1>3, OperationTypes DEF TypeInv
<1>5. content' \in [Workers \union {Db} -> [App -> Content \union {None}]]
  BY <1>3 DEF TypeInv, TypeOK
<1>. QED
  BY <1>2, <1>3, <1>4, <1>5
  DEF TypeInv, TypeOK, JobLimits, BusyShape, queue, history, WritesTyped

\* POST /approval-requests keeps the types.
LEMMA PostTypes ==
  ASSUME TypeInv, NEW a \in App, NEW r \in Req, PostApprovalRequest(a, r)
  PROVE  TypeInv'
<1>1. WritesTyped /\ {Statement(Api, "newReq", r, "pending")} \in SUBSET Statements
  BY ProcessSets, StatementTypes DEF TypeInv, TypeOK, WritesTyped
<1>2. Persist({Statement(Api, "newReq", r, "pending")})
  BY DEF PostApprovalRequest
<1>3. WritesTyped'
  BY <1>1, <1>2, PersistTypes
<1>4. req' \in [Copies -> [Req -> RequestStatus \union {"none"}]]
  BY DEF PostApprovalRequest, TypeInv, TypeOK, RequestStatus
<1>5. ops' \in 0 .. MaxOps
  BY OperationTypes DEF PostApprovalRequest, TypeInv
<1>. QED
  BY <1>3, <1>4, <1>5
  DEF PostApprovalRequest, TypeInv, TypeOK, JobLimits, BusyShape, queue, history,
      WritesTyped

\* Resolving a request that exists yields a request status; "approved" is
\* only ever the outcome of an approval or was there before.
LEMMA ResolvedStatus ==
  ASSUME NEW c \in RequestStatus, NEW resolution \in {"approved", "rejected"},
         NEW late
  PROVE  /\ Resolved(c, resolution, late) \in RequestStatus
         /\ Resolved(c, resolution, late) = "approved" =>
              c = "approved" \/ resolution = "approved"
BY Zenon DEF Resolved, RequestStatus

\* resolveApprovalRequest and the start of the enqueue keep the types.
LEMMA ResolveTypes ==
  ASSUME TypeInv, NEW g \in Gateways, NEW r \in Req, req[g][r] # "none",
         NEW resolution \in {"approved", "rejected"}, NEW late,
         Resolve(g, r, resolution, late)
  PROVE  /\ WritesTyped'
         /\ req' \in [Copies -> [Req -> RequestStatus \union {"none"}]]
         /\ StatusTyped'
         /\ calls' \subseteq [by : Gateways, req : Req]
         /\ userApproved' \subseteq Req
<1>. DEFINE s == Resolved(req[g][r], resolution, late)
            queued == Statement(g, "status", ReqApp[r], "apply_queued")
<1>1. /\ g \in Procs /\ g \in Copies
      /\ req[g][r] \in RequestStatus
      /\ ReqApp[r] \in App
  BY ProcessSets, RequestAssumption DEF TypeInv, TypeOK
<1>2. s \in RequestStatus
  BY <1>1, ResolvedStatus
<1>3. /\ {Statement(g, "req", r, s)} \in SUBSET Statements
      /\ {Statement(g, "req", r, s)} \union {queued} \in SUBSET Statements
  BY <1>1, <1>2, StatementTypes DEF ApplicationStatus
<1>4. WritesTyped
  BY DEF TypeInv, TypeOK, WritesTyped
<1>5. /\ req' = [req EXCEPT ![g][r] = s]
      /\ userApproved' \in {userApproved, userApproved \union {r}}
      /\ \/ /\ status' = [status EXCEPT ![g][ReqApp[r]] = "apply_queued"]
            /\ calls' = calls \union {[by |-> g, req |-> r]}
            /\ Persist({Statement(g, "req", r, s)} \union {queued})
         \/ /\ Persist({Statement(g, "req", r, s)})
            /\ UNCHANGED <<status, calls>>
  BY DEF Resolve
<1>. HIDE DEF s, queued
<1>6. WritesTyped'
  BY <1>3, <1>4, <1>5, PersistTypes
<1>7. req' \in [Copies -> [Req -> RequestStatus \union {"none"}]]
  BY <1>1, <1>2, <1>5 DEF TypeInv, TypeOK
<1>8. StatusTyped'
  <2>1. CASE status' = [status EXCEPT ![g][ReqApp[r]] = "apply_queued"]
    BY <1>1, <2>1, StatusUpdate, StatusNames DEF TypeInv, TypeOK, StatusTyped
  <2>2. CASE UNCHANGED <<status, calls>>
    BY <2>2 DEF TypeInv, TypeOK, StatusTyped
  <2>. QED
    BY <1>5, <2>1, <2>2
<1>9. calls' \subseteq [by : Gateways, req : Req] /\ userApproved' \subseteq Req
  BY <1>5 DEF TypeInv, TypeOK
<1>. QED
  BY <1>6, <1>7, <1>8, <1>9

\* The three handlers built on Resolve keep the types.
LEMMA ResolutionTypes ==
  ASSUME TypeInv, NEW g \in Gateways, NEW r \in Req, req[g][r] # "none",
         NEW resolution \in {"approved", "rejected"}, NEW late,
         Operation, Resolve(g, r, resolution, late),
         UNCHANGED <<proof, mode, review, content, draft, jobs, run, expired,
                     minted, restarts, sends, submitted>>
  PROVE  TypeInv'
<1>1. /\ WritesTyped'
      /\ req' \in [Copies -> [Req -> RequestStatus \union {"none"}]]
      /\ StatusTyped'
      /\ calls' \subseteq [by : Gateways, req : Req]
      /\ userApproved' \subseteq Req
  BY ResolveTypes
<1>2. ops' \in 0 .. MaxOps
  BY OperationTypes DEF TypeInv
<1>. QED
  BY <1>1, <1>2 DEF TypeInv, TypeOK, JobLimits, BusyShape, WritesTyped, StatusTyped

\* Approving a manual review item keeps the types.
LEMMA ReviewApprovalTypes ==
  ASSUME TypeInv, NEW g \in Gateways, NEW a \in App, NEW r \in Req,
         ApproveApplicationManualReview(g, a, r)
  PROVE  TypeInv'
<1>. DEFINE s == Resolved("pending", "approved", r \in expired)
            stored == {Statement(g, "newReq", r, "pending"),
                       Statement(g, "req", r, s)}
            queued == Statement(g, "status", a, "apply_queued")
<1>1. s \in RequestStatus
  BY Zenon DEF Resolved, RequestStatus
<1>2. g \in Procs /\ g \in Copies /\ WritesTyped
  BY ProcessSets DEF TypeInv, TypeOK, WritesTyped
<1>3. stored \in SUBSET Statements /\ stored \union {queued} \in SUBSET Statements
  BY <1>1, <1>2, StatementTypes DEF ApplicationStatus
<1>4. /\ req' = [req EXCEPT ![g][r] = s]
      /\ minted' = minted \union {r}
      /\ Operation
      /\ \/ /\ userApproved' = userApproved \union {r}
            /\ status' = [status EXCEPT ![g][a] = "apply_queued"]
            /\ calls' = calls \union {[by |-> g, req |-> r]}
            /\ Persist(stored \union {queued})
         \/ /\ Persist(stored)
            /\ UNCHANGED <<userApproved, status, calls>>
      /\ UNCHANGED <<proof, mode, review, content, draft, jobs, run, expired,
                     restarts, sends, submitted>>
  BY DEF ApproveApplicationManualReview
<1>. HIDE DEF s, stored, queued
<1>5. WritesTyped'
  BY <1>2, <1>3, <1>4, PersistTypes
<1>6. ops' \in 0 .. MaxOps
  BY <1>4, OperationTypes DEF TypeInv
<1>7. req' \in [Copies -> [Req -> RequestStatus \union {"none"}]]
  BY <1>1, <1>2, <1>4 DEF TypeInv, TypeOK
<1>8. StatusTyped'
  <2>1. CASE status' = [status EXCEPT ![g][a] = "apply_queued"]
    BY <1>2, <2>1, StatusUpdate, StatusNames DEF TypeInv, TypeOK, StatusTyped
  <2>2. CASE UNCHANGED <<userApproved, status, calls>>
    BY <2>2 DEF TypeInv, TypeOK, StatusTyped
  <2>. QED
    BY <1>4, <2>1, <2>2
<1>9. /\ calls' \subseteq [by : Gateways, req : Req]
      /\ userApproved' \subseteq Req /\ minted' \subseteq Req
  BY <1>4 DEF TypeInv, TypeOK
<1>. QED
  BY <1>4, <1>5, <1>6, <1>7, <1>8, <1>9
  DEF TypeInv, TypeOK, JobLimits, BusyShape, WritesTyped, StatusTyped

\* The return of queue.enqueue keeps the types.
LEMMA EnqueueTypes ==
  ASSUME TypeInv, NEW c \in calls, NEW added \in BOOLEAN, NEW ok \in BOOLEAN,
         EnqueueReturns(c, added, ok)
  PROVE  TypeInv'
<1>. DEFINE a == ReqApp[c.req]
            k == [app |-> a, cli |-> None]
            failed == Statement(c.by, "status", a, "manual_review_required")
<1>1. /\ c.req \in Req /\ c.by \in Gateways /\ c.by \in Procs /\ c.by \in Copies
      /\ a \in App /\ k \in Keys
  BY RequestAssumption, ProcessSets DEF TypeInv, TypeOK, Keys
<1>2. WritesTyped /\ {failed} \in SUBSET Statements
  BY <1>1, StatementTypes DEF TypeInv, TypeOK, WritesTyped, ApplicationStatus
<1>3. /\ calls' = calls \ {c}
      /\ jobs' = IF added THEN AddJob(k, c.req) ELSE jobs
      /\ \/ UNCHANGED <<status, writes>>
         \/ /\ status' = [status EXCEPT ![c.by][a] = "manual_review_required"]
            /\ Persist({failed})
      /\ UNCHANGED <<proof, req, mode, review, content, draft, run, clock, history>>
  BY DEF EnqueueReturns
<1>. HIDE DEF a, k, failed
<1>4. WritesTyped'
  <2>1. CASE UNCHANGED <<status, writes>>
    BY <1>2, <2>1 DEF WritesTyped
  <2>2. CASE Persist({failed})
    BY <1>2, <2>2, PersistTypes
  <2>. QED
    BY <1>3, <2>1, <2>2
<1>5. jobs' \in [Keys -> Job]
  BY <1>1, <1>3, AddJobTypes DEF TypeInv, TypeOK
<1>6. JobLimits' /\ (\A j \in Keys : jobs'[j].state # "none" => jobs'[j].req \in Req)
  BY <1>1, <1>3, BoundAssumption
  DEF AddJob, JobRecord, TypeInv, TypeOK, JobLimits, BusyShape
<1>7. StatusTyped'
  <2>1. CASE status' = [status EXCEPT ![c.by][a] = "manual_review_required"]
    BY <1>1, <2>1, StatusUpdate, StatusNames DEF TypeInv, TypeOK, StatusTyped
  <2>2. CASE UNCHANGED <<status, writes>>
    BY <2>2 DEF TypeInv, TypeOK, StatusTyped
  <2>. QED
    BY <1>3, <2>1, <2>2
<1>8. calls' \subseteq [by : Gateways, req : Req]
  BY <1>3 DEF TypeInv, TypeOK
<1>. QED
  BY <1>3, <1>4, <1>5, <1>6, <1>7, <1>8
  DEF TypeInv, TypeOK, BusyShape, WritesTyped, StatusTyped, clock, history

\* A mode change keeps the types.
LEMMA SetModeTypes ==
  ASSUME TypeInv, NEW g \in Gateways, NEW m \in Modes, SetMode(g, m)
  PROVE  TypeInv'
<1>1. /\ WritesTyped /\ m \in AppModes
      /\ {Statement(g, "mode", "global", m)} \in SUBSET Statements
  BY ProcessSets, StatementTypes, ModeAssumption DEF TypeInv, TypeOK, WritesTyped
<1>2. Persist({Statement(g, "mode", "global", m)})
  BY DEF SetMode
<1>3. WritesTyped'
  BY <1>1, <1>2, PersistTypes
<1>4. ops' \in 0 .. MaxOps
  BY OperationTypes DEF SetMode, TypeInv
<1>. QED
  BY <1>1, <1>3, <1>4
  DEF SetMode, TypeInv, TypeOK, JobLimits, BusyShape, queue, history, WritesTyped

\* Steps of the API server and the Telegram handlers keep the types.
LEMMA GatewayTypes ==
  ASSUME TypeInv, GatewayStep
  PROVE  TypeInv'
<1>1. ASSUME NEW r \in Req, NEW resolution \in {"approved", "rejected"},
             NEW late \in BOOLEAN, ApiResolve(r, resolution, late)
      PROVE  TypeInv'
  BY <1>1, ResolutionTypes, ProcessSets DEF ApiResolve
<1>2. ASSUME NEW g \in Gateways, NEW r \in Req, ApproveCommand(g, r)
      PROVE  TypeInv'
  BY <1>2, ResolutionTypes DEF ApproveCommand
<1>3. ASSUME NEW g \in Gateways, NEW r \in Req, RejectCommand(g, r)
      PROVE  TypeInv'
  BY <1>3, ResolutionTypes DEF RejectCommand
<1>4. ASSUME NEW a \in App, NEW v \in Content, NEW hardOk \in BOOLEAN,
             PrepareApplication(a, v, hardOk) \/ ReingestVacancy(a, v, hardOk)
      PROVE  TypeInv'
  BY <1>4, PrepareTypes, ReingestTypes
<1>5. ASSUME NEW a \in App, NEW r \in Req, PostApprovalRequest(a, r)
      PROVE  TypeInv'
  BY <1>5, PostTypes
<1>6. ASSUME NEW g \in Gateways, NEW a \in App, NEW r \in Req,
             ApproveApplicationManualReview(g, a, r)
      PROVE  TypeInv'
  BY <1>6, ReviewApprovalTypes
<1>7. ASSUME NEW c \in calls, NEW added \in BOOLEAN, NEW ok \in BOOLEAN,
             EnqueueReturns(c, added, ok)
      PROVE  TypeInv'
  BY <1>7, EnqueueTypes
<1>8. ASSUME NEW g \in Gateways, NEW m \in Modes, SetMode(g, m)
      PROVE  TypeInv'
  BY <1>8, SetModeTypes
<1>. QED
  BY <1>1, <1>2, <1>3, <1>4, <1>5, <1>6, <1>7, <1>8 DEF GatewayStep

\* setApplicationStatus of a worker keeps the types.
LEMMA WorkerStatusTypes ==
  ASSUME TypeInv, NEW w \in Workers, NEW a \in App, NEW v \in ApplicationStatus,
         NEW more \in SUBSET Statements, WorkerStatus(w, a, v, more)
  PROVE  StatusTyped' /\ WritesTyped'
<1>. DEFINE all == more \union {Statement(w, "status", a, v)}
<1>1. all \in SUBSET Statements
  BY ProcessSets, StatementTypes
<1>2. Persist(all) /\ status' = [status EXCEPT ![w][a] = v]
  BY DEF WorkerStatus
<1>3. WritesTyped'
  BY <1>1, <1>2, PersistTypes DEF TypeInv, TypeOK, WritesTyped
<1>4. StatusTyped'
  BY <1>2, ProcessSets, StatusUpdate DEF TypeInv, TypeOK, StatusTyped
<1>. QED
  BY <1>3, <1>4

\* The outcome of the handler's first part, and when it is "accepted".
LEMMA EntryOutcome ==
  ASSUME NEW w, NEW a, NEW r
  PROVE  /\ Entry(w, a, r) \in {"application_missing", "provider_missing",
                                "accepted", "refused"}
         /\ Entry(w, a, r) # "application_missing" => status[w][a] # "absent"
         /\ Entry(w, a, r) = "accepted" => ValidPayload(w, a, r)
BY Zenon DEF Entry

\* What the handler stores before its first await is well typed.
LEMMA EntryTypes ==
  ASSUME TypeInv, NEW w \in Workers, NEW a \in App, NEW e, EntryEffect(w, a, e)
  PROVE  /\ StatusTyped' /\ WritesTyped'
         /\ review' \in [Gateways \union {Db} -> SUBSET App]
<1>1. CASE UNCHANGED <<status, review, writes>>
  BY <1>1 DEF TypeInv, TypeOK, StatusTyped, WritesTyped
<1>2. CASE WorkerStatus(w, a, "apply_failed", {}) /\ UNCHANGED review
  <2>1. {} \in SUBSET Statements /\ "apply_failed" \in ApplicationStatus
    BY StatusNames
  <2>2. StatusTyped' /\ WritesTyped'
    BY <1>2, <2>1, WorkerStatusTypes
  <2>. QED
    BY <1>2, <2>2 DEF TypeInv, TypeOK
<1>3. CASE /\ WorkerStatus(w, a, "manual_review_required", {})
           /\ review' = OpenReview(w, a)
  <2>1. {} \in SUBSET Statements /\ "manual_review_required" \in ApplicationStatus
    BY StatusNames
  <2>2. StatusTyped' /\ WritesTyped'
    BY <1>3, <2>1, WorkerStatusTypes
  <2>3. review' \in [Gateways \union {Db} -> SUBSET App]
    BY <1>3, OpenReviewTypes, ProcessSets DEF TypeInv
  <2>. QED
    BY <2>2, <2>3
<1>. QED
  BY <1>1, <1>2, <1>3 DEF EntryEffect

\* Taking a job keeps the types and the limits of the job.
LEMMA StartJobTypes ==
  ASSUME TypeInv, NEW w \in Workers, NEW k \in Keys, StartJob(w, k)
  PROVE  TypeInv'
<1>. DEFINE r == jobs[k].req
            e == Entry(w, k.app, r)
            next == CASE e = "accepted" ->
                           JobRecord("active", r, w, jobs[k].tries, jobs[k].stalls)
                      [] e = "refused"  ->
                           JobRecord("completed", r, None, jobs[k].tries, jobs[k].stalls)
                      [] OTHER          -> Retry(jobs[k])
<1>1. /\ w \in Consumers /\ jobs[k].state = "waiting"
      /\ EntryEffect(w, k.app, e)
      /\ jobs' = [jobs EXCEPT ![k] = next]
      /\ run' = IF e = "accepted"
                THEN [run EXCEPT ![w] = [phase |-> "health", app |-> k.app,
                                         req |-> r, job |-> k]]
                ELSE run
      /\ UNCHANGED <<proof, req, mode, content, draft, calls, clock, history>>
  BY Zenon DEF StartJob
<1>2. /\ k.app \in App /\ jobs[k] \in Job /\ r \in Req
      /\ jobs[k].tries < MaxAttempts /\ jobs[k].stalls <= MaxStalls
  BY <1>1 DEF TypeInv, TypeOK, Keys, JobLimits, BusyShape
<1>3. \/ next = JobRecord("active", r, w, jobs[k].tries, jobs[k].stalls)
      \/ next = JobRecord("completed", r, None, jobs[k].tries, jobs[k].stalls)
      \/ next = Retry(jobs[k])
  BY Zenon
<1>. HIDE DEF next, e
<1>4. /\ next \in Job /\ next.req = r
      /\ next.state \in {"waiting", "active"} =>
           next.tries < MaxAttempts /\ next.stalls <= MaxStalls
      /\ next.owner # None => next.state = "active"
  BY <1>1, <1>2, <1>3, BoundAssumption DEF JobRecord, Retry, Job, JobStates
<1>5. /\ StatusTyped' /\ WritesTyped'
      /\ review' \in [Gateways \union {Db} -> SUBSET App]
  BY <1>1, <1>2, EntryTypes
<1>6. /\ jobs' \in [Keys -> Job] /\ JobLimits'
      /\ \A j \in Keys : jobs'[j].state # "none" => jobs'[j].req \in Req
  BY <1>1, <1>2, <1>4 DEF TypeInv, TypeOK, JobLimits, BusyShape
<1>7. /\ run' \in [Workers -> Run]
      /\ \A v \in Workers : run'[v].phase \in {"health", "submit"} =>
           run'[v].app \in App /\ run'[v].req \in Req
  BY <1>1, <1>2 DEF TypeInv, TypeOK, Run, BusyShape
<1>. QED
  BY <1>1, <1>5, <1>6, <1>7
  DEF TypeInv, TypeOK, BusyShape, StatusTyped, WritesTyped, clock, history

\* A one-shot run keeps the types.
LEMMA RunCliTypes ==
  ASSUME TypeInv, NEW w \in Workers, NEW a \in App, NEW r \in Req,
         NEW shared \in BOOLEAN, RunCli(w, a, r, shared)
  PROVE  TypeInv'
<1>. DEFINE k == [app |-> a, cli |-> r]
            e == Entry(w, a, r)
<1>1. /\ EntryEffect(w, a, e)
      /\ jobs' = IF shared THEN AddJob(k, r) ELSE jobs
      /\ run' = [run EXCEPT ![w] =
           IF e = "accepted"
           THEN [phase |-> "health", app |-> a, req |-> r, job |-> None]
           ELSE Exited]
      /\ UNCHANGED <<proof, req, mode, content, draft, calls, clock, history>>
  BY DEF RunCli
<1>2. k \in Keys
  BY DEF Keys
<1>. HIDE DEF k, e
<1>3. /\ StatusTyped' /\ WritesTyped'
      /\ review' \in [Gateways \union {Db} -> SUBSET App]
  BY <1>1, EntryTypes
<1>4. jobs' \in [Keys -> Job]
  BY <1>1, <1>2, AddJobTypes DEF TypeInv, TypeOK
<1>5. JobLimits' /\ (\A j \in Keys : jobs'[j].state # "none" => jobs'[j].req \in Req)
  BY <1>1, <1>2, BoundAssumption
  DEF AddJob, JobRecord, TypeInv, TypeOK, JobLimits, BusyShape
<1>6. /\ run' \in [Workers -> Run]
      /\ \A v \in Workers : run'[v].phase \in {"health", "submit"} =>
           run'[v].app \in App /\ run'[v].req \in Req
  BY <1>1 DEF TypeInv, TypeOK, Run, BusyShape, Exited
<1>. QED
  BY <1>1, <1>3, <1>4, <1>5, <1>6
  DEF TypeInv, TypeOK, BusyShape, StatusTyped, WritesTyped, clock, history

\* A handler that has returned leaves its worker at rest and its job, if it
\* still holds it, completed.
LEMMA ReturnTypes ==
  ASSUME TypeInv, NEW w \in Workers,
         run' = [run EXCEPT ![w] = Rest(w)], jobs' = Completed(w)
  PROVE  run' \in [Workers -> Run] /\ jobs' \in [Keys -> Job] /\ JobLimits' /\ BusyShape'
<1>1. Rest(w) \in Run /\ Rest(w).phase \notin {"health", "submit"}
  BY DEF Rest, Idle, Exited, Run
<1>2. run' \in [Workers -> Run]
  BY <1>1 DEF TypeInv, TypeOK
<1>3. jobs' \in [Keys -> Job]
  BY CompletedTypes DEF TypeInv
<1>4. \A j \in Keys : \/ jobs'[j] = jobs[j]
                      \/ jobs'[j].state = "completed" /\ jobs'[j].req = jobs[j].req
                         /\ jobs[j].state # "none" /\ jobs'[j].owner = None
  <2>1. w # None
    BY NoneAssumption, ProcessSets
  <2>2. CASE run[w].job # None /\ jobs[run[w].job].owner = w
    <3>1. run[w].job \in Keys /\ jobs[run[w].job].state = "active"
      BY <2>1, <2>2 DEF TypeInv, TypeOK, Run, JobLimits
    <3>. QED
      BY <2>2, <3>1 DEF Completed, JobRecord, TypeInv, TypeOK
  <2>3. CASE ~(run[w].job # None /\ jobs[run[w].job].owner = w)
    BY <2>3 DEF Completed
  <2>. QED
    BY <2>2, <2>3
<1>. QED
  BY <1>1, <1>2, <1>3, <1>4 DEF TypeInv, TypeOK, JobLimits, BusyShape

\* The return of the healthcheck keeps the types.
LEMMA HealthTypes ==
  ASSUME TypeInv, NEW w \in Workers, NEW hardOk \in BOOLEAN, NEW canary \in BOOLEAN,
         HealthcheckReturns(w, hardOk, canary)
  PROVE  TypeInv'
<1>. DEFINE a == run[w].app
<1>1. a \in App /\ run[w].req \in Req /\ run[w] \in Run
  BY DEF HealthcheckReturns, TypeInv, TypeOK, BusyShape
<1>2. UNCHANGED <<proof, req, mode, content, draft, calls, clock, userApproved>>
  BY DEF HealthcheckReturns
<1>3. ASSUME NEW v \in ApplicationStatus, WorkerStatus(w, a, v, {}),
             review' = OpenReview(w, a),
             run' = [run EXCEPT ![w] = Rest(w)], jobs' = Completed(w),
             UNCHANGED <<sends, submitted>>
      PROVE  TypeInv'
  <2>1. StatusTyped' /\ WritesTyped'
    BY <1>1, <1>3, {} \in SUBSET Statements, WorkerStatusTypes
  <2>2. review' \in [Gateways \union {Db} -> SUBSET App]
    BY <1>1, <1>3, OpenReviewTypes, ProcessSets DEF TypeInv
  <2>3. run' \in [Workers -> Run] /\ jobs' \in [Keys -> Job] /\ JobLimits' /\ BusyShape'
    BY <1>3, ReturnTypes
  <2>. QED
    BY <1>2, <1>3, <2>1, <2>2, <2>3
    DEF TypeInv, TypeOK, StatusTyped, WritesTyped, clock
<1>4. ASSUME WorkerStatus(w, a, "applying", {}),
             run' = [run EXCEPT ![w] = [phase |-> "submit", app |-> a,
                                        req |-> run[w].req, job |-> run[w].job]],
             sends' = [sends EXCEPT ![w][a] = @ + 1],
             submitted' = submitted \union {a},
             UNCHANGED <<review, jobs>>
      PROVE  TypeInv'
  <2>1. StatusTyped' /\ WritesTyped'
    BY <1>1, <1>4, {} \in SUBSET Statements, StatusNames, WorkerStatusTypes
  <2>2. run' \in [Workers -> Run] /\ BusyShape'
    BY <1>1, <1>4 DEF TypeInv, TypeOK, Run, BusyShape
  <2>3. sends' \in [Workers -> [App -> Nat]]
    BY <1>1, <1>4 DEF TypeInv, TypeOK
  <2>. QED
    BY <1>1, <1>2, <1>4, <2>1, <2>2, <2>3
    DEF TypeInv, TypeOK, JobLimits, StatusTyped, WritesTyped, clock
<1>5. \A c : (IF c THEN "apply_blocked_by_policy" ELSE "manual_review_required")
              \in ApplicationStatus
  BY StatusNames
<1>. QED
  BY <1>3, <1>4, <1>5, StatusNames DEF HealthcheckReturns

\* The return of the submit call keeps the types.
LEMMA SubmitTypes ==
  ASSUME TypeInv, NEW w \in Workers, NEW outcome \in Outcomes,
         SubmitReturns(w, outcome)
  PROVE  TypeInv'
<1>. DEFINE a == run[w].app
            v == CASE outcome = "submitted" -> "applied"
                   [] outcome = "blocked"   -> "apply_blocked_by_provider"
                   [] OTHER                 -> "apply_failed"
            more == {Statement(w, "proof", a, "submit")}
<1>1. a \in App
  BY DEF SubmitReturns, TypeInv, TypeOK, BusyShape
<1>2. v \in ApplicationStatus /\ more \in SUBSET Statements
  <2>1. v \in ApplicationStatus
    BY Zenon DEF ApplicationStatus
  <2>. QED
    BY <1>1, <2>1, StatementTypes, ProcessSets
<1>3. /\ WorkerStatus(w, a, v, more)
      /\ proof' = [proof EXCEPT ![w][a] = "submit"]
      /\ run' = [run EXCEPT ![w] = Rest(w)] /\ jobs' = Completed(w)
      /\ UNCHANGED <<req, mode, review, content, draft, calls, clock, history>>
  BY Zenon DEF SubmitReturns
<1>. HIDE DEF a, v, more
<1>4. StatusTyped' /\ WritesTyped'
  BY <1>1, <1>2, <1>3, WorkerStatusTypes
<1>5. run' \in [Workers -> Run] /\ jobs' \in [Keys -> Job] /\ JobLimits' /\ BusyShape'
  BY <1>3, ReturnTypes
<1>6. proof' \in [Workers \union {Db} -> [App -> ProofStatus]]
  BY <1>1, <1>3 DEF TypeInv, TypeOK, ProofStatus
<1>. QED
  BY <1>3, <1>4, <1>5, <1>6
  DEF TypeInv, TypeOK, StatusTyped, WritesTyped, clock, history

\* A statement that takes effect keeps the types.
LEMMA LandTypes ==
  ASSUME TypeInv, NEW s \in BagToSet(writes), NEW artifact \in BOOLEAN,
         Land(s, artifact)
  PROVE  TypeInv'
<1>1. /\ s \in Statements /\ WritesTyped'
  <2>1. s \in Statements /\ BagIn(s, writes) /\ IsABag(writes)
    BY DEF BagToSet, BagIn, TypeInv, TypeOK
  <2>2. IsABag(writes') /\ DOMAIN writes' \subseteq DOMAIN writes
    BY <2>1, SettleRemoves DEF Land
  <2>. QED
    BY <2>1, <2>2 DEF WritesTyped, TypeInv, TypeOK
<1>2. StatusTyped'
  <2>1. CASE s.kind \in {"create", "status"}
    <3>1. s.id \in App /\ s.val \in ApplicationStatus
      BY <1>1, <2>1 DEF Statements
    <3>. QED
      BY <3>1, ProcessSets DEF Land, TypeInv, TypeOK, StatusTyped
  <2>2. CASE s.kind \notin {"create", "status"}
    BY <2>2 DEF Land, TypeInv, TypeOK, StatusTyped
  <2>. QED
    BY <2>1, <2>2
<1>3. proof' \in [Workers \union {Db} -> [App -> ProofStatus]]
  <2>1. CASE s.kind \in {"create", "proof"}
    <3>1. s.id \in App
      BY <1>1, <2>1 DEF Statements
    <3>2. \/ UNCHANGED proof
          \/ \E v \in ProofStatus : proof' = [proof EXCEPT ![Db][s.id] = v]
      BY DEF Land, ProofStatus
    <3>3. proof \in [Workers \union {Db} -> [App -> ProofStatus]]
      BY DEF TypeInv, TypeOK
    <3>4. ASSUME NEW v \in ProofStatus, proof' = [proof EXCEPT ![Db][s.id] = v]
          PROVE  proof' \in [Workers \union {Db} -> [App -> ProofStatus]]
      BY <3>1, <3>3, <3>4
    <3>. QED
      BY <3>2, <3>3, <3>4
  <2>2. CASE s.kind \notin {"create", "proof"}
    BY <2>2 DEF Land, TypeInv, TypeOK
  <2>. QED
    BY <2>1, <2>2
<1>4. req' \in [Copies -> [Req -> RequestStatus \union {"none"}]]
  <2>1. s.kind \in {"newReq", "req"} => s.id \in Req /\ s.val \in RequestStatus
    BY <1>1 DEF Statements, RequestStatus
  <2>. QED
    BY <2>1 DEF Land, TypeInv, TypeOK
<1>5. mode' \in [Copies -> AppModes]
  <2>1. s.kind = "mode" => s.val \in AppModes
    BY <1>1 DEF Statements
  <2>. QED
    BY <2>1 DEF Land, TypeInv, TypeOK
<1>6. UNCHANGED <<review, content, draft, queue, run, clock, history>>
  BY DEF Land
<1>. QED
  BY <1>1, <1>2, <1>3, <1>4, <1>5, <1>6
  DEF TypeInv, TypeOK, JobLimits, BusyShape, StatusTyped, WritesTyped, queue, clock, history

\* A statement that is lost keeps the types.
LEMMA LoseTypes ==
  ASSUME TypeInv, NEW s \in BagToSet(writes), Lose(s)
  PROVE  TypeInv'
<1>1. BagIn(s, writes) /\ IsABag(writes) /\ DOMAIN writes \subseteq Statements
  BY DEF Lose, TypeInv, TypeOK
<1>2. IsABag(writes') /\ DOMAIN writes' \subseteq Statements
  BY <1>1, SettleRemoves DEF Lose
<1>. QED
  BY <1>2
  DEF Lose, TypeInv, TypeOK, JobLimits, BusyShape, copies, queue, clock, history

\* Starting a process from Postgres keeps the types.
LEMMA RestartTypes ==
  ASSUME TypeInv, NEW p \in Procs, Restart(p)
  PROVE  TypeInv'
<1>1. status' \in [Copies -> [App -> ApplicationStatus \union {"absent"}]]
  BY ProcessSets DEF Restart, TypeInv, TypeOK
<1>2. /\ req' \in [Copies -> [Req -> RequestStatus \union {"none"}]]
      /\ mode' \in [Copies -> AppModes]
  BY ProcessSets DEF Restart, TypeInv, TypeOK
<1>3. restarts' \in 0 .. MaxRestarts
  BY BoundAssumption DEF Restart, TypeInv, TypeOK
<1>4. UNCHANGED <<draft, writes, jobs, expired, minted, ops, userApproved, submitted>>
  BY DEF Restart
<1>5. CASE /\ p \in Gateways
           /\ review' = [review EXCEPT ![p] = review[Db]]
           /\ calls' = {c \in calls : c.by # p}
           /\ UNCHANGED <<proof, content, run, sends>>
  BY <1>1, <1>2, <1>3, <1>4, <1>5 DEF TypeInv, TypeOK, JobLimits, BusyShape
<1>6. CASE /\ p \in Workers
           /\ proof' = [proof EXCEPT ![p] = proof[Db]]
           /\ content' = [content EXCEPT ![p] = content[Db]]
           /\ run' = [run EXCEPT ![p] = Idle]
           /\ sends' = [sends EXCEPT ![p] = [a \in App |-> 0]]
           /\ UNCHANGED <<review, calls>>
  <2>1. Idle \in Run /\ Idle.phase \notin {"health", "submit"}
    BY DEF Idle, Run
  <2>2. /\ proof' \in [Workers \union {Db} -> [App -> ProofStatus]]
        /\ content' \in [Workers \union {Db} -> [App -> Content \union {None}]]
        /\ sends' \in [Workers -> [App -> Nat]]
    BY <1>6 DEF TypeInv, TypeOK
  <2>3. /\ run' \in [Workers -> Run]
        /\ BusyShape'
    BY <1>4, <1>6, <2>1 DEF TypeInv, TypeOK, BusyShape
  <2>. QED
    BY <1>1, <1>2, <1>3, <1>4, <1>6, <2>2, <2>3 DEF TypeInv, TypeOK, JobLimits
<1>. QED
  BY <1>5, <1>6 DEF Restart

\* A stalled job stays within the stalls BullMQ allows.
LEMMA StallTypes ==
  ASSUME TypeInv, NEW k \in Keys, StallJob(k)
  PROVE  TypeInv'
<1>. DEFINE again == IF jobs[k].stalls < MaxStalls THEN "waiting" ELSE "failed"
            next == JobRecord(again, jobs[k].req, None, jobs[k].tries,
                              jobs[k].stalls + 1)
<1>1. /\ jobs[k] \in Job /\ jobs[k].state = "active" /\ jobs[k].req \in Req
      /\ jobs[k].tries < MaxAttempts /\ jobs[k].stalls <= MaxStalls
      /\ jobs' = [jobs EXCEPT ![k] = next]
      /\ UNCHANGED <<copies, writes, calls, run, clock, history>>
  BY DEF StallJob, TypeInv, TypeOK, JobLimits, BusyShape
<1>2. /\ next \in Job /\ next.req \in Req /\ next.owner = None
      /\ next.state \in {"waiting", "active"} =>
           next.tries < MaxAttempts /\ next.stalls <= MaxStalls
  BY <1>1, BoundAssumption DEF JobRecord, Job, JobStates
<1>. HIDE DEF next
<1>3. /\ jobs' \in [Keys -> Job] /\ JobLimits'
      /\ \A j \in Keys : jobs'[j].state # "none" => jobs'[j].req \in Req
  BY <1>1, <1>2 DEF TypeInv, TypeOK, JobLimits, BusyShape
<1>. QED
  BY <1>1, <1>3 DEF TypeInv, TypeOK, BusyShape, copies, clock, history

\* Forgetting a completed job keeps the types.
LEMMA EvictTypes ==
  ASSUME TypeInv, NEW k \in Keys, EvictJob(k)
  PROVE  TypeInv'
<1>1. NoJob \in Job /\ NoJob.state = "none" /\ NoJob.owner = None
  BY BoundAssumption DEF NoJob, JobRecord, Job, JobStates
<1>2. jobs' \in [Keys -> Job] /\ JobLimits' /\ BusyShape'
  BY <1>1 DEF EvictJob, TypeInv, TypeOK, JobLimits, BusyShape
<1>. QED
  BY <1>2 DEF EvictJob, TypeInv, TypeOK, copies, clock, history

\* The passing of expiresAt keeps the types.
LEMMA ExpireTypes ==
  ASSUME TypeInv, NEW r \in Req, Expire(r)
  PROVE  TypeInv'
BY DEF Expire, TypeInv, TypeOK, JobLimits, BusyShape, copies, queue, history

\* TypeInv is inductive.
LEMMA TypeStep == TypeInv /\ [Next]_vars => TypeInv'
<1>. SUFFICES ASSUME TypeInv, [Next]_vars PROVE TypeInv'
  OBVIOUS
<1>1. CASE GatewayStep
  BY <1>1, GatewayTypes
<1>2. ASSUME NEW w \in Workers, WorkerStep(w) PROVE TypeInv'
  BY <1>2, StartJobTypes, RunCliTypes, HealthTypes, SubmitTypes DEF WorkerStep
<1>3. CASE Environment
  BY <1>3, LandTypes, LoseTypes, RestartTypes, StallTypes, EvictTypes, ExpireTypes
  DEF Environment, Settle
<1>4. CASE UNCHANGED vars
  BY <1>4 DEF TypeInv, TypeOK, JobLimits, BusyShape, vars, copies, queue, clock, history
<1>. QED
  BY <1>1, <1>2, <1>3, <1>4 DEF Next

\* Every reachable state of the approved-submit path is well typed: no
\* statement, job or run is ever malformed, and the attempt and stall
\* counters of a job stay within what queuePolicies and BullMQ allow.
THEOREM TypeCorrect == Spec => []TypeOK
<1>1. TypeInv => TypeOK
  BY DEF TypeInv
<1>. QED
  BY <1>1, TypeInit, TypeStep, PTL DEF Spec

-----------------------------------------------------------------------------
(* What the steps of each part of the system leave alone.                  *)

\* Gateways touch neither proof packs nor what workers do.
LEMMA GatewayFrame ==
  ASSUME GatewayStep
  PROVE  UNCHANGED <<proof, run, sends, submitted, expired>>
BY DEF GatewayStep, PrepareApplication, ReingestVacancy, PostApprovalRequest,
       ApiResolve, ApproveCommand, RejectCommand,
       ApproveApplicationManualReview, EnqueueReturns, SetMode, clock, history

\* Statements, jobs and the clock leave the workers alone.
LEMMA EnvironmentFrame ==
  ASSUME Environment
  PROVE  \/ UNCHANGED <<run, sends, userApproved, draft>>
         \/ \E p \in Procs : Restart(p)
BY DEF Environment, Settle, Land, Lose, StallJob, EvictJob, Expire, copies,
       history, queue

-----------------------------------------------------------------------------
(* One submit call per application and process lifetime.                   *)

\* A worker that has submitted an application holds the proof pack of that
\* call, or is still waiting for the call to return.
Once ==
  \A w \in Workers, a \in App :
    /\ sends[w][a] <= 1
    /\ sends[w][a] = 1 => \/ proof[w][a] = "submit"
                          \/ run[w].phase = "submit" /\ run[w].app = a

\* Nothing has been sent initially.
LEMMA OnceInit == Init => Once
BY DEF Init, Once

\* The policy allows a submit only on the dry run's proof pack.
LEMMA AllowedNeedsDryRun ==
  ASSUME NEW w, NEW a, NEW hardOk, NEW canary, GuardPassed(w, a, hardOk, canary)
  PROVE  proof[w][a] = "dry_run"
BY DEF GuardPassed, SubmitDecision, PolicyDecision

\* The guard after the healthcheck keeps Once: it needs the dry run's proof.
LEMMA OnceHealth ==
  ASSUME TypeInv, Once, NEW w \in Workers, NEW hardOk \in BOOLEAN,
         NEW canary \in BOOLEAN, HealthcheckReturns(w, hardOk, canary)
  PROVE  Once'
<1>. DEFINE a == run[w].app
<1>1. a \in App /\ run[w].phase = "health" /\ UNCHANGED proof
  BY DEF HealthcheckReturns, TypeInv, TypeOK, BusyShape
<1>2. CASE UNCHANGED sends /\ run' = [run EXCEPT ![w] = Rest(w)]
  BY <1>1, <1>2 DEF Once, TypeInv, TypeOK
<1>3. CASE /\ proof[w][a] = "dry_run"
           /\ run' = [run EXCEPT ![w] = [phase |-> "submit", app |-> a,
                                        req |-> run[w].req, job |-> run[w].job]]
           /\ sends' = [sends EXCEPT ![w][a] = @ + 1]
  <2>1. sends[w][a] \in Nat /\ sends[w][a] <= 1
    BY <1>1 DEF Once, TypeInv, TypeOK
  <2>2. sends[w][a] # 1
    BY <1>1, <1>3 DEF Once
  <2>3. sends[w][a] = 0
    BY <2>1, <2>2
  <2>. QED
    BY <1>1, <1>3, <2>3 DEF Once, TypeInv, TypeOK
<1>. QED
  BY <1>2, <1>3, AllowedNeedsDryRun DEF HealthcheckReturns

\* Once is inductive.
LEMMA OnceStep == TypeInv /\ Once /\ [Next]_vars => Once'
<1>. SUFFICES ASSUME TypeInv, Once, [Next]_vars PROVE Once'
  OBVIOUS
<1>1. CASE GatewayStep
  BY <1>1, GatewayFrame DEF Once
<1>2. ASSUME NEW w \in Workers, NEW k \in Keys, StartJob(w, k) PROVE Once'
  <2>1. /\ run[w] = Idle /\ UNCHANGED <<proof, sends>>
        /\ \/ UNCHANGED run
           \/ run' = [run EXCEPT ![w] = [phase |-> "health", app |-> k.app,
                                        req |-> jobs[k].req, job |-> k]]
    BY <1>2, Zenon DEF StartJob, history
  <2>2. \A v \in Workers \ {w} : run'[v] = run[v]
    BY <2>1 DEF TypeInv, TypeOK
  <2>. QED
    BY <2>1, <2>2 DEF Once, Idle
<1>3. ASSUME NEW w \in Workers, NEW a \in App, NEW r \in Req,
             NEW shared \in BOOLEAN, RunCli(w, a, r, shared)
      PROVE  Once'
  <2>1. /\ run[w] = Idle /\ UNCHANGED <<proof, sends>>
        /\ \A v \in Workers \ {w} : run'[v] = run[v]
    BY <1>3 DEF RunCli, history, TypeInv, TypeOK
  <2>. QED
    BY <2>1 DEF Once, Idle
<1>4. ASSUME NEW w \in Workers, NEW hardOk \in BOOLEAN, NEW canary \in BOOLEAN,
             HealthcheckReturns(w, hardOk, canary)
      PROVE  Once'
  BY <1>4, OnceHealth
<1>5. ASSUME NEW w \in Workers, NEW outcome \in Outcomes, SubmitReturns(w, outcome)
      PROVE  Once'
  <2>1. /\ run[w].app \in App /\ UNCHANGED sends
        /\ proof' = [proof EXCEPT ![w][run[w].app] = "submit"]
        /\ run' = [run EXCEPT ![w] = Rest(w)]
    BY <1>5 DEF SubmitReturns, history, TypeInv, TypeOK, BusyShape
  <2>. QED
    BY <2>1 DEF Once, TypeInv, TypeOK
<1>6. ASSUME NEW p \in Procs, Restart(p) PROVE Once'
  <2>1. CASE p \in Workers /\ p \notin Gateways
    <3>1. /\ run' = [run EXCEPT ![p] = Idle]
          /\ sends' = [sends EXCEPT ![p] = [a \in App |-> 0]]
          /\ proof' = [proof EXCEPT ![p] = proof[Db]]
      BY <1>6, <2>1 DEF Restart
    <3>2. \A w \in Workers \ {p} :
            sends'[w] = sends[w] /\ proof'[w] = proof[w] /\ run'[w] = run[w]
      BY <3>1 DEF TypeInv, TypeOK
    <3>3. \A a \in App : sends'[p][a] = 0
      BY <2>1, <3>1 DEF TypeInv, TypeOK
    <3>. QED
      BY <3>2, <3>3 DEF Once
  <2>2. CASE p \in Gateways /\ p \notin Workers
    BY <1>6, <2>2 DEF Restart, Once
  <2>. QED
    BY <2>1, <2>2, ProcessAssumption DEF Procs
<1>7. CASE Environment /\ ~(\E p \in Procs : Restart(p))
  <2>1. UNCHANGED <<run, sends>>
    BY <1>7, EnvironmentFrame
  <2>2. \A w \in Workers : proof'[w] = proof[w]
    <3>1. ASSUME NEW s, NEW artifact, Land(s, artifact)
          PROVE  \A w \in Workers : proof'[w] = proof[w]
      BY <3>1, ProcessSets DEF Land, TypeInv, TypeOK
    <3>2. CASE UNCHANGED proof
      BY <3>2
    <3>. QED
      BY <1>7, <3>1, <3>2
      DEF Environment, Settle, Lose, StallJob, EvictJob, Expire, copies
  <2>. QED
    BY <2>1, <2>2 DEF Once
<1>8. CASE UNCHANGED vars
  BY <1>8 DEF Once, vars, copies, history
<1>. QED
  BY <1>1, <1>2, <1>3, <1>4, <1>5, <1>6, <1>7, <1>8 DEF Next, WorkerStep

\* A worker process calls provider.submitApplication at most once per
\* application between two starts, for any number of redeliveries, approvals
\* and processes.
THEOREM SubmitsOncePerLifetime == Spec => []SubmitOncePerLifetime
<1>1. Once => SubmitOncePerLifetime
  BY DEF Once, SubmitOncePerLifetime
<1>. QED
  BY <1>1, TypeInit, TypeStep, OnceInit, OnceStep, PTL DEF Spec

-----------------------------------------------------------------------------
(* Every approval that is acted on was given by an approval handler.       *)

\* A request is approved in a copy, or on its way to Postgres as approved,
\* only after an approval handler accepted it.
CopiesApproved ==
  \A c \in Copies, r \in Req : req[c][r] = "approved" => r \in userApproved

WritesApproved ==
  \A s \in DOMAIN writes :
    s.kind = "req" /\ s.val = "approved" => s.id \in userApproved

\* No approval is taken back.
LEMMA ApprovalsKept == [Next]_vars => userApproved \subseteq userApproved'
<1>. SUFFICES ASSUME [Next]_vars PROVE userApproved \subseteq userApproved'
  OBVIOUS
<1>1. CASE GatewayStep
  <2>1. ASSUME NEW g, NEW r, NEW resolution, NEW late, Resolve(g, r, resolution, late)
        PROVE  userApproved \subseteq userApproved'
    BY <2>1, Zenon DEF Resolve
  <2>2. ASSUME NEW g, NEW a, NEW r, ApproveApplicationManualReview(g, a, r)
        PROVE  userApproved \subseteq userApproved'
    BY <2>2 DEF ApproveApplicationManualReview
  <2>3. ASSUME NEW a, NEW v, NEW hardOk, PrepareApplication(a, v, hardOk)
        PROVE  UNCHANGED userApproved
    BY <2>3 DEF PrepareApplication, history
  <2>. QED
    BY <1>1, <2>1, <2>2, <2>3
    DEF GatewayStep, ReingestVacancy, PostApprovalRequest, ApiResolve,
        ApproveCommand, RejectCommand, EnqueueReturns, SetMode, history
<1>2. ASSUME NEW w \in Workers, WorkerStep(w) PROVE UNCHANGED userApproved
  <2>1. ASSUME NEW k \in Keys, StartJob(w, k) PROVE UNCHANGED userApproved
    BY <2>1, Zenon DEF StartJob, history
  <2>. QED
    BY <1>2, <2>1 DEF WorkerStep, RunCli, HealthcheckReturns, SubmitReturns, history
<1>3. CASE Environment
  BY <1>3
  DEF Environment, Settle, Land, Lose, Restart, StallJob, EvictJob, Expire, history
<1>4. CASE UNCHANGED vars
  BY <1>4 DEF vars, history
<1>. QED
  BY <1>1, <1>2, <1>3, <1>4 DEF Next

\* Handing over statements that record no new approval keeps WritesApproved.
LEMMA PersistApproved ==
  ASSUME WritesTyped, WritesApproved, NEW S, Persist(S),
         userApproved \subseteq userApproved',
         \A s \in S : s.kind = "req" /\ s.val = "approved" => s.id \in userApproved'
  PROVE  WritesApproved'
<1>1. DOMAIN writes' = DOMAIN writes \union S
  BY PersistAdds DEF WritesTyped
<1>. QED
  BY <1>1 DEF WritesApproved

\* A worker's statements never concern requests.
LEMMA WorkerStatusApproved ==
  ASSUME TypeInv, WritesApproved, NEW w, NEW a, NEW v, NEW more,
         WorkerStatus(w, a, v, more),
         \A s \in more : s.kind # "req",
         userApproved \subseteq userApproved'
  PROVE  WritesApproved'
<1>. DEFINE S == more \union {Statement(w, "status", a, v)}
<1>1. Persist(S) /\ \A s \in S : s.kind # "req"
  BY DEF WorkerStatus, Statement
<1>2. WritesTyped
  BY DEF TypeInv, TypeOK, WritesTyped
<1>. HIDE DEF S
<1>. QED
  BY <1>1, <1>2, PersistApproved

\* What a resolution stores as approved, the user approved.
LEMMA ResolveApproved ==
  ASSUME TypeInv, CopiesApproved, WritesApproved,
         NEW g \in Gateways, NEW r \in Req,
         NEW resolution \in {"approved", "rejected"}, NEW late,
         Resolve(g, r, resolution, late)
  PROVE  /\ CopiesApproved' /\ WritesApproved'
         /\ \A c \in calls' \ calls : c.req \in userApproved'
<1>. DEFINE s == Resolved(req[g][r], resolution, late)
            enqueue == /\ resolution = "approved" /\ MayQueue(r, s)
                       /\ status[g][ReqApp[r]] # "absent"
            queued == Statement(g, "status", ReqApp[r], "apply_queued")
<1>1. /\ g \in Copies /\ WritesTyped
  BY ProcessSets DEF TypeInv, TypeOK, WritesTyped
<1>2. s = "approved" => resolution = "approved" \/ req[g][r] = "approved"
  BY Zenon DEF Resolved
<1>3. /\ req' = [req EXCEPT ![g][r] = s]
      /\ userApproved' = IF s = "approved" /\ resolution = "approved"
                         THEN userApproved \union {r} ELSE userApproved
      /\ \/ /\ enqueue
            /\ calls' = calls \union {[by |-> g, req |-> r]}
            /\ Persist({Statement(g, "req", r, s)} \union {queued})
         \/ /\ Persist({Statement(g, "req", r, s)})
            /\ UNCHANGED calls
  BY DEF Resolve
<1>4. enqueue => s = "approved" /\ resolution = "approved"
  BY DEF MayQueue
<1>. HIDE DEF s, enqueue
<1>5. /\ userApproved \subseteq userApproved'
      /\ s = "approved" => r \in userApproved'
  BY <1>1, <1>2, <1>3 DEF CopiesApproved
<1>6. CopiesApproved'
  BY <1>1, <1>3, <1>5 DEF CopiesApproved, TypeInv, TypeOK
<1>7. /\ Statement(g, "req", r, s).id = r /\ Statement(g, "req", r, s).val = s
      /\ queued.kind = "status"
  BY DEF Statement
<1>. HIDE DEF queued
<1>8. WritesApproved'
  <2>1. CASE Persist({Statement(g, "req", r, s)} \union {queued})
    <3>1. \A x \in {Statement(g, "req", r, s)} \union {queued} :
            x.kind = "req" /\ x.val = "approved" => x.id \in userApproved'
      BY <1>5, <1>7
    <3>. QED
      BY <1>1, <1>5, <2>1, <3>1, PersistApproved
  <2>2. CASE Persist({Statement(g, "req", r, s)})
    <3>1. \A x \in {Statement(g, "req", r, s)} :
            x.kind = "req" /\ x.val = "approved" => x.id \in userApproved'
      BY <1>5, <1>7
    <3>. QED
      BY <1>1, <1>5, <2>2, <3>1, PersistApproved
  <2>. QED
    BY <1>3, <2>1, <2>2
<1>. QED
  BY <1>3, <1>4, <1>5, <1>6, <1>8

\* The same for a review item approved by command.
LEMMA ReviewApproved ==
  ASSUME TypeInv, CopiesApproved, WritesApproved,
         NEW g \in Gateways, NEW a \in App, NEW r \in Req,
         ApproveApplicationManualReview(g, a, r)
  PROVE  /\ CopiesApproved' /\ WritesApproved'
         /\ \A c \in calls' \ calls : c.req \in userApproved'
<1>. DEFINE s == Resolved("pending", "approved", r \in expired)
            stored == {Statement(g, "newReq", r, "pending"),
                       Statement(g, "req", r, s)}
            queued == Statement(g, "status", a, "apply_queued")
<1>1. /\ g \in Copies /\ WritesTyped
  BY ProcessSets DEF TypeInv, TypeOK, WritesTyped
<1>2. /\ req' = [req EXCEPT ![g][r] = s]
      /\ \/ /\ userApproved' = userApproved \union {r}
            /\ calls' = calls \union {[by |-> g, req |-> r]}
            /\ Persist(stored \union {queued})
         \/ /\ s # "approved"
            /\ Persist(stored)
            /\ UNCHANGED <<userApproved, calls>>
  BY DEF ApproveApplicationManualReview
<1>. HIDE DEF s
<1>3. /\ userApproved \subseteq userApproved'
      /\ s = "approved" => r \in userApproved'
  BY <1>2
<1>4. CopiesApproved'
  BY <1>1, <1>2, <1>3 DEF CopiesApproved, TypeInv, TypeOK
<1>5. \A x \in stored \union {queued} :
        x.kind = "req" /\ x.val = "approved" => x.id \in userApproved'
  BY <1>3 DEF Statement
<1>. HIDE DEF stored, queued
<1>6. WritesApproved'
  BY <1>1, <1>2, <1>3, <1>5, PersistApproved
<1>. QED
  BY <1>2, <1>4, <1>6

\* Only an approved request is acted on, and an approval handler is the only
\* place where a request becomes approved.
LEMMA ApprovedStep ==
  ASSUME TypeInv, CopiesApproved, WritesApproved, [Next]_vars
  PROVE  CopiesApproved' /\ WritesApproved'
<1>. USE ApprovalsKept
<1>1. WritesTyped /\ userApproved \subseteq userApproved'
  BY DEF TypeInv, TypeOK, WritesTyped
<1>2. ASSUME NEW a \in App, NEW v \in Content, NEW hardOk \in BOOLEAN,
             PrepareApplication(a, v, hardOk)
      PROVE  CopiesApproved' /\ WritesApproved'
  <2>. DEFINE first == CASE PolicyDecision(mode[Api], hardOk) = "deny" ->
                              "apply_blocked_by_policy"
                         [] PolicyDecision(mode[Api], hardOk) = "allow" ->
                              "application_prepared"
                         [] OTHER -> "manual_review_required"
              create == Statement(Api, "create", a, first)
  <2>1. \/ Persist({create}) /\ UNCHANGED req
        \/ \E r \in Req :
             /\ req' = [req EXCEPT ![Api][r] = "pending"]
             /\ Persist({create, Statement(Api, "newReq", r, "pending")})
    BY <1>2, Zenon DEF PrepareApplication
  <2>2. create.kind = "create" /\ \A r : Statement(Api, "newReq", r, "pending").kind = "newReq"
    BY DEF Statement
  <2>. HIDE DEF create
  <2>3. CASE Persist({create}) /\ UNCHANGED req
    BY <1>1, <2>2, <2>3, PersistApproved DEF CopiesApproved
  <2>4. ASSUME NEW r \in Req, req' = [req EXCEPT ![Api][r] = "pending"],
               Persist({create, Statement(Api, "newReq", r, "pending")})
        PROVE  CopiesApproved' /\ WritesApproved'
    <3>1. WritesApproved'
      BY <1>1, <2>2, <2>4, PersistApproved
    <3>. QED
      BY <1>1, <2>4, <3>1 DEF CopiesApproved, TypeInv, TypeOK
  <2>. QED
    BY <2>1, <2>3, <2>4
<1>3. ASSUME NEW r \in Req, req' = [req EXCEPT ![Api][r] = "pending"],
             Persist({Statement(Api, "newReq", r, "pending")})
      PROVE  CopiesApproved' /\ WritesApproved'
  <2>1. WritesApproved'
    BY <1>1, <1>3, PersistApproved DEF Statement
  <2>. QED
    BY <1>1, <1>3, <2>1 DEF CopiesApproved, TypeInv, TypeOK
<1>4. CASE UNCHANGED <<req, writes>>
  BY <1>1, <1>4 DEF CopiesApproved, WritesApproved
<1>5. ASSUME NEW p, NEW a, NEW v, UNCHANGED req, Persist({Statement(p, "status", a, v)})
      PROVE  CopiesApproved' /\ WritesApproved'
  <2>1. WritesApproved'
    BY <1>1, <1>5, PersistApproved DEF Statement
  <2>. QED
    BY <1>1, <1>5, <2>1 DEF CopiesApproved
<1>6. ASSUME NEW g, NEW m, UNCHANGED req, Persist({Statement(g, "mode", "global", m)})
      PROVE  CopiesApproved' /\ WritesApproved'
  <2>1. WritesApproved'
    BY <1>1, <1>6, PersistApproved DEF Statement
  <2>. QED
    BY <1>1, <1>6, <2>1 DEF CopiesApproved
<1>7. CASE GatewayStep
  <2>1. ASSUME NEW a \in App, NEW v \in Content, NEW hardOk \in BOOLEAN,
               ReingestVacancy(a, v, hardOk)
        PROVE  CopiesApproved' /\ WritesApproved'
    BY <1>3, <1>4, <2>1 DEF ReingestVacancy
  <2>2. ASSUME NEW a \in App, NEW r \in Req, PostApprovalRequest(a, r)
        PROVE  CopiesApproved' /\ WritesApproved'
    BY <1>3, <2>2 DEF PostApprovalRequest
  <2>3. ASSUME NEW g \in Gateways, NEW r \in Req,
               NEW resolution \in {"approved", "rejected"}, NEW late,
               Resolve(g, r, resolution, late)
        PROVE  CopiesApproved' /\ WritesApproved'
    BY <2>3, ResolveApproved
  <2>4. ASSUME NEW c \in calls, NEW added \in BOOLEAN, NEW ok \in BOOLEAN,
               EnqueueReturns(c, added, ok)
        PROVE  CopiesApproved' /\ WritesApproved'
    BY <1>4, <1>5, <2>4 DEF EnqueueReturns
  <2>5. ASSUME NEW g \in Gateways, NEW m \in Modes, SetMode(g, m)
        PROVE  CopiesApproved' /\ WritesApproved'
    BY <1>6, <2>5 DEF SetMode
  <2>. QED
    BY <1>2, <1>7, <2>1, <2>2, <2>3, <2>4, <2>5, ReviewApproved, ProcessSets
    DEF GatewayStep, ApiResolve, ApproveCommand, RejectCommand
<1>8. ASSUME NEW w \in Workers, WorkerStep(w)
      PROVE  CopiesApproved' /\ WritesApproved'
  <2>1. ASSUME NEW a, NEW e, EntryEffect(w, a, e), UNCHANGED req
        PROVE  CopiesApproved' /\ WritesApproved'
    <3>1. CASE UNCHANGED writes
      BY <1>4, <2>1, <3>1
    <3>2. ASSUME NEW v, WorkerStatus(w, a, v, {})
          PROVE  CopiesApproved' /\ WritesApproved'
      BY <1>1, <2>1, <3>2, WorkerStatusApproved DEF CopiesApproved
    <3>. QED
      BY <2>1, <3>1, <3>2 DEF EntryEffect
  <2>2. ASSUME NEW k \in Keys, StartJob(w, k) PROVE CopiesApproved' /\ WritesApproved'
    <3>1. EntryEffect(w, k.app, Entry(w, k.app, jobs[k].req)) /\ UNCHANGED req
      BY <2>2, Zenon DEF StartJob
    <3>. QED
      BY <2>1, <3>1
  <2>3. ASSUME NEW a \in App, NEW r \in Req, NEW shared \in BOOLEAN,
               RunCli(w, a, r, shared)
        PROVE  CopiesApproved' /\ WritesApproved'
    <3>1. EntryEffect(w, a, Entry(w, a, r)) /\ UNCHANGED req
      BY <2>3 DEF RunCli
    <3>. QED
      BY <2>1, <3>1
  <2>4. ASSUME NEW hardOk \in BOOLEAN, NEW canary \in BOOLEAN,
               HealthcheckReturns(w, hardOk, canary)
        PROVE  CopiesApproved' /\ WritesApproved'
    <3>1. UNCHANGED req /\ \E v : WorkerStatus(w, run[w].app, v, {})
      BY <2>4 DEF HealthcheckReturns
    <3>. QED
      BY <1>1, <3>1, WorkerStatusApproved DEF CopiesApproved
  <2>5. ASSUME NEW outcome \in Outcomes, SubmitReturns(w, outcome)
        PROVE  CopiesApproved' /\ WritesApproved'
    <3>1. /\ UNCHANGED req
          /\ \E v : WorkerStatus(w, run[w].app, v,
                                 {Statement(w, "proof", run[w].app, "submit")})
      BY <2>5, Zenon DEF SubmitReturns
    <3>2. \A s \in {Statement(w, "proof", run[w].app, "submit")} : s.kind # "req"
      BY DEF Statement
    <3>. QED
      BY <1>1, <3>1, <3>2, WorkerStatusApproved DEF CopiesApproved
  <2>. QED
    BY <1>8, <2>2, <2>3, <2>4, <2>5 DEF WorkerStep
<1>9. CASE Environment
  <2>1. ASSUME NEW s \in BagToSet(writes), NEW artifact, Land(s, artifact)
        PROVE  CopiesApproved' /\ WritesApproved'
    <3>1. s \in DOMAIN writes /\ s \in Statements
      BY DEF BagToSet, TypeInv, TypeOK
    <3>2. DOMAIN writes' \subseteq DOMAIN writes
      BY <1>1, <2>1, SettleRemoves DEF Land, WritesTyped
    <3>3. /\ s.kind = "newReq" => s.val = "pending"
          /\ s.kind = "req" /\ s.val = "approved" => s.id \in userApproved
      BY <3>1 DEF Statements, WritesApproved
    <3>4. CopiesApproved'
      BY <1>1, <2>1, <3>3 DEF Land, CopiesApproved, TypeInv, TypeOK
    <3>. QED
      BY <1>1, <3>2, <3>4 DEF WritesApproved
  <2>2. ASSUME NEW s \in BagToSet(writes), Lose(s)
        PROVE  CopiesApproved' /\ WritesApproved'
    <3>1. DOMAIN writes' \subseteq DOMAIN writes
      BY <1>1, <2>2, SettleRemoves DEF Lose, WritesTyped
    <3>. QED
      BY <1>1, <2>2, <3>1 DEF Lose, copies, CopiesApproved, WritesApproved
  <2>3. ASSUME NEW p \in Procs, Restart(p) PROVE CopiesApproved' /\ WritesApproved'
    <3>1. req' = [req EXCEPT ![p] = req[Db]] /\ UNCHANGED writes
      BY <2>3 DEF Restart
    <3>. QED
      BY <1>1, <3>1, ProcessSets
      DEF CopiesApproved, WritesApproved, TypeInv, TypeOK
  <2>4. CASE UNCHANGED <<copies, writes>>
    BY <1>4, <2>4 DEF copies
  <2>. QED
    BY <1>9, <2>1, <2>2, <2>3, <2>4
    DEF Environment, Settle, StallJob, EvictJob, Expire
<1>10. CASE UNCHANGED vars
  BY <1>4, <1>10 DEF vars, copies
<1>. QED
  BY <1>7, <1>8, <1>9, <1>10 DEF Next

-----------------------------------------------------------------------------
(* The queue and the workers act on approved requests.                     *)

\* A handler waiting for queue.enqueue has accepted an approval.
CallsApproved == \A c \in calls : c.req \in userApproved

\* Handlers waiting for the queue keep their approval.
LEMMA CallsStep ==
  ASSUME TypeInv, CopiesApproved, WritesApproved, CallsApproved, [Next]_vars
  PROVE  CallsApproved'
<1>1. userApproved \subseteq userApproved'
  BY ApprovalsKept
<1>2. CASE calls' \subseteq calls
  BY <1>1, <1>2 DEF CallsApproved
<1>3. ASSUME NEW g \in Gateways, NEW r \in Req,
             NEW resolution \in {"approved", "rejected"}, NEW late,
             Resolve(g, r, resolution, late)
      PROVE  CallsApproved'
  BY <1>1, <1>3, ResolveApproved DEF CallsApproved
<1>4. ASSUME NEW g \in Gateways, NEW a \in App, NEW r \in Req,
             ApproveApplicationManualReview(g, a, r)
      PROVE  CallsApproved'
  BY <1>1, <1>4, ReviewApproved DEF CallsApproved
<1>5. CASE GatewayStep
  <2>1. ASSUME NEW a, NEW v, NEW hardOk, PrepareApplication(a, v, hardOk)
        PROVE  UNCHANGED calls
    BY <2>1 DEF PrepareApplication, queue
  <2>. QED
    BY <1>2, <1>3, <1>4, <1>5, <2>1, ProcessSets
    DEF GatewayStep, ReingestVacancy, PostApprovalRequest, ApiResolve,
        ApproveCommand, RejectCommand, EnqueueReturns, SetMode, queue
<1>6. ASSUME NEW w \in Workers, WorkerStep(w) PROVE UNCHANGED calls
  <2>1. ASSUME NEW k \in Keys, StartJob(w, k) PROVE UNCHANGED calls
    BY <2>1, Zenon DEF StartJob
  <2>. QED
    BY <1>6, <2>1 DEF WorkerStep, RunCli, HealthcheckReturns, SubmitReturns
<1>7. CASE Environment
  <2>1. calls' \subseteq calls
    BY <1>7
    DEF Environment, Settle, Land, Lose, Restart, StallJob, EvictJob, Expire, queue
  <2>. QED
    BY <1>2, <2>1
<1>8. CASE UNCHANGED vars
  BY <1>2, <1>8 DEF vars, queue
<1>. QED
  BY <1>2, <1>5, <1>6, <1>7, <1>8 DEF Next

\* Jobs of gateways keep an approved request about their application.
LEMMA JobsStep ==
  ASSUME TypeInv, CallsApproved, QueuedJobsApproved, [Next]_vars
  PROVE  QueuedJobsApproved'
<1>1. userApproved \subseteq userApproved'
  BY ApprovalsKept
<1>2. CASE UNCHANGED jobs
  BY <1>1, <1>2 DEF QueuedJobsApproved
<1>3. ASSUME NEW c \in calls, NEW added \in BOOLEAN, NEW ok \in BOOLEAN,
             EnqueueReturns(c, added, ok)
      PROVE  QueuedJobsApproved'
  <2>. DEFINE k == [app |-> ReqApp[c.req], cli |-> None]
  <2>1. /\ k \in Keys /\ k.app = ReqApp[c.req] /\ c.req \in userApproved
        /\ jobs' = IF added THEN AddJob(k, c.req) ELSE jobs
    BY <1>3, RequestAssumption
    DEF EnqueueReturns, CallsApproved, TypeInv, TypeOK, Keys
  <2>. HIDE DEF k
  <2>2. jobs' = jobs \/ jobs' = [jobs EXCEPT ![k] = JobRecord("waiting", c.req, None, 0, 0)]
    BY <2>1 DEF AddJob
  <2>3. CASE jobs' = [jobs EXCEPT ![k] = JobRecord("waiting", c.req, None, 0, 0)]
    <3>1. /\ jobs'[k].req = c.req
          /\ \A j \in Keys \ {k} : jobs'[j] = jobs[j]
      BY <2>1, <2>3 DEF JobRecord, TypeInv, TypeOK
    <3>. QED
      BY <1>1, <2>1, <3>1 DEF QueuedJobsApproved
  <2>. QED
    BY <1>2, <2>2, <2>3
<1>4. CASE GatewayStep
  <2>1. ASSUME NEW a, NEW v, NEW hardOk, PrepareApplication(a, v, hardOk)
        PROVE  UNCHANGED jobs
    BY <2>1 DEF PrepareApplication, queue
  <2>. QED
    BY <1>2, <1>3, <1>4, <2>1
    DEF GatewayStep, ReingestVacancy, PostApprovalRequest, ApiResolve, ApproveCommand,
        RejectCommand, ApproveApplicationManualReview, SetMode, queue
<1>5. ASSUME NEW w \in Workers, jobs' = Completed(w)
      PROVE  QueuedJobsApproved'
  <2>1. w # None
    BY NoneAssumption, ProcessSets
  <2>2. CASE run[w].job # None /\ jobs[run[w].job].owner = w
    <3>1. run[w].job \in Keys /\ jobs[run[w].job].state = "active"
      BY <2>1, <2>2 DEF TypeInv, TypeOK, Run, JobLimits
    <3>2. \A k \in Keys : \/ jobs'[k] = jobs[k]
                          \/ jobs'[k].req = jobs[k].req /\ jobs[k].state # "none"
      BY <1>5, <2>2, <3>1 DEF Completed, JobRecord, TypeInv, TypeOK
    <3>. QED
      BY <1>1, <3>2 DEF QueuedJobsApproved
  <2>3. CASE ~(run[w].job # None /\ jobs[run[w].job].owner = w)
    BY <1>2, <1>5, <2>3 DEF Completed
  <2>. QED
    BY <2>2, <2>3
<1>6. ASSUME NEW w \in Workers, WorkerStep(w) PROVE QueuedJobsApproved'
  <2>1. ASSUME NEW k \in Keys, StartJob(w, k) PROVE QueuedJobsApproved'
    <3>. DEFINE r == jobs[k].req
                e == Entry(w, k.app, r)
                next == CASE e = "accepted" ->
                               JobRecord("active", r, w, jobs[k].tries, jobs[k].stalls)
                          [] e = "refused" ->
                               JobRecord("completed", r, None, jobs[k].tries,
                                         jobs[k].stalls)
                          [] OTHER -> Retry(jobs[k])
    <3>1. jobs[k].state = "waiting" /\ jobs' = [jobs EXCEPT ![k] = next]
      BY <2>1, Zenon DEF StartJob
    <3>2. \/ next = JobRecord("active", r, w, jobs[k].tries, jobs[k].stalls)
          \/ next = JobRecord("completed", r, None, jobs[k].tries, jobs[k].stalls)
          \/ next = Retry(jobs[k])
      BY Zenon
    <3>. HIDE DEF next
    <3>3. next.req = jobs[k].req
      BY <3>2 DEF JobRecord, Retry
    <3>4. /\ jobs'[k].req = jobs[k].req
          /\ \A j \in Keys \ {k} : jobs'[j] = jobs[j]
      BY <3>1, <3>3 DEF TypeInv, TypeOK
    <3>. QED
      BY <1>1, <3>1, <3>4 DEF QueuedJobsApproved
  <2>2. ASSUME NEW a \in App, NEW r \in Req, NEW shared \in BOOLEAN,
               RunCli(w, a, r, shared)
        PROVE  QueuedJobsApproved'
    <3>. DEFINE k == [app |-> a, cli |-> r]
    <3>1. /\ k \in Keys /\ k.cli # None
          /\ jobs' = IF shared THEN AddJob(k, r) ELSE jobs
      BY <2>2, NoneAssumption DEF RunCli, Keys
    <3>. HIDE DEF k
    <3>2. \A j \in Keys \ {k} : jobs'[j] = jobs[j]
      BY <3>1 DEF AddJob, TypeInv, TypeOK
    <3>. QED
      BY <1>1, <3>1, <3>2 DEF QueuedJobsApproved
  <2>3. ASSUME NEW hardOk \in BOOLEAN, NEW canary \in BOOLEAN,
               HealthcheckReturns(w, hardOk, canary)
        PROVE  QueuedJobsApproved'
    BY <1>2, <1>5, <2>3 DEF HealthcheckReturns
  <2>4. ASSUME NEW outcome \in Outcomes, SubmitReturns(w, outcome)
        PROVE  QueuedJobsApproved'
    BY <1>5, <2>4, Zenon DEF SubmitReturns
  <2>. QED
    BY <1>6, <2>1, <2>2, <2>3, <2>4 DEF WorkerStep
<1>7. CASE Environment
  <2>1. ASSUME NEW k \in Keys, StallJob(k) PROVE QueuedJobsApproved'
    <3>1. /\ jobs[k].state # "none" /\ jobs'[k].req = jobs[k].req
          /\ \A j \in Keys \ {k} : jobs'[j] = jobs[j]
      BY <2>1 DEF StallJob, JobRecord, TypeInv, TypeOK
    <3>. QED
      BY <1>1, <3>1 DEF QueuedJobsApproved
  <2>2. ASSUME NEW k \in Keys, EvictJob(k) PROVE QueuedJobsApproved'
    <3>1. /\ jobs'[k].state = "none"
          /\ \A j \in Keys \ {k} : jobs'[j] = jobs[j]
      BY <2>2 DEF EvictJob, NoJob, JobRecord, TypeInv, TypeOK
    <3>. QED
      BY <1>1, <3>1 DEF QueuedJobsApproved
  <2>. QED
    BY <1>2, <1>7, <2>1, <2>2
    DEF Environment, Settle, Land, Lose, Restart, Expire, queue
<1>8. CASE UNCHANGED vars
  BY <1>2, <1>8 DEF vars, queue
<1>. QED
  BY <1>4, <1>6, <1>7, <1>8 DEF Next

-----------------------------------------------------------------------------
(* An application that anybody knows of has a draft, and a draft is never  *)
(* written twice.                                                          *)

StatusDrafted ==
  \A c \in Copies, a \in App : status[c][a] # "absent" => draft[a] # None
CreatesDrafted ==
  \A s \in DOMAIN writes : s.kind = "create" => draft[s.id] # None
CallsDrafted == \A c \in calls : draft[ReqApp[c.req]] # None
RunsDrafted ==
  \A w \in Workers : run[w].phase \in {"health", "submit"} => draft[run[w].app] # None

AppsDrafted == StatusDrafted /\ CreatesDrafted /\ CallsDrafted /\ RunsDrafted

\* A step that creates no application and settles no statement: what
\* Postgres holds of applications, and the creations in flight, stay.
Quiet ==
  /\ \A s \in DOMAIN writes' : s.kind = "create" =>
       s \in DOMAIN writes /\ writes'[s] = writes[s]
  /\ status'[Db] = status[Db] /\ proof'[Db] = proof[Db]
  /\ UNCHANGED draft
  /\ StatusDrafted' /\ CallsDrafted' /\ RunsDrafted'

\* Statements other than creations leave the creations in flight alone.
LEMMA PersistNoCreate ==
  ASSUME WritesTyped, NEW S, Persist(S), \A s \in S : s.kind # "create"
  PROVE  \A s \in DOMAIN writes' : s.kind = "create" =>
           s \in DOMAIN writes /\ writes'[s] = writes[s]
<1>1. /\ DOMAIN writes' = DOMAIN writes \union S
      /\ \A s \in DOMAIN writes \ S : writes'[s] = writes[s]
  BY PersistAdds DEF WritesTyped
<1>. QED
  BY <1>1

\* A process changes the status of an application that has a draft.
LEMMA StatusDraftKept ==
  ASSUME TypeInv, StatusDrafted, NEW p \in Procs, NEW a \in App, draft[a] # None,
         NEW v, status' = [status EXCEPT ![p][a] = v], UNCHANGED draft
  PROVE  StatusDrafted' /\ status'[Db] = status[Db]
BY ProcessSets DEF TypeInv, TypeOK, StatusDrafted

\* Resolving a request is quiet.
LEMMA ResolveQuiet ==
  ASSUME TypeInv, AppsDrafted, NEW g \in Gateways, NEW r \in Req,
         NEW resolution \in {"approved", "rejected"}, NEW late,
         Resolve(g, r, resolution, late), UNCHANGED <<proof, draft, run>>
  PROVE  Quiet
<1>. DEFINE s == Resolved(req[g][r], resolution, late)
            stored == {Statement(g, "req", r, s)}
            queued == {Statement(g, "status", ReqApp[r], "apply_queued")}
<1>1. /\ g \in Procs /\ g \in Copies /\ ReqApp[r] \in App /\ WritesTyped
  BY ProcessSets, RequestAssumption DEF TypeInv, TypeOK, WritesTyped
<1>2. \/ /\ status[g][ReqApp[r]] # "absent"
         /\ status' = [status EXCEPT ![g][ReqApp[r]] = "apply_queued"]
         /\ calls' = calls \union {[by |-> g, req |-> r]}
         /\ Persist(stored \union queued)
      \/ Persist(stored) /\ UNCHANGED <<status, calls>>
  BY DEF Resolve
<1>3. /\ \A x \in stored : x.kind # "create"
      /\ \A x \in stored \union queued : x.kind # "create"
  BY DEF Statement
<1>. HIDE DEF stored, queued
<1>4. CASE /\ status[g][ReqApp[r]] # "absent"
           /\ status' = [status EXCEPT ![g][ReqApp[r]] = "apply_queued"]
           /\ calls' = calls \union {[by |-> g, req |-> r]}
           /\ Persist(stored \union queued)
  <2>1. draft[ReqApp[r]] # None
    BY <1>1, <1>4 DEF AppsDrafted, StatusDrafted
  <2>2. StatusDrafted' /\ status'[Db] = status[Db]
    BY <1>1, <1>4, <2>1, StatusDraftKept DEF AppsDrafted
  <2>3. \A x \in DOMAIN writes' : x.kind = "create" =>
          x \in DOMAIN writes /\ writes'[x] = writes[x]
    BY <1>1, <1>3, <1>4, PersistNoCreate
  <2>. QED
    BY <1>4, <2>1, <2>2, <2>3 DEF Quiet, AppsDrafted, CallsDrafted, RunsDrafted
<1>5. CASE Persist(stored) /\ UNCHANGED <<status, calls>>
  <2>1. \A x \in DOMAIN writes' : x.kind = "create" =>
          x \in DOMAIN writes /\ writes'[x] = writes[x]
    BY <1>1, <1>3, <1>5, PersistNoCreate
  <2>. QED
    BY <1>5, <2>1 DEF Quiet, AppsDrafted, StatusDrafted, CallsDrafted, RunsDrafted
<1>. QED
  BY <1>2, <1>4, <1>5

\* Approving a review item is quiet.
LEMMA ReviewQuiet ==
  ASSUME TypeInv, AppsDrafted, NEW g \in Gateways, NEW a \in App, NEW r \in Req,
         ApproveApplicationManualReview(g, a, r)
  PROVE  Quiet
<1>. DEFINE s == Resolved("pending", "approved", r \in expired)
            stored == {Statement(g, "newReq", r, "pending"),
                       Statement(g, "req", r, s)}
            queued == {Statement(g, "status", a, "apply_queued")}
<1>1. /\ g \in Procs /\ g \in Copies /\ WritesTyped
  BY ProcessSets DEF TypeInv, TypeOK, WritesTyped
<1>2. /\ status[g][a] # "absent" /\ ReqApp[r] = a
      /\ \/ /\ status' = [status EXCEPT ![g][a] = "apply_queued"]
            /\ calls' = calls \union {[by |-> g, req |-> r]}
            /\ Persist(stored \union queued)
         \/ Persist(stored) /\ UNCHANGED <<status, calls>>
      /\ UNCHANGED <<proof, draft, run>>
  BY DEF ApproveApplicationManualReview, ReturnsRequest
<1>3. /\ \A x \in stored : x.kind # "create"
      /\ \A x \in stored \union queued : x.kind # "create"
  BY DEF Statement
<1>. HIDE DEF stored, queued
<1>4. \A x \in DOMAIN writes' : x.kind = "create" =>
        x \in DOMAIN writes /\ writes'[x] = writes[x]
  BY <1>1, <1>2, <1>3, PersistNoCreate
<1>5. draft[a] # None
  BY <1>1, <1>2 DEF AppsDrafted, StatusDrafted
<1>6. StatusDrafted' /\ status'[Db] = status[Db]
  <2>1. CASE UNCHANGED status
    BY <1>2, <2>1 DEF AppsDrafted, StatusDrafted
  <2>2. CASE status' = [status EXCEPT ![g][a] = "apply_queued"]
    BY <1>1, <1>2, <1>5, <2>2, StatusDraftKept DEF AppsDrafted
  <2>. QED
    BY <1>2, <2>1, <2>2
<1>. QED
  BY <1>2, <1>4, <1>5, <1>6 DEF Quiet, AppsDrafted, CallsDrafted, RunsDrafted

\* The return of queue.enqueue is quiet.
LEMMA EnqueueQuiet ==
  ASSUME TypeInv, AppsDrafted, NEW c \in calls, NEW added \in BOOLEAN,
         NEW ok \in BOOLEAN, EnqueueReturns(c, added, ok)
  PROVE  Quiet
<1>. DEFINE a == ReqApp[c.req]
            failed == {Statement(c.by, "status", a, "manual_review_required")}
<1>1. /\ c.by \in Procs /\ a \in App /\ WritesTyped /\ draft[a] # None
  BY ProcessSets, RequestAssumption
  DEF TypeInv, TypeOK, WritesTyped, AppsDrafted, CallsDrafted
<1>2. /\ calls' = calls \ {c}
      /\ \/ UNCHANGED <<status, writes>>
         \/ /\ status' = [status EXCEPT ![c.by][a] = "manual_review_required"]
            /\ Persist(failed)
      /\ UNCHANGED <<proof, draft, run>>
  BY DEF EnqueueReturns
<1>3. \A x \in failed : x.kind # "create"
  BY DEF Statement
<1>. HIDE DEF a, failed
<1>4. CASE UNCHANGED <<status, writes>>
  BY <1>2, <1>4 DEF Quiet, AppsDrafted, StatusDrafted, CallsDrafted, RunsDrafted
<1>5. CASE /\ status' = [status EXCEPT ![c.by][a] = "manual_review_required"]
           /\ Persist(failed)
  <2>1. \A x \in DOMAIN writes' : x.kind = "create" =>
          x \in DOMAIN writes /\ writes'[x] = writes[x]
    BY <1>1, <1>3, <1>5, PersistNoCreate
  <2>2. StatusDrafted' /\ status'[Db] = status[Db]
    BY <1>1, <1>2, <1>5, StatusDraftKept DEF AppsDrafted
  <2>. QED
    BY <1>2, <2>1, <2>2 DEF Quiet, AppsDrafted, CallsDrafted, RunsDrafted
<1>. QED
  BY <1>2, <1>4, <1>5

\* What a worker writes about an application that has a draft is quiet.
LEMMA WorkerWrites ==
  ASSUME TypeInv, AppsDrafted, NEW w \in Workers, NEW a \in App, draft[a] # None,
         NEW v, NEW more, WorkerStatus(w, a, v, more),
         \A s \in more : s.kind # "create", UNCHANGED draft
  PROVE  /\ StatusDrafted' /\ status'[Db] = status[Db]
         /\ \A x \in DOMAIN writes' : x.kind = "create" =>
              x \in DOMAIN writes /\ writes'[x] = writes[x]
<1>. DEFINE S == more \union {Statement(w, "status", a, v)}
<1>1. /\ Persist(S) /\ status' = [status EXCEPT ![w][a] = v]
      /\ WritesTyped /\ w \in Procs
  BY ProcessSets DEF WorkerStatus, TypeInv, TypeOK, WritesTyped
<1>2. \A s \in S : s.kind # "create"
  BY DEF Statement
<1>. HIDE DEF S
<1>3. StatusDrafted' /\ status'[Db] = status[Db]
  BY <1>1, StatusDraftKept DEF AppsDrafted
<1>. QED
  BY <1>1, <1>2, <1>3, PersistNoCreate

\* So is what the handler stores before its first await.
LEMMA EntryWrites ==
  ASSUME TypeInv, AppsDrafted, NEW w \in Workers, NEW a \in App, NEW r,
         EntryEffect(w, a, Entry(w, a, r)), UNCHANGED draft
  PROVE  /\ StatusDrafted' /\ status'[Db] = status[Db]
         /\ \A x \in DOMAIN writes' : x.kind = "create" =>
              x \in DOMAIN writes /\ writes'[x] = writes[x]
<1>1. CASE UNCHANGED <<status, writes>>
  BY <1>1 DEF AppsDrafted, StatusDrafted
<1>2. CASE /\ Entry(w, a, r) # "application_missing"
           /\ \E v : WorkerStatus(w, a, v, {})
  <2>1. draft[a] # None
    BY <1>2, EntryOutcome, ProcessSets DEF AppsDrafted, StatusDrafted
  <2>. QED
    BY <1>2, <2>1, WorkerWrites
<1>. QED
  BY <1>1, <1>2 DEF EntryEffect

\* Every step of a worker is quiet.
LEMMA WorkerQuiet ==
  ASSUME TypeInv, AppsDrafted, NEW w \in Workers, WorkerStep(w)
  PROVE  Quiet
<1>0. w # Db
  BY ProcessSets
<1>1. ASSUME NEW k \in Keys, StartJob(w, k) PROVE Quiet
  <2>. DEFINE e == Entry(w, k.app, jobs[k].req)
  <2>1. /\ EntryEffect(w, k.app, e)
        /\ run' = IF e = "accepted"
                  THEN [run EXCEPT ![w] = [phase |-> "health", app |-> k.app,
                                           req |-> jobs[k].req, job |-> k]]
                  ELSE run
        /\ UNCHANGED <<proof, draft, calls>>
    BY <1>1, Zenon DEF StartJob
  <2>2. k.app \in App
    BY DEF Keys
  <2>3. /\ StatusDrafted' /\ status'[Db] = status[Db]
        /\ \A x \in DOMAIN writes' : x.kind = "create" =>
             x \in DOMAIN writes /\ writes'[x] = writes[x]
    BY <2>1, <2>2, EntryWrites
  <2>4. e = "accepted" => draft[k.app] # None
    BY <2>2, EntryOutcome, ProcessSets DEF AppsDrafted, StatusDrafted
  <2>. HIDE DEF e
  <2>5. RunsDrafted'
    BY <2>1, <2>4 DEF AppsDrafted, RunsDrafted, TypeInv, TypeOK
  <2>. QED
    BY <2>1, <2>3, <2>5 DEF Quiet, AppsDrafted, CallsDrafted
<1>2. ASSUME NEW a \in App, NEW r \in Req, NEW shared \in BOOLEAN,
             RunCli(w, a, r, shared)
      PROVE  Quiet
  <2>. DEFINE e == Entry(w, a, r)
  <2>1. /\ EntryEffect(w, a, e)
        /\ run' = [run EXCEPT ![w] =
             IF e = "accepted"
             THEN [phase |-> "health", app |-> a, req |-> r, job |-> None]
             ELSE Exited]
        /\ UNCHANGED <<proof, draft, calls>>
    BY <1>2 DEF RunCli
  <2>2. /\ StatusDrafted' /\ status'[Db] = status[Db]
        /\ \A x \in DOMAIN writes' : x.kind = "create" =>
             x \in DOMAIN writes /\ writes'[x] = writes[x]
    BY <2>1, EntryWrites
  <2>3. e = "accepted" => draft[a] # None
    BY EntryOutcome, ProcessSets DEF AppsDrafted, StatusDrafted
  <2>. HIDE DEF e
  <2>4. RunsDrafted'
    BY <2>1, <2>3 DEF AppsDrafted, RunsDrafted, Exited, TypeInv, TypeOK
  <2>. QED
    BY <2>1, <2>2, <2>4 DEF Quiet, AppsDrafted, CallsDrafted
<1>3. ASSUME NEW hardOk \in BOOLEAN, NEW canary \in BOOLEAN,
             HealthcheckReturns(w, hardOk, canary)
      PROVE  Quiet
  <2>1. /\ run[w].app \in App /\ draft[run[w].app] # None
        /\ UNCHANGED <<proof, draft, calls>>
        /\ \E v : WorkerStatus(w, run[w].app, v, {})
    BY <1>3
    DEF HealthcheckReturns, TypeInv, TypeOK, BusyShape, AppsDrafted, RunsDrafted
  <2>2. /\ StatusDrafted' /\ status'[Db] = status[Db]
        /\ \A x \in DOMAIN writes' : x.kind = "create" =>
             x \in DOMAIN writes /\ writes'[x] = writes[x]
    BY <2>1, WorkerWrites
  <2>3. \/ run' = [run EXCEPT ![w] = Rest(w)]
        \/ run' = [run EXCEPT ![w] = [phase |-> "submit", app |-> run[w].app,
                                     req |-> run[w].req, job |-> run[w].job]]
    BY <1>3 DEF HealthcheckReturns
  <2>4. RunsDrafted'
    BY <2>1, <2>3 DEF AppsDrafted, RunsDrafted, Rest, Idle, Exited, TypeInv, TypeOK
  <2>. QED
    BY <2>1, <2>2, <2>4 DEF Quiet, AppsDrafted, CallsDrafted
<1>4. ASSUME NEW outcome \in Outcomes, SubmitReturns(w, outcome) PROVE Quiet
  <2>. DEFINE more == {Statement(w, "proof", run[w].app, "submit")}
  <2>1. /\ proof' = [proof EXCEPT ![w][run[w].app] = "submit"]
        /\ \E v : WorkerStatus(w, run[w].app, v, more)
        /\ run' = [run EXCEPT ![w] = Rest(w)]
        /\ UNCHANGED <<draft, calls>> /\ run[w].phase = "submit"
    BY <1>4, Zenon DEF SubmitReturns
  <2>2. run[w].app \in App /\ draft[run[w].app] # None
    BY <2>1 DEF TypeInv, TypeOK, BusyShape, AppsDrafted, RunsDrafted
  <2>3. \A s \in more : s.kind # "create"
    BY DEF Statement
  <2>. HIDE DEF more
  <2>4. /\ StatusDrafted' /\ status'[Db] = status[Db]
        /\ \A x \in DOMAIN writes' : x.kind = "create" =>
             x \in DOMAIN writes /\ writes'[x] = writes[x]
    BY <2>1, <2>2, <2>3, WorkerWrites
  <2>5. proof'[Db] = proof[Db]
    BY <1>0, <2>1 DEF TypeInv, TypeOK
  <2>6. RunsDrafted'
    BY <2>1 DEF AppsDrafted, RunsDrafted, Rest, Idle, Exited, TypeInv, TypeOK
  <2>. QED
    BY <2>1, <2>4, <2>5, <2>6 DEF Quiet, AppsDrafted, CallsDrafted
<1>. QED
  BY <1>1, <1>2, <1>3, <1>4 DEF WorkerStep

\* Every step but a creation and a settling statement is quiet.
LEMMA OtherStepsQuiet ==
  ASSUME TypeInv, AppsDrafted, [Next]_vars
  PROVE  \/ Quiet
         \/ \E a \in App, v \in Content, hardOk \in BOOLEAN :
              PrepareApplication(a, v, hardOk)
         \/ Settle
<1>. USE DEF AppsDrafted
<1>1. ASSUME UNCHANGED <<status, proof, draft, run, writes>>, calls' \subseteq calls
      PROVE  Quiet
  BY <1>1 DEF Quiet, StatusDrafted, CallsDrafted, RunsDrafted
<1>2. ASSUME NEW p, NEW k, k # "create", NEW i, NEW v, Persist({Statement(p, k, i, v)}),
             UNCHANGED <<status, proof, draft, run, calls>>
      PROVE  Quiet
  <2>1. WritesTyped /\ \A s \in {Statement(p, k, i, v)} : s.kind # "create"
    BY <1>2 DEF TypeInv, TypeOK, WritesTyped, Statement
  <2>2. \A x \in DOMAIN writes' : x.kind = "create" =>
          x \in DOMAIN writes /\ writes'[x] = writes[x]
    BY <1>2, <2>1, PersistNoCreate
  <2>. QED
    BY <1>2, <2>2 DEF Quiet, StatusDrafted, CallsDrafted, RunsDrafted
<1>3. ASSUME NEW a \in App, NEW v \in Content, NEW hardOk \in BOOLEAN,
             ReingestVacancy(a, v, hardOk)
      PROVE  Quiet
  <2>1. /\ UNCHANGED <<status, proof, draft, run, calls>>
        /\ \/ UNCHANGED writes
           \/ \E r : Persist({Statement(Api, "newReq", r, "pending")})
    BY <1>3 DEF ReingestVacancy, queue
  <2>. QED
    BY <1>1, <1>2, <2>1
<1>4. ASSUME NEW a \in App, NEW r \in Req, PostApprovalRequest(a, r) PROVE Quiet
  <2>1. /\ UNCHANGED <<status, proof, draft, run, calls>>
        /\ Persist({Statement(Api, "newReq", r, "pending")})
    BY <1>4 DEF PostApprovalRequest, queue
  <2>. QED
    BY <1>2, <2>1
<1>5. ASSUME NEW g \in Gateways, NEW m \in Modes, SetMode(g, m) PROVE Quiet
  <2>1. /\ UNCHANGED <<status, proof, draft, run, calls>>
        /\ Persist({Statement(g, "mode", "global", m)})
    BY <1>5 DEF SetMode, queue
  <2>. QED
    BY <1>2, <2>1
<1>6. ASSUME NEW r \in Req, NEW resolution \in {"approved", "rejected"}, NEW late,
             ApiResolve(r, resolution, late)
      PROVE  Quiet
  BY <1>6, ResolveQuiet, ProcessSets DEF ApiResolve
<1>7. ASSUME NEW g \in Gateways, NEW r \in Req, ApproveCommand(g, r) PROVE Quiet
  BY <1>7, ResolveQuiet DEF ApproveCommand
<1>8. ASSUME NEW g \in Gateways, NEW r \in Req, RejectCommand(g, r) PROVE Quiet
  BY <1>8, ResolveQuiet DEF RejectCommand
<1>9. ASSUME NEW p \in Procs, Restart(p) PROVE Quiet
  <2>1. /\ status' = [status EXCEPT ![p] = status[Db]]
        /\ UNCHANGED <<draft, writes>> /\ calls' \subseteq calls
        /\ \/ UNCHANGED <<run, proof>>
           \/ /\ run' = [run EXCEPT ![p] = Idle]
              /\ proof' = [proof EXCEPT ![p] = proof[Db]]
    BY <1>9 DEF Restart
  <2>2. StatusDrafted' /\ status'[Db] = status[Db] /\ proof'[Db] = proof[Db]
    BY <2>1, ProcessSets DEF StatusDrafted, TypeInv, TypeOK
  <2>3. RunsDrafted'
    <3>1. \A w \in Workers : run'[w] = run[w] \/ run'[w] = Idle
      BY <2>1 DEF TypeInv, TypeOK
    <3>. QED
      BY <2>1, <3>1 DEF RunsDrafted, Idle
  <2>. QED
    BY <2>1, <2>2, <2>3 DEF Quiet, CallsDrafted
<1>10. ASSUME NEW k \in Keys, StallJob(k) \/ EvictJob(k) PROVE Quiet
  <2>1. UNCHANGED <<status, proof, draft, run, writes, calls>>
    BY <1>10 DEF StallJob, EvictJob, copies
  <2>. QED
    BY <1>1, <2>1
<1>11. ASSUME NEW r \in Req, Expire(r) PROVE Quiet
  <2>1. UNCHANGED <<status, proof, draft, run, writes, calls>>
    BY <1>11 DEF Expire, copies, queue
  <2>. QED
    BY <1>1, <2>1
<1>12. CASE UNCHANGED vars
  BY <1>1, <1>12 DEF vars, copies, queue
<1>13. CASE GatewayStep
  BY <1>3, <1>4, <1>5, <1>6, <1>7, <1>8, <1>13, ReviewQuiet, EnqueueQuiet
  DEF GatewayStep
<1>14. CASE Environment
  BY <1>9, <1>10, <1>11, <1>14 DEF Environment
<1>. QED
  BY <1>12, <1>13, <1>14, WorkerQuiet DEF Next

\* What a creation does: it gives the application its one draft and adds one
\* creation to the statements in flight.
LEMMA PrepareEffect ==
  ASSUME TypeInv, AppsDrafted, NEW a \in App, NEW v \in Content,
         NEW hardOk \in BOOLEAN, PrepareApplication(a, v, hardOk)
  PROVE  /\ draft[a] = None /\ draft' = [draft EXCEPT ![a] = v]
         /\ \E s : /\ s.kind = "create" /\ s.id = a
                   /\ \A x \in DOMAIN writes' : x.kind = "create" =>
                        \/ x = s /\ (s \notin DOMAIN writes => writes'[s] = 1)
                        \/ x # s /\ x \in DOMAIN writes /\ writes'[x] = writes[x]
         /\ \E f : status' = [status EXCEPT ![Api][a] = f]
         /\ UNCHANGED <<proof, calls, run>>
<1>. DEFINE first == CASE PolicyDecision(mode[Api], hardOk) = "deny" ->
                            "apply_blocked_by_policy"
                       [] PolicyDecision(mode[Api], hardOk) = "allow" ->
                            "application_prepared"
                       [] OTHER -> "manual_review_required"
            create == Statement(Api, "create", a, first)
<1>1. /\ draft[a] = None /\ draft' = [draft EXCEPT ![a] = v]
      /\ status' = [status EXCEPT ![Api][a] = first]
      /\ UNCHANGED <<proof, calls, run>>
      /\ \/ Persist({create})
         \/ \E r \in Req : Persist({create, Statement(Api, "newReq", r, "pending")})
  BY Zenon DEF PrepareApplication, NoApplicationYet, queue
<1>2. create.kind = "create" /\ create.id = a
  BY DEF Statement
<1>3. WritesTyped
  BY DEF TypeInv, TypeOK, WritesTyped
<1>4. \A r : Statement(Api, "newReq", r, "pending").kind = "newReq"
  BY DEF Statement
<1>. HIDE DEF create, first
<1>5. ASSUME NEW S, Persist(S), create \in S, \A s \in S \ {create} : s.kind # "create"
      PROVE  \A x \in DOMAIN writes' : x.kind = "create" =>
               \/ x = create /\ (create \notin DOMAIN writes => writes'[create] = 1)
               \/ x # create /\ x \in DOMAIN writes /\ writes'[x] = writes[x]
  <2>1. /\ DOMAIN writes' = DOMAIN writes \union S
        /\ \A s \in DOMAIN writes \ S : writes'[s] = writes[s]
        /\ \A s \in S \ DOMAIN writes : writes'[s] = 1
    BY <1>3, <1>5, PersistAdds DEF WritesTyped
  <2>. QED
    BY <1>5, <2>1
<1>6. \A x \in DOMAIN writes' : x.kind = "create" =>
        \/ x = create /\ (create \notin DOMAIN writes => writes'[create] = 1)
        \/ x # create /\ x \in DOMAIN writes /\ writes'[x] = writes[x]
  <2>1. CASE Persist({create})
    BY <1>5, <2>1
  <2>2. ASSUME NEW r \in Req, Persist({create, Statement(Api, "newReq", r, "pending")})
        PROVE  \A x \in DOMAIN writes' : x.kind = "create" =>
                 \/ x = create /\ (create \notin DOMAIN writes => writes'[create] = 1)
                 \/ x # create /\ x \in DOMAIN writes /\ writes'[x] = writes[x]
    BY <1>4, <1>5, <2>2
  <2>. QED
    BY <1>1, <2>1, <2>2
<1>. QED
  BY <1>1, <1>2, <1>6

\* An application's INSERT is in flight at most once, and only while Postgres
\* does not have the application; a submit proof is stored only with one it has.
CreateOnce ==
  /\ \A s \in DOMAIN writes : s.kind = "create" =>
       writes[s] = 1 /\ status[Db][s.id] = "absent"
  /\ \A s, t \in DOMAIN writes :
       s.kind = "create" /\ t.kind = "create" /\ s.id = t.id => s = t
  /\ \A a \in App : proof[Db][a] = "submit" => status[Db][a] # "absent"

\* No application is known initially.
LEMMA DraftInit == Init => AppsDrafted /\ CreateOnce
BY ProcessSets
DEF Init, AppsDrafted, StatusDrafted, CreatesDrafted, CallsDrafted, RunsDrafted,
    CreateOnce, EmptyBag, SetToBag, Idle, Exited

\* Quiet steps keep the facts about drafts and creations.
LEMMA QuietKeeps ==
  ASSUME AppsDrafted, CreateOnce, Quiet
  PROVE  AppsDrafted' /\ CreateOnce'
BY DEF AppsDrafted, CreatesDrafted, CreateOnce, Quiet

\* A creation keeps them: createApplication found no earlier record.
LEMMA PrepareKeeps ==
  ASSUME TypeInv, AppsDrafted, CreateOnce, NEW a \in App, NEW v \in Content,
         NEW hardOk \in BOOLEAN, PrepareApplication(a, v, hardOk)
  PROVE  AppsDrafted' /\ CreateOnce'
<1>1. PICK s : /\ s.kind = "create" /\ s.id = a
               /\ \A x \in DOMAIN writes' : x.kind = "create" =>
                    \/ x = s /\ (s \notin DOMAIN writes => writes'[s] = 1)
                    \/ x # s /\ x \in DOMAIN writes /\ writes'[x] = writes[x]
  BY PrepareEffect
<1>2. PICK f : status' = [status EXCEPT ![Api][a] = f]
  BY PrepareEffect
<1>3. /\ draft[a] = None /\ draft' = [draft EXCEPT ![a] = v]
      /\ UNCHANGED <<proof, calls, run>> /\ v # None
  BY PrepareEffect, NoneAssumption
<1>4. \A x \in DOMAIN writes : x.kind = "create" => x.id # a
  BY <1>3 DEF AppsDrafted, CreatesDrafted
<1>5. \A b \in App : draft[b] # None => draft'[b] # None
  BY <1>3 DEF TypeInv, TypeOK
<1>6. draft'[a] # None
  BY <1>3 DEF TypeInv, TypeOK
<1>7. status[Db][a] = "absent" /\ status'[Db] = status[Db]
  BY <1>2, <1>3, ProcessSets DEF AppsDrafted, StatusDrafted, TypeInv, TypeOK
<1>8. StatusDrafted'
  BY <1>2, <1>5, <1>6, ProcessSets DEF AppsDrafted, StatusDrafted, TypeInv, TypeOK
<1>9. CreatesDrafted'
  <2>1. \A x \in DOMAIN writes : x.kind = "create" => x.id \in App
    BY DEF TypeInv, TypeOK, Statements
  <2>. QED
    BY <1>1, <1>5, <1>6, <2>1 DEF AppsDrafted, CreatesDrafted
<1>10. CallsDrafted' /\ RunsDrafted'
  <2>1. \A c \in calls : ReqApp[c.req] \in App
    BY RequestAssumption DEF TypeInv, TypeOK
  <2>2. \A w \in Workers : run[w].phase \in {"health", "submit"} => run[w].app \in App
    BY DEF TypeInv, BusyShape
  <2>. QED
    BY <1>3, <1>5, <2>1, <2>2 DEF AppsDrafted, CallsDrafted, RunsDrafted
<1>11. s \notin DOMAIN writes
  BY <1>1, <1>4
<1>12. CreateOnce'
  BY <1>1, <1>3, <1>4, <1>7, <1>11 DEF CreateOnce
<1>. QED
  BY <1>8, <1>9, <1>10, <1>12 DEF AppsDrafted

\* A statement settles: Postgres gains an application only from its one
\* INSERT, and loses no submit proof.
LEMMA SettleKeeps ==
  ASSUME TypeInv, AppsDrafted, CreateOnce, Settle
  PROVE  /\ AppsDrafted' /\ CreateOnce'
         /\ \A a \in App : proof[Db][a] = "submit" => proof'[Db][a] = "submit"
<1>1. PICK s \in BagToSet(writes) : Lose(s) \/ \E artifact \in BOOLEAN : Land(s, artifact)
  BY DEF Settle
<1>2. /\ s \in DOMAIN writes /\ s \in Statements /\ IsABag(writes)
      /\ BagIn(s, writes) /\ writes' = writes (-) SetToBag({s})
  BY <1>1 DEF BagToSet, Lose, Land, TypeInv, TypeOK
<1>3. /\ DOMAIN writes' \subseteq DOMAIN writes
      /\ \A t \in DOMAIN writes' : t # s => writes'[t] = writes[t]
      /\ writes[s] = 1 => s \notin DOMAIN writes'
  BY <1>2, SettleRemoves
<1>4. UNCHANGED <<draft, calls, run>>
  BY <1>1 DEF Lose, Land, copies, queue
<1>5. CreatesDrafted' /\ CallsDrafted' /\ RunsDrafted'
  BY <1>3, <1>4 DEF AppsDrafted, CreatesDrafted, CallsDrafted, RunsDrafted
<1>6. s.kind = "create" => /\ s \notin DOMAIN writes' /\ s.id \in App
                           /\ status[Db][s.id] = "absent" /\ draft[s.id] # None
  BY <1>2, <1>3 DEF CreateOnce, AppsDrafted, CreatesDrafted, Statements
<1>7. \A t \in DOMAIN writes' : t.kind = "create" =>
        /\ t \in DOMAIN writes /\ writes'[t] = 1 /\ status[Db][t.id] = "absent"
        /\ s.kind = "create" => t.id # s.id
  BY <1>2, <1>3, <1>6 DEF CreateOnce
<1>8. CASE UNCHANGED <<status, proof>>
  BY <1>3, <1>4, <1>5, <1>7, <1>8 DEF AppsDrafted, StatusDrafted, CreateOnce
<1>9. CASE /\ s.kind = "create" /\ status' = [status EXCEPT ![Db][s.id] = s.val]
           /\ \E v : proof' = [proof EXCEPT ![Db][s.id] = v]
  <2>1. s.val # "absent"
    BY <1>2, <1>9 DEF Statements, ApplicationStatus
  <2>2. StatusDrafted'
    BY <1>4, <1>6, <1>9 DEF AppsDrafted, StatusDrafted, TypeInv, TypeOK
  <2>3. \A a \in App : a # s.id =>
          status'[Db][a] = status[Db][a] /\ proof'[Db][a] = proof[Db][a]
    BY <1>9, ProcessSets DEF TypeInv, TypeOK
  <2>4. status'[Db][s.id] # "absent"
    BY <1>6, <1>9, <2>1, ProcessSets DEF TypeInv, TypeOK
  <2>5. \A a \in App : proof[Db][a] = "submit" => proof'[Db][a] = "submit"
    BY <1>6, <1>9, <2>3 DEF CreateOnce
  <2>6. \A t \in DOMAIN writes' : t.kind = "create" => t.id \in App
    BY <1>3 DEF TypeInv, TypeOK, Statements
  <2>7. CreateOnce'
    BY <1>3, <1>7, <1>9, <2>3, <2>4, <2>6 DEF CreateOnce
  <2>. QED
    BY <1>5, <2>2, <2>5, <2>7 DEF AppsDrafted
<1>10. CASE /\ s.kind # "create" /\ s.id \in App /\ status[Db][s.id] # "absent"
            /\ \/ /\ UNCHANGED proof /\ s.val \in ApplicationStatus
                  /\ status' = [status EXCEPT ![Db][s.id] = s.val]
               \/ /\ UNCHANGED status
                  /\ proof' = [proof EXCEPT ![Db][s.id] = "submit"]
  <2>1. "absent" \notin ApplicationStatus
    BY DEF ApplicationStatus
  <2>2. StatusDrafted'
    BY <1>4, <1>10, ProcessSets DEF AppsDrafted, StatusDrafted, TypeInv, TypeOK
  <2>3. \A a \in App : a # s.id =>
          status'[Db][a] = status[Db][a] /\ proof'[Db][a] = proof[Db][a]
    BY <1>10, ProcessSets DEF TypeInv, TypeOK
  <2>4. /\ status'[Db][s.id] # "absent"
        /\ proof[Db][s.id] = "submit" => proof'[Db][s.id] = "submit"
    BY <1>10, <2>1, ProcessSets DEF TypeInv, TypeOK
  <2>5. \A t \in DOMAIN writes' : t.kind = "create" => t.id \in App /\ t.id # s.id
    BY <1>3, <1>7, <1>10 DEF TypeInv, TypeOK, Statements
  <2>6. CreateOnce'
    BY <1>3, <1>7, <2>3, <2>4, <2>5 DEF CreateOnce
  <2>. QED
    BY <1>5, <2>2, <2>3, <2>4, <2>6 DEF AppsDrafted
<1>11. \/ UNCHANGED <<status, proof>>
       \/ /\ s.kind = "create" /\ status' = [status EXCEPT ![Db][s.id] = s.val]
          /\ \E v : proof' = [proof EXCEPT ![Db][s.id] = v]
       \/ /\ s.kind # "create" /\ s.id \in App /\ status[Db][s.id] # "absent"
          /\ \/ /\ UNCHANGED proof /\ s.val \in ApplicationStatus
                /\ status' = [status EXCEPT ![Db][s.id] = s.val]
             \/ /\ UNCHANGED status
                /\ proof' = [proof EXCEPT ![Db][s.id] = "submit"]
  <2>1. s.kind = "status" => s.id \in App /\ s.val \in ApplicationStatus
    BY <1>2 DEF Statements
  <2>2. s.kind = "proof" => s.id \in App
    BY <1>2 DEF Statements
  <2>. QED
    BY <1>1, <2>1, <2>2 DEF Lose, Land, copies
<1>. QED
  BY <1>8, <1>9, <1>10, <1>11

\* The facts about drafts and creations are inductive, and no step takes
\* a stored submit proof away.
LEMMA DraftStep ==
  ASSUME TypeInv, AppsDrafted, CreateOnce, [Next]_vars
  PROVE  /\ AppsDrafted' /\ CreateOnce'
         /\ \A a \in App : proof[Db][a] = "submit" => proof'[Db][a] = "submit"
<1>1. CASE Quiet
  BY <1>1, QuietKeeps DEF Quiet
<1>2. ASSUME NEW a \in App, NEW v \in Content, NEW hardOk \in BOOLEAN,
             PrepareApplication(a, v, hardOk)
      PROVE  AppsDrafted' /\ CreateOnce' /\ UNCHANGED proof
  BY <1>2, PrepareKeeps, PrepareEffect
<1>. QED
  BY <1>1, <1>2, OtherStepsQuiet, SettleKeeps

\* Once Postgres holds the proof pack of a submit call it keeps it, in
\* whatever order the statements of however many processes land.
THEOREM StoredProofKept == Spec => DurableProofKept
<1>. DEFINE kept == \A a \in App : proof[Db][a] = "submit" => proof'[Db][a] = "submit"
<1>1. TypeInv /\ AppsDrafted /\ CreateOnce /\ [Next]_vars =>
        AppsDrafted' /\ CreateOnce' /\ [kept]_vars
  BY DraftStep
<1>. QED
  BY <1>1, TypeInit, TypeStep, DraftInit, PTL DEF Spec, DurableProofKept

-----------------------------------------------------------------------------
(* Every submit call is backed by an approval and sends the approved text. *)

\* A busy worker acts on an approved request about its application, and a
\* worker that submits holds the text the draft was made from.
RunsBacked ==
  \A w \in Workers :
    /\ run[w].phase \in {"health", "submit"} =>
         run[w].req \in userApproved /\ ReqApp[run[w].req] = run[w].app
    /\ run[w].phase = "submit" => content[w][run[w].app] = draft[run[w].app]

\* A draft is written once.
LEMMA DraftsKept ==
  ASSUME TypeInv, AppsDrafted, [Next]_vars
  PROVE  \A a \in App : draft[a] # None => draft'[a] = draft[a]
<1>1. ASSUME NEW a \in App, NEW v \in Content, NEW hardOk \in BOOLEAN,
             PrepareApplication(a, v, hardOk)
      PROVE  \A b \in App : draft[b] # None => draft'[b] = draft[b]
  BY <1>1, PrepareEffect DEF TypeInv, TypeOK
<1>2. Settle => UNCHANGED draft
  BY DEF Settle, Land, Lose, copies
<1>. QED
  BY <1>1, <1>2, OtherStepsQuiet DEF Quiet

\* A worker reads vacancy texts only when it starts.
LEMMA ContentKept ==
  ASSUME TypeInv, [Next]_vars
  PROVE  \A w \in Workers : content'[w] = content[w] \/ run'[w] = Idle
<1>1. CASE UNCHANGED content
  BY <1>1
<1>2. ASSUME NEW a, NEW v, content' = [content EXCEPT ![Db][a] = v]
      PROVE  \A w \in Workers : content'[w] = content[w]
  BY <1>2, ProcessSets DEF TypeInv, TypeOK
<1>3. ASSUME NEW p \in Procs, Restart(p)
      PROVE  \A w \in Workers : content'[w] = content[w] \/ run'[w] = Idle
  <2>1. \/ UNCHANGED content
        \/ /\ content' = [content EXCEPT ![p] = content[Db]]
           /\ run' = [run EXCEPT ![p] = Idle]
    BY <1>3 DEF Restart
  <2>. QED
    BY <2>1 DEF TypeInv, TypeOK
<1>4. CASE GatewayStep
  <2>1. ASSUME NEW a, NEW v, NEW hardOk, PrepareApplication(a, v, hardOk)
        PROVE  content' = [content EXCEPT ![Db][a] = v]
    BY <2>1 DEF PrepareApplication
  <2>. QED
    BY <1>1, <1>2, <1>4, <2>1
    DEF GatewayStep, ReingestVacancy, PostApprovalRequest, ApiResolve, ApproveCommand,
        RejectCommand, ApproveApplicationManualReview, EnqueueReturns, SetMode
<1>5. ASSUME NEW w \in Workers, WorkerStep(w) PROVE UNCHANGED content
  <2>1. ASSUME NEW k \in Keys, StartJob(w, k) PROVE UNCHANGED content
    BY <2>1, Zenon DEF StartJob
  <2>. QED
    BY <1>5, <2>1 DEF WorkerStep, RunCli, HealthcheckReturns, SubmitReturns
<1>6. CASE Environment
  BY <1>1, <1>3, <1>6
  DEF Environment, Settle, Land, Lose, StallJob, EvictJob, Expire, copies
<1>7. CASE UNCHANGED vars
  BY <1>1, <1>7 DEF vars, copies
<1>. QED
  BY <1>1, <1>4, <1>5, <1>6, <1>7 DEF Next

\* What a worker's run can become in a step: it rests, or it has passed
\* validateApprovedSubmitPayload, or it has passed the draft comparison.
LEMMA RunSteps ==
  ASSUME TypeInv, [Next]_vars, NEW w \in Workers
  PROVE  \/ run'[w] = run[w]
         \/ run'[w].phase \notin {"health", "submit"}
         \/ /\ run'[w].phase = "health"
            /\ ValidPayload(w, run'[w].app, run'[w].req) /\ run'[w].req \in Req
         \/ /\ run[w].phase = "health"
            /\ run'[w].phase = "submit"
            /\ run'[w].app = run[w].app /\ run'[w].req = run[w].req
            /\ DraftUnchanged(w, run[w].app) /\ UNCHANGED content
<1>1. ASSUME NEW u \in Workers, NEW k \in Keys, StartJob(u, k)
      PROVE  \/ run'[w] = run[w]
             \/ /\ run'[w].phase = "health"
                /\ ValidPayload(w, run'[w].app, run'[w].req) /\ run'[w].req \in Req
  <2>. DEFINE e == Entry(u, k.app, jobs[k].req)
  <2>1. /\ jobs[k].state = "waiting"
        /\ run' = IF e = "accepted"
                  THEN [run EXCEPT ![u] = [phase |-> "health", app |-> k.app,
                                           req |-> jobs[k].req, job |-> k]]
                  ELSE run
    BY <1>1, Zenon DEF StartJob
  <2>2. e = "accepted" => ValidPayload(u, k.app, jobs[k].req)
    BY EntryOutcome
  <2>3. jobs[k].req \in Req
    BY <2>1 DEF TypeInv, BusyShape
  <2>. HIDE DEF e
  <2>. QED
    BY <2>1, <2>2, <2>3 DEF TypeInv, TypeOK
<1>2. ASSUME NEW u \in Workers, NEW a \in App, NEW r \in Req,
             NEW shared \in BOOLEAN, RunCli(u, a, r, shared)
      PROVE  \/ run'[w] = run[w]
             \/ run'[w].phase \notin {"health", "submit"}
             \/ /\ run'[w].phase = "health"
                /\ ValidPayload(w, run'[w].app, run'[w].req) /\ run'[w].req \in Req
  <2>. DEFINE e == Entry(u, a, r)
  <2>1. run' = [run EXCEPT ![u] =
             IF e = "accepted"
             THEN [phase |-> "health", app |-> a, req |-> r, job |-> None]
             ELSE Exited]
    BY <1>2 DEF RunCli
  <2>2. e = "accepted" => ValidPayload(u, a, r)
    BY EntryOutcome
  <2>. HIDE DEF e
  <2>. QED
    BY <2>1, <2>2 DEF Exited, TypeInv, TypeOK
<1>3. ASSUME NEW u \in Workers, NEW hardOk \in BOOLEAN, NEW canary \in BOOLEAN,
             HealthcheckReturns(u, hardOk, canary)
      PROVE  \/ run'[w] = run[w]
             \/ run'[w].phase \notin {"health", "submit"}
             \/ /\ run[w].phase = "health" /\ run'[w].phase = "submit"
                /\ run'[w].app = run[w].app /\ run'[w].req = run[w].req
                /\ DraftUnchanged(w, run[w].app) /\ UNCHANGED content
  <2>1. /\ run[u].phase = "health" /\ UNCHANGED content
        /\ \/ run' = [run EXCEPT ![u] = Rest(u)]
           \/ /\ DraftUnchanged(u, run[u].app)
              /\ run' = [run EXCEPT ![u] = [phase |-> "submit", app |-> run[u].app,
                                           req |-> run[u].req, job |-> run[u].job]]
    BY <1>3 DEF HealthcheckReturns
  <2>. QED
    BY <2>1 DEF Rest, Idle, Exited, TypeInv, TypeOK
<1>4. ASSUME NEW u \in Workers, NEW outcome \in Outcomes, SubmitReturns(u, outcome)
      PROVE  run'[w] = run[w] \/ run'[w].phase \notin {"health", "submit"}
  <2>1. run' = [run EXCEPT ![u] = Rest(u)]
    BY <1>4, Zenon DEF SubmitReturns
  <2>. QED
    BY <2>1 DEF Rest, Idle, Exited, TypeInv, TypeOK
<1>5. ASSUME NEW p \in Procs, Restart(p)
      PROVE  run'[w] = run[w] \/ run'[w].phase \notin {"health", "submit"}
  <2>1. UNCHANGED run \/ run' = [run EXCEPT ![p] = Idle]
    BY <1>5 DEF Restart
  <2>. QED
    BY <2>1 DEF Idle, TypeInv, TypeOK
<1>6. CASE UNCHANGED vars
  BY <1>6 DEF vars
<1>. QED
  BY <1>1, <1>2, <1>3, <1>4, <1>5, <1>6, GatewayFrame, EnvironmentFrame
  DEF Next, WorkerStep

\* RunsBacked is inductive, given the facts about approvals and drafts.
LEMMA RunsStep ==
  ASSUME TypeInv, CopiesApproved, AppsDrafted, RunsBacked, [Next]_vars
  PROVE  RunsBacked'
<1>1. userApproved \subseteq userApproved'
  BY ApprovalsKept
<1>. SUFFICES ASSUME NEW w \in Workers
              PROVE  /\ run'[w].phase \in {"health", "submit"} =>
                          /\ run'[w].req \in userApproved'
                          /\ ReqApp[run'[w].req] = run'[w].app
                     /\ run'[w].phase = "submit" =>
                          content'[w][run'[w].app] = draft'[run'[w].app]
  BY DEF RunsBacked
<1>2. run[w].phase \in {"health", "submit"} =>
        run[w].app \in App /\ draft'[run[w].app] = draft[run[w].app]
  BY DraftsKept DEF TypeInv, BusyShape, AppsDrafted, RunsDrafted
<1>3. CASE run'[w] = run[w]
  <2>1. run[w].phase = "submit" => content'[w] = content[w]
    BY <1>3, ContentKept DEF Idle
  <2>. QED
    BY <1>1, <1>2, <1>3, <2>1 DEF RunsBacked
<1>4. CASE run'[w].phase \notin {"health", "submit"}
  BY <1>4
<1>5. CASE /\ run'[w].phase = "health"
           /\ ValidPayload(w, run'[w].app, run'[w].req) /\ run'[w].req \in Req
  BY <1>1, <1>5, ProcessSets DEF ValidPayload, CopiesApproved
<1>6. CASE /\ run[w].phase = "health"
           /\ run'[w].phase = "submit"
           /\ run'[w].app = run[w].app /\ run'[w].req = run[w].req
           /\ DraftUnchanged(w, run[w].app) /\ UNCHANGED content
  BY <1>1, <1>2, <1>6 DEF DraftUnchanged, RunsBacked
<1>. QED
  BY <1>3, <1>4, <1>5, <1>6, RunSteps

\* The strengthening that makes SubmitBackedByApproval inductive.
Backed ==
  /\ CopiesApproved /\ WritesApproved /\ CallsApproved
  /\ AppsDrafted /\ CreateOnce /\ RunsBacked

\* The strengthening holds initially.
LEMMA BackedInit == Init => Backed /\ QueuedJobsApproved
<1>1. Init => /\ CopiesApproved /\ WritesApproved /\ CallsApproved
              /\ QueuedJobsApproved
  BY DEF Init, CopiesApproved, WritesApproved, CallsApproved, QueuedJobsApproved,
         EmptyBag, SetToBag, NoJob, JobRecord
<1>2. Init => RunsBacked
  BY DEF Init, RunsBacked, Idle, Exited
<1>. QED
  BY <1>1, <1>2, DraftInit DEF Backed

\* The strengthening is inductive.
LEMMA BackedStep == TypeInv /\ Backed /\ [Next]_vars => Backed'
BY ApprovedStep, CallsStep, DraftStep, RunsStep DEF Backed

\* Every call of provider.submitApplication acts on a request about that
\* application that an approval handler accepted, and sends the text the
\* approved draft was made from, for any number of gateways, workers,
\* applications and requests and whatever is lost, reordered, redelivered
\* or restarted.
THEOREM SubmitsAreApproved == Spec => []SubmitBackedByApproval
<1>1. Backed => SubmitBackedByApproval
  BY DEF Backed, RunsBacked, SubmitBackedByApproval
<1>. QED
  BY <1>1, TypeInit, TypeStep, BackedInit, BackedStep, PTL DEF Spec

\* A job queued by a gateway carries an approved request about the
\* application of its job id.
THEOREM QueueHoldsApprovals == Spec => []QueuedJobsApproved
<1>1. TypeInv /\ Backed /\ QueuedJobsApproved /\ [Next]_vars => QueuedJobsApproved'
  BY JobsStep DEF Backed
<1>. QED
  BY <1>1, TypeInit, TypeStep, BackedInit, BackedStep, PTL DEF Spec

-----------------------------------------------------------------------------
(* The path implements the ledger.                                         *)

\* What a process has sent, as the ledger sees it.
Sent == [w \in Workers |-> {a \in App : sends[w][a] > 0}]

\* A gateway step accepts at most one approval.
LEMMA ApproveStep ==
  ASSUME GatewayStep
  PROVE  \/ UNCHANGED userApproved
         \/ \E r \in Req : userApproved' = userApproved \union {r}
<1>1. ASSUME NEW g, NEW r \in Req, NEW resolution, NEW late,
             Resolve(g, r, resolution, late)
      PROVE  \/ UNCHANGED userApproved
             \/ \E q \in Req : userApproved' = userApproved \union {q}
  <2>1. UNCHANGED userApproved \/ userApproved' = userApproved \union {r}
    BY <1>1, Zenon DEF Resolve
  <2>. QED
    BY <2>1
<1>2. ASSUME NEW g, NEW a, NEW r \in Req, ApproveApplicationManualReview(g, a, r)
      PROVE  \/ UNCHANGED userApproved
             \/ \E q \in Req : userApproved' = userApproved \union {q}
  BY <1>2 DEF ApproveApplicationManualReview
<1>3. ASSUME NEW a, NEW v, NEW hardOk, PrepareApplication(a, v, hardOk)
      PROVE  UNCHANGED userApproved
  BY <1>3 DEF PrepareApplication, history
<1>. QED
  BY <1>1, <1>2, <1>3
  DEF GatewayStep, ReingestVacancy, PostApprovalRequest, ApiResolve,
      ApproveCommand, RejectCommand, EnqueueReturns, SetMode, history

\* A submit call is a Submit of the ledger: its request is approved and the
\* process has not sent the application since it started.
LEMMA HealthSimulates ==
  ASSUME TypeInv, Once, Backed, NEW w \in Workers, NEW hardOk \in BOOLEAN,
         NEW canary \in BOOLEAN, HealthcheckReturns(w, hardOk, canary)
  PROVE  \/ UNCHANGED <<userApproved, Sent>>
         \/ \E r \in Req : /\ r \in userApproved /\ ReqApp[r] \notin Sent[w]
                           /\ Sent' = [Sent EXCEPT ![w] = @ \union {ReqApp[r]}]
                           /\ UNCHANGED userApproved
<1>. DEFINE a == run[w].app
            r == run[w].req
<1>1. /\ a \in App /\ r \in Req /\ run[w].phase = "health" /\ UNCHANGED userApproved
      /\ r \in userApproved /\ ReqApp[r] = a
  BY DEF HealthcheckReturns, TypeInv, TypeOK, BusyShape, Backed, RunsBacked
<1>2. CASE UNCHANGED sends
  BY <1>1, <1>2 DEF Sent
<1>3. CASE proof[w][a] = "dry_run" /\ sends' = [sends EXCEPT ![w][a] = @ + 1]
  <2>1. sends[w][a] \in Nat /\ sends[w][a] <= 1 /\ sends[w][a] # 1
    BY <1>1, <1>3 DEF Once, TypeInv, TypeOK
  <2>2. sends[w][a] = 0 /\ sends'[w][a] = 1
    <3>1. sends[w][a] = 0
      BY <2>1
    <3>2. sends'[w][a] = sends[w][a] + 1
      BY <1>1, <1>3 DEF TypeInv, TypeOK
    <3>. QED
      BY <3>1, <3>2
  <2>3. \A v \in Workers, b \in App : v # w \/ b # a => sends'[v][b] = sends[v][b]
    BY <1>1, <1>3 DEF TypeInv, TypeOK
  <2>4. a \notin Sent[w]
    BY <2>2 DEF Sent
  <2>5. \A v \in Workers : Sent'[v] = IF v = w THEN Sent[w] \union {a} ELSE Sent[v]
    BY <1>1, <2>2, <2>3 DEF Sent
  <2>6. Sent' = [Sent EXCEPT ![w] = @ \union {a}]
    BY <2>5 DEF Sent
  <2>. QED
    BY <1>1, <2>4, <2>6
<1>. QED
  BY <1>2, <1>3, AllowedNeedsDryRun DEF HealthcheckReturns

\* A process start is a Start of the ledger, or invisible to it.
LEMMA RestartSimulates ==
  ASSUME TypeInv, NEW p \in Procs, Restart(p)
  PROVE  \/ UNCHANGED <<userApproved, Sent>>
         \/ /\ p \in Workers /\ Sent' = [Sent EXCEPT ![p] = {}]
            /\ UNCHANGED userApproved
<1>1. /\ UNCHANGED userApproved
      /\ \/ UNCHANGED sends
         \/ p \in Workers /\ sends' = [sends EXCEPT ![p] = [a \in App |-> 0]]
  BY DEF Restart
<1>2. CASE UNCHANGED sends
  BY <1>1, <1>2 DEF Sent
<1>3. CASE p \in Workers /\ sends' = [sends EXCEPT ![p] = [a \in App |-> 0]]
  <2>1. \A a \in App : sends'[p][a] = 0
    BY <1>3 DEF TypeInv, TypeOK
  <2>2. \A v \in Workers \ {p} : sends'[v] = sends[v]
    BY <1>3 DEF TypeInv, TypeOK
  <2>3. \A v \in Workers : Sent'[v] = IF v = p THEN {} ELSE Sent[v]
    BY <2>1, <2>2 DEF Sent
  <2>4. Sent' = [Sent EXCEPT ![p] = {}]
    BY <2>3 DEF Sent
  <2>. QED
    BY <1>1, <1>3, <2>4
<1>. QED
  BY <1>1, <1>2, <1>3

\* Initial states map to the initial state of the ledger.
LEMMA LedgerInit == Init => Ledger!Init
BY DEF Init, Ledger!Init

\* Every step maps to a step of the ledger or to nothing.
LEMMA LedgerStep ==
  ASSUME TypeInv, Once, Backed, [Next]_vars
  PROVE  [Ledger!Next]_<<userApproved, Sent>>
<1>1. CASE GatewayStep
  <2>1. UNCHANGED Sent
    BY <1>1, GatewayFrame DEF Sent
  <2>. QED
    BY <1>1, <2>1, ApproveStep DEF Ledger!Next, Ledger!Approve, Sent
<1>2. ASSUME NEW w \in Workers, NEW hardOk \in BOOLEAN, NEW canary \in BOOLEAN,
             HealthcheckReturns(w, hardOk, canary)
      PROVE  [Ledger!Next]_<<userApproved, Sent>>
  BY <1>2, HealthSimulates DEF Ledger!Next, Ledger!Submit, Sent
<1>3. ASSUME NEW p \in Procs, Restart(p)
      PROVE  [Ledger!Next]_<<userApproved, Sent>>
  BY <1>3, RestartSimulates DEF Ledger!Next, Ledger!Start, Sent
<1>4. CASE UNCHANGED <<userApproved, sends>>
  BY <1>4 DEF Sent
<1>5. ASSUME NEW w \in Workers, WorkerStep(w)
      PROVE  [Ledger!Next]_<<userApproved, Sent>>
  <2>1. ASSUME NEW k \in Keys, StartJob(w, k) PROVE UNCHANGED <<userApproved, sends>>
    BY <2>1, Zenon DEF StartJob, history
  <2>. QED
    BY <1>2, <1>4, <1>5, <2>1 DEF WorkerStep, RunCli, SubmitReturns, history
<1>6. CASE Environment
  BY <1>3, <1>4, <1>6, EnvironmentFrame
<1>7. CASE UNCHANGED vars
  BY <1>4, <1>7 DEF vars, history
<1>. QED
  BY <1>1, <1>5, <1>6, <1>7 DEF Next

\* The approved-submit path implements SubmitLedger: every step is an
\* approval, a covered submit, a process start, or invisible to the ledger.
THEOREM PathImplementsLedger == Spec => ImplementsLedger
<1>1. TypeInv /\ Once /\ Backed /\ [Next]_vars => [Ledger!Next]_<<userApproved, Sent>>
  BY LedgerStep
<1>. QED
  BY <1>1, TypeInit, TypeStep, OnceInit, OnceStep, BackedInit, BackedStep, LedgerInit, PTL
  DEF Spec, ImplementsLedger, Ledger!Spec, Sent
=============================================================================
