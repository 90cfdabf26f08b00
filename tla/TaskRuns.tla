------------------------------ MODULE TaskRuns ------------------------------
(***************************************************************************)
(* Task runs and dead letters: the records that PostgresTaskRunStore keeps *)
(* of the work handed to BullMQ, and the API operations on them.           *)
(*                                                                         *)
(* The API server serves several requests at once in one process; each     *)
(* request is a handler, cut at its awaits.  The handlers share the        *)
(* store's memory, its list of statements in flight and its list of        *)
(* persistence errors.  Consumers have stores of their own.                *)
(*                                                                         *)
(* Not represented: time stamps, error texts, assignees, audit events, and *)
(* the attempts a run counts (BullMQ's own count decides).  A heartbeat    *)
(* stores the row markRunning has just stored and is left out.             *)
(***************************************************************************)
EXTENDS Naturals, FiniteSets, Bags

CONSTANTS
  Api,          \* the API server process
  Handler,      \* requests it serves at the same time
  Consumers,    \* BullMQ consumer processes, one job at a time
  Db,           \* the Postgres database
  Task,         \* tasks, by queue and idempotency key
  MaxAttempts,  \* attempts of a BullMQ job
  MaxStalls,    \* BullMQ's maxStalledCount
  MaxPending,   \* bound: statements in flight
  MaxOps,       \* bound: requests served
  MaxRestarts,  \* bound: process starts after the first
  None

Procs  == {Api} \union Consumers
Copies == Procs \union {Db}

ASSUME ProcessAssumption ==
  /\ Api \notin Consumers /\ Db \notin Procs
  /\ None \notin Handler /\ None \notin Consumers
ASSUME BoundAssumption ==
  /\ MaxAttempts \in Nat \ {0} /\ MaxStalls \in Nat
  /\ MaxPending \in Nat /\ MaxOps \in Nat /\ MaxRestarts \in Nat

\* A dead letter of a task is retried under a task id of its own, in
\* retry_queue, which no worker of the repository consumes.
TaskId == [of : Task, retry : BOOLEAN]
SourceId(t) == [of |-> t, retry |-> FALSE]
RetryId(t)  == [of |-> t, retry |-> TRUE]

-----------------------------------------------------------------------------
VARIABLES
  run,       \* run[c][i]: status of the task run in copy c
  dlq,       \* dlq[c][t]: status of the dead letter of task t in copy c
  writes,    \* statements sent to Postgres and not settled (a bag)
  errors,    \* errors[p]: persistenceErrors of process p is not empty
  handler,   \* handler[h]: where request handler h is
  jobs,      \* BullMQ jobs
  exec,      \* exec[w]: the job consumer w executes
  ops, restarts,   \* bounded counters
  execs,           \* history: executions of a job since it was added
  retried,         \* history: dead letters closed by the retry route
  succeeded,       \* history: tasks whose handler returned
  gaveUp           \* history: tasks that met a no-retry error

records == <<run, dlq>>
store   == <<writes, errors>>
bounds  == <<ops, restarts>>
history == <<execs, retried, succeeded, gaveUp>>
vars == <<records, store, handler, jobs, exec, bounds, history>>

RunStatus == { "queued", "running", "succeeded", "failed", "dead_lettered" }
LetterStatus == { "open", "assigned", "resolved", "discarded" }
Closed == { "resolved", "discarded" }

\* A statement sent by p; wait is the handler whose flush awaits it.
Statement(p, k, i, v) ==
  [by |-> p, wait |-> None, kind |-> k, id |-> i, val |-> v]

Statements ==
  [by : Procs, wait : Handler \union {None}, kind : {"run"}, id : TaskId,
   val : RunStatus]
  \union
  [by : Procs, wait : Handler \union {None}, kind : {"dlq"}, id : Task,
   val : LetterStatus]

Phases == { "idle",      \* no request
            "created",   \* enqueue: the queued run is being flushed
            "adding",    \* enqueue: queue.add was called
            "added",     \* enqueue: Redis took the job, the answer is awaited
            "failing",   \* enqueue: the failed run is being flushed
            "saving",    \* flushRuntimePersistence, before the store's flush
            "flushing" } \* flushRuntimePersistence: the store's flush

Request == [phase : Phases, id : TaskId \union {None}]
NoRequest == [phase |-> "idle", id |-> None]

Job == [state : {"none", "waiting", "active", "completed", "failed"},
        owner : Consumers \union {None},
        tries : 0 .. MaxAttempts, stalls : 0 .. MaxStalls + 1]
JobRecord(s, o, t, n) == [state |-> s, owner |-> o, tries |-> t, stalls |-> n]
NoJob == JobRecord("none", None, 0, 0)

TypeOK ==
  /\ run \in [Copies -> [TaskId -> RunStatus \union {"absent"}]]
  /\ dlq \in [Copies -> [Task -> LetterStatus \union {"none"}]]
  /\ IsABag(writes) /\ DOMAIN writes \subseteq Statements
  /\ errors \in [Procs -> BOOLEAN]
  /\ handler \in [Handler -> Request]
  /\ jobs \in [TaskId -> Job]
  /\ exec \in [Consumers -> TaskId \union {None}]
  /\ ops \in 0 .. MaxOps /\ restarts \in 0 .. MaxRestarts
  /\ execs \in [TaskId -> Nat]
  /\ retried \subseteq Task
  /\ succeeded \subseteq TaskId /\ gaveUp \subseteq TaskId

Init ==
  /\ run = [c \in Copies |-> [i \in TaskId |-> "absent"]]
  /\ dlq = [c \in Copies |-> [t \in Task |-> "none"]]
  /\ writes = EmptyBag
  /\ errors = [p \in Procs |-> FALSE]
  /\ handler = [h \in Handler |-> NoRequest]
  /\ jobs = [i \in TaskId |-> NoJob]
  /\ exec = [w \in Consumers |-> None]
  /\ ops = 0 /\ restarts = 0
  /\ execs = [i \in TaskId |-> 0]
  /\ retried = {} /\ succeeded = {} /\ gaveUp = {}

-----------------------------------------------------------------------------
(* The store.                                                              *)

\* One more request, within the bound.
NewRequest(h) == handler[h] = NoRequest /\ ops < MaxOps /\ ops' = ops + 1

\* There is room for n more statements, within the bound.
Room(n) == BagCardinality(writes) + n <= MaxPending

\* flushPersistence of handler h takes over every statement of the API's
\* store that no flush awaits yet: pendingWrites.splice(0).
Splice(h, B) ==
  LET free == {s \in DOMAIN B : s.by = Api /\ s.wait = None}
      taken == {[s EXCEPT !.wait = h] : s \in free}
  IN [s \in (DOMAIN B \ free) \union taken |->
        IF s \in taken THEN B[[s EXCEPT !.wait = None]] ELSE B[s]]

\* createQueued: the run that is there already, or a new one.
CreateQueued(c, i) == IF run[c][i] = "absent" THEN "queued" ELSE run[c][i]

\* finishDeadLetter and assignDeadLetter leave a closed record alone.  (The
\* first form overwrites it.)
OverwriteLetter(old, new) == IF old = "none" THEN old ELSE new
EditedLetter(old, new) == IF old \in {"open", "assigned"} THEN new ELSE old

\* queue.add: a job id that is already known is left as it is.
AddJob(i) == IF jobs[i].state # "none" THEN jobs
             ELSE [jobs EXCEPT ![i] = JobRecord("waiting", None, 0, 0)]

-----------------------------------------------------------------------------
(* Request handlers of the API server.                                     *)

\* BullMqQueueAdapter.enqueue up to its first await: the run is created and
\* its statement, with all others in flight, is awaited.
StartEnqueue(h, i) ==
  LET s == CreateQueued(Api, i)
  IN /\ NewRequest(h)
     /\ Room(1)
     /\ run' = [run EXCEPT ![Api][i] = s]
     /\ writes' = Splice(h, writes (+) SetToBag({Statement(Api, "run", i, s)}))
     /\ handler' = [handler EXCEPT ![h] = [phase |-> "created", id |-> i]]
     /\ UNCHANGED <<dlq, errors, jobs, exec, restarts, history>>

\* A route enqueues a task.
EnqueueTask(h, t) == StartEnqueue(h, SourceId(t))

\* POST /dlq/:id/retry, refused when the record is closed.
RetryDeadLetter(h, t) ==
  /\ dlq[Api][t] \in {"open", "assigned"}
  /\ StartEnqueue(h, RetryId(t))

\* The statements a flush awaits have settled.
Settled(h) == \A s \in DOMAIN writes : s.wait # h

\* flushPersistence finds an error on the list.  (The first form never
\* looks.)
FlushNeverFails == FALSE
FlushFailed == errors[Api]

\* flushPersistence returns to h.  An error on the list, of whatever
\* statement, is thrown and the whole list is dropped.
FlushReturns(h) ==
  /\ handler[h].phase \in {"created", "failing", "flushing"}
  /\ Settled(h)
  /\ errors' = [errors EXCEPT ![Api] = FALSE]
  /\ \/ /\ handler[h].phase = "created" /\ ~FlushFailed
        /\ handler' = [handler EXCEPT ![h].phase = "adding"]
     \/ /\ handler[h].phase # "created" \/ FlushFailed
        /\ handler' = [handler EXCEPT ![h] = NoRequest]
  /\ UNCHANGED <<records, writes, jobs, exec, bounds, history>>

\* Redis takes the job.
RedisAdds(h) ==
  LET i == handler[h].id
  IN /\ handler[h].phase = "adding"
     /\ jobs' = AddJob(i)
     /\ execs' = IF jobs[i].state = "none" THEN [execs EXCEPT ![i] = 0] ELSE execs
     /\ handler' = [handler EXCEPT ![h].phase = "added"]
     /\ UNCHANGED <<records, store, exec, bounds, retried, succeeded, gaveUp>>

\* await queue.add is over.  (The first form lacks the await.)
AddNotAwaited(h) == handler[h].phase \in {"adding", "added"}
AddAwaited(h) == handler[h].phase = "added"

\* queue.add returns; the retry route then closes the dead letter.  Every
\* route ends with flushRuntimePersistence.
AddReturns(h) ==
  LET i == handler[h].id
      s == EditedLetter(dlq[Api][i.of], "resolved")
  IN /\ AddAwaited(h)
     /\ handler' = [handler EXCEPT ![h].phase = "saving"]
     /\ \/ /\ i.retry /\ s # dlq[Api][i.of]
           /\ Room(1)
           /\ dlq' = [dlq EXCEPT ![Api][i.of] = s]
           /\ writes' = writes (+) SetToBag({Statement(Api, "dlq", i.of, s)})
           /\ retried' = retried \union {i.of}
        \/ /\ ~i.retry \/ s = dlq[Api][i.of]
           /\ UNCHANGED <<dlq, writes, retried>>
     /\ UNCHANGED <<run, errors, jobs, exec, bounds, execs, succeeded, gaveUp>>

\* queue.add throws, before or after Redis took the job: the run is marked
\* failed and flushed before the error goes on.
AddFails(h) ==
  LET i == handler[h].id
  IN /\ handler[h].phase \in {"adding", "added"}
     /\ Room(1)
     /\ run' = [run EXCEPT ![Api][i] = "failed"]
     /\ writes' = Splice(h, writes (+) SetToBag({Statement(Api, "run", i, "failed")}))
     /\ handler' = [handler EXCEPT ![h].phase = "failing"]
     /\ UNCHANGED <<dlq, errors, jobs, exec, bounds, history>>

\* POST /dlq/:id/assign, /resolve and /discard.
EditDeadLetter(h, t, s) ==
  /\ NewRequest(h)
  /\ dlq[Api][t] \in {"open", "assigned"}
  /\ Room(1)
  /\ dlq' = [dlq EXCEPT ![Api][t] = EditedLetter(@, s)]
  /\ writes' = writes (+) SetToBag({Statement(Api, "dlq", t, s)})
  /\ handler' = [handler EXCEPT ![h].phase = "saving"]
  /\ UNCHANGED <<run, errors, jobs, exec, restarts, history>>

\* Any other route that ends with flushRuntimePersistence.
OtherRequest(h) ==
  /\ NewRequest(h)
  /\ handler' = [handler EXCEPT ![h].phase = "saving"]
  /\ UNCHANGED <<records, store, jobs, exec, restarts, history>>

\* PostgresRuntimeDatabase.flushPersistence has awaited its own statements
\* and goes on with the store's.
SaveBegins(h) ==
  /\ handler[h].phase = "saving"
  /\ writes' = Splice(h, writes)
  /\ handler' = [handler EXCEPT ![h].phase = "flushing"]
  /\ UNCHANGED <<records, errors, jobs, exec, bounds, history>>

-----------------------------------------------------------------------------
(* Consumers: executeBullMqQueueJob.                                       *)

\* createQueued, markRunning and the call of the handler.
StartJob(w, i) ==
  /\ exec[w] = None /\ ~i.retry
  /\ jobs[i].state = "waiting"
  /\ Room(2)
  /\ run' = [run EXCEPT ![w][i] = "running"]
  /\ writes' = writes (+) SetToBag({Statement(w, "run", i, CreateQueued(w, i))})
                      (+) SetToBag({Statement(w, "run", i, "running")})
  /\ jobs' = [jobs EXCEPT ![i] = JobRecord("active", w, @.tries, @.stalls)]
  /\ exec' = [exec EXCEPT ![w] = i]
  /\ execs' = [execs EXCEPT ![i] = @ + 1]
  /\ UNCHANGED <<dlq, errors, handler, bounds, retried, succeeded, gaveUp>>

\* BullMQ's view of the end of an execution: only the holder of the lock
\* settles the job.
Completed(w) ==
  IF jobs[exec[w]].owner # w THEN jobs
  ELSE [jobs EXCEPT ![exec[w]] = JobRecord("completed", None, @.tries, @.stalls)]

\* A retryable error runs the job again while attempts are left.  (The
\* first form allows one attempt too many.)
RetryOnceMore(j) ==
  JobRecord(IF j.tries < MaxAttempts THEN "waiting" ELSE "failed", None,
            j.tries + 1, j.stalls)
Retry(j) ==
  JobRecord(IF j.tries + 1 < MaxAttempts THEN "waiting" ELSE "failed", None,
            j.tries + 1, j.stalls)

\* markSucceeded or markFailed at the end of an execution.  (The first form
\* records every end as a success.)
EndRunDone(w, s) ==
  LET stored == IF s = "failed" THEN "succeeded" ELSE s
  IN /\ Room(1)
     /\ run' = [run EXCEPT ![w][exec[w]] = stored]
     /\ writes' = writes (+) SetToBag({Statement(w, "run", exec[w], stored)})
EndRun(w, s) ==
  /\ Room(1)
  /\ run' = [run EXCEPT ![w][exec[w]] = s]
  /\ writes' = writes (+) SetToBag({Statement(w, "run", exec[w], s)})

\* The handler returned.
JobSucceeds(w) ==
  /\ exec[w] # None
  /\ EndRun(w, "succeeded")
  /\ succeeded' = succeeded \union {exec[w]}
  /\ jobs' = Completed(w)
  /\ exec' = [exec EXCEPT ![w] = None]
  /\ UNCHANGED <<dlq, errors, handler, bounds, execs, retried, gaveUp>>

\* The handler threw a retryable error, which is thrown on to BullMQ.
JobFails(w) ==
  /\ exec[w] # None
  /\ EndRun(w, "failed")
  /\ jobs' = IF jobs[exec[w]].owner # w THEN jobs
             ELSE [jobs EXCEPT ![exec[w]] = Retry(@)]
  /\ exec' = [exec EXCEPT ![w] = None]
  /\ UNCHANGED <<dlq, errors, handler, bounds, history>>

\* The handler threw a no-retry error: moveToDeadLetter stores the run as
\* failed, then as dead-lettered, and opens a dead letter, also when an
\* earlier one of the task was closed.  BullMQ sees a job that completed.
JobDeadLettered(w) ==
  LET i == exec[w]
  IN /\ i # None /\ Room(3)
     /\ run' = [run EXCEPT ![w][i] = "dead_lettered"]
     /\ dlq' = [dlq EXCEPT ![w][i.of] = "open"]
     /\ writes' = writes (+) SetToBag({Statement(w, "run", i, "failed"),
                                       Statement(w, "run", i, "dead_lettered"),
                                       Statement(w, "dlq", i.of, "open")})
     /\ gaveUp' = gaveUp \union {i}
     /\ jobs' = Completed(w)
     /\ exec' = [exec EXCEPT ![w] = None]
     /\ UNCHANGED <<errors, handler, bounds, execs, retried, succeeded>>

-----------------------------------------------------------------------------
(* The environment: Postgres, Redis and process lifetimes.                 *)

\* Statement s takes effect.  A dead letter refers to a stored task run.
Land(s) ==
  /\ BagIn(s, writes)
  /\ writes' = writes (-) SetToBag({s})
  /\ \/ /\ s.kind = "run"
        /\ run' = [run EXCEPT ![Db][s.id] = s.val]
        /\ UNCHANGED dlq
     \/ /\ s.kind = "dlq" /\ run[Db][SourceId(s.id)] # "absent"
        /\ dlq' = [dlq EXCEPT ![Db][s.id] = s.val]
        /\ UNCHANGED run
  /\ UNCHANGED <<errors, handler, jobs, exec, bounds, history>>

\* Statement s fails; the error is put on its store's list.
Fail(s) ==
  /\ BagIn(s, writes)
  /\ writes' = writes (-) SetToBag({s})
  /\ errors' = [errors EXCEPT ![s.by] = TRUE]
  /\ UNCHANGED <<records, handler, jobs, exec, bounds, history>>

\* The process ends and starts again with what Postgres holds.
Restart(p) ==
  /\ restarts < MaxRestarts /\ restarts' = restarts + 1
  /\ \A s \in DOMAIN writes : s.by # p
  /\ run' = [run EXCEPT ![p] = run[Db]]
  /\ dlq' = [dlq EXCEPT ![p] = dlq[Db]]
  /\ errors' = [errors EXCEPT ![p] = FALSE]
  /\ handler' = IF p = Api THEN [h \in Handler |-> NoRequest] ELSE handler
  /\ exec' = IF p \in Consumers THEN [exec EXCEPT ![p] = None] ELSE exec
  /\ UNCHANGED <<writes, jobs, ops, history>>

\* The lock of an active job expired.
StallJob(i) ==
  LET again == IF jobs[i].stalls < MaxStalls THEN "waiting" ELSE "failed"
  IN /\ jobs[i].state = "active"
     /\ jobs' = [jobs EXCEPT ![i] = JobRecord(again, None, @.tries, @.stalls + 1)]
     /\ UNCHANGED <<records, store, handler, exec, bounds, history>>

\* removeOnComplete: an old completed job is forgotten.
EvictJob(i) ==
  /\ jobs[i].state = "completed"
  /\ jobs' = [jobs EXCEPT ![i] = NoJob]
  /\ UNCHANGED <<records, store, handler, exec, bounds, history>>

-----------------------------------------------------------------------------
HandlerStep(h) ==
  \/ FlushReturns(h) \/ RedisAdds(h) \/ AddReturns(h) \/ AddFails(h)
  \/ SaveBegins(h)

NewRequests == \E h \in Handler :
  \/ \E t \in Task : EnqueueTask(h, t) \/ RetryDeadLetter(h, t)
  \/ \E t \in Task, s \in {"assigned", "resolved", "discarded"} :
       EditDeadLetter(h, t, s)
  \/ OtherRequest(h)

ConsumerStep(w) ==
  \/ \E i \in TaskId : StartJob(w, i)
  \/ JobSucceeds(w) \/ JobFails(w) \/ JobDeadLettered(w)

Settle == \E s \in BagToSet(writes) : Land(s) \/ Fail(s)

Next ==
  \/ NewRequests
  \/ \E h \in Handler : HandlerStep(h)
  \/ \E w \in Consumers : ConsumerStep(w)
  \/ Settle
  \/ \E p \in Procs : Restart(p)
  \/ \E i \in TaskId : StallJob(i) \/ EvictJob(i)

Spec == Init /\ [][Next]_vars

\* Awaited calls return, BullMQ hands out waiting jobs, and statements
\* succeed or fail.
FairSpec ==
  /\ Spec
  /\ \A h \in Handler : WF_vars(HandlerStep(h))
  /\ \A w \in Consumers : WF_vars(ConsumerStep(w))
  /\ WF_vars(Settle)

-----------------------------------------------------------------------------
(* Properties.                                                             *)

\* Between two times a job is added it is executed at most once per attempt
\* and once more per stall, whatever mixture of errors, expired locks and
\* crashes it meets (attempts of queuePolicies, maxStalledCount).
ExecutionBound ==
  \A i \in TaskId : execs[i] <= MaxAttempts + MaxStalls

\* Whatever lands in which order, gets lost or is read back after a restart,
\* a run is recorded as succeeded only if its handler returned, and a task
\* has a dead letter only if it met a no-retry error (executeQueueTask).
OutcomesHappened ==
  \A c \in Copies, i \in TaskId :
    /\ run[c][i] = "succeeded" => i \in succeeded
    /\ run[c][i] = "dead_lettered" => i \in gaveUp
    /\ dlq[c][i.of] # "none" => SourceId(i.of) \in gaveUp

\* A dead letter the API closed stays closed the way it was closed for as
\* long as the process lives, also when a retry that was awaiting
\* queue.add meets a discard (finishDeadLetter).
ClosedOnce ==
  [][\A t \in Task :
       dlq[Api][t] \in Closed /\ restarts' = restarts =>
         dlq'[Api][t] = dlq[Api][t]]_vars

\* A dead letter that the retry route closed has a job in retry_queue: it is
\* not closed when the job could not be queued.
RetryBeforeClose ==
  \A t \in retried : jobs[RetryId(t)].state = "waiting"

\* A task is handed to BullMQ only when Postgres holds its run: enqueue
\* flushes the queued run before it calls queue.add.
EnqueuedRunStored ==
  \A i \in TaskId : jobs[i].state # "none" => run[Db][i] # "absent"

\* docs/architecture/queues-and-workers.md: GET /dlq returns the current
\* dead-letter records, so an open one reaches the API's list.
OpenDeadLetterSeen ==
  \A t \in Task : dlq[Db][t] = "open" ~> dlq[Api][t] # "none" \/ dlq[Db][t] # "open"
=============================================================================
