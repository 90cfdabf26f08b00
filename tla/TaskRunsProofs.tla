--------------------------- MODULE TaskRunsProofs ---------------------------
(***************************************************************************)
(* Theorems about TaskRuns, for any set of handlers, consumers and tasks   *)
(* and any bounds.                                                         *)
(***************************************************************************)
EXTENDS TaskRuns, TLAPS

-----------------------------------------------------------------------------
(* The bag of statements in flight.                                        *)

\* Sending statements adds them to the ones in flight.
LEMMA BagAdds ==
  ASSUME NEW B, IsABag(B), NEW S
  PROVE  IsABag(B (+) SetToBag(S)) /\ DOMAIN (B (+) SetToBag(S)) = DOMAIN B \union S
<1>. DEFINE one == SetToBag(S)
            both == B (+) one
<1>1. both = [e \in DOMAIN B \union DOMAIN one |->
                (IF e \in DOMAIN B THEN B[e] ELSE 0)
              + (IF e \in DOMAIN one THEN one[e] ELSE 0)]
  BY DEF (+)
<1>2. DOMAIN one = S /\ \A e \in S : one[e] = 1
  BY DEF SetToBag
<1>3. \A e \in DOMAIN B : B[e] \in Nat /\ B[e] > 0
  BY DEF IsABag
<1>. HIDE DEF one
<1>4. \A e \in DOMAIN both : both[e] \in {n \in Nat : n > 0}
  BY <1>1, <1>2, <1>3
<1>5. both \in [DOMAIN both -> {n \in Nat : n > 0}]
  BY <1>1, <1>4
<1>. QED
  BY <1>1, <1>2, <1>5 DEF IsABag, one

\* Settling a statement takes one copy of it out of the bag.
LEMMA BagRemoves ==
  ASSUME NEW B, IsABag(B), NEW s
  PROVE  /\ IsABag(B (-) SetToBag({s}))
         /\ DOMAIN (B (-) SetToBag({s})) \subseteq DOMAIN B
         /\ DOMAIN B \ {s} \subseteq DOMAIN (B (-) SetToBag({s}))
<1>. DEFINE one == SetToBag({s})
            rest == B (-) one
            left == [e \in DOMAIN B |->
                      IF e \in DOMAIN one THEN B[e] - one[e] ELSE B[e]]
<1>1. rest = [e \in {d \in DOMAIN left : left[d] > 0} |-> left[e]]
  BY DEF (-)
<1>2. DOMAIN one = {s} /\ one[s] = 1
  BY DEF SetToBag
<1>3. \A e \in DOMAIN B : B[e] \in Nat /\ B[e] > 0
  BY DEF IsABag
<1>4. /\ DOMAIN left = DOMAIN B
      /\ \A e \in DOMAIN left : left[e] \in Nat
      /\ \A e \in DOMAIN left : e # s => left[e] > 0
  BY <1>2, <1>3
<1>. HIDE DEF left, one
<1>5. rest \in [DOMAIN rest -> {n \in Nat : n > 0}]
  BY <1>1, <1>4
<1>6. DOMAIN rest \subseteq DOMAIN B /\ DOMAIN B \ {s} \subseteq DOMAIN rest
  BY <1>1, <1>4
<1>. QED
  BY <1>5, <1>6 DEF IsABag, one

\* A flush renames the statements it takes over and loses none.
LEMMA SpliceKeeps ==
  ASSUME NEW h \in Handler, NEW B, IsABag(B), DOMAIN B \subseteq Statements
  PROVE  /\ IsABag(Splice(h, B))
         /\ DOMAIN Splice(h, B) \subseteq Statements
         /\ \A s \in DOMAIN Splice(h, B) :
              s \in DOMAIN B \/ (s.wait = h /\ [s EXCEPT !.wait = None] \in DOMAIN B)
         /\ \A s \in DOMAIN B :
              \/ s \in DOMAIN Splice(h, B) /\ (s.by # Api \/ s.wait # None)
              \/ s.by = Api /\ s.wait = None /\ [s EXCEPT !.wait = h] \in DOMAIN Splice(h, B)
<1>. DEFINE free == {s \in DOMAIN B : s.by = Api /\ s.wait = None}
            taken == {[s EXCEPT !.wait = h] : s \in free}
            D == (DOMAIN B \ free) \union taken
<1>1. Splice(h, B) = [s \in D |->
         IF s \in taken THEN B[[s EXCEPT !.wait = None]] ELSE B[s]]
  BY DEF Splice
<1>2. \A s \in free : /\ [s EXCEPT !.wait = h] \in Statements
                      /\ [[s EXCEPT !.wait = h] EXCEPT !.wait = None] = s
                      /\ [s EXCEPT !.wait = h].wait = h
  BY DEF Statements
<1>3. \A e \in DOMAIN B : B[e] \in {n \in Nat : n > 0}
  BY DEF IsABag
<1>4. \A s \in taken : s.wait = h /\ s \in Statements
                       /\ [s EXCEPT !.wait = None] \in DOMAIN B
  BY <1>2
<1>5. Splice(h, B) \in [D -> {n \in Nat : n > 0}]
  <2>. HIDE DEF taken, free
  <2>. QED BY <1>1, <1>3, <1>4
<1>6. DOMAIN Splice(h, B) = D
  BY <1>1
<1>. QED
  BY <1>4, <1>5, <1>6 DEF IsABag

-----------------------------------------------------------------------------
(* Type correctness.                                                       *)

\* A handler inside enqueue knows its task.
HandlerShape ==
  \A h \in Handler :
    handler[h].phase \in {"created", "adding", "added", "failing"} =>
      handler[h].id \in TaskId

\* Jobs that may still run have attempts and stalls left, only an active job
\* is held, and the executions of a job are its errors, its stalls and, while
\* it is active, the one under way.
JobLimits ==
  \A i \in TaskId :
    /\ jobs[i].state \in {"waiting", "active"} =>
         /\ jobs[i].tries < MaxAttempts
         /\ jobs[i].stalls <= MaxStalls
         /\ execs[i] = jobs[i].tries + jobs[i].stalls
                       + IF jobs[i].state = "active" THEN 1 ELSE 0
    /\ jobs[i].owner # None => jobs[i].state = "active"
    /\ execs[i] <= MaxAttempts + MaxStalls

Inv == TypeOK /\ HandlerShape /\ JobLimits

\* The statements in flight are well formed.
WritesTyped == IsABag(writes) /\ DOMAIN writes \subseteq Statements

\* The statements handlers and consumers send are well formed.
LEMMA StatementTypes ==
  /\ \A p \in Procs, i \in TaskId, v \in RunStatus : Statement(p, "run", i, v) \in Statements
  /\ \A p \in Procs, t \in Task, v \in LetterStatus : Statement(p, "dlq", t, v) \in Statements
BY DEF Statement, Statements

\* Sending well-formed statements keeps the bag well formed.
LEMMA SendTypes ==
  ASSUME NEW B, IsABag(B), DOMAIN B \subseteq Statements, NEW S \in SUBSET Statements
  PROVE  /\ IsABag(B (+) SetToBag(S))
         /\ DOMAIN (B (+) SetToBag(S)) \subseteq Statements
BY BagAdds

\* The initial state satisfies the invariant.
LEMMA InvInit == Init => Inv
<1>. SUFFICES ASSUME Init PROVE Inv
  OBVIOUS
<1>1. IsABag(writes) /\ DOMAIN writes = {}
  BY DEF Init, EmptyBag, SetToBag, IsABag
<1>2. TypeOK
  BY <1>1, BoundAssumption DEF Init, TypeOK, NoJob, JobRecord, Job, NoRequest, Request, Phases
<1>3. HandlerShape /\ JobLimits
  BY BoundAssumption DEF Init, HandlerShape, JobLimits, NoJob, JobRecord, NoRequest
<1>. QED BY <1>2, <1>3 DEF Inv

\* queue.add keeps the jobs within their limits and starts the count anew.
LEMMA RedisAddsTypes == ASSUME Inv, NEW h \in Handler, RedisAdds(h) PROVE Inv'
<1>. DEFINE i == handler[h].id
<1>1. i \in TaskId
  BY DEF RedisAdds, Inv, HandlerShape
<1>2. handler' \in [Handler -> Request] /\ HandlerShape'
  BY <1>1 DEF RedisAdds, Inv, TypeOK, HandlerShape, Request, Phases
<1>3. jobs' \in [TaskId -> Job] /\ execs' \in [TaskId -> Nat]
  BY <1>1, BoundAssumption DEF RedisAdds, AddJob, JobRecord, Job, Inv, TypeOK
<1>4. JobLimits'
  BY <1>1, <1>3, BoundAssumption DEF RedisAdds, AddJob, JobRecord, Inv, JobLimits, TypeOK, Job
<1>. QED
  BY <1>2, <1>3, <1>4 DEF RedisAdds, Inv, TypeOK, store, records, bounds

\* Starting an enqueue keeps the invariant.
LEMMA StartEnqueueTypes ==
  ASSUME Inv, NEW h \in Handler, NEW i \in TaskId, StartEnqueue(h, i) PROVE Inv'
<1>. DEFINE s == CreateQueued(Api, i)
            st == Statement(Api, "run", i, s)
<1>1. s \in RunStatus
  BY DEF CreateQueued, Inv, TypeOK, RunStatus, Copies, Procs
<1>2. st \in Statements
  BY <1>1, StatementTypes DEF Procs
<1>3. IsABag(writes (+) SetToBag({st})) /\ DOMAIN (writes (+) SetToBag({st})) \subseteq Statements
  BY <1>2, SendTypes DEF Inv, TypeOK
<1>4. WritesTyped'
  <2>. DEFINE B == writes (+) SetToBag({st})
  <2>1. writes' = Splice(h, B)
    BY DEF StartEnqueue
  <2>2. IsABag(B) /\ DOMAIN B \subseteq Statements
    BY <1>3
  <2>. HIDE DEF B
  <2>3. IsABag(Splice(h, B)) /\ DOMAIN Splice(h, B) \subseteq Statements
    BY <2>2, SpliceKeeps
  <2>. QED BY <2>1, <2>3 DEF WritesTyped
<1>5. run' \in [Copies -> [TaskId -> RunStatus \union {"absent"}]]
  BY <1>1 DEF StartEnqueue, Inv, TypeOK
<1>6. handler' \in [Handler -> Request] /\ HandlerShape'
  BY DEF StartEnqueue, Inv, TypeOK, HandlerShape, Request, Phases
<1>7. ops' \in 0 .. MaxOps
  BY BoundAssumption DEF StartEnqueue, NewRequest, Inv, TypeOK
<1>. QED
  BY <1>4, <1>5, <1>6, <1>7 DEF StartEnqueue, Inv, TypeOK, JobLimits, WritesTyped, history

\* A flush that returns keeps the invariant.
LEMMA FlushReturnsTypes == ASSUME Inv, NEW h \in Handler, FlushReturns(h) PROVE Inv'
<1>1. handler' \in [Handler -> Request] /\ HandlerShape'
  <2>1. CASE handler' = [handler EXCEPT ![h].phase = "adding"] /\ handler[h].phase = "created"
    BY <2>1 DEF Inv, TypeOK, HandlerShape, Request, Phases
  <2>2. CASE handler' = [handler EXCEPT ![h] = NoRequest]
    BY <2>2 DEF Inv, TypeOK, HandlerShape, Request, Phases, NoRequest
  <2>. QED BY <2>1, <2>2 DEF FlushReturns
<1>2. errors' \in [Procs -> BOOLEAN]
  BY DEF FlushReturns, Inv, TypeOK
<1>. QED
  BY <1>1, <1>2 DEF FlushReturns, Inv, TypeOK, JobLimits, records, bounds, history

\* An enqueue that returns keeps the invariant.
LEMMA AddReturnsTypes == ASSUME Inv, NEW h \in Handler, AddReturns(h) PROVE Inv'
<1>. DEFINE i == handler[h].id
            s == EditedLetter(dlq[Api][i.of], "resolved")
            st == Statement(Api, "dlq", i.of, s)
<1>1. i \in TaskId /\ i.of \in Task
  BY DEF AddReturns, AddAwaited, Inv, HandlerShape, TaskId
<1>2. handler' \in [Handler -> Request] /\ HandlerShape'
  BY DEF AddReturns, Inv, TypeOK, HandlerShape, Request, Phases
<1>3. /\ dlq' \in [Copies -> [Task -> LetterStatus \union {"none"}]]
      /\ WritesTyped' /\ retried' \subseteq Task
  <2>1. CASE i.retry /\ s # dlq[Api][i.of]
    <3>1. s = "resolved" /\ s \in LetterStatus
      BY <2>1 DEF EditedLetter, LetterStatus
    <3>2. st \in Statements
      BY <1>1, <3>1, StatementTypes DEF Procs
    <3>3. dlq' = [dlq EXCEPT ![Api][i.of] = s] /\ writes' = writes (+) SetToBag({st})
          /\ retried' = retried \union {i.of}
      BY <2>1 DEF AddReturns
    <3>4. WritesTyped'
      BY <3>2, <3>3, SendTypes DEF Inv, TypeOK, WritesTyped
    <3>. QED
      BY <1>1, <3>1, <3>3, <3>4 DEF Inv, TypeOK
  <2>2. CASE ~(i.retry /\ s # dlq[Api][i.of])
    BY <2>2 DEF AddReturns, Inv, TypeOK, WritesTyped
  <2>. QED BY <2>1, <2>2
<1>. QED
  BY <1>2, <1>3 DEF AddReturns, Inv, TypeOK, JobLimits, WritesTyped, bounds

\* A failed enqueue keeps the invariant.
LEMMA AddFailsTypes == ASSUME Inv, NEW h \in Handler, AddFails(h) PROVE Inv'
<1>. DEFINE i == handler[h].id
            st == Statement(Api, "run", i, "failed")
<1>1. i \in TaskId
  BY DEF AddFails, Inv, HandlerShape
<1>2. st \in Statements
  BY <1>1, StatementTypes DEF Procs, RunStatus
<1>3. IsABag(writes (+) SetToBag({st})) /\ DOMAIN (writes (+) SetToBag({st})) \subseteq Statements
  BY <1>2, SendTypes DEF Inv, TypeOK
<1>4. WritesTyped'
  BY <1>3, SpliceKeeps DEF AddFails, WritesTyped
<1>5. run' \in [Copies -> [TaskId -> RunStatus \union {"absent"}]]
  BY <1>1 DEF AddFails, Inv, TypeOK, RunStatus
<1>6. handler' \in [Handler -> Request] /\ HandlerShape'
  BY DEF AddFails, Inv, TypeOK, HandlerShape, Request, Phases
<1>. QED
  BY <1>4, <1>5, <1>6 DEF AddFails, Inv, TypeOK, JobLimits, WritesTyped, history, bounds

\* Editing a dead letter keeps the invariant.
LEMMA EditTypes ==
  ASSUME Inv, NEW h \in Handler, NEW t \in Task,
         NEW s \in {"assigned", "resolved", "discarded"}, EditDeadLetter(h, t, s)
  PROVE  Inv'
<1>1. Statement(Api, "dlq", t, s) \in Statements
  BY StatementTypes DEF Procs, LetterStatus
<1>2. WritesTyped'
  BY <1>1, SendTypes DEF EditDeadLetter, Inv, TypeOK, WritesTyped
<1>3. dlq' \in [Copies -> [Task -> LetterStatus \union {"none"}]]
  BY DEF EditDeadLetter, EditedLetter, Inv, TypeOK, LetterStatus
<1>4. handler' \in [Handler -> Request] /\ HandlerShape'
  BY DEF EditDeadLetter, Inv, TypeOK, HandlerShape, Request, Phases
<1>5. ops' \in 0 .. MaxOps
  BY BoundAssumption DEF EditDeadLetter, NewRequest, Inv, TypeOK
<1>. QED
  BY <1>2, <1>3, <1>4, <1>5 DEF EditDeadLetter, Inv, TypeOK, JobLimits, WritesTyped, history

\* A request that only flushes keeps the invariant.
LEMMA OtherRequestTypes == ASSUME Inv, NEW h \in Handler, OtherRequest(h) PROVE Inv'
<1>1. handler' \in [Handler -> Request] /\ HandlerShape'
  BY DEF OtherRequest, Inv, TypeOK, HandlerShape, Request, Phases
<1>2. ops' \in 0 .. MaxOps
  BY BoundAssumption DEF OtherRequest, NewRequest, Inv, TypeOK
<1>. QED
  BY <1>1, <1>2 DEF OtherRequest, Inv, TypeOK, JobLimits, store, records, history

\* The start of a flush keeps the invariant.
LEMMA SaveBeginsTypes == ASSUME Inv, NEW h \in Handler, SaveBegins(h) PROVE Inv'
<1>1. handler' \in [Handler -> Request] /\ HandlerShape'
  BY DEF SaveBegins, Inv, TypeOK, HandlerShape, Request, Phases
<1>2. WritesTyped'
  BY SpliceKeeps DEF SaveBegins, Inv, TypeOK, WritesTyped
<1>. QED
  BY <1>1, <1>2 DEF SaveBegins, Inv, TypeOK, JobLimits, WritesTyped, records, history, bounds

\* The start of an execution keeps the invariant: it is counted once.
LEMMA StartJobTypes ==
  ASSUME Inv, NEW w \in Consumers, NEW i \in TaskId, StartJob(w, i) PROVE Inv'
<1>. DEFINE c == CreateQueued(w, i)
            s1 == Statement(w, "run", i, c)
            s2 == Statement(w, "run", i, "running")
            B == writes (+) SetToBag({s1})
<1>1. c \in RunStatus
  BY DEF CreateQueued, Inv, TypeOK, RunStatus, Copies, Procs
<1>2. s1 \in Statements /\ s2 \in Statements
  BY <1>1, StatementTypes DEF Procs, RunStatus
<1>3. IsABag(B) /\ DOMAIN B \subseteq Statements
  BY <1>2, SendTypes DEF Inv, TypeOK
<1>4. writes' = B (+) SetToBag({s2})
  BY DEF StartJob
<1>5. WritesTyped'
  <2>. HIDE DEF B, s2
  <2>. QED BY <1>2, <1>3, <1>4, SendTypes DEF WritesTyped
<1>6. run' \in [Copies -> [TaskId -> RunStatus \union {"absent"}]]
  BY DEF StartJob, Inv, TypeOK, RunStatus
<1>7. jobs' \in [TaskId -> Job] /\ execs' \in [TaskId -> Nat]
      /\ exec' \in [Consumers -> TaskId \union {None}]
  BY BoundAssumption DEF StartJob, Inv, TypeOK, JobRecord, Job
<1>8. JobLimits'
  BY BoundAssumption, ProcessAssumption DEF StartJob, Inv, TypeOK, JobLimits, JobRecord, Job
<1>. QED
  BY <1>5, <1>6, <1>7, <1>8 DEF StartJob, Inv, TypeOK, HandlerShape, WritesTyped, bounds

\* The end of an execution, seen by the store.
LEMMA EndRunTypes ==
  ASSUME Inv, NEW w \in Consumers, exec[w] \in TaskId,
         NEW s \in {"succeeded", "failed"}, EndRun(w, s)
  PROVE  WritesTyped' /\ run' \in [Copies -> [TaskId -> RunStatus \union {"absent"}]]
<1>. DEFINE st == Statement(w, "run", exec[w], s)
<1>1. st \in Statements
  BY StatementTypes DEF Procs, RunStatus
<1>2. writes' = writes (+) SetToBag({st})
  BY DEF EndRun
<1>3. WritesTyped'
  BY <1>1, <1>2, SendTypes DEF Inv, TypeOK, WritesTyped
<1>4. run' \in [Copies -> [TaskId -> RunStatus \union {"absent"}]]
  BY DEF EndRun, Inv, TypeOK, RunStatus
<1>. QED BY <1>3, <1>4

\* Completing the job keeps it within its limits.
LEMMA CompletedTypes ==
  ASSUME Inv, NEW w \in Consumers, exec[w] \in TaskId,
         jobs' = Completed(w), exec' = [exec EXCEPT ![w] = None], UNCHANGED execs
  PROVE  /\ jobs' \in [TaskId -> Job] /\ JobLimits'
         /\ exec' \in [Consumers -> TaskId \union {None}]
BY BoundAssumption DEF Inv, TypeOK, JobLimits, Completed, JobRecord, Job

\* A successful execution keeps the invariant.
LEMMA SucceedsTypes == ASSUME Inv, NEW w \in Consumers, JobSucceeds(w) PROVE Inv'
<1>1. exec[w] \in TaskId
  BY DEF JobSucceeds, Inv, TypeOK
<1>2. WritesTyped' /\ run' \in [Copies -> [TaskId -> RunStatus \union {"absent"}]]
  BY <1>1, EndRunTypes DEF JobSucceeds
<1>3. jobs' \in [TaskId -> Job] /\ JobLimits' /\ exec' \in [Consumers -> TaskId \union {None}]
  BY <1>1, CompletedTypes DEF JobSucceeds
<1>4. succeeded' \subseteq TaskId
  BY <1>1 DEF JobSucceeds, Inv, TypeOK
<1>. QED
  BY <1>2, <1>3, <1>4 DEF JobSucceeds, Inv, TypeOK, HandlerShape, WritesTyped, bounds

\* An execution that ends in a retryable error keeps the invariant: the job
\* waits again only if it has an attempt left.
LEMMA FailsTypes == ASSUME Inv, NEW w \in Consumers, JobFails(w) PROVE Inv'
<1>1. exec[w] \in TaskId
  BY DEF JobFails, Inv, TypeOK
<1>2. WritesTyped' /\ run' \in [Copies -> [TaskId -> RunStatus \union {"absent"}]]
  BY <1>1, EndRunTypes DEF JobFails
<1>3. jobs' \in [TaskId -> Job] /\ JobLimits' /\ exec' \in [Consumers -> TaskId \union {None}]
  <2>1. CASE jobs[exec[w]].owner # w
    BY <1>1, <2>1 DEF JobFails, Inv, TypeOK, JobLimits, history
  <2>2. CASE jobs[exec[w]].owner = w
    <3>1. jobs[exec[w]].state = "active" /\ jobs[exec[w]] \in Job
      BY <1>1, <2>2, ProcessAssumption DEF Inv, TypeOK, JobLimits
    <3>2. jobs' = [jobs EXCEPT ![exec[w]] = Retry(@)]
      BY <2>2 DEF JobFails
    <3>. DEFINE j == jobs[exec[w]]
    <3>3. /\ j.tries \in 0 .. MaxAttempts /\ j.stalls \in 0 .. MaxStalls + 1
          /\ j.tries < MaxAttempts /\ j.stalls <= MaxStalls
          /\ execs[exec[w]] = j.tries + j.stalls + 1
      BY <1>1, <3>1 DEF Inv, JobLimits, Job
    <3>4. /\ Retry(j) \in Job /\ Retry(j).owner = None
          /\ Retry(j).tries = j.tries + 1 /\ Retry(j).stalls = j.stalls
          /\ Retry(j).state = "waiting" => j.tries + 1 < MaxAttempts
          /\ Retry(j).state # "active"
      BY <3>3, BoundAssumption DEF Retry, JobRecord, Job
    <3>5. jobs' = [jobs EXCEPT ![exec[w]] = Retry(j)] /\ execs' = execs
          /\ exec' = [exec EXCEPT ![w] = None]
      BY <3>2 DEF JobFails, history
    <3>. HIDE DEF j
    <3>6. jobs' \in [TaskId -> Job] /\ exec' \in [Consumers -> TaskId \union {None}]
      BY <3>4, <3>5 DEF Inv, TypeOK
    <3>7. JobLimits'
      <4>1. SUFFICES ASSUME NEW k \in TaskId
                     PROVE  /\ jobs'[k].state \in {"waiting", "active"} =>
                                 /\ jobs'[k].tries < MaxAttempts
                                 /\ jobs'[k].stalls <= MaxStalls
                                 /\ execs'[k] = jobs'[k].tries + jobs'[k].stalls
                                       + IF jobs'[k].state = "active" THEN 1 ELSE 0
                            /\ jobs'[k].owner # None => jobs'[k].state = "active"
                            /\ execs'[k] <= MaxAttempts + MaxStalls
        BY DEF JobLimits
      <4>2. CASE k # exec[w]
        BY <4>2, <3>5 DEF Inv, TypeOK, JobLimits
      <4>3. CASE k = exec[w]
        <5>1. jobs'[k] = Retry(j) /\ execs'[k] = execs[exec[w]]
          BY <4>3, <1>1, <3>5 DEF Inv, TypeOK
        <5>. QED
          BY <5>1, <1>1, <3>3, <3>4, BoundAssumption DEF Inv, JobLimits, j
      <4>. QED BY <4>2, <4>3
    <3>. QED BY <3>6, <3>7
  <2>. QED BY <2>1, <2>2
<1>. QED
  BY <1>2, <1>3 DEF JobFails, Inv, TypeOK, HandlerShape, WritesTyped, bounds, history

\* Dead-lettering keeps the invariant.
LEMMA DeadLetterTypes == ASSUME Inv, NEW w \in Consumers, JobDeadLettered(w) PROVE Inv'
<1>. DEFINE i == exec[w]
            S == {Statement(w, "run", i, "failed"), Statement(w, "run", i, "dead_lettered"),
                  Statement(w, "dlq", i.of, "open")}
<1>1. i \in TaskId /\ i.of \in Task
  BY DEF JobDeadLettered, Inv, TypeOK, TaskId
<1>2. S \subseteq Statements
  BY <1>1, StatementTypes DEF Procs, RunStatus, LetterStatus
<1>3. WritesTyped'
  <2>1. writes' = writes (+) SetToBag(S)
    BY DEF JobDeadLettered
  <2>. HIDE DEF S
  <2>. QED BY <1>2, <2>1, SendTypes DEF Inv, TypeOK, WritesTyped
<1>4. /\ run' \in [Copies -> [TaskId -> RunStatus \union {"absent"}]]
      /\ dlq' \in [Copies -> [Task -> LetterStatus \union {"none"}]]
      /\ gaveUp' \subseteq TaskId
  BY <1>1 DEF JobDeadLettered, Inv, TypeOK, RunStatus, LetterStatus
<1>5. jobs' \in [TaskId -> Job] /\ JobLimits' /\ exec' \in [Consumers -> TaskId \union {None}]
  BY <1>1, CompletedTypes DEF JobDeadLettered
<1>. QED
  BY <1>3, <1>4, <1>5 DEF JobDeadLettered, Inv, TypeOK, HandlerShape, WritesTyped, bounds

\* A statement that settles keeps the invariant.
LEMMA LandTypes == ASSUME Inv, NEW s \in DOMAIN writes, Land(s) PROVE Inv'
<1>1. s \in Statements
  BY DEF Inv, TypeOK
<1>2. WritesTyped'
  BY BagRemoves DEF Land, Inv, TypeOK, WritesTyped
<1>3. /\ run' \in [Copies -> [TaskId -> RunStatus \union {"absent"}]]
      /\ dlq' \in [Copies -> [Task -> LetterStatus \union {"none"}]]
  <2>1. CASE s.kind = "run"
    <3>1. s.id \in TaskId /\ s.val \in RunStatus
      BY <1>1, <2>1 DEF Statements
    <3>2. run' = [run EXCEPT ![Db][s.id] = s.val] /\ dlq' = dlq
      BY <2>1 DEF Land
    <3>. QED BY <3>1, <3>2 DEF Inv, TypeOK
  <2>2. CASE s.kind = "dlq"
    <3>1. s.id \in Task /\ s.val \in LetterStatus
      BY <1>1, <2>2 DEF Statements
    <3>2. dlq' = [dlq EXCEPT ![Db][s.id] = s.val] /\ run' = run
      BY <2>2 DEF Land
    <3>. QED BY <3>1, <3>2 DEF Inv, TypeOK
  <2>. QED BY <2>1, <2>2 DEF Land
<1>. QED
  BY <1>2, <1>3 DEF Land, Inv, TypeOK, HandlerShape, JobLimits, WritesTyped, bounds, history

\* A statement that fails keeps the invariant.
LEMMA FailTypes == ASSUME Inv, NEW s \in DOMAIN writes, Fail(s) PROVE Inv'
<1>1. WritesTyped'
  BY BagRemoves DEF Fail, Inv, TypeOK, WritesTyped
<1>2. errors' \in [Procs -> BOOLEAN]
  BY DEF Fail, Inv, TypeOK
<1>. QED
  BY <1>1, <1>2 DEF Fail, Inv, TypeOK, HandlerShape, JobLimits, WritesTyped, bounds, history, records

\* A process start keeps the invariant.
LEMMA RestartTypes == ASSUME Inv, NEW p \in Procs, Restart(p) PROVE Inv'
<1>1. /\ run' \in [Copies -> [TaskId -> RunStatus \union {"absent"}]]
      /\ dlq' \in [Copies -> [Task -> LetterStatus \union {"none"}]]
  BY DEF Restart, Inv, TypeOK, Copies
<1>2. errors' \in [Procs -> BOOLEAN] /\ exec' \in [Consumers -> TaskId \union {None}]
  BY DEF Restart, Inv, TypeOK
<1>3. handler' \in [Handler -> Request] /\ HandlerShape'
  <2>1. CASE handler' = handler
    BY <2>1 DEF Inv, TypeOK, HandlerShape
  <2>2. CASE handler' = [h \in Handler |-> NoRequest]
    BY <2>2 DEF HandlerShape, Request, Phases, NoRequest
  <2>. QED BY <2>1, <2>2 DEF Restart
<1>4. restarts' \in 0 .. MaxRestarts
  BY BoundAssumption DEF Restart, Inv, TypeOK
<1>. QED
  BY <1>1, <1>2, <1>3, <1>4 DEF Restart, Inv, TypeOK, JobLimits, history

\* A stall and an eviction keep the job within its limits.
LEMMA JobEventTypes ==
  ASSUME Inv, NEW i \in TaskId, StallJob(i) \/ EvictJob(i) PROVE Inv'
<1>1. jobs' \in [TaskId -> Job] /\ JobLimits'
  <2>1. CASE StallJob(i)
    <3>1. jobs[i].stalls \in 0 .. MaxStalls /\ jobs[i] \in Job
      BY <2>1, BoundAssumption DEF StallJob, Inv, TypeOK, JobLimits, Job
    <3>2. jobs' \in [TaskId -> Job]
      BY <2>1, <3>1, BoundAssumption DEF StallJob, Inv, TypeOK, JobRecord, Job
    <3>3. JobLimits'
      BY <2>1, <3>1, <3>2, BoundAssumption DEF StallJob, Inv, TypeOK, JobLimits, JobRecord, Job, history
    <3>. QED BY <3>2, <3>3
  <2>2. CASE EvictJob(i)
    BY <2>2, BoundAssumption DEF EvictJob, Inv, TypeOK, JobLimits, NoJob, JobRecord, Job, history
  <2>. QED BY <2>1, <2>2
<1>. QED
  BY <1>1 DEF StallJob, EvictJob, Inv, TypeOK, HandlerShape, records, store, bounds, history

\* Every step keeps the invariant.
LEMMA InvStep == Inv /\ [Next]_vars => Inv'
<1>. SUFFICES ASSUME Inv, [Next]_vars PROVE Inv'
  OBVIOUS
<1>1. CASE NewRequests
  <2>1. \A t \in Task : SourceId(t) \in TaskId /\ RetryId(t) \in TaskId
    BY DEF SourceId, RetryId, TaskId
  <2>. QED
    BY <1>1, <2>1, StartEnqueueTypes, EditTypes, OtherRequestTypes
    DEF NewRequests, EnqueueTask, RetryDeadLetter
<1>2. CASE \E h \in Handler : HandlerStep(h)
  BY <1>2, FlushReturnsTypes, RedisAddsTypes, AddReturnsTypes, AddFailsTypes,
     SaveBeginsTypes DEF HandlerStep
<1>3. CASE \E w \in Consumers : ConsumerStep(w)
  BY <1>3, StartJobTypes, SucceedsTypes, FailsTypes, DeadLetterTypes DEF ConsumerStep
<1>4. CASE Settle
  BY <1>4, LandTypes, FailTypes DEF Settle, BagToSet
<1>5. CASE \E p \in Procs : Restart(p)
  BY <1>5, RestartTypes
<1>6. CASE \E i \in TaskId : StallJob(i) \/ EvictJob(i)
  BY <1>6, JobEventTypes
<1>7. CASE UNCHANGED vars
  BY <1>7 DEF vars, records, store, bounds, history, Inv, TypeOK, HandlerShape, JobLimits
<1>. QED BY <1>1, <1>2, <1>3, <1>4, <1>5, <1>6, <1>7 DEF Next

\* The records, the statements in flight and the jobs are well typed in
\* every reachable state; no job exceeds its attempts or stalls.
THEOREM TypeCorrect == Spec => []TypeOK
<1>1. Inv => TypeOK
  BY DEF Inv
<1>. QED BY <1>1, InvInit, InvStep, PTL DEF Spec

\* However errors, stalls and crashes mix, a job is executed at most once per
\* attempt and once more per stall.
THEOREM ExecutionsBounded == Spec => []ExecutionBound
<1>1. Inv => ExecutionBound
  BY DEF Inv, JobLimits, ExecutionBound
<1>. QED BY <1>1, InvInit, InvStep, PTL DEF Spec

-----------------------------------------------------------------------------
(* Recorded outcomes happened.                                             *)

\* What a statement in flight records happened.
TrueStatement(s) ==
  /\ s.kind = "run" /\ s.val = "succeeded" => s.id \in succeeded
  /\ s.kind = "run" /\ s.val = "dead_lettered" => s.id \in gaveUp
  /\ s.kind = "dlq" => SourceId(s.id) \in gaveUp

Truth ==
  /\ OutcomesHappened
  /\ \A s \in DOMAIN writes : TrueStatement(s)
  /\ \A w \in Consumers : exec[w] # None => exec[w] = SourceId(exec[w].of)

\* In what copy c holds, and in what is sent from it, nothing is invented.
LEMMA TrueCopy ==
  ASSUME Inv, Truth, NEW p \in Procs, NEW i \in TaskId
  PROVE  TrueStatement(Statement(p, "run", i, CreateQueued(p, i)))
BY DEF Truth, OutcomesHappened, TrueStatement, Statement, CreateQueued, Copies

\* A flush changes who awaits a statement and not what it records.
LEMMA SpliceTrue ==
  ASSUME NEW h \in Handler, NEW B, IsABag(B), DOMAIN B \subseteq Statements,
         \A s \in DOMAIN B : TrueStatement(s)
  PROVE  \A s \in DOMAIN Splice(h, B) : TrueStatement(s)
<1>. SUFFICES ASSUME NEW s \in DOMAIN Splice(h, B) PROVE TrueStatement(s)
  OBVIOUS
<1>1. CASE s \in DOMAIN B
  BY <1>1
<1>2. CASE s.wait = h /\ [s EXCEPT !.wait = None] \in DOMAIN B
  <2>. DEFINE u == [s EXCEPT !.wait = None]
  <2>1. s \in Statements
    BY SpliceKeeps
  <2>2. u.kind = s.kind /\ u.val = s.val /\ u.id = s.id
    BY <2>1 DEF Statements
  <2>3. TrueStatement(u)
    BY <1>2
  <2>. HIDE DEF u
  <2>. QED BY <2>2, <2>3 DEF TrueStatement
<1>. QED BY <1>1, <1>2, SpliceKeeps

\* Requests of the API record nothing that did not happen.
LEMMA TruthHandler ==
  ASSUME Inv, Truth, NEW h \in Handler,
         \/ \E t \in Task : EnqueueTask(h, t) \/ RetryDeadLetter(h, t)
         \/ \E t \in Task, s \in {"assigned", "resolved", "discarded"} : EditDeadLetter(h, t, s)
         \/ OtherRequest(h) \/ HandlerStep(h)
  PROVE  Truth'
<1>. USE DEF Inv
<1>a. IsABag(writes) /\ DOMAIN writes \subseteq Statements /\ Api \in Procs /\ Api \in Copies
  BY DEF TypeOK, Procs, Copies
<1>b. \A s \in DOMAIN writes : TrueStatement(s)
  BY DEF Truth
<1>1. ASSUME NEW i \in TaskId, StartEnqueue(h, i) PROVE Truth'
  <2>. DEFINE st == Statement(Api, "run", i, CreateQueued(Api, i))
              B == writes (+) SetToBag({st})
  <2>1. st \in Statements
    BY <1>a, StatementTypes DEF CreateQueued, TypeOK, RunStatus
  <2>2. IsABag(B) /\ DOMAIN B = DOMAIN writes \union {st}
    BY <1>a, BagAdds
  <2>3. TrueStatement(st)
    BY <1>a, TrueCopy
  <2>4. writes' = Splice(h, B)
    BY <1>1 DEF StartEnqueue
  <2>. HIDE DEF B, st
  <2>5. \A s \in DOMAIN writes' : TrueStatement(s)
    BY <1>a, <1>b, <2>1, <2>2, <2>3, <2>4, SpliceTrue
  <2>6. OutcomesHappened'
    BY <1>1, <1>a DEF StartEnqueue, CreateQueued, Truth, OutcomesHappened, TypeOK, history
  <2>. QED
    BY <1>1, <2>5, <2>6 DEF StartEnqueue, Truth, TrueStatement, history
<1>2. ASSUME NEW t \in Task, EnqueueTask(h, t) \/ RetryDeadLetter(h, t) PROVE Truth'
  BY <1>1, <1>2 DEF EnqueueTask, RetryDeadLetter, SourceId, RetryId, TaskId
<1>3. ASSUME NEW t \in Task, NEW s \in {"assigned", "resolved", "discarded"},
             EditDeadLetter(h, t, s)
      PROVE  Truth'
  <2>. DEFINE st == Statement(Api, "dlq", t, s)
  <2>1. SourceId(t) \in gaveUp
    <3>1. dlq[Api][t] # "none" /\ SourceId(t) \in TaskId /\ SourceId(t).of = t
      BY <1>3 DEF EditDeadLetter, SourceId, TaskId
    <3>. QED BY <1>a, <3>1 DEF Truth, OutcomesHappened
  <2>2. DOMAIN writes' = DOMAIN writes \union {st}
    BY <1>3, <1>a, BagAdds DEF EditDeadLetter
  <2>3. TrueStatement(st)
    BY <2>1 DEF TrueStatement, Statement
  <2>4. OutcomesHappened'
    BY <1>3, <1>a, <2>1 DEF EditDeadLetter, Truth, OutcomesHappened, TypeOK, TaskId, history
  <2>. HIDE DEF st
  <2>. QED
    BY <1>3, <1>b, <2>2, <2>3, <2>4 DEF EditDeadLetter, Truth, TrueStatement, history
<1>4. CASE OtherRequest(h) \/ FlushReturns(h) \/ RedisAdds(h)
  BY <1>4 DEF OtherRequest, FlushReturns, RedisAdds, Truth, TrueStatement, OutcomesHappened,
              records, store, history
<1>5. CASE AddReturns(h)
  <2>. DEFINE i == handler[h].id
              s == EditedLetter(dlq[Api][i.of], "resolved")
              st == Statement(Api, "dlq", i.of, s)
  <2>1. i \in TaskId /\ i.of \in Task
    BY <1>5 DEF AddReturns, AddAwaited, HandlerShape, TaskId
  <2>2. CASE i.retry /\ s # dlq[Api][i.of]
    <3>1. dlq[Api][i.of] # "none"
      BY <2>2 DEF EditedLetter
    <3>2. SourceId(i.of) \in gaveUp
      BY <1>a, <2>1, <3>1 DEF Truth, OutcomesHappened
    <3>3. DOMAIN writes' = DOMAIN writes \union {st}
      BY <1>5, <2>2, <1>a, BagAdds DEF AddReturns
    <3>4. TrueStatement(st)
      BY <3>2 DEF TrueStatement, Statement
    <3>5. dlq' = [dlq EXCEPT ![Api][i.of] = s]
      BY <1>5, <2>2 DEF AddReturns
    <3>. HIDE DEF st, i, s
    <3>6. OutcomesHappened'
      BY <1>5, <1>a, <2>1, <3>2, <3>5 DEF AddReturns, Truth, OutcomesHappened, TypeOK, TaskId
    <3>. QED
      BY <1>5, <1>b, <3>3, <3>4, <3>6 DEF AddReturns, Truth, TrueStatement
  <2>3. CASE ~(i.retry /\ s # dlq[Api][i.of])
    BY <1>5, <2>3 DEF AddReturns, Truth, TrueStatement, OutcomesHappened
  <2>. QED BY <2>2, <2>3
<1>6. CASE AddFails(h)
  <2>. DEFINE i == handler[h].id
              st == Statement(Api, "run", i, "failed")
              B == writes (+) SetToBag({st})
  <2>1. i \in TaskId
    BY <1>6 DEF AddFails, HandlerShape
  <2>2. st \in Statements /\ TrueStatement(st)
    BY <1>a, <2>1, StatementTypes DEF RunStatus, TrueStatement, Statement
  <2>3. IsABag(B) /\ DOMAIN B = DOMAIN writes \union {st}
    BY <1>a, BagAdds
  <2>4. writes' = Splice(h, B)
    BY <1>6 DEF AddFails
  <2>5. OutcomesHappened'
    BY <1>6, <1>a, <2>1 DEF AddFails, Truth, OutcomesHappened, TypeOK, history
  <2>. HIDE DEF B, st
  <2>6. \A s \in DOMAIN writes' : TrueStatement(s)
    BY <1>a, <1>b, <2>2, <2>3, <2>4, SpliceTrue
  <2>. QED
    BY <1>6, <2>5, <2>6 DEF AddFails, Truth, TrueStatement, history
<1>7. CASE SaveBegins(h)
  <2>1. \A s \in DOMAIN writes' : TrueStatement(s)
    BY <1>7, <1>a, <1>b, SpliceTrue DEF SaveBegins
  <2>. QED
    BY <1>7, <2>1 DEF SaveBegins, Truth, TrueStatement, OutcomesHappened, records, history
<1>. QED BY <1>2, <1>3, <1>4, <1>5, <1>6, <1>7 DEF HandlerStep

\* Consumers record what their handler did.
LEMMA TruthConsumer ==
  ASSUME Inv, Truth, NEW w \in Consumers, ConsumerStep(w)
  PROVE  Truth'
<1>. USE DEF Inv
<1>a. IsABag(writes) /\ w \in Procs /\ w \in Copies
  BY DEF TypeOK, Procs, Copies
<1>b. \A s \in DOMAIN writes : TrueStatement(s)
  BY DEF Truth
<1>1. ASSUME NEW i \in TaskId, StartJob(w, i) PROVE Truth'
  <2>. DEFINE s1 == Statement(w, "run", i, CreateQueued(w, i))
              s2 == Statement(w, "run", i, "running")
              B == writes (+) SetToBag({s1})
  <2>1. TrueStatement(s1) /\ TrueStatement(s2)
    <3>1. TrueStatement(s1)
      BY <1>a, TrueCopy
    <3>2. TrueStatement(s2)
      BY DEF TrueStatement, Statement
    <3>. QED BY <3>1, <3>2
  <2>2. IsABag(B) /\ DOMAIN B = DOMAIN writes \union {s1}
    BY <1>a, BagAdds
  <2>3. writes' = B (+) SetToBag({s2})
    BY <1>1 DEF StartJob
  <2>. HIDE DEF B, s1, s2
  <2>4. DOMAIN writes' = DOMAIN writes \union {s1, s2}
    BY <2>2, <2>3, BagAdds
  <2>5. OutcomesHappened'
    BY <1>1, <1>a DEF StartJob, Truth, OutcomesHappened, TypeOK
  <2>6. \A v \in Consumers : exec'[v] # None => exec'[v] = SourceId(exec'[v].of)
    <3>1. i = SourceId(i.of)
      BY <1>1 DEF StartJob, TaskId, SourceId
    <3>. QED BY <1>1, <3>1 DEF StartJob, Truth, TypeOK
  <2>. QED
    BY <1>1, <1>b, <2>1, <2>4, <2>5, <2>6 DEF StartJob, Truth, TrueStatement
<1>2. CASE JobSucceeds(w)
  <2>. DEFINE i == exec[w]
              st == Statement(w, "run", i, "succeeded")
  <2>1. i \in TaskId
    BY <1>2 DEF JobSucceeds, TypeOK
  <2>2. DOMAIN writes' = DOMAIN writes \union {st}
    BY <1>2, <1>a, BagAdds DEF JobSucceeds, EndRun
  <2>4. OutcomesHappened'
    BY <1>2, <1>a, <2>1 DEF JobSucceeds, EndRun, Truth, OutcomesHappened, TypeOK
  <2>5. \A s \in DOMAIN writes : TrueStatement(s)'
    BY <1>2, <1>b DEF JobSucceeds, TrueStatement
  <2>6. \A v \in Consumers : exec'[v] # None => exec'[v] = SourceId(exec'[v].of)
    BY <1>2 DEF JobSucceeds, Truth, TypeOK
  <2>. QED
    <3>1. ASSUME NEW s \in DOMAIN writes' PROVE TrueStatement(s)'
      <4>1. CASE s \in DOMAIN writes
        BY <4>1, <2>5
      <4>2. CASE s = st
        BY <4>2, <1>2 DEF JobSucceeds, TrueStatement, Statement
      <4>. QED BY <4>1, <4>2, <2>2
    <3>. QED BY <3>1, <2>4, <2>6 DEF Truth, TrueStatement
<1>3. CASE JobFails(w)
  <2>. DEFINE i == exec[w]
              st == Statement(w, "run", i, "failed")
  <2>1. i \in TaskId
    BY <1>3 DEF JobFails, TypeOK
  <2>2. DOMAIN writes' = DOMAIN writes \union {st}
    BY <1>3, <1>a, BagAdds DEF JobFails, EndRun
  <2>3. TrueStatement(st)
    BY DEF TrueStatement, Statement
  <2>4. OutcomesHappened'
    BY <1>3, <1>a, <2>1 DEF JobFails, EndRun, Truth, OutcomesHappened, TypeOK, history
  <2>5. \A v \in Consumers : exec'[v] # None => exec'[v] = SourceId(exec'[v].of)
    BY <1>3 DEF JobFails, Truth, TypeOK
  <2>. HIDE DEF st
  <2>. QED
    BY <1>3, <1>b, <2>2, <2>3, <2>4, <2>5 DEF JobFails, Truth, TrueStatement, history
<1>4. CASE JobDeadLettered(w)
  <2>. DEFINE i == exec[w]
              S == {Statement(w, "run", i, "failed"), Statement(w, "run", i, "dead_lettered"),
                    Statement(w, "dlq", i.of, "open")}
  <2>1. i \in TaskId /\ i.of \in Task /\ i = SourceId(i.of)
    BY <1>4 DEF JobDeadLettered, TypeOK, TaskId, Truth
  <2>2. DOMAIN writes' = DOMAIN writes \union S
    BY <1>4, <1>a, BagAdds DEF JobDeadLettered
  <2>3. gaveUp' = gaveUp \union {i} /\ succeeded' = succeeded
    BY <1>4 DEF JobDeadLettered
  <2>4. OutcomesHappened'
    <3>1. run' = [run EXCEPT ![w][i] = "dead_lettered"] /\ dlq' = [dlq EXCEPT ![w][i.of] = "open"]
      BY <1>4 DEF JobDeadLettered
    <3>2. SUFFICES ASSUME NEW c \in Copies, NEW k \in TaskId
                   PROVE  /\ run'[c][k] = "succeeded" => k \in succeeded'
                          /\ run'[c][k] = "dead_lettered" => k \in gaveUp'
                          /\ dlq'[c][k.of] # "none" => SourceId(k.of) \in gaveUp'
      BY DEF OutcomesHappened
    <3>3. k.of \in Task
      BY DEF TaskId
    <3>4. /\ run'[c][k] = "succeeded" => k \in succeeded'
          /\ run'[c][k] = "dead_lettered" => k \in gaveUp'
      BY <1>a, <2>1, <2>3, <3>1 DEF Truth, OutcomesHappened, TypeOK
    <3>5. dlq'[c][k.of] # "none" => SourceId(k.of) \in gaveUp'
      <4>1. CASE c = w /\ k.of = i.of
        BY <4>1, <2>1, <2>3
      <4>2. CASE ~(c = w /\ k.of = i.of)
        <5>1. dlq'[c][k.of] = dlq[c][k.of]
          BY <4>2, <3>1, <3>3, <1>a, <2>1 DEF TypeOK
        <5>. QED BY <5>1, <2>3 DEF Truth, OutcomesHappened
      <4>. QED BY <4>1, <4>2
    <3>. QED BY <3>4, <3>5
  <2>5. \A v \in Consumers : exec'[v] # None => exec'[v] = SourceId(exec'[v].of)
    BY <1>4 DEF JobDeadLettered, Truth, TypeOK
  <2>6. ASSUME NEW s \in DOMAIN writes' PROVE TrueStatement(s)'
    <3>1. CASE s \in DOMAIN writes
      BY <3>1, <1>b, <2>3 DEF TrueStatement
    <3>2. CASE s \in S
      BY <3>2, <2>1, <2>3 DEF TrueStatement, Statement
    <3>. QED BY <3>1, <3>2, <2>2
  <2>. QED BY <2>4, <2>5, <2>6 DEF Truth, TrueStatement
<1>. QED BY <1>1, <1>2, <1>3, <1>4 DEF ConsumerStep

\* What Postgres stores, and what a process reads back, happened.
LEMMA TruthEnvironment ==
  ASSUME Inv, Truth,
         \/ \E s \in DOMAIN writes : Land(s) \/ Fail(s)
         \/ \E p \in Procs : Restart(p)
         \/ \E i \in TaskId : StallJob(i) \/ EvictJob(i)
         \/ UNCHANGED vars
  PROVE  Truth'
<1>. USE DEF Inv
<1>b. \A s \in DOMAIN writes : TrueStatement(s)
  BY DEF Truth
<1>1. ASSUME NEW s \in DOMAIN writes, Land(s) PROVE Truth'
  <2>1. DOMAIN writes' \subseteq DOMAIN writes
    BY <1>1, BagRemoves DEF Land, TypeOK
  <2>2. s \in Statements /\ TrueStatement(s)
    BY <1>b DEF TypeOK
  <2>3. OutcomesHappened'
    <3>1. CASE s.kind = "run"
      <4>1. run' = [run EXCEPT ![Db][s.id] = s.val] /\ dlq' = dlq
        BY <1>1, <3>1 DEF Land
      <4>. QED
        BY <1>1, <2>2, <3>1, <4>1
        DEF Land, Truth, OutcomesHappened, TrueStatement, TypeOK, Copies, history
    <3>2. CASE s.kind = "dlq"
      <4>1. dlq' = [dlq EXCEPT ![Db][s.id] = s.val] /\ run' = run
        BY <1>1, <3>2 DEF Land
      <4>2. \A i \in TaskId : i.of \in Task
        BY DEF TaskId
      <4>. QED
        BY <1>1, <2>2, <3>2, <4>1, <4>2
        DEF Land, Truth, OutcomesHappened, TrueStatement, TypeOK, Copies, history
    <3>. QED BY <1>1, <3>1, <3>2 DEF Land
  <2>. QED BY <1>1, <1>b, <2>1, <2>3 DEF Land, Truth, TrueStatement, history
<1>2. ASSUME NEW s \in DOMAIN writes, Fail(s) PROVE Truth'
  <2>1. DOMAIN writes' \subseteq DOMAIN writes
    BY <1>2, BagRemoves DEF Fail, TypeOK
  <2>. QED BY <1>2, <1>b, <2>1 DEF Fail, Truth, TrueStatement, OutcomesHappened, records, history
<1>3. ASSUME NEW p \in Procs, Restart(p) PROVE Truth'
  <2>1. OutcomesHappened'
    BY <1>3 DEF Restart, Truth, OutcomesHappened, TypeOK, Copies, history
  <2>2. \A v \in Consumers : exec'[v] # None => exec'[v] = SourceId(exec'[v].of)
    BY <1>3 DEF Restart, Truth, TypeOK
  <2>. QED BY <1>3, <1>b, <2>1, <2>2 DEF Restart, Truth, TrueStatement, history
<1>4. ASSUME NEW i \in TaskId, StallJob(i) \/ EvictJob(i) PROVE Truth'
  BY <1>4 DEF StallJob, EvictJob, Truth, TrueStatement, OutcomesHappened, records, store, history
<1>5. CASE UNCHANGED vars
  BY <1>5 DEF vars, Truth, TrueStatement, OutcomesHappened, records, store, history
<1>. QED BY <1>1, <1>2, <1>3, <1>4, <1>5

\* Nothing has happened and nothing is recorded initially.
LEMMA TruthInit == Init => Truth
<1>1. Init => DOMAIN writes = {}
  BY DEF Init, EmptyBag, SetToBag
<1>2. \A i \in TaskId : i.of \in Task
  BY DEF TaskId
<1>. QED BY <1>1, <1>2 DEF Init, Truth, OutcomesHappened

\* Every step keeps the records true.
LEMMA TruthStep == Inv /\ Truth /\ [Next]_vars => Truth'
BY TruthHandler, TruthConsumer, TruthEnvironment
DEF Next, NewRequests, Settle, BagToSet

\* A run is recorded as succeeded, or a task as a dead letter, in whatever
\* copy and after whatever reordering, loss and restart, only if it happened.
THEOREM RecordsAreTrue == Spec => []OutcomesHappened
<1>1. Truth => OutcomesHappened
  BY DEF Truth
<1>. QED BY <1>1, InvInit, InvStep, TruthInit, TruthStep, PTL DEF Spec

-----------------------------------------------------------------------------
(* The run of a job is stored before the job is added.                     *)

\* The queued run of handler h is stored, or its statement is awaited by h,
\* or a statement failed and the error is still on the list.
Awaited(h) ==
  \/ run[Db][handler[h].id] # "absent"
  \/ errors[Api]
  \/ \E s \in DOMAIN writes :
       s.by = Api /\ s.wait = h /\ s.kind = "run" /\ s.id = handler[h].id

Stored ==
  /\ EnqueuedRunStored
  /\ \A h \in Handler :
       /\ handler[h].phase = "created" => Awaited(h)
       /\ handler[h].phase \in {"adding", "added"} => run[Db][handler[h].id] # "absent"

\* With one request at a time: an enqueue.
LEMMA StoredStart ==
  ASSUME Inv, Stored, NEW h \in Handler, \A g \in Handler : g = h,
         NEW i \in TaskId, StartEnqueue(h, i)
  PROVE  Stored'
<1>. DEFINE st == Statement(Api, "run", i, CreateQueued(Api, i))
            B == writes (+) SetToBag({st})
            u == [st EXCEPT !.wait = h]
<1>1. st \in Statements
  <2>1. CreateQueued(Api, i) \in RunStatus /\ Api \in Procs
    BY DEF CreateQueued, Inv, TypeOK, RunStatus, Procs, Copies
  <2>. QED BY <2>1, StatementTypes
<1>2. IsABag(B) /\ DOMAIN B = DOMAIN writes \union {st}
  BY BagAdds DEF Inv, TypeOK
<1>3. st.by = Api /\ st.wait = None /\ st.kind = "run" /\ st.id = i
  BY DEF Statement
<1>4. u.by = Api /\ u.wait = h /\ u.kind = "run" /\ u.id = i
  BY DEF Statement
<1>5. writes' = Splice(h, B)
  BY DEF StartEnqueue
<1>6. DOMAIN B \subseteq Statements
  BY <1>1, <1>2 DEF Inv, TypeOK
<1>7. u \in DOMAIN writes'
  <2>. HIDE DEF B, st
  <2>. QED BY <1>2, <1>3, <1>5, <1>6, SpliceKeeps
<1>8. handler'[h] = [phase |-> "created", id |-> i]
  BY DEF StartEnqueue, Inv, TypeOK
<1>9. run'[Db] = run[Db] /\ jobs' = jobs
  BY ProcessAssumption DEF StartEnqueue, Inv, TypeOK, Copies, Procs
<1>. HIDE DEF u
<1>10. Awaited(h)'
  BY <1>4, <1>7, <1>8 DEF Awaited
<1>. QED
  BY <1>8, <1>9, <1>10 DEF Stored, EnqueuedRunStored

\* With one request at a time: the other steps of a handler.
LEMMA StoredHandler ==
  ASSUME Inv, Stored, NEW h \in Handler, \A g \in Handler : g = h,
         \/ \E t \in Task, s \in {"assigned", "resolved", "discarded"} : EditDeadLetter(h, t, s)
         \/ OtherRequest(h) \/ HandlerStep(h)
  PROVE  Stored'
<1>. USE DEF Inv
<1>1. ASSUME handler'[h].phase \notin {"created", "adding", "added"},
             run'[Db] = run[Db], jobs' = jobs
      PROVE  Stored'
  BY <1>1 DEF Stored, EnqueuedRunStored
<1>2. CASE \E t \in Task, s \in {"assigned", "resolved", "discarded"} : EditDeadLetter(h, t, s)
  BY <1>1, <1>2 DEF EditDeadLetter, TypeOK, Request
<1>3. CASE OtherRequest(h) \/ SaveBegins(h)
  BY <1>1, <1>3 DEF OtherRequest, SaveBegins, records, TypeOK, Request
<1>4. CASE AddReturns(h)
  BY <1>1, <1>4 DEF AddReturns, TypeOK, Request
<1>5. CASE AddFails(h)
  BY <1>1, <1>5, ProcessAssumption DEF AddFails, TypeOK, Request, Copies, Procs
<1>6. CASE RedisAdds(h)
  <2>1. handler[h].id \in TaskId /\ handler[h].phase = "adding"
    BY <1>6 DEF RedisAdds, HandlerShape
  <2>2. run' = run /\ handler'[h].id = handler[h].id /\ handler'[h].phase = "added"
    BY <1>6 DEF RedisAdds, TypeOK, Request, records
  <2>3. run[Db][handler[h].id] # "absent"
    BY <2>1 DEF Stored
  <2>4. EnqueuedRunStored'
    BY <1>6, <2>1, <2>2, <2>3 DEF RedisAdds, AddJob, JobRecord, TypeOK, Stored, EnqueuedRunStored
  <2>. QED BY <2>2, <2>3, <2>4 DEF Stored
<1>7. CASE FlushReturns(h)
  <2>1. run' = run /\ jobs' = jobs
    BY <1>7 DEF FlushReturns, records
  <2>2. CASE handler[h].phase = "created" /\ ~errors[Api]
    <3>1. handler'[h].phase = "adding" /\ handler'[h].id = handler[h].id
      BY <1>7, <2>2 DEF FlushReturns, FlushFailed, TypeOK, Request
    <3>2. run[Db][handler[h].id] # "absent"
      BY <1>7, <2>2 DEF FlushReturns, Settled, Stored, Awaited
    <3>. QED BY <2>1, <3>1, <3>2 DEF Stored, EnqueuedRunStored
  <2>3. CASE ~(handler[h].phase = "created" /\ ~errors[Api])
    <3>1. handler'[h] = NoRequest
      BY <1>7, <2>3 DEF FlushReturns, FlushFailed, TypeOK
    <3>. QED BY <1>1, <2>1, <3>1 DEF NoRequest
  <2>. QED BY <2>2, <2>3
<1>. QED BY <1>2, <1>3, <1>4, <1>5, <1>6, <1>7 DEF HandlerStep

\* Consumers only add statements.
LEMMA StoredConsumer ==
  ASSUME Inv, Stored, NEW w \in Consumers, ConsumerStep(w)
  PROVE  Stored'
<1>. USE DEF Inv
<1>a. IsABag(writes)
  BY DEF TypeOK
<1>1. DOMAIN writes \subseteq DOMAIN writes'
  <2>1. ASSUME NEW i \in TaskId, StartJob(w, i) PROVE DOMAIN writes \subseteq DOMAIN writes'
    <3>. DEFINE B == writes (+) SetToBag({Statement(w, "run", i, CreateQueued(w, i))})
                st == Statement(w, "run", i, "running")
    <3>1. IsABag(B) /\ DOMAIN writes \subseteq DOMAIN B
      BY <1>a, BagAdds
    <3>2. writes' = B (+) SetToBag({st})
      BY <2>1 DEF StartJob
    <3>. HIDE DEF B, st
    <3>. QED BY <3>1, <3>2, BagAdds
  <2>2. CASE JobSucceeds(w) \/ JobFails(w) \/ JobDeadLettered(w)
    <3>1. PICK S : writes' = writes (+) SetToBag(S)
      BY <2>2 DEF JobSucceeds, JobFails, JobDeadLettered, EndRun
    <3>2. DOMAIN (writes (+) SetToBag(S)) = DOMAIN writes \union S
      BY <1>a, BagAdds
    <3>. QED BY <3>1, <3>2
  <2>. QED BY <2>1, <2>2 DEF ConsumerStep
<1>2. run'[Db] = run[Db] /\ handler' = handler /\ errors' = errors
  BY ProcessAssumption
  DEF ConsumerStep, StartJob, JobSucceeds, JobFails, JobDeadLettered, EndRun, TypeOK, Copies, Procs
<1>3. \A i \in TaskId : jobs'[i].state # "none" => jobs[i].state # "none"
  <2>1. ASSUME NEW i \in TaskId, StartJob(w, i)
        PROVE  \A k \in TaskId : jobs'[k].state # "none" => jobs[k].state # "none"
    BY <2>1 DEF StartJob, TypeOK
  <2>2. ASSUME JobSucceeds(w) \/ JobDeadLettered(w)
        PROVE  \A k \in TaskId : jobs'[k].state # "none" => jobs[k].state # "none"
    BY <2>2, ProcessAssumption DEF JobSucceeds, JobDeadLettered, Completed, TypeOK, JobLimits
  <2>3. ASSUME JobFails(w)
        PROVE  \A k \in TaskId : jobs'[k].state # "none" => jobs[k].state # "none"
    BY <2>3, ProcessAssumption DEF JobFails, TypeOK, JobLimits
  <2>. QED BY <2>1, <2>2, <2>3 DEF ConsumerStep
<1>. QED BY <1>1, <1>2, <1>3 DEF Stored, EnqueuedRunStored, Awaited

\* Postgres, Redis and process starts.
LEMMA StoredEnvironment ==
  ASSUME Inv, Stored,
         \/ \E s \in DOMAIN writes : Land(s) \/ Fail(s)
         \/ \E p \in Procs : Restart(p)
         \/ \E i \in TaskId : StallJob(i) \/ EvictJob(i)
         \/ UNCHANGED vars
  PROVE  Stored'
<1>. USE DEF Inv
<1>1. ASSUME NEW s \in DOMAIN writes, Land(s) PROVE Stored'
  <2>1. DOMAIN writes \ {s} \subseteq DOMAIN writes'
    BY <1>1, BagRemoves DEF Land, TypeOK
  <2>2. s \in Statements
    BY DEF TypeOK
  <2>3. \A i \in TaskId : run[Db][i] # "absent" => run'[Db][i] # "absent"
    BY <1>1, <2>2 DEF Land, Statements, RunStatus, TypeOK, Copies
  <2>4. s.kind = "run" => run'[Db][s.id] # "absent"
    BY <1>1, <2>2 DEF Land, Statements, RunStatus, TypeOK, Copies
  <2>5. handler' = handler /\ errors' = errors /\ jobs' = jobs
    BY <1>1 DEF Land
  <2>6. ASSUME NEW h \in Handler, handler[h].phase = "created" PROVE Awaited(h)'
    <3>1. handler[h].id \in TaskId /\ Awaited(h)
      BY <2>6 DEF HandlerShape, Stored
    <3>. QED BY <2>1, <2>3, <2>4, <2>5, <3>1 DEF Awaited
  <2>. QED BY <2>3, <2>5, <2>6 DEF Stored, EnqueuedRunStored, HandlerShape
<1>2. ASSUME NEW s \in DOMAIN writes, Fail(s) PROVE Stored'
  <2>1. DOMAIN writes \ {s} \subseteq DOMAIN writes'
    BY <1>2, BagRemoves DEF Fail, TypeOK
  <2>2. run' = run /\ handler' = handler /\ jobs' = jobs
    BY <1>2 DEF Fail, records
  <2>3. (errors[Api] => errors'[Api]) /\ (s.by = Api => errors'[Api])
    BY <1>2 DEF Fail, TypeOK, Procs
  <2>. QED BY <2>1, <2>2, <2>3 DEF Stored, EnqueuedRunStored, Awaited
<1>3. ASSUME NEW p \in Procs, Restart(p) PROVE Stored'
  <2>1. run'[Db] = run[Db] /\ jobs' = jobs /\ writes' = writes
    BY <1>3, ProcessAssumption DEF Restart, TypeOK, Copies
  <2>2. CASE p = Api
    <3>1. \A h \in Handler : handler'[h].phase = "idle"
      BY <1>3, <2>2 DEF Restart, NoRequest
    <3>. QED BY <2>1, <3>1 DEF Stored, EnqueuedRunStored
  <2>3. CASE p # Api
    <3>1. handler' = handler /\ errors'[Api] = errors[Api]
      BY <1>3, <2>3 DEF Restart, TypeOK, Procs
    <3>. QED BY <2>1, <3>1 DEF Stored, EnqueuedRunStored, Awaited
  <2>. QED BY <2>2, <2>3
<1>4. ASSUME NEW i \in TaskId, StallJob(i) \/ EvictJob(i) PROVE Stored'
  <2>1. \A k \in TaskId : jobs'[k].state # "none" => jobs[k].state # "none"
    BY <1>4 DEF StallJob, EvictJob, NoJob, JobRecord, TypeOK
  <2>. QED
    BY <1>4, <2>1 DEF StallJob, EvictJob, Stored, EnqueuedRunStored, Awaited, records, store
<1>5. CASE UNCHANGED vars
  BY <1>5 DEF vars, Stored, EnqueuedRunStored, Awaited, records, store
<1>. QED BY <1>1, <1>2, <1>3, <1>4, <1>5

\* When the API serves one request at a time, a task is in BullMQ only if
\* its run is in Postgres.  (With two requests a flush can drop the error
\* that the other one should have seen.)
THEOREM EnqueuesAreStored ==
  ASSUME \A g, h \in Handler : g = h
  PROVE  Spec => []EnqueuedRunStored
<1>1. Init => Stored
  BY DEF Init, Stored, EnqueuedRunStored, NoJob, JobRecord, NoRequest
<1>2. Inv /\ Stored /\ [Next]_vars => Stored'
  <2>. SUFFICES ASSUME Inv, Stored, [Next]_vars PROVE Stored'
    OBVIOUS
  <2>1. CASE NewRequests
    <3>1. \A t \in Task : SourceId(t) \in TaskId /\ RetryId(t) \in TaskId
      BY DEF SourceId, RetryId, TaskId
    <3>. QED
      BY <2>1, <3>1, StoredStart, StoredHandler DEF NewRequests, EnqueueTask, RetryDeadLetter
  <2>2. CASE \E h \in Handler : HandlerStep(h)
    BY <2>2, StoredHandler
  <2>3. CASE \E w \in Consumers : ConsumerStep(w)
    BY <2>3, StoredConsumer
  <2>4. CASE ~NewRequests /\ ~(\E h \in Handler : HandlerStep(h))
             /\ ~(\E w \in Consumers : ConsumerStep(w))
    BY <2>4, StoredEnvironment DEF Next, Settle, BagToSet
  <2>. QED BY <2>1, <2>2, <2>3, <2>4
<1>3. Stored => EnqueuedRunStored
  BY DEF Stored
<1>. QED BY <1>1, <1>2, <1>3, InvInit, InvStep, PTL DEF Spec

-----------------------------------------------------------------------------
(* Dead letters.                                                           *)

\* A job of retry_queue only waits, and is there once queue.add took it.
RetryWaits ==
  /\ RetryBeforeClose
  /\ \A i \in TaskId : i.retry => jobs[i].state \in {"none", "waiting"}
  /\ \A h \in Handler :
       handler[h].phase = "added" /\ handler[h].id.retry => jobs[handler[h].id].state = "waiting"
  /\ \A w \in Consumers : exec[w] # None => ~exec[w].retry

\* Requests of the API keep the jobs of retry_queue.
LEMMA RetryWaitsHandler ==
  ASSUME Inv, RetryWaits, NEW h \in Handler,
         \/ \E i \in TaskId : StartEnqueue(h, i)
         \/ \E t \in Task, s \in {"assigned", "resolved", "discarded"} : EditDeadLetter(h, t, s)
         \/ OtherRequest(h) \/ HandlerStep(h)
  PROVE  RetryWaits'
<1>. USE DEF Inv
<1>1. ASSUME handler'[h].phase # "added",
             \A g \in Handler : g # h => handler'[g] = handler[g],
             jobs' = jobs, exec' = exec, retried' = retried
      PROVE  RetryWaits'
  BY <1>1 DEF RetryWaits, RetryBeforeClose
<1>2. CASE \E i \in TaskId : StartEnqueue(h, i)
  <2>1. PICK i \in TaskId : StartEnqueue(h, i)
    BY <1>2
  <2>2. handler' = [handler EXCEPT ![h] = [phase |-> "created", id |-> i]]
        /\ jobs' = jobs /\ exec' = exec /\ retried' = retried
    BY <2>1 DEF StartEnqueue, history
  <2>. QED BY <1>1, <2>2 DEF TypeOK
<1>3. ASSUME handler' = [handler EXCEPT ![h].phase = "saving"]
             \/ handler' = [handler EXCEPT ![h].phase = "flushing"]
             \/ handler' = [handler EXCEPT ![h].phase = "failing"],
             jobs' = jobs, exec' = exec, retried' = retried
      PROVE  RetryWaits'
  <2>1. handler'[h].phase # "added" /\ \A g \in Handler : g # h => handler'[g] = handler[g]
    BY <1>3 DEF TypeOK, Request
  <2>. QED BY <1>1, <1>3, <2>1
<1>4. CASE \/ \E t \in Task, s \in {"assigned", "resolved", "discarded"} : EditDeadLetter(h, t, s)
           \/ OtherRequest(h) \/ SaveBegins(h) \/ AddFails(h)
  BY <1>3, <1>4 DEF EditDeadLetter, OtherRequest, SaveBegins, AddFails, history
<1>5. CASE FlushReturns(h)
  <2>1. handler'[h].phase # "added"
    BY <1>5 DEF FlushReturns, TypeOK, Request, NoRequest
  <2>. QED BY <1>1, <1>5, <2>1 DEF FlushReturns, TypeOK, history
<1>6. CASE RedisAdds(h)
  <2>. DEFINE i == handler[h].id
  <2>1. i \in TaskId
    BY <1>6 DEF RedisAdds, HandlerShape
  <2>2. jobs' = AddJob(i) /\ handler' = [handler EXCEPT ![h].phase = "added"]
        /\ exec' = exec /\ retried' = retried
    BY <1>6 DEF RedisAdds
  <2>3. \A k \in TaskId : jobs'[k] = jobs[k] \/ (k = i /\ jobs'[k].state = "waiting")
    BY <2>1, <2>2 DEF AddJob, JobRecord, TypeOK
  <2>4. jobs'[i].state # "none"
    BY <2>1, <2>2 DEF AddJob, JobRecord, TypeOK
  <2>5. \A k \in TaskId : k.retry => jobs'[k].state \in {"none", "waiting"}
    BY <2>3 DEF RetryWaits
  <2>6. \A g \in Handler : handler'[g].phase = "added" /\ handler'[g].id.retry =>
          jobs'[handler'[g].id].state = "waiting"
    <3>. SUFFICES ASSUME NEW g \in Handler, handler'[g].phase = "added", handler'[g].id.retry
                  PROVE  jobs'[handler'[g].id].state = "waiting"
      OBVIOUS
    <3>1. CASE g = h
      <4>1. handler'[g].id = i
        BY <3>1, <2>2 DEF TypeOK, Request
      <4>. QED BY <4>1, <2>1, <2>4, <2>5
    <3>2. CASE g # h
      <4>1. handler'[g] = handler[g] /\ handler[g].id \in TaskId
        BY <3>2, <2>2 DEF TypeOK, HandlerShape
      <4>. QED BY <4>1, <2>3 DEF RetryWaits
    <3>. QED BY <3>1, <3>2
  <2>7. \A t \in retried : RetryId(t) \in TaskId
    BY DEF TypeOK, RetryId, TaskId
  <2>. QED
    BY <2>2, <2>3, <2>5, <2>6, <2>7 DEF RetryWaits, RetryBeforeClose
<1>7. CASE AddReturns(h)
  <2>. DEFINE i == handler[h].id
  <2>1. i \in TaskId /\ handler[h].phase = "added"
    BY <1>7 DEF AddReturns, AddAwaited, HandlerShape
  <2>2. handler' = [handler EXCEPT ![h].phase = "saving"] /\ jobs' = jobs /\ exec' = exec
    BY <1>7 DEF AddReturns
  <2>3. i.retry => i = RetryId(i.of) /\ jobs[i].state = "waiting"
    BY <2>1 DEF RetryId, TaskId, RetryWaits
  <2>4. retried' = retried \/ (i.retry /\ retried' = retried \union {i.of})
    BY <1>7 DEF AddReturns
  <2>5. RetryBeforeClose'
    BY <2>2, <2>3, <2>4 DEF RetryWaits, RetryBeforeClose
  <2>. QED BY <2>2, <2>5 DEF RetryWaits, TypeOK, Request
<1>. QED BY <1>2, <1>4, <1>5, <1>6, <1>7 DEF HandlerStep

\* Consumers and Redis leave the jobs of retry_queue alone.
LEMMA RetryWaitsOther ==
  ASSUME Inv, RetryWaits,
         \/ \E w \in Consumers : ConsumerStep(w)
         \/ \E s \in DOMAIN writes : Land(s) \/ Fail(s)
         \/ \E p \in Procs : Restart(p)
         \/ \E i \in TaskId : StallJob(i) \/ EvictJob(i)
         \/ UNCHANGED vars
  PROVE  RetryWaits'
<1>. USE DEF Inv
<1>1. ASSUME \A i \in TaskId : i.retry => jobs'[i] = jobs[i],
             \A g \in Handler : handler'[g] = handler[g] \/ handler'[g].phase = "idle",
             \A w \in Consumers : exec'[w] # None => ~exec'[w].retry,
             retried' = retried
      PROVE  RetryWaits'
  <2>1. \A t \in retried : RetryId(t) \in TaskId /\ RetryId(t).retry
    BY DEF TypeOK, RetryId, TaskId
  <2>2. \A g \in Handler : handler[g].phase = "added" => handler[g].id \in TaskId
    BY DEF HandlerShape
  <2>. QED BY <1>1, <2>1, <2>2 DEF RetryWaits, RetryBeforeClose
<1>2. ASSUME NEW w \in Consumers, ConsumerStep(w) PROVE RetryWaits'
  <2>1. ASSUME NEW i \in TaskId, StartJob(w, i) PROVE RetryWaits'
    BY <1>1, <2>1 DEF StartJob, TypeOK, RetryWaits
  <2>2. CASE JobSucceeds(w) \/ JobDeadLettered(w)
    BY <1>1, <2>2 DEF JobSucceeds, JobDeadLettered, Completed, TypeOK, RetryWaits
  <2>3. CASE JobFails(w)
    BY <1>1, <2>3 DEF JobFails, TypeOK, RetryWaits, history
  <2>. QED BY <1>2, <2>1, <2>2, <2>3 DEF ConsumerStep
<1>3. ASSUME NEW s \in DOMAIN writes, Land(s) \/ Fail(s) PROVE RetryWaits'
  BY <1>3 DEF Land, Fail, RetryWaits, RetryBeforeClose, history
<1>4. ASSUME NEW p \in Procs, Restart(p) PROVE RetryWaits'
  <2>1. \A g \in Handler : handler'[g] = handler[g] \/ handler'[g].phase = "idle"
    BY <1>4 DEF Restart, NoRequest
  <2>2. \A w \in Consumers : exec'[w] # None => ~exec'[w].retry
    BY <1>4 DEF Restart, TypeOK, RetryWaits
  <2>. QED BY <1>1, <1>4, <2>1, <2>2 DEF Restart, history
<1>5. ASSUME NEW i \in TaskId, StallJob(i) \/ EvictJob(i) PROVE RetryWaits'
  <2>1. ~i.retry
    BY <1>5 DEF StallJob, EvictJob, RetryWaits
  <2>2. \A k \in TaskId : k.retry => jobs'[k] = jobs[k]
    BY <1>5, <2>1 DEF StallJob, EvictJob, TypeOK
  <2>. QED BY <1>1, <1>5, <2>2 DEF StallJob, EvictJob, RetryWaits, history
<1>6. CASE UNCHANGED vars
  BY <1>6 DEF vars, RetryWaits, RetryBeforeClose, history
<1>. QED BY <1>2, <1>3, <1>4, <1>5, <1>6

\* A dead letter closed by the retry route has its retry queued.
THEOREM RetriesAreQueued == Spec => []RetryBeforeClose
<1>1. Init => RetryWaits
  BY DEF Init, RetryWaits, RetryBeforeClose, NoJob, JobRecord, NoRequest
<1>2. Inv /\ RetryWaits /\ [Next]_vars => RetryWaits'
  <2>1. \A t \in Task : SourceId(t) \in TaskId /\ RetryId(t) \in TaskId
    BY DEF SourceId, RetryId, TaskId
  <2>. QED
    BY <2>1, RetryWaitsHandler, RetryWaitsOther
    DEF Next, NewRequests, EnqueueTask, RetryDeadLetter, Settle, BagToSet
<1>3. RetryWaits => RetryBeforeClose
  BY DEF RetryWaits
<1>. QED BY <1>1, <1>2, <1>3, InvInit, InvStep, PTL DEF Spec

\* A dead letter the API closed stays closed the same way until its restart.
THEOREM LettersCloseOnce == Spec => ClosedOnce
<1>. DEFINE Same == \A t \in Task : dlq[Api][t] \in Closed /\ restarts' = restarts =>
                                      dlq'[Api][t] = dlq[Api][t]
<1>1. Inv /\ [Next]_vars => Same
  <2>. SUFFICES ASSUME Inv, [Next]_vars PROVE Same
    OBVIOUS
  <2>. USE DEF Inv
  <2>1. CASE NewRequests
    <3>1. \/ dlq' = dlq
          \/ \E t \in Task, s \in {"assigned", "resolved", "discarded"} :
               dlq' = [dlq EXCEPT ![Api][t] = EditedLetter(@, s)]
      BY <2>1 DEF NewRequests, EnqueueTask, RetryDeadLetter, StartEnqueue, EditDeadLetter,
                  OtherRequest, records
    <3>. QED BY <3>1 DEF EditedLetter, TypeOK, Closed
  <2>2. ASSUME NEW h \in Handler, HandlerStep(h) PROVE Same
    <3>1. CASE AddReturns(h)
      <4>1. dlq' = dlq \/ dlq' = [dlq EXCEPT ![Api][handler[h].id.of] =
                                    EditedLetter(dlq[Api][handler[h].id.of], "resolved")]
        BY <3>1 DEF AddReturns
      <4>. QED BY <4>1 DEF EditedLetter, Closed, TypeOK
    <3>. QED
      BY <2>2, <3>1 DEF HandlerStep, FlushReturns, RedisAdds, AddFails, SaveBegins, records
  <2>3. ASSUME NEW w \in Consumers, ConsumerStep(w) PROVE Same
    BY <2>3, ProcessAssumption
    DEF ConsumerStep, StartJob, JobSucceeds, JobFails, JobDeadLettered, TypeOK, Copies, Procs
  <2>4. ASSUME NEW s \in DOMAIN writes, Land(s) \/ Fail(s) PROVE Same
    BY <2>4, ProcessAssumption DEF Land, Fail, records, TypeOK, Copies, Procs
  <2>5. ASSUME NEW p \in Procs, Restart(p) PROVE Same
    BY <2>5 DEF Restart, TypeOK
  <2>6. ASSUME NEW i \in TaskId, StallJob(i) \/ EvictJob(i) PROVE Same
    BY <2>6 DEF StallJob, EvictJob, records
  <2>7. CASE UNCHANGED vars
    BY <2>7 DEF vars, records
  <2>. QED BY <2>1, <2>2, <2>3, <2>4, <2>5, <2>6, <2>7 DEF Next, Settle, BagToSet
<1>2. Inv /\ [Next]_vars => [Same]_vars
  BY <1>1
<1>. QED BY <1>2, InvInit, InvStep, PTL DEF Spec, ClosedOnce
=============================================================================
