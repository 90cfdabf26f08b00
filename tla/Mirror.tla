------------------------------- MODULE Mirror -------------------------------
(***************************************************************************)
(* PostgresRuntimeDatabase (packages/db/src/index.ts): every write goes to *)
(* the in-memory maps at once and to Postgres through a statement of its   *)
(* own, sent over a pool of connections, so statements in flight together  *)
(* may execute in any order.  Only a conversation, its messages and their  *)
(* classifications are chained.  The schema (migrations.ts) refuses a      *)
(* statement whose parent row is missing or whose unique key is taken.     *)
(* A restart reads the maps back from the tables.                          *)
(*                                                                         *)
(* A row is [table, key, nth]: nth numbers the rows whose id is a fresh    *)
(* uuid, and is 0 for a row that is found again by its key.  A row holds a *)
(* stamp (the call that wrote it) per group of columns; an absent column   *)
(* is NULL.  One process writes; the audit rows that accompany a call are  *)
(* fresh, refer to nothing and are left to recordAuditEvent.               *)
(***************************************************************************)
EXTENDS Naturals, FiniteSets, Functions

CONSTANTS
    Vacancies,      \* vacancies, which also name their thread, event, ...
    UrlKey,         \* canonical URL of each vacancy (buildDedupKey)
    Surfaces,       \* the tables the calls of this instance touch
    MaxCalls,       \* bound: calls of the database
    MaxLost,        \* bound: statements lost with their connection
    MaxReopens      \* bound: restarts

ASSUME MirrorAssumption ==
    /\ UrlKey \in [Vacancies -> Vacancies]
    /\ {MaxCalls, MaxLost, MaxReopens} \subseteq Nat

VARIABLES
    mem,        \* rows of the in-memory maps
    pg,         \* rows of the tables
    flight,     \* statements sent or chained, not yet settled
    refused,    \* statements that failed since the process started
    raced,      \* rows two statements in flight together were about
    calls, lost, reopens

mirrorVars == <<mem, pg, flight, refused, raced, calls, lost, reopens>>

Columns == {"state", "submitted", "proof"}
\* The tables hydrate reads, as it reads them.
JobTables == {"normalized_jobs", "job_scores", "dedup_jobs"}
RunTables == {"search_runs", "policy_checks"}
ProviderTables ==
    {"provider_health_checks", "provider_canary_runs", "automation_replay_reports"}
ApplicationTables == {"application_artifacts", "applications"}
ThreadTables == {"conversations", "inbound_messages", "message_classifications"}
ReviewTables == {"manual_review_items", "approval_requests", "audit_logs"}
EvidenceTables == {"release_evidence", "interview_events"}
OutboundTables == {"outbound_dispatch_proofs"}
ModeTables == {"system_config"}
HydratedTables ==
    UNION {JobTables, RunTables, ProviderTables, ApplicationTables, ThreadTables,
           ReviewTables, EvidenceTables, OutboundTables, ModeTables}
Tables == HydratedTables \cup {"source_providers"}

Row(table, key) == [table |-> table, key |-> key, nth |-> 0]
Fresh(table, key) == [table |-> table, key |-> key, nth |-> calls + 1]
Rows == [table : Tables, key : Vacancies, nth : 0 .. MaxCalls]
RowsOf(db, table) == {row \in DOMAIN db : row.table = table}

\* The values of f over those of g, and a row of db under a new value.
Onto(f, g) ==
    [x \in DOMAIN f \cup DOMAIN g |-> IF x \in DOMAIN f THEN f[x] ELSE g[x]]
Put(db, row, value) == Onto([r \in {row} |-> value], db)

---------------------------------------------------------------------------
(* The schema.                                                             *)

\* REFERENCES of the rows a statement inserts: parents a row of each table
\* needs.  needs lists the ones whose column the statement does not leave NULL.
JobParent(row) ==
    IF row.table \in {"job_scores", "dedup_jobs", "applications"}
    THEN {Row("normalized_jobs", row.key)} ELSE {}
ArtifactParent(row) ==
    IF row.table = "application_artifacts" THEN {Row("applications", row.key)} ELSE {}
MessageParent(row) ==
    CASE row.table = "inbound_messages" -> {Row("conversations", row.key)}
      [] row.table = "message_classifications" -> {Row("inbound_messages", row.key)}
      [] OTHER -> {}
EventParents(row) ==
    IF row.table = "interview_events"
    THEN {Row("normalized_jobs", row.key), Row("conversations", row.key)} ELSE {}
Parents(row) ==
    JobParent(row) \cup ArtifactParent(row) \cup MessageParent(row) \cup EventParents(row)

\* dedup_jobs_canonical_url_key_uidx: ON CONFLICT (provider_job_key) does not
\* cover this second unique index, and the statement is refused.
UrlTaken(row) ==
    /\ row.table = "dedup_jobs"
    /\ \E other \in RowsOf(pg, "dedup_jobs") :
          other # row /\ UrlKey[other.key] = UrlKey[row.key]

---------------------------------------------------------------------------
(* Statements.  how: what a row that exists already makes of it.  needs:   *)
(* parents the inserted values name.  after: the statement it waits for.   *)

Statement(row, how, set, needs) ==
    [row |-> row, how |-> how, set |-> set, needs |-> needs, after |-> {},
     stamp |-> calls + 1, error |-> "none"]
Whole == [c \in {"state"} |-> calls + 1]
Insert(row) == Statement(row, "insert", Whole, Parents(row))
InsertOrIgnore(row) == Statement(row, "ignore", Whole, Parents(row))
Upsert(row) == Statement(row, "merge", Whole, Parents(row))
Update(row, set) == Statement(row, "update", set, {})

\* persist: the statement joins the ones in flight.  Rows two statements are
\* about at once may end up with either's value.
Together(s, x) ==
    /\ s.row = x.row
    /\ DOMAIN s.set \cap DOMAIN x.set # {} \/ {s.how, x.how} # {"update"}
Persist(statements) ==
    /\ flight' = flight \cup statements
    /\ raced' = raced \cup {s.row : s \in {t \in statements : \E x \in flight : Together(t, x)}}
    /\ calls' = calls + 1
    /\ UNCHANGED <<pg, refused, lost, reopens>>

Holds(row, value) == mem' = Put(mem, row, value)
Stored(row) == row \in DOMAIN mem

---------------------------------------------------------------------------
(* One action per override, for a vacancy v (or what it stands for).       *)

upsertJob(v) == LET row == Row("normalized_jobs", v) IN
    Holds(row, Whole) /\ Persist({Upsert(row)})
saveScore(v) == LET row == Row("job_scores", v) IN
    /\ Stored(Row("normalized_jobs", v))
    /\ Holds(row, Whole) /\ Persist({Upsert(row)})
saveDedupDecision(v) == LET row == Row("dedup_jobs", v) IN
    /\ Stored(Row("normalized_jobs", v))
    /\ Holds(row, Whole) /\ Persist({Upsert(row)})

\* An application known by its idempotency key is returned, nothing is sent.
createApplication(v) == LET row == Row("applications", v) IN
    /\ Stored(Row("normalized_jobs", v)) /\ ~ Stored(row)
    /\ Holds(row, Whole) /\ Persist({Upsert(row)})

\* submittedAt may be absent, an instant or null; COALESCE keeps what the
\* row has when it is absent or null.
setApplicationStatus(v) == LET row == Row("applications", v) IN
    /\ Stored(row)
    /\ \/ /\ Holds(row, Onto(Whole, mem[row]))
          /\ Persist({Update(row, Whole)})
       \/ LET set == [c \in {"state", "submitted"} |-> calls + 1] IN
          /\ Holds(row, Onto(set, mem[row]))
          /\ Persist({Update(row, set)})
       \/ /\ Holds(row, Onto(Whole, Restrict(mem[row], DOMAIN mem[row] \ {"submitted"})))
          /\ Persist({Update(row, Whole)})

\* The application's column is written too, when the proof is about one.
recordProofPack(v) ==
    LET row == Fresh("application_artifacts", v)
        application == Row("applications", v)
        proof == [c \in {"proof"} |-> calls + 1]
    IN  IF Stored(application)
        THEN /\ mem' = Put(Put(mem, application, Onto(proof, mem[application])), row, Whole)
             /\ Persist({Insert(row), Update(application, proof)})
        ELSE /\ Holds(row, Whole)
             /\ Persist({[Insert(row) EXCEPT !.needs = {}]})

\* An open item of the same entity and reason is returned and sent again.
createManualReview(v) ==
    LET open == {row \in RowsOf(mem, "manual_review_items") :
                    row.key = v /\ mem[row].state = row.nth}
    IN  IF open = {}
        THEN LET row == Fresh("manual_review_items", v) IN
             Holds(row, Whole) /\ Persist({InsertOrIgnore(row)})
        ELSE /\ Persist({[InsertOrIgnore(row) EXCEPT !.set = mem[row]] : row \in open})
             /\ UNCHANGED mem
\* Mutant: the override of the in-memory method is missing.
resolvedInMemory(v) == \E row \in RowsOf(mem, "manual_review_items") :
    row.key = v /\ Holds(row, Whole) /\ Persist({})
\* A deferred item keeps its status.
resolveManualReview(v) == \E row \in RowsOf(mem, "manual_review_items") :
    /\ row.key = v
    /\ \/ Holds(row, Whole) /\ Persist({Update(row, Whole)})
       \/ UNCHANGED mem /\ Persist({Update(row, mem[row])})

createApprovalRequest(v) ==
    LET pending == {row \in RowsOf(mem, "approval_requests") :
                       row.key = v /\ mem[row].state = row.nth}
    IN  IF pending = {}
        THEN LET row == Fresh("approval_requests", v) IN
             Holds(row, Whole) /\ Persist({InsertOrIgnore(row)})
        ELSE /\ Persist({[InsertOrIgnore(row) EXCEPT !.set = mem[row]] : row \in pending})
             /\ UNCHANGED mem
\* Null when it is unknown or resolved already: nothing is sent.
resolveApprovalRequest(v) == \E row \in RowsOf(mem, "approval_requests") :
    /\ row.key = v /\ mem[row].state = row.nth
    /\ Holds(row, Whole) /\ Persist({Update(row, Whole)})
\* Every pending request past its expiry, the ones of v here.
expireApprovalRequests(v) ==
    LET expired == {row \in RowsOf(mem, "approval_requests") :
                       row.key = v /\ mem[row].state = row.nth}
    IN  /\ expired # {}
        /\ mem' = Onto([row \in expired |-> Whole], mem)
        /\ Persist({Update(row, Whole) : row \in expired})

\* A check is a row of its own; the map keeps the latest of a provider.
updateProviderHealth(v) ==
    LET row == Fresh("provider_health_checks", v)
        older == {x \in RowsOf(mem, "provider_health_checks") : x.key = v}
    IN  /\ mem' = Put(Restrict(mem, DOMAIN mem \ older), row, Whole)
        /\ Persist({Insert(row), Upsert(Row("source_providers", v))})

recordPolicyCheck(v) == LET row == Fresh("policy_checks", v) IN
    Holds(row, Whole) /\ Persist({InsertOrIgnore(row)})
recordSearchRun(v) == LET row == Fresh("search_runs", v) IN
    Holds(row, Whole) /\ Persist({Insert(row)})
recordCanaryRun(v) == LET row == Fresh("provider_canary_runs", v) IN
    Holds(row, Whole) /\ Persist({Insert(row)})
recordReplayReport(v) == LET row == Row("automation_replay_reports", v) IN
    Holds(row, Whole) /\ Persist({Upsert(row)})
recordReleaseEvidence(v) == LET row == Row("release_evidence", v) IN
    Holds(row, Whole) /\ Persist({Upsert(row)})
recordAuditEvent(v) == LET row == Fresh("audit_logs", v) IN
    Holds(row, Whole) /\ Persist({InsertOrIgnore(row)})
setMode(v) == LET row == Row("system_config", v) IN
    Holds(row, Whole) /\ Persist({Upsert(row)})

\* A known message is returned.  Otherwise its conversation is sent, and the
\* message once the conversation is stored.
SentAt(row) == {s \in flight \cup refused : s.row = row /\ s.how # "update"}
AfterRow(s, others) == [s EXCEPT !.after = {[row |-> x.row, stamp |-> x.stamp] : x \in others}]
upsertInboundMessage(v) ==
    LET row == Row("inbound_messages", v)
        thread == Row("conversations", v)
        held == IF Stored(thread) THEN mem[thread] ELSE Whole
        sent == [InsertOrIgnore(thread) EXCEPT !.set = held]
    IN  /\ ~ Stored(row)
        /\ mem' = Put(Put(mem, thread, held), row, Whole)
        /\ Persist({sent, AfterRow(InsertOrIgnore(row), {sent})})

\* Mutant: the classification is sent at once.
AtOnce(s, row) == s
\* Waits for the message of this process; one read back at start is stored.
AfterMessage(s, row) == AfterRow(s, SentAt(row))
saveMessageClassification(v) ==
    LET row == Row("message_classifications", v)
        message == Row("inbound_messages", v)
    IN  /\ Stored(message)
        /\ Holds(row, Whole) /\ Persist({AfterMessage(Upsert(row), message)})

\* The record kept is the input's unless ShouldUpdate keeps the older one,
\* and then nothing is sent.
recordOutboundDispatch(v) == LET row == Row("outbound_dispatch_proofs", v) IN
    Holds(row, Whole) /\ Persist({Upsert(row)})
\* job_id and conversation_id are the request's, each may be null.
recordInterviewEvent(v) == LET row == Row("interview_events", v) IN
    \E needs \in SUBSET Parents(row) :
        /\ \A parent \in needs : Stored(parent)
        /\ Holds(row, Whole) /\ Persist({[Upsert(row) EXCEPT !.needs = needs]})

---------------------------------------------------------------------------
(* Postgres, and the process.                                              *)

Waits(s) == \E x \in flight : [row |-> x.row, stamp |-> x.stamp] \in s.after
ChainBroken(s) == \E x \in refused : [row |-> x.row, stamp |-> x.stamp] \in s.after
ErrorOf(s) ==
    IF ChainBroken(s) THEN "predecessor"
    ELSE IF ~ (s.needs \subseteq DOMAIN pg) THEN "foreign_key"
    ELSE IF s.how # "update" /\ UrlTaken(s.row) THEN "unique"
    ELSE "none"
Applied(s) ==
    IF s.row \in DOMAIN pg
    THEN IF s.how = "ignore" THEN pg ELSE Put(pg, s.row, Onto(s.set, pg[s.row]))
    ELSE IF s.how = "update" THEN pg ELSE Put(pg, s.row, s.set)

\* The statement executes, or fails and its error is kept.
Settle(s) ==
    /\ ~ Waits(s)
    /\ flight' = flight \ {s}
    /\ IF ErrorOf(s) = "none"
       THEN pg' = Applied(s) /\ UNCHANGED refused
       ELSE refused' = refused \cup {[s EXCEPT !.error = ErrorOf(s)]} /\ UNCHANGED pg
    /\ UNCHANGED <<mem, raced, calls, lost, reopens>>

\* The connection fails under the statement.
LoseStatement(s) ==
    /\ ~ Waits(s) /\ lost < MaxLost
    /\ flight' = flight \ {s}
    /\ refused' = refused \cup {[s EXCEPT !.error = "connection"]}
    /\ lost' = lost + 1
    /\ UNCHANGED <<mem, pg, raced, calls, reopens>>

\* hydrate reads the tables; of the health checks the latest of a provider.
Latest(row) ==
    row.table = "provider_health_checks" =>
        \A x \in RowsOf(pg, row.table) : x.key = row.key => x.nth <= row.nth
Hydrated == Restrict(pg, {row \in DOMAIN pg : row.table \in HydratedTables /\ Latest(row)})

\* The process ends with its statements and reads its maps back.
Reopen ==
    /\ reopens < MaxReopens
    /\ reopens' = reopens + 1
    /\ mem' = Hydrated
    /\ flight' = {} /\ refused' = {} /\ raced' = {}
    /\ UNCHANGED <<pg, calls, lost>>

MirrorInit ==
    /\ mem = << >> /\ pg = << >>
    /\ flight = {} /\ refused = {} /\ raced = {}
    /\ calls = 0 /\ lost = 0 /\ reopens = 0

Called(table, v) ==
    \/ table = "normalized_jobs" /\ upsertJob(v)
    \/ table = "job_scores" /\ saveScore(v)
    \/ table = "dedup_jobs" /\ saveDedupDecision(v)
    \/ table = "applications" /\ createApplication(v)
    \/ table = "applications" /\ setApplicationStatus(v)
    \/ table = "application_artifacts" /\ recordProofPack(v)
    \/ table = "manual_review_items" /\ createManualReview(v)
    \/ table = "manual_review_items" /\ resolveManualReview(v)
    \/ table = "approval_requests" /\ createApprovalRequest(v)
    \/ table = "approval_requests" /\ resolveApprovalRequest(v)
    \/ table = "approval_requests" /\ expireApprovalRequests(v)
    \/ table = "provider_health_checks" /\ updateProviderHealth(v)
    \/ table = "policy_checks" /\ recordPolicyCheck(v)
    \/ table = "search_runs" /\ recordSearchRun(v)
    \/ table = "provider_canary_runs" /\ recordCanaryRun(v)
    \/ table = "automation_replay_reports" /\ recordReplayReport(v)
    \/ table = "release_evidence" /\ recordReleaseEvidence(v)
    \/ table = "audit_logs" /\ recordAuditEvent(v)
    \/ table = "system_config" /\ setMode(v)
    \/ table = "inbound_messages" /\ upsertInboundMessage(v)
    \/ table = "message_classifications" /\ saveMessageClassification(v)
    \/ table = "outbound_dispatch_proofs" /\ recordOutboundDispatch(v)
    \/ table = "interview_events" /\ recordInterviewEvent(v)

MirrorNext ==
    \/ calls < MaxCalls /\ \E table \in Surfaces, v \in Vacancies : Called(table, v)
    \/ \E s \in flight : Settle(s)
    \/ \E s \in flight : LoseStatement(s)
    \/ Reopen

MirrorSpec == MirrorInit /\ [][MirrorNext]_mirrorVars

---------------------------------------------------------------------------
(* Properties.                                                             *)

\* The maps, the tables and the statements hold rows with stamps of calls made.
MirrorTypeOK ==
    /\ \A db \in {mem, pg} : DOMAIN db \subseteq Rows
    /\ \A row \in DOMAIN mem : mem[row].state \in 1 .. calls
    /\ \A row \in DOMAIN pg : DOMAIN pg[row] \subseteq Columns /\ "state" \in DOMAIN pg[row]
    /\ \A s \in flight \cup refused : s.row \in Rows /\ s.needs \subseteq Rows

\* What hydrate would read is what the process holds, for every row that has
\* no statement in flight, none that failed, and that no two statements were
\* about at once: the overrides send every change of the maps, and hydrate
\* reads all of them back.  (A column set back to null in memory is not
\* compared: COALESCE keeps the stored one.)
Disturbed == {s.row : s \in flight \cup refused} \cup raced
QuietRowsStored ==
    \A row \in DOMAIN mem \ Disturbed :
        /\ row \in DOMAIN Hydrated
        /\ \A c \in DOMAIN mem[row] : c \in DOMAIN pg[row] /\ pg[row][c] = mem[row][c]

\* A message and its classification wait for the rows they refer to: while no
\* connection fails, neither is ever refused.
ChainedNeverRefused ==
    lost = 0 =>
        \A s \in refused : s.row.table \notin {"inbound_messages", "message_classifications"}

\* "Persisted runtime surfaces currently include: ... dedup decisions"
\* (docs/architecture/runtime-state.md): a decision taken is stored, unless its
\* statement is in flight, overtook the vacancy's, or lost its connection.
DecisionsStored ==
    \A row \in RowsOf(mem, "dedup_jobs") :
        \/ row \in DOMAIN pg
        \/ \E s \in flight : s.row = row
        \/ \E s \in refused : s.row = row /\ s.error \in {"foreign_key", "connection"}
=============================================================================
