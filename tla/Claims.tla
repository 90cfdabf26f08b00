------------------------------- MODULE Claims -------------------------------
(***************************************************************************)
(* IdempotencyService and PostgresIdempotencyService (packages/db/src/     *)
(* queue.ts): guarded work is claimed by key, and every call mirrors the   *)
(* record of its key into idempotency_keys with a statement that nothing   *)
(* orders against the others.                                              *)
(*                                                                         *)
(* Only tests call the service.  The callers here follow the five steps    *)
(* that docs/architecture/queues-and-workers.md gives (acquire, execute,   *)
(* commit, fail, release), flush in the turn of each call, and do not go   *)
(* on when a flush throws.  With two of them WorkOnce fails, on one key    *)
(* because a late "released" overtakes an acquisition, on two because one  *)
(* caller's flush takes the other's error.                                 *)
(***************************************************************************)
EXTENDS Naturals, FiniteSets

CONSTANTS
    Keys,               \* idempotency keys
    Callers,            \* requests or jobs of the one process that runs
    Uses,               \* the keys a caller claims
    MaxClaimCalls,      \* bound: calls of the service
    MaxClaimCrashes     \* bound: restarts

ASSUME ClaimsAssumption ==
    /\ Uses \in [Callers -> SUBSET Keys]
    /\ {MaxClaimCalls, MaxClaimCrashes} \subseteq Nat

VARIABLES
    records,        \* status of each key in the process, "none" without one
    keyRows,        \* the same in idempotency_keys
    keyWrites,      \* statements in flight, also those of a process that died
    pendingWrites,  \* those no flush has taken yet
    keyErrors,      \* persistenceErrors is not empty
    callerAt,       \* where each caller is, with what its flush waits for
    workDone,       \* history: times the guarded work of a key was executed
    claimCalls, claimCrashes

claimVars == <<records, keyRows, keyWrites, pendingWrites, keyErrors, callerAt,
               workDone, claimCalls, claimCrashes>>

KeyStatuses == {"acquired", "committed", "failed", "released"}
KeyWrites == [key : Keys, status : KeyStatuses, nth : 1 .. MaxClaimCalls]
Away == [step |-> "idle", key |-> "none", awaits |-> {}]

ClaimsTypeOK ==
    /\ records \in [Keys -> KeyStatuses \cup {"none"}]
    /\ keyRows \in [Keys -> KeyStatuses \cup {"none"}]
    /\ pendingWrites \subseteq keyWrites /\ keyWrites \subseteq KeyWrites
    /\ keyErrors \in BOOLEAN
    /\ \A c \in Callers : callerAt[c].step \in {"claiming", "holding", "worked"} =>
          records[callerAt[c].key] = "acquired"

ClaimsInit ==
    /\ records = [k \in Keys |-> "none"] /\ keyRows = records
    /\ keyWrites = {} /\ pendingWrites = {} /\ keyErrors = FALSE
    /\ callerAt = [c \in Callers |-> Away]
    /\ workDone = [k \in Keys |-> 0]
    /\ claimCalls = 0 /\ claimCrashes = 0

\* May a key with this status be acquired?
GrantableUnlessHeld(status) == status # "acquired"
Grantable(status) == status \in {"none", "released"}

\* Where a caller goes whose flush returns.
NextStepEager(step) == "holding"
NextStep(step) == IF step = "claiming" THEN "holding" ELSE step

\* A call leaves the record of k in this status and mirrors it.
persistRecord(k, status) ==
    LET write == [key |-> k, status |-> status, nth |-> claimCalls + 1]
    IN  /\ claimCalls < MaxClaimCalls /\ claimCalls' = claimCalls + 1
        /\ records' = [records EXCEPT ![k] = status]
        /\ keyWrites' = keyWrites \cup {write}
        /\ UNCHANGED <<keyRows, keyErrors, claimCrashes>>

\* flushPersistence, in the same turn: the caller waits for every statement no
\* other flush has taken.
Flushing(c, step, k) ==
    /\ callerAt' = [callerAt EXCEPT ![c] =
          [step |-> step, key |-> k,
           awaits |-> pendingWrites \cup (keyWrites' \ keyWrites)]]
    /\ pendingWrites' = {}

\* A refused acquisition writes the record as it is and is not flushed.
acquire(c, k) ==
    /\ callerAt[c].step = "idle" /\ k \in Uses[c]
    /\ \/ /\ Grantable(records[k])
          /\ persistRecord(k, "acquired") /\ Flushing(c, "claiming", k)
       \/ /\ ~Grantable(records[k])
          /\ persistRecord(k, records[k])
          /\ pendingWrites' = pendingWrites \cup (keyWrites' \ keyWrites)
          /\ UNCHANGED callerAt
    /\ UNCHANGED workDone

Execute(c) ==
    /\ callerAt[c].step = "holding"
    /\ callerAt' = [callerAt EXCEPT ![c].step = "worked"]
    /\ workDone' = [workDone EXCEPT ![callerAt[c].key] = @ + 1]
    /\ UNCHANGED <<records, keyRows, keyWrites, pendingWrites, keyErrors,
                   claimCalls, claimCrashes>>

\* What a caller may do with its claim: commit the work it executed, give up
\* work it did not execute, and release what failed.
Transitions == [worked |-> {"committed"}, holding |-> {"failed", "released"},
                failing |-> {"released"}]
transition(c, status) ==
    LET at == callerAt[c]
    IN  /\ at.step \in {"worked", "holding", "failing"} /\ at.awaits = {}
        /\ status \in Transitions[at.step]
        /\ persistRecord(at.key, status)
        /\ Flushing(c, IF status = "failed" THEN "failing" ELSE "closing", at.key)
        /\ UNCHANGED workDone

\* A flush returns once its statements have settled; it throws, and the caller
\* gives up, when any statement failed since the last one that threw.
Settled(c) ==
    /\ callerAt[c].awaits # {} /\ callerAt[c].awaits \cap keyWrites = {}
    /\ callerAt' = [callerAt EXCEPT ![c] =
          IF keyErrors \/ @.step = "closing" THEN Away
          ELSE [step |-> NextStep(@.step), key |-> @.key, awaits |-> {}]]
    /\ keyErrors' = FALSE
    /\ UNCHANGED <<records, keyRows, keyWrites, pendingWrites, workDone,
                   claimCalls, claimCrashes>>

\* Postgres executes a statement, in any order, or refuses it.
Written(w) ==
    /\ keyWrites' = keyWrites \ {w} /\ pendingWrites' = pendingWrites \ {w}
    /\ \/ keyRows' = [keyRows EXCEPT ![w.key] = w.status] /\ UNCHANGED keyErrors
       \/ keyErrors' = TRUE /\ UNCHANGED keyRows
    /\ UNCHANGED <<records, callerAt, workDone, claimCalls, claimCrashes>>

\* A restart reads the records back; what was sent may still be executed.
hydrateKeys ==
    /\ claimCrashes < MaxClaimCrashes /\ claimCrashes' = claimCrashes + 1
    /\ records' = keyRows
    /\ callerAt' = [c \in Callers |-> Away]
    /\ pendingWrites' = {} /\ keyErrors' = FALSE
    /\ UNCHANGED <<keyRows, keyWrites, workDone, claimCalls>>

ClaimsNext ==
    \/ \E c \in Callers :
          \/ \E k \in Keys : acquire(c, k)
          \/ Execute(c)
          \/ \E status \in KeyStatuses : transition(c, status)
          \/ Settled(c)
    \/ \E w \in keyWrites : Written(w)
    \/ hydrateKeys

ClaimsSpec == ClaimsInit /\ [][ClaimsNext]_claimVars

-----------------------------------------------------------------------------
\* The work a key guards is executed at most once, over restarts, late and
\* failed statements and refused acquisitions, as long as one caller at a time
\* uses the service ("Irreversible-equivalent work must not run unless
\* idempotency acquisition succeeds").
WorkOnce == \A k \in Keys : workDone[k] <= 1
=============================================================================
