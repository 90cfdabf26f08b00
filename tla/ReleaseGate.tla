---------------------------- MODULE ReleaseGate ----------------------------
\* The release gate: a ledger of dated evidence, the canary runs of the
\* providers, and the report of GET /release-gates that says whether live
\* automation may be enabled.  The API server answers from its own copy; the
\* canary worker and the submit worker write to Postgres.  Names are prefixed,
\* so that a model can hold this machine beside others.
EXTENDS Integers, FiniteSets

CONSTANTS
  GateProviders,    \* registered providers
  AutoApply,        \* those with the autoApply capability and a submit boundary
  Configured,       \* those with an entry in PROVIDER_CONFIG_JSON
  LiveRuntime,      \* those with runtimeKind "live"
  Packed,           \* those with a selector pack and fingerprints
  CanaryAge,        \* canaryMaxAgeHours, in units of time
  SoakSpan,         \* seven days, in units of time
  SubmitTtl,        \* life of the evidence a submit records
  GateHorizon,      \* bound: the time that is looked at
  MaxEvidence,      \* bound: records posted
  MaxCanaries       \* bound: canary runs

ASSUME GateAssumption ==
  /\ AutoApply \subseteq GateProviders /\ Configured \subseteq GateProviders
  /\ LiveRuntime \subseteq GateProviders /\ Packed \subseteq GateProviders
  /\ {CanaryAge, SubmitTtl, MaxEvidence, MaxCanaries} \subseteq Nat
  /\ {SoakSpan, GateHorizon} \subseteq Nat \ {0}

NoProvider == "no provider"
EvidenceTypes == {"live_credentials_configured", "external_secrets_backend",
  "live_canary_passed", "provider_submit_proof_ready", "calendar_integration_ready",
  "seven_day_soak_passed", "outbound_dispatch_proof_ready"}
ProviderTypes == {"live_canary_passed", "provider_submit_proof_ready"}
GlobalTypes == EvidenceTypes \ ProviderTypes
\* No expiry.
Forever == -1
Instants == 0..(GateHorizon + 3)

\* A record; at is the source timestamp of its metadata (checkedAt, completedAt,
\* submittedAt, deliveredAt), from the start of a soak, sound the rest of the
\* metadata: a live source, no template, no raw secret, all fields of its type.
Evidence == [by : {"post", "submit"}, n : 0..MaxEvidence, type : EvidenceTypes,
             provider : GateProviders \cup {NoProvider}, status : {"passed", "failed"},
             observed : Instants, at : Instants, from : Int, expires : Nat \cup {Forever},
             sound : BOOLEAN]
CanaryRuns == [provider : GateProviders, passed : BOOLEAN, at : Instants]

VARIABLES
  gateClock,
  ledger,       \* release evidence: "api", the server's copy, and "db", Postgres
  canaries,     \* canary runs, in the same two places
  submitting,   \* since when the submit worker waits for the provider, or Forever
  posted        \* bound: records posted

gateVars == <<gateClock, ledger, canaries, submitting, posted>>

GateTypeOK ==
  /\ gateClock \in 0..GateHorizon /\ posted \in 0..MaxEvidence
  /\ \A v \in {"api", "db"} : ledger[v] \subseteq Evidence /\ canaries[v] \subseteq CanaryRuns
  /\ submitting \in [AutoApply -> Instants \cup {Forever}]
  /\ \A v \in {"api", "db"} : \A r, s \in ledger[v] :
       r.by = "submit" /\ s.by = "submit" /\ r.provider = s.provider => r = s

-----------------------------------------------------------------------------
\* validateReleaseEvidenceRecord finds no failure.
ValidRecord(r, now) ==
  /\ r.sound
  /\ r.observed <= now /\ r.at <= now
  /\ r.observed = r.at
  /\ r.expires # Forever /\ r.expires > r.at
  /\ r.type \in ProviderTypes => r.provider \in GateProviders
  /\ r.type = "seven_day_soak_passed" => r.from < r.at /\ r.at - r.from >= SoakSpan

Unexpired(r, now) == r.expires = Forever \/ r.expires > now

\* ReleaseEvidenceEvaluator.summarize
Accepted(v, now) ==
  {r \in ledger[v] : r.status = "passed" /\ Unexpired(r, now) /\ ValidRecord(r, now)}
Covered(v, now) ==
  /\ \A t \in GlobalTypes : \E r \in Accepted(v, now) : r.type = t
  /\ GateProviders # {}
  /\ \A p \in GateProviders : \E r \in Accepted(v, now) :
       r.type = "live_canary_passed" /\ r.provider = p
  /\ \E r \in Accepted(v, now) : r.type = "provider_submit_proof_ready"

\* buildProviderReadinessEvidenceFromReleaseEvidence: what the ledger says of
\* canaries, the failed ones included.
CanaryEvidencePassedOnly(v, p, now) ==
  {[at |-> r.at, n |-> r.n, passed |-> TRUE] : r \in
     {x \in Accepted(v, now) : x.type = "live_canary_passed" /\ x.provider = p}}
CanaryEvidence(v, p, now) ==
  {[at |-> r.at, n |-> r.n, passed |-> r.status = "passed" /\ ValidRecord(r, now)] : r \in
     {x \in ledger[v] : x.type = "live_canary_passed" /\ x.provider = p /\ Unexpired(x, now)}}

\* canaryStatusForProvider: the latest of the runs and of the evidence, if it is
\* recent; of two of one instant the one listed last.
Looked(v, p, now) ==
  {[at |-> c.at, n |-> 0, passed |-> c.passed] : c \in {x \in canaries[v] : x.provider = p}}
    \cup CanaryEvidence(v, p, now)
CanaryStatusPassed(v, p, now) ==
  \E c \in Looked(v, p, now) :
    /\ \A d \in Looked(v, p, now) : d.at < c.at \/ (d.at = c.at /\ d.n <= c.n)
    /\ c.at <= now /\ now - c.at <= CanaryAge
    /\ c.passed

\* evaluateProviderReadiness in production: readyForControlledAutoApply,
\* of a provider whose healthcheck answers "stable"; another answer closes the gate.
Ready(v, p, now) ==
  /\ p \in Configured /\ p \in Packed /\ p \in LiveRuntime
  /\ CanaryStatusPassed(v, p, now)
  \* a replay report: every passed canary evidence is one
  /\ \E c \in CanaryEvidence(v, p, now) : c.passed

\* ReleaseGateEvaluator.evaluate, in a mode that needs the gate and with
\* irreversible actions and an external secrets backend configured.
GateOpen(v, now) ==
  /\ AutoApply # {} /\ \A p \in AutoApply : Ready(v, p, now)
  /\ Covered(v, now)

-----------------------------------------------------------------------------
\* A record that is in order at time t and expires d later.
InOrder(n, type, p, t, d) ==
  [by |-> "post", n |-> n, type |-> type, provider |-> p, status |-> "passed",
   observed |-> t, at |-> t, from |-> IF type = "seven_day_soak_passed" THEN t - SoakSpan ELSE t,
   expires |-> t + d, sound |-> TRUE]

\* The ledger Postgres holds when the server starts: the global evidence, and
\* that of the providers or not.
Kept == {InOrder(0, t, NoProvider, 0, GateHorizon + 1) : t \in GlobalTypes}
GateInit ==
  /\ gateClock = 0
  /\ \E ps \in {{}, GateProviders}, missing \in {{}, {"seven_day_soak_passed"}} :
       LET rows == {r \in Kept : r.type \notin missing}
                     \cup {InOrder(0, "live_canary_passed", p, 0, GateHorizon) : p \in ps}
                     \cup {InOrder(0, "provider_submit_proof_ready", p, 0, GateHorizon) :
                             p \in ps \cap AutoApply}
       IN ledger = [v \in {"api", "db"} |-> rows]
  /\ canaries = [v \in {"api", "db"} |-> {}]
  /\ submitting = [p \in AutoApply |-> Forever]
  /\ posted = 0

\* Requests differ in what the validation looks at; a passed record that is out
\* of order in two ways is refused as one that is in one.  Only canaries are
\* read when they failed.
Requests(n) ==
  LET good == {InOrder(n, type, p, t, d) : type \in ProviderTypes, p \in AutoApply,
                 t \in 0..(gateClock + 1), d \in 1..2}
                \cup {InOrder(n, type, NoProvider, t, 2) :
                        type \in {"seven_day_soak_passed"}, t \in 0..gateClock}
  IN good
     \cup {[r EXCEPT !.status = "failed"] :
              r \in {x \in good : x.type = "live_canary_passed"}}
     \cup {[r EXCEPT !.sound = FALSE] : r \in good}
     \cup {[r EXCEPT !.expires = Forever] : r \in good}
     \cup {[r EXCEPT !.observed = gateClock] : r \in good}
     \cup {[r EXCEPT !.from = r.from + 1] :
              r \in {x \in good : x.type = "seven_day_soak_passed"}}

\* POST /release-evidence.  A request without a status is one that passed.
AcceptedIfSound(r) == r.status = "passed" => r.sound /\ Unexpired(r, gateClock)
AcceptedRequest(r) ==
  r.status = "passed" => ValidRecord(r, gateClock) /\ r.expires > gateClock

PostEvidence ==
  /\ posted < MaxEvidence
  /\ \E r \in Requests(posted + 1) :
       /\ AcceptedRequest(r)
       /\ posted' = posted + 1
       /\ ledger' = [v \in {"api", "db"} |-> ledger[v] \cup {r}]
  /\ UNCHANGED <<gateClock, canaries, submitting>>

\* The submit worker notes the time and awaits the provider.
SubmitStarts(p) ==
  /\ submitting[p] = Forever
  /\ submitting' = [submitting EXCEPT ![p] = gateClock]
  /\ UNCHANGED <<gateClock, ledger, canaries, posted>>

\* recordProviderSubmitReleaseEvidence: one record per provider, which replaces
\* the one before it.
SubmitEvidence(p) ==
  [InOrder(0, "provider_submit_proof_ready", p, submitting[p], SubmitTtl)
     EXCEPT !.by = "submit", !.observed = gateClock]
SubmitReturns(p) ==
  /\ submitting[p] # Forever
  /\ submitting' = [submitting EXCEPT ![p] = Forever]
  /\ ledger' = [ledger EXCEPT !["db"] =
       {r \in @ : ~(r.by = "submit" /\ r.provider = p)} \cup {SubmitEvidence(p)}]
  /\ UNCHANGED <<gateClock, canaries, posted>>

\* The canary worker: CanaryRunner looks at the selector pack and at the
\* fingerprints of a provider, not at its site.
RunCanaries ==
  /\ Cardinality(canaries["db"]) < MaxCanaries
  /\ canaries' = [canaries EXCEPT !["db"] =
       @ \cup {[provider |-> p, passed |-> p \in Packed, at |-> gateClock] : p \in AutoApply}]
  /\ UNCHANGED <<gateClock, ledger, submitting, posted>>

ServerRestarts ==
  /\ ledger' = [ledger EXCEPT !["api"] = ledger["db"]]
  /\ canaries' = [canaries EXCEPT !["api"] = canaries["db"]]
  /\ UNCHANGED <<gateClock, submitting, posted>>

GateTick ==
  /\ gateClock < GateHorizon
  /\ gateClock' = gateClock + 1
  /\ UNCHANGED <<ledger, canaries, submitting, posted>>

GateNext ==
  \/ PostEvidence \/ RunCanaries \/ ServerRestarts \/ GateTick
  \/ \E p \in AutoApply : SubmitStarts(p) \/ SubmitReturns(p)

GateSpec == GateInit /\ [][GateNext]_gateVars

-----------------------------------------------------------------------------
\* Properties.

\* What POST /release-evidence takes as passed the summary accepts until it
\* expires, in the server's copy and in one it reads after a restart: the
\* validation of a request and the evaluation, which come at different times,
\* never disagree, and no posted record turns into an invalid_release_evidence
\* blocker.
PostedStaysAccepted ==
  \A v \in {"api", "db"} : \A r \in ledger[v] :
    r.by = "post" /\ r.status = "passed" /\ r.expires > gateClock
      => r \in Accepted(v, gateClock)

\* An open gate has seen, for every provider that submits, a canary that passed
\* within the last CanaryAge and is not older than any failed live canary
\* evidence that is still current.
FailedCanaryBlocks ==
  GateOpen("api", gateClock) =>
    \A p \in AutoApply :
      \E c \in Looked("api", p, gateClock) :
        /\ c.passed /\ gateClock - c.at <= CanaryAge
        /\ \A r \in ledger["api"] :
             /\ r.type = "live_canary_passed" /\ r.provider = p
             /\ r.status = "failed" /\ Unexpired(r, gateClock)
             => r.at <= c.at

\* The evidence a successful submit records on its own is accepted like posted
\* evidence while it is current.
WorkerProofAccepted ==
  \A r \in ledger["db"] :
    r.by = "submit" /\ Unexpired(r, gateClock) => r \in Accepted("db", gateClock)

\* Live canaries are passing when the gate is open: of the live canary evidence
\* of a provider, the latest says so.
GateFollowsLiveCanaries ==
  GateOpen("api", gateClock) =>
    \A p \in AutoApply : \A r \in ledger["api"] :
      r.type = "live_canary_passed" /\ r.provider = p /\ r.status = "failed"
        => \E s \in Accepted("api", gateClock) :
             s.type = "live_canary_passed" /\ s.provider = p /\ s.at >= r.at
=============================================================================
