---------------------------- MODULE MirrorProofs ----------------------------
(***************************************************************************)
(* Proofs about Mirror, for any vacancies, tables and bounds.              *)
(*                                                                         *)
(* A row of the maps that no failed statement and no race has spoilt is    *)
(* faithful: what the map has in each column is stored or on its way, no   *)
(* statement on its way would store anything else, and the order in which  *)
(* they arrive cannot matter.  A message and its classification wait for   *)
(* the rows they refer to.                                                 *)
(***************************************************************************)
EXTENDS Mirror, TLAPS

-----------------------------------------------------------------------------
(* The invariant.                                                          *)

NotKept == {"source_providers", "provider_health_checks"}

IsStatement(s) ==
  /\ DOMAIN s = {"row", "how", "set", "needs", "after", "stamp", "error"}
  /\ s.how \in {"insert", "ignore", "merge", "update"}

\* The numbers of rows are those of calls made.
Numbered(row) == row.nth \in 0 .. calls

\* The maps hold the rows they will hold after a restart: rows of the tables
\* hydrate reads, of the health checks the latest, and all that is sent.
MapsComplete ==
  /\ \A r \in DOMAIN mem :
       /\ r.table \in HydratedTables
       /\ r.table = "provider_health_checks" =>
            \A x \in DOMAIN pg \cup {s.row : s \in flight} :
              x.table = r.table /\ x.key = r.key => x.nth <= r.nth
  /\ \A r \in DOMAIN pg \cup {s.row : s \in flight} :
       r.table \notin NotKept => r \in DOMAIN mem

\* Statements about a row that cannot disturb each other.
OneByOne(r) ==
  \A s, x \in flight : s.row = r /\ x.row = r /\ s # x => ~ Together(s, x)
\* A row whose statements are all updates is there for them.
Created(r) ==
  (\A s \in flight : s.row = r => s.how = "update") => r \in DOMAIN pg
StoredAt(r, c) == r \in DOMAIN pg /\ c \in DOMAIN pg[r] /\ pg[r][c] = mem[r][c]
\* Each column of the map is stored, or on its way.
Underway(r) ==
  \A c \in DOMAIN mem[r] :
    StoredAt(r, c) \/ \E s \in flight : s.row = r /\ c \in DOMAIN s.set
\* What is on its way is what the map has.
SentAsHeld(r) ==
  \A s \in flight : \A c \in DOMAIN s.set \cap DOMAIN mem[r] :
    s.row = r => s.set[c] = mem[r][c]
\* A statement that a stored row ignores had nothing to add.
IgnoredHarmlessly(r) ==
  \A s \in flight :
    s.row = r /\ s.how = "ignore" /\ r \in DOMAIN pg => \A c \in DOMAIN mem[r] : StoredAt(r, c)
Faithful(r) ==
  OneByOne(r) /\ Created(r) /\ Underway(r) /\ SentAsHeld(r) /\ IgnoredHarmlessly(r)
Spoilt == {s.row : s \in refused} \cup raced

MirrorInv ==
  /\ calls \in Nat
  /\ \A s \in flight : IsStatement(s)
  /\ \A r \in DOMAIN mem \cup DOMAIN pg \cup {s.row : s \in flight} : Numbered(r)
  /\ MapsComplete
  /\ \A r \in DOMAIN mem \ Spoilt : Faithful(r)

Parent(r) == r.table \in {"conversations", "inbound_messages"}
Coming(r, s) == s.row = r /\ s.how # "update"
ChainInv ==
  /\ lost \in Nat
  /\ lost = 0 =>
       /\ \A s \in refused : s.row.table \notin ThreadTables
       /\ \A r \in DOMAIN mem : Parent(r) =>
            r \in DOMAIN pg \/ \E x \in flight : Coming(r, x)
       /\ \A s \in flight : s.row.table \in ThreadTables =>
            /\ \A a \in s.after : Parent(a.row)
            /\ \A p \in s.needs :
                 \/ p \in DOMAIN pg
                 \/ \E x \in flight : Coming(p, x) /\ [row |-> x.row, stamp |-> x.stamp] \in s.after

-----------------------------------------------------------------------------
(* Functions, rows and statements.                                         *)

LEMMA OntoFacts ==
  ASSUME NEW f, NEW g
  PROVE  \A x :
           /\ x \in DOMAIN Onto(f, g) <=> x \in DOMAIN f \/ x \in DOMAIN g
           /\ x \in DOMAIN f => Onto(f, g)[x] = f[x]
           /\ x \in DOMAIN g /\ x \notin DOMAIN f => Onto(f, g)[x] = g[x]
  BY DEF Onto

LEMMA PutFacts ==
  ASSUME NEW db, NEW row, NEW value
  PROVE  \A x :
           /\ x \in DOMAIN Put(db, row, value) <=> x \in DOMAIN db \/ x = row
           /\ x = row => Put(db, row, value)[x] = value
           /\ x \in DOMAIN db /\ x # row => Put(db, row, value)[x] = db[x]
<1> DEFINE one == [r \in {row} |-> value]
<1>1. \A x : /\ x \in DOMAIN one <=> x = row
             /\ x = row => one[x] = value
  OBVIOUS
<1>2. Put(db, row, value) = Onto(one, db) BY DEF Put
<1> HIDE DEF one
<1> QED BY <1>1, <1>2, OntoFacts

LEMMA PutTwice ==
  ASSUME NEW db, NEW r1, NEW value1, NEW r2, NEW value2, r1 # r2
  PROVE  \A x :
           LET new == Put(Put(db, r1, value1), r2, value2)
           IN  /\ x \in DOMAIN new <=> x \in DOMAIN db \/ x = r1 \/ x = r2
               /\ x = r1 => new[x] = value1
               /\ x = r2 => new[x] = value2
               /\ x \in DOMAIN db /\ x # r1 /\ x # r2 => new[x] = db[x]
  BY PutFacts

LEMMA RowFacts ==
  ASSUME NEW table, NEW key
  PROVE  /\ Row(table, key).table = table /\ Row(table, key).key = key
         /\ Row(table, key).nth = 0
         /\ Fresh(table, key).table = table /\ Fresh(table, key).key = key
         /\ Fresh(table, key).nth = calls + 1
  BY DEF Row, Fresh

\* A fresh row is unknown.
LEMMA FreshUnknown ==
  ASSUME MirrorInv, NEW table, NEW key
  PROVE  Fresh(table, key) \notin DOMAIN mem \cup DOMAIN pg \cup {s.row : s \in flight}
<1>1. calls \in Nat /\ Fresh(table, key).nth = calls + 1 BY RowFacts DEF MirrorInv
<1> QED BY <1>1 DEF MirrorInv, Numbered

LEMMA StatementFields ==
  ASSUME NEW row, NEW how \in {"insert", "ignore", "merge", "update"}, NEW set, NEW needs
  PROVE  LET s == Statement(row, how, set, needs)
         IN  /\ IsStatement(s) /\ s.row = row /\ s.how = how /\ s.set = set
             /\ s.needs = needs /\ s.after = {}
  BY DEF Statement, IsStatement

LEMMA IgnoreFields ==
  ASSUME NEW row
  PROVE  LET s == InsertOrIgnore(row)
         IN  /\ IsStatement(s) /\ s.row = row /\ s.how = "ignore" /\ s.set = Whole
             /\ s.needs = Parents(row) /\ s.after = {}
  BY StatementFields DEF InsertOrIgnore

LEMMA TogetherFacts ==
  ASSUME NEW s, NEW x, s.row = x.row, ~ Together(s, x)
  PROVE  /\ s.how = "update" /\ x.how = "update" /\ DOMAIN s.set \cap DOMAIN x.set = {}
         /\ ~ Together(x, s)
  BY DEF Together

LEMMA MirrorInvInit == MirrorInit => MirrorInv /\ ChainInv
<1> SUFFICES ASSUME MirrorInit PROVE MirrorInv /\ ChainInv
  OBVIOUS
<1>1. DOMAIN mem = {} /\ DOMAIN pg = {} BY DEF MirrorInit
<1> QED BY <1>1 DEF MirrorInit, MirrorInv, MapsComplete, ChainInv

-----------------------------------------------------------------------------
(* A call: what every one of them does to the maps and sends.              *)

Written(r, s) ==
  /\ s.row = r
  /\ \A c \in DOMAIN mem'[r] :
       \/ c \in DOMAIN s.set /\ s.set[c] = mem'[r][c]
       \/ /\ s.how = "update" /\ c \notin DOMAIN s.set
          /\ c \in DOMAIN mem[r] /\ mem'[r][c] = mem[r][c]
  /\ s.how = "update" => r \in DOMAIN mem
  /\ s.how = "ignore" /\ r \in DOMAIN mem => mem'[r] = mem[r]
KeptBy(r, N) ==
  r \in DOMAIN mem /\ mem'[r] = mem[r] /\ \A s \in N : s.row # r

Fits(N) ==
  /\ Persist(N)
  /\ \A s \in N :
       /\ IsStatement(s) /\ s.row.nth \in 0 .. calls + 1
       /\ s.row \in DOMAIN mem' \/ s.row.table = "source_providers"
       /\ s.row.table = "provider_health_checks" =>
            \A r \in DOMAIN mem' : r.table = s.row.table /\ r.key = s.row.key => r = s.row
  /\ \A s, x \in N : s.row = x.row => s = x
  /\ \A r \in DOMAIN mem' : KeptBy(r, N) \/ \E s \in N : Written(r, s)
  /\ \A r \in DOMAIN mem' \ DOMAIN mem :
       /\ r.table \in HydratedTables /\ r.nth \in 0 .. calls + 1
       /\ r.table = "provider_health_checks" => r.nth = calls + 1
  /\ \A r \in DOMAIN mem \ DOMAIN mem' : r.table = "provider_health_checks"

Chains(N) ==
  lost = 0 =>
    /\ \A r \in DOMAIN mem' : Parent(r) => r \in DOMAIN mem \/ \E x \in N : Coming(r, x)
    /\ \A s \in N : s.row.table \in ThreadTables =>
         /\ \A a \in s.after : Parent(a.row)
         /\ \A p \in s.needs :
              \/ p \in DOMAIN pg
              \/ \E x \in flight \cup N :
                   Coming(p, x) /\ [row |-> x.row, stamp |-> x.stamp] \in s.after

Handled == \E N : Fits(N) /\ Chains(N)

LEMMA NewUnknown ==
  ASSUME MirrorInv, NEW N, Fits(N), NEW r \in DOMAIN mem' \ DOMAIN mem
  PROVE  r \notin DOMAIN pg \cup {s.row : s \in flight}
<1>1. /\ r.table \in HydratedTables
      /\ r.table = "provider_health_checks" => r.nth = calls + 1
  BY DEF Fits
<1>2. r.table # "source_providers"
  BY <1>1 DEF HydratedTables, JobTables, RunTables, ProviderTables, ApplicationTables,
              ThreadTables, ReviewTables, EvidenceTables, OutboundTables, ModeTables
<1>3. CASE r.table = "provider_health_checks"
  BY <1>1, <1>3 DEF MirrorInv, Numbered
<1>4. CASE r.table # "provider_health_checks"
  BY <1>2, <1>4 DEF MirrorInv, MapsComplete, NotKept
<1> QED BY <1>3, <1>4

LEMMA FitsFaithful ==
  ASSUME MirrorInv, NEW N, Fits(N), NEW r \in DOMAIN mem', r \notin Spoilt'
  PROVE  Faithful(r)'
<1>1. /\ flight' = flight \cup N /\ pg' = pg /\ refused' = refused
      /\ \A s \in N : s.row = r => \A x \in flight : ~ Together(s, x)
      /\ r \notin Spoilt
  BY DEF Fits, Persist, Spoilt
<1>2. r \in DOMAIN mem => Faithful(r) BY <1>1 DEF MirrorInv
<1>3. r \notin DOMAIN mem => r \notin DOMAIN pg /\ \A x \in flight : x.row # r
  BY NewUnknown
<1>4. CASE KeptBy(r, N)
  <2>1. /\ r \in DOMAIN mem /\ mem'[r] = mem[r] /\ Faithful(r)
        /\ \A s \in flight' : s.row = r <=> s \in flight /\ s.row = r
    BY <1>1, <1>2, <1>4 DEF KeptBy
  <2>2. OneByOne(r)' BY <2>1 DEF Faithful, OneByOne
  <2>3. Created(r)' BY <1>1, <2>1 DEF Faithful, Created
  <2>4. Underway(r)'
    <3>1. \A c \in DOMAIN mem'[r] :
            StoredAt(r, c) \/ \E s \in flight' : s.row = r /\ c \in DOMAIN s.set
      BY <1>1, <2>1 DEF Faithful, Underway
    <3> QED BY <1>1, <2>1, <3>1 DEF Underway, StoredAt
  <2>5. SentAsHeld(r)' BY <2>1 DEF Faithful, SentAsHeld
  <2>6. IgnoredHarmlessly(r)'
    BY <1>1, <2>1 DEF Faithful, IgnoredHarmlessly, StoredAt
  <2> QED BY <2>2, <2>3, <2>4, <2>5, <2>6 DEF Faithful
<1>5. CASE \E s \in N : Written(r, s)
  <2>1. PICK s0 \in N : Written(r, s0) BY <1>5
  <2>2. \A s \in flight' : s.row = r => s = s0 \/ (s \in flight /\ r \in DOMAIN mem)
    BY <1>1, <1>3, <2>1 DEF Fits, Written
  <2>3. \A x \in flight : x.row = r =>
          /\ s0.how = "update" /\ x.how = "update" /\ DOMAIN s0.set \cap DOMAIN x.set = {}
          /\ ~ Together(s0, x) /\ ~ Together(x, s0)
    BY <1>1, <2>1, TogetherFacts DEF Written
  <2>4. /\ s0 \in flight' /\ s0.row = r
        /\ s0.how = "update" => r \in DOMAIN mem
        /\ s0.how = "ignore" /\ r \in DOMAIN mem => mem'[r] = mem[r]
        /\ \A c \in DOMAIN mem'[r] :
             \/ c \in DOMAIN s0.set /\ s0.set[c] = mem'[r][c]
             \/ /\ s0.how = "update" /\ c \notin DOMAIN s0.set
                /\ c \in DOMAIN mem[r] /\ mem'[r][c] = mem[r][c]
    BY <1>1, <2>1 DEF Written
  <2>5. OneByOne(r)' BY <1>2, <2>2, <2>3 DEF Faithful, OneByOne
  <2>6. Created(r)'
    <3> SUFFICES ASSUME \A s \in flight' : s.row = r => s.how = "update"
                 PROVE  r \in DOMAIN pg'
      BY DEF Created
    <3>1. r \in DOMAIN mem BY <2>4
    <3> QED BY <1>1, <1>2, <3>1 DEF Faithful, Created
  <2>7. Underway(r)'
    <3> SUFFICES ASSUME NEW c \in DOMAIN mem'[r]
                 PROVE  StoredAt(r, c)' \/ \E s \in flight' : s.row = r /\ c \in DOMAIN s.set
      BY DEF Underway
    <3>1. CASE c \in DOMAIN s0.set BY <2>4, <3>1
    <3>2. CASE c \notin DOMAIN s0.set
      <4>1. /\ r \in DOMAIN mem /\ c \in DOMAIN mem[r] /\ mem'[r][c] = mem[r][c]
        BY <2>4, <3>2
      <4>2. StoredAt(r, c) \/ \E s \in flight : s.row = r /\ c \in DOMAIN s.set
        BY <1>2, <4>1 DEF Faithful, Underway
      <4> QED BY <1>1, <4>1, <4>2 DEF StoredAt
    <3> QED BY <3>1, <3>2
  <2>8. SentAsHeld(r)'
    <3> SUFFICES ASSUME NEW s \in flight', s.row = r, NEW c \in DOMAIN s.set \cap DOMAIN mem'[r]
                 PROVE  s.set[c] = mem'[r][c]
      BY DEF SentAsHeld
    <3>1. CASE s = s0 BY <2>4, <3>1
    <3>2. CASE s # s0
      <4>1. s \in flight /\ r \in DOMAIN mem BY <2>2, <3>2
      <4>2. c \notin DOMAIN s0.set BY <2>3, <4>1
      <4>3. c \in DOMAIN mem[r] /\ mem'[r][c] = mem[r][c] BY <2>4, <4>2
      <4> QED BY <1>2, <4>1, <4>3 DEF Faithful, SentAsHeld
    <3> QED BY <3>1, <3>2
  <2>9. IgnoredHarmlessly(r)'
    <3> SUFFICES ASSUME NEW s \in flight', s.row = r, s.how = "ignore", r \in DOMAIN pg',
                        NEW c \in DOMAIN mem'[r]
                 PROVE  StoredAt(r, c)'
      BY DEF IgnoredHarmlessly
    <3>1. s = s0 /\ \A x \in flight : x.row # r BY <2>2, <2>3
    <3>2. r \in DOMAIN mem BY <1>1, <1>3
    <3>3. mem'[r] = mem[r] BY <2>4, <3>1, <3>2
    <3>4. StoredAt(r, c) BY <1>2, <3>1, <3>2, <3>3 DEF Faithful, Underway
    <3> QED BY <1>1, <3>3, <3>4 DEF StoredAt
  <2> QED BY <2>5, <2>6, <2>7, <2>8, <2>9 DEF Faithful
<1> QED BY <1>4, <1>5 DEF Fits

LEMMA FitsInv ==
  ASSUME MirrorInv, NEW N, Fits(N)
  PROVE  MirrorInv'
<1>1. /\ flight' = flight \cup N /\ pg' = pg /\ calls' = calls + 1 /\ calls \in Nat
  BY DEF Fits, Persist, MirrorInv
<1>2. \A s \in flight' : IsStatement(s) BY <1>1 DEF Fits, MirrorInv
<1>3. \A r \in DOMAIN mem' \cup DOMAIN pg' \cup {s.row : s \in flight'} : Numbered(r)'
  <2>1. \A r : Numbered(r) => Numbered(r)' BY <1>1 DEF Numbered
  <2>2. \A r : r.nth \in 0 .. calls + 1 => Numbered(r)' BY <1>1 DEF Numbered
  <2> QED BY <1>1, <2>1, <2>2 DEF Fits, MirrorInv
<1>4. MapsComplete'
  <2>1. ASSUME NEW r \in DOMAIN mem' PROVE r.table \in HydratedTables
    BY DEF Fits, MirrorInv, MapsComplete
  <2>2. ASSUME NEW r \in DOMAIN mem', r.table = "provider_health_checks",
               NEW x \in DOMAIN pg' \cup {s.row : s \in flight'},
               x.table = r.table, x.key = r.key
        PROVE  x.nth <= r.nth
    <3>1. CASE x \in DOMAIN pg \cup {s.row : s \in flight}
      <4>1. CASE r \in DOMAIN mem BY <2>2, <3>1, <4>1 DEF MirrorInv, MapsComplete
      <4>2. CASE r \notin DOMAIN mem
        <5>1. r.nth = calls + 1 BY <2>2, <4>2 DEF Fits
        <5>2. x.nth \in 0 .. calls BY <3>1 DEF MirrorInv, Numbered
        <5> QED BY <1>1, <5>1, <5>2
      <4> QED BY <4>1, <4>2
    <3>2. CASE x \in {s.row : s \in N}
      <4>1. r = x BY <2>2, <3>2 DEF Fits
      <4>2. x.nth \in 0 .. calls + 1 BY <3>2 DEF Fits
      <4> QED BY <1>1, <4>1, <4>2
    <3> QED BY <1>1, <2>2, <3>1, <3>2
  <2>3. ASSUME NEW r \in DOMAIN pg' \cup {s.row : s \in flight'}, r.table \notin NotKept
        PROVE  r \in DOMAIN mem'
    BY <1>1, <2>3 DEF Fits, MirrorInv, MapsComplete, NotKept
  <2> QED BY <2>1, <2>2, <2>3 DEF MapsComplete
<1>5. \A r \in DOMAIN mem' \ Spoilt' : Faithful(r)' BY FitsFaithful
<1>6. calls' \in Nat BY <1>1
<1> QED BY <1>2, <1>3, <1>4, <1>5, <1>6 DEF MirrorInv

LEMMA ChainsInv ==
  ASSUME ChainInv, NEW N, Persist(N), Chains(N)
  PROVE  ChainInv'
<1>1. flight' = flight \cup N /\ UNCHANGED <<pg, refused, lost>> BY DEF Persist
<1>2. lost' \in Nat BY <1>1 DEF ChainInv
<1> SUFFICES ASSUME lost = 0
             PROVE  /\ \A s \in refused' : s.row.table \notin ThreadTables
                    /\ \A r \in DOMAIN mem' : Parent(r) =>
                         r \in DOMAIN pg' \/ \E x \in flight' : Coming(r, x)
                    /\ \A s \in flight' : s.row.table \in ThreadTables =>
                         /\ \A a \in s.after : Parent(a.row)
                         /\ \A p \in s.needs :
                              \/ p \in DOMAIN pg'
                              \/ \E x \in flight' :
                                   /\ Coming(p, x)
                                   /\ [row |-> x.row, stamp |-> x.stamp] \in s.after
  BY <1>1, <1>2 DEF ChainInv
<1>3. \A s \in refused' : s.row.table \notin ThreadTables BY <1>1 DEF ChainInv
<1>4. ASSUME NEW r \in DOMAIN mem', Parent(r)
      PROVE  r \in DOMAIN pg' \/ \E x \in flight' : Coming(r, x)
  BY <1>1, <1>4 DEF ChainInv, Chains
<1>5. ASSUME NEW s \in flight', s.row.table \in ThreadTables
      PROVE  /\ \A a \in s.after : Parent(a.row)
             /\ \A p \in s.needs :
                  \/ p \in DOMAIN pg'
                  \/ \E x \in flight' :
                       Coming(p, x) /\ [row |-> x.row, stamp |-> x.stamp] \in s.after
  BY <1>1, <1>5 DEF ChainInv, Chains
<1> QED BY <1>3, <1>4, <1>5

-----------------------------------------------------------------------------
(* The calls.                                                              *)

\* Tables whose rows the maps only gain, and that nothing is chained to.
PlainTables == HydratedTables \ (ThreadTables \cup {"provider_health_checks"})

LEMMA PlainTable ==
  /\ \A table \in {"normalized_jobs", "job_scores", "dedup_jobs", "applications",
                   "application_artifacts", "manual_review_items", "approval_requests",
                   "policy_checks", "search_runs", "provider_canary_runs",
                   "automation_replay_reports", "release_evidence", "audit_logs",
                   "system_config", "outbound_dispatch_proofs", "interview_events"} :
       table \in PlainTables
  /\ \A table \in PlainTables :
       /\ table \in HydratedTables /\ table \notin ThreadTables
       /\ table \notin {"provider_health_checks", "conversations", "inbound_messages",
                        "source_providers"}
  BY DEF PlainTables, HydratedTables, JobTables, RunTables, ProviderTables,
         ApplicationTables, ThreadTables, ReviewTables, EvidenceTables, OutboundTables,
         ModeTables

\* A row put in the maps, by the statement sent about it.
LEMMA PutHandled ==
  ASSUME MirrorInv, NEW row, NEW value, NEW s, IsStatement(s), s.row = row,
         Holds(row, value), Persist({s}),
         row.table \in PlainTables, row.nth \in 0 .. calls + 1,
         s.how = "update" => row \in DOMAIN mem,
         s.how = "ignore" => row \notin DOMAIN mem,
         \A c \in DOMAIN value :
           \/ c \in DOMAIN s.set /\ s.set[c] = value[c]
           \/ /\ s.how = "update" /\ c \notin DOMAIN s.set
              /\ c \in DOMAIN mem[row] /\ value[c] = mem[row][c]
  PROVE  Handled
<1>1. /\ DOMAIN mem' = DOMAIN mem \cup {row} /\ mem'[row] = value
      /\ \A r \in DOMAIN mem \ {row} : mem'[r] = mem[r]
  <2>1. \A x : /\ x \in DOMAIN mem' <=> x \in DOMAIN mem \/ x = row
               /\ x = row => mem'[x] = value
               /\ x \in DOMAIN mem /\ x # row => mem'[x] = mem[x]
    BY PutFacts DEF Holds
  <2> QED BY <2>1
<1>2. /\ row.table \in HydratedTables /\ row.table \notin ThreadTables
      /\ row.table # "provider_health_checks" /\ ~ Parent(row)
  BY PlainTable DEF Parent
<1>3. Written(row, s) BY <1>1 DEF Written
<1>4. \A r \in DOMAIN mem' : KeptBy(r, {s}) \/ \E x \in {s} : Written(r, x)
  BY <1>1, <1>3 DEF KeptBy
<1>5. Fits({s}) BY <1>1, <1>2, <1>4 DEF Fits
<1>6. Chains({s}) BY <1>1, <1>2 DEF Chains
<1> QED BY <1>5, <1>6 DEF Handled

\* A new row, or one overwritten whole, with what accompanies it on the way.
LEMMA WholeHandled ==
  ASSUME MirrorInv, NEW row, NEW s, IsStatement(s), s.row = row, s.set = Whole,
         Holds(row, Whole), Persist({s}),
         row.table \in PlainTables, row.nth \in 0 .. calls + 1,
         s.how = "update" => row \in DOMAIN mem,
         s.how = "ignore" => row \notin DOMAIN mem
  PROVE  Handled
<1>1. \A c \in DOMAIN Whole : c \in DOMAIN s.set /\ s.set[c] = Whole[c] OBVIOUS
<1> HIDE DEF Whole
<1> QED BY <1>1, PutHandled

LEMMA UpsertHandled ==
  ASSUME MirrorInv, NEW table \in PlainTables, NEW v,
         Holds(Row(table, v), Whole), Persist({Upsert(Row(table, v))})
  PROVE  Handled
<1> DEFINE row == Row(table, v)
           s == Upsert(row)
<1>1. /\ IsStatement(s) /\ s.row = row /\ s.set = Whole /\ s.how = "merge"
  BY StatementFields DEF Upsert
<1>2. row.table = table /\ row.nth \in 0 .. calls + 1
  BY RowFacts DEF MirrorInv
<1> HIDE DEF row, s
<1>3. Holds(row, Whole) /\ Persist({s}) BY DEF row, s
<1> QED BY <1>1, <1>2, <1>3, WholeHandled

LEMMA FreshHandled ==
  ASSUME MirrorInv, NEW table \in PlainTables, NEW v,
         NEW s \in {Insert(Fresh(table, v)), InsertOrIgnore(Fresh(table, v))},
         Holds(Fresh(table, v), Whole), Persist({s})
  PROVE  Handled
<1> DEFINE row == Fresh(table, v)
<1>1. /\ IsStatement(s) /\ s.row = row /\ s.set = Whole /\ s.how # "update"
  BY StatementFields DEF Insert, InsertOrIgnore
<1>2. row.table = table /\ row.nth \in 0 .. calls + 1 /\ row \notin DOMAIN mem
  <2>1. row.nth = calls + 1 /\ calls \in Nat /\ row.table = table BY RowFacts DEF MirrorInv
  <2> QED BY <2>1, FreshUnknown
<1>3. Holds(row, Whole) OBVIOUS
<1> HIDE DEF row
<1> QED BY <1>1, <1>2, <1>3, WholeHandled

\* A known row changed, and the columns that changed sent.
LEMMA UpdateHandled ==
  ASSUME MirrorInv, NEW row \in DOMAIN mem, row.table \in PlainTables, NEW value, NEW set,
         Holds(row, value), Persist({Update(row, set)}),
         \A c \in DOMAIN value :
           \/ c \in DOMAIN set /\ set[c] = value[c]
           \/ c \notin DOMAIN set /\ c \in DOMAIN mem[row] /\ value[c] = mem[row][c]
  PROVE  Handled
<1> DEFINE s == Update(row, set)
<1>1. IsStatement(s) /\ s.row = row /\ s.set = set /\ s.how = "update"
  BY StatementFields DEF Update
<1>2. row.nth \in 0 .. calls + 1 BY DEF MirrorInv, Numbered
<1> HIDE DEF s
<1>3. Persist({s}) BY DEF s
<1> QED BY <1>1, <1>2, <1>3, PutHandled

\* Known rows sent again as they are.
LEMMA ResendHandled ==
  ASSUME MirrorInv, UNCHANGED mem, NEW N, Persist(N),
         \A s \in N : /\ IsStatement(s) /\ s.row \in DOMAIN mem /\ s.set = mem[s.row]
                      /\ s.row.table \in PlainTables,
         \A s, x \in N : s.row = x.row => s = x
  PROVE  Handled
<1>1. \A r \in DOMAIN mem' : KeptBy(r, N) \/ \E s \in N : Written(r, s)
  <2> SUFFICES ASSUME NEW s \in N PROVE Written(s.row, s)
    BY DEF KeptBy
  <2> QED BY DEF Written
<1>2. \A s \in N :
        /\ IsStatement(s) /\ s.row.nth \in 0 .. calls + 1 /\ s.row \in DOMAIN mem'
        /\ s.row.table \notin ThreadTables /\ s.row.table # "provider_health_checks"
  BY PlainTable DEF MirrorInv, Numbered
<1>3. Fits(N) BY <1>1, <1>2 DEF Fits
<1>4. Chains(N) BY <1>2 DEF Chains
<1> QED BY <1>3, <1>4 DEF Handled

LEMMA setApplicationStatusHandled ==
  ASSUME MirrorInv, NEW v, setApplicationStatus(v) PROVE Handled
<1> DEFINE row == Row("applications", v)
           set == [c \in {"state", "submitted"} |-> calls + 1]
           cleared == Restrict(mem[row], DOMAIN mem[row] \ {"submitted"})
<1>1. /\ row \in DOMAIN mem
      /\ \/ Holds(row, Onto(Whole, mem[row])) /\ Persist({Update(row, Whole)})
         \/ Holds(row, Onto(set, mem[row])) /\ Persist({Update(row, set)})
         \/ Holds(row, Onto(Whole, cleared)) /\ Persist({Update(row, Whole)})
  BY DEF setApplicationStatus, Stored
<1>2. row.table \in PlainTables BY RowFacts, PlainTable
<1>3. DOMAIN cleared \subseteq DOMAIN mem[row] /\ \A c \in DOMAIN cleared : cleared[c] = mem[row][c]
  BY DEF Restrict
<1> HIDE DEF row, set, cleared
\* The columns set, over some of the row's.
<1>4. ASSUME NEW columns, NEW old, Holds(row, Onto(columns, old)),
             Persist({Update(row, columns)}), DOMAIN old \subseteq DOMAIN mem[row],
             \A c \in DOMAIN old : old[c] = mem[row][c]
      PROVE  Handled
  <2> DEFINE value == Onto(columns, old)
  <2>1. \A c \in DOMAIN value :
          \/ c \in DOMAIN columns /\ columns[c] = value[c]
          \/ c \notin DOMAIN columns /\ c \in DOMAIN mem[row] /\ value[c] = mem[row][c]
    BY <1>4, OntoFacts
  <2>2. Holds(row, value) BY <1>4
  <2> HIDE DEF value
  <2> QED BY <1>1, <1>2, <1>4, <2>1, <2>2, UpdateHandled
<1> QED BY <1>1, <1>3, <1>4

LEMMA recordProofPackHandled ==
  ASSUME MirrorInv, NEW v, recordProofPack(v) PROVE Handled
<1> DEFINE row == Fresh("application_artifacts", v)
           application == Row("applications", v)
           proof == [c \in {"proof"} |-> calls + 1]
           pack == Insert(row)
           alone == [pack EXCEPT !.needs = {}]
           shown == Update(application, proof)
           held == Onto(proof, mem[application])
<1>1. /\ IsStatement(pack) /\ pack.row = row /\ pack.set = Whole /\ pack.how = "insert"
      /\ IsStatement(alone) /\ alone.row = row /\ alone.set = Whole /\ alone.how = "insert"
      /\ IsStatement(shown) /\ shown.row = application /\ shown.set = proof
      /\ shown.how = "update"
  <2>1. IsStatement(pack) /\ pack.row = row /\ pack.set = Whole /\ pack.how = "insert"
    BY StatementFields DEF Insert
  <2>2. /\ IsStatement(shown) /\ shown.row = application /\ shown.set = proof
        /\ shown.how = "update"
    BY StatementFields DEF Update
  <2> HIDE DEF pack, row
  <2>3. /\ IsStatement(alone) /\ alone.row = row /\ alone.set = Whole
        /\ alone.how = "insert"
    BY <2>1 DEF IsStatement
  <2> QED BY <2>1, <2>2, <2>3
<1>2. /\ row.table \in PlainTables /\ row.nth \in 0 .. calls + 1 /\ row \notin DOMAIN mem
      /\ application.table \in PlainTables
  <2>1. row.nth = calls + 1 /\ calls \in Nat BY RowFacts DEF MirrorInv
  <2> QED BY <2>1, FreshUnknown, RowFacts, PlainTable
<1>3. CASE application \in DOMAIN mem
  <2>1. /\ mem' = Put(Put(mem, application, held), row, Whole)
        /\ Persist({pack, shown})
    BY <1>3 DEF recordProofPack, Stored
  <2> HIDE DEF row, application, proof, pack, shown, held
  <2>2. application # row /\ application.nth \in 0 .. calls + 1
    BY <1>2, <1>3 DEF MirrorInv, Numbered
  <2>3. /\ DOMAIN mem' = DOMAIN mem \cup {row}
        /\ mem'[row] = Whole /\ mem'[application] = held
        /\ \A r \in DOMAIN mem \ {application} : mem'[r] = mem[r]
    BY <1>2, <1>3, <2>1, <2>2, PutTwice
  <2>4. Written(row, pack) BY <1>1, <1>2, <2>3 DEF Written
  <2>5. Written(application, shown)
    <3>1. /\ DOMAIN held = DOMAIN proof \cup DOMAIN mem[application]
          /\ \A c \in DOMAIN proof : held[c] = proof[c]
          /\ \A c \in DOMAIN mem[application] \ DOMAIN proof : held[c] = mem[application][c]
      BY OntoFacts DEF held
    <3> QED BY <1>1, <1>3, <2>3, <3>1 DEF Written
  <2>6. \A r \in DOMAIN mem' : KeptBy(r, {pack, shown}) \/ \E s \in {pack, shown} : Written(r, s)
    BY <1>1, <2>3, <2>4, <2>5 DEF KeptBy
  <2>7. Fits({pack, shown})
    BY <1>1, <1>2, <1>3, <2>1, <2>2, <2>3, <2>6, PlainTable DEF Fits
  <2>8. Chains({pack, shown})
    BY <1>1, <1>2, <2>3, PlainTable DEF Chains, Parent
  <2> QED BY <2>7, <2>8 DEF Handled
<1>4. CASE application \notin DOMAIN mem
  <2>1. Holds(row, Whole) /\ Persist({alone}) BY <1>4 DEF recordProofPack, Stored
  <2> HIDE DEF row, alone
  <2> QED BY <1>1, <1>2, <2>1, WholeHandled
<1> QED BY <1>3, <1>4

\* An entity's open row is sent again, or a fresh one opened.
LEMMA OpenHandled ==
  ASSUME MirrorInv, NEW table \in PlainTables, NEW v,
         LET open == {row \in RowsOf(mem, table) : row.key = v /\ mem[row].state = row.nth}
         IN  IF open = {}
             THEN LET row == Fresh(table, v) IN
                  Holds(row, Whole) /\ Persist({InsertOrIgnore(row)})
             ELSE /\ Persist({[InsertOrIgnore(row) EXCEPT !.set = mem[row]] : row \in open})
                  /\ UNCHANGED mem
  PROVE  Handled
<1> DEFINE open == {row \in RowsOf(mem, table) : row.key = v /\ mem[row].state = row.nth}
           sent(row) == [InsertOrIgnore(row) EXCEPT !.set = mem[row]]
<1>1. CASE open = {} BY <1>1, FreshHandled
<1>2. CASE open # {}
  <2> DEFINE N == {sent(row) : row \in open}
  <2>1. UNCHANGED mem /\ Persist(N) BY <1>2
  <2>2. \A row \in open : row \in DOMAIN mem /\ row.table \in PlainTables
    BY DEF RowsOf
  <2>3. ASSUME NEW row \in open
        PROVE  IsStatement(sent(row)) /\ sent(row).row = row /\ sent(row).set = mem[row]
    <3> DEFINE s == InsertOrIgnore(row)
    <3>1. IsStatement(s) /\ s.row = row BY IgnoreFields
    <3>2. sent(row) = [s EXCEPT !.set = mem[row]] OBVIOUS
    <3> HIDE DEF s, sent
    <3> QED BY <3>1, <3>2 DEF IsStatement
  <2> HIDE DEF open, sent
  <2>4. \A s \in N : s.row \in open /\ s = sent(s.row) /\ IsStatement(s) /\ s.set = mem[s.row]
    BY <2>3
  <2>5. \A s, x \in N : s.row = x.row => s = x BY <2>4
  <2> HIDE DEF N
  <2> QED BY <2>1, <2>2, <2>4, <2>5, ResendHandled
<1> QED BY <1>1, <1>2

LEMMA resolveManualReviewHandled ==
  ASSUME MirrorInv, NEW v, resolveManualReview(v) PROVE Handled
<1>1. PICK row \in RowsOf(mem, "manual_review_items") :
        \/ Holds(row, Whole) /\ Persist({Update(row, Whole)})
        \/ UNCHANGED mem /\ Persist({Update(row, mem[row])})
  BY DEF resolveManualReview
<1>2. row \in DOMAIN mem /\ row.table \in PlainTables BY PlainTable DEF RowsOf
<1>3. CASE Holds(row, Whole) /\ Persist({Update(row, Whole)})
  BY <1>2, <1>3, UpdateHandled
<1>4. CASE UNCHANGED mem /\ Persist({Update(row, mem[row])})
  <2> DEFINE s == Update(row, mem[row])
  <2>1. IsStatement(s) /\ s.row = row /\ s.set = mem[row] BY StatementFields DEF Update
  <2>2. UNCHANGED mem /\ Persist({s}) BY <1>4
  <2> HIDE DEF s
  <2> QED BY <1>2, <2>1, <2>2, ResendHandled
<1> QED BY <1>1, <1>3, <1>4

LEMMA resolveApprovalRequestHandled ==
  ASSUME MirrorInv, NEW v, resolveApprovalRequest(v) PROVE Handled
<1>1. PICK row \in RowsOf(mem, "approval_requests") :
        Holds(row, Whole) /\ Persist({Update(row, Whole)})
  BY DEF resolveApprovalRequest
<1>2. row \in DOMAIN mem /\ row.table \in PlainTables BY PlainTable DEF RowsOf
<1> QED BY <1>1, <1>2, UpdateHandled

LEMMA expireApprovalRequestsHandled ==
  ASSUME MirrorInv, NEW v, expireApprovalRequests(v) PROVE Handled
<1>1. PICK expired : /\ expired \subseteq RowsOf(mem, "approval_requests")
                     /\ mem' = Onto([row \in expired |-> Whole], mem)
                     /\ Persist({Update(row, Whole) : row \in expired})
  BY DEF expireApprovalRequests
<1> DEFINE N == {Update(row, Whole) : row \in expired}
<1>2. \A row : /\ IsStatement(Update(row, Whole)) /\ Update(row, Whole).row = row
               /\ Update(row, Whole).set = Whole /\ Update(row, Whole).how = "update"
  BY StatementFields DEF Update
<1>3. \A row \in expired : row \in DOMAIN mem /\ row.table \in PlainTables
  BY <1>1, PlainTable DEF RowsOf
<1>4. /\ DOMAIN mem' = DOMAIN mem
      /\ \A row \in expired : mem'[row] = Whole
      /\ \A row \in DOMAIN mem \ expired : mem'[row] = mem[row]
  <2> DEFINE now == [row \in expired |-> Whole]
  <2>1. DOMAIN now = expired /\ \A row \in expired : now[row] = Whole OBVIOUS
  <2>2. mem' = Onto(now, mem) BY <1>1
  <2> HIDE DEF now
  <2>3. \A x : /\ x \in DOMAIN mem' <=> x \in expired \/ x \in DOMAIN mem
               /\ x \in expired => mem'[x] = Whole
               /\ x \in DOMAIN mem /\ x \notin expired => mem'[x] = mem[x]
    BY <2>1, <2>2, OntoFacts
  <2> QED BY <1>3, <2>3
<1>5. \A s \in N : /\ s.row \in expired /\ s = Update(s.row, Whole)
                   /\ IsStatement(s) /\ s.set = Whole /\ s.how = "update"
  BY <1>2
<1>6. \A row \in expired : Update(row, Whole) \in N /\ Written(row, Update(row, Whole))
  BY <1>2, <1>3, <1>4 DEF Written
<1>7. Persist(N) BY <1>1
<1> HIDE DEF N
<1>8. \A r \in DOMAIN mem' : KeptBy(r, N) \/ \E s \in N : Written(r, s)
  BY <1>4, <1>5, <1>6 DEF KeptBy
<1>9. \A s \in N :
        /\ IsStatement(s) /\ s.row.nth \in 0 .. calls + 1 /\ s.row \in DOMAIN mem'
        /\ s.row.table \notin ThreadTables /\ s.row.table # "provider_health_checks"
  BY <1>3, <1>4, <1>5, PlainTable DEF MirrorInv, Numbered
<1>10. \A s, x \in N : s.row = x.row => s = x BY <1>5
<1>11. Fits(N) BY <1>4, <1>7, <1>8, <1>9, <1>10 DEF Fits
<1>12. Chains(N) BY <1>4, <1>9 DEF Chains
<1> QED BY <1>11, <1>12 DEF Handled

LEMMA updateProviderHealthHandled ==
  ASSUME MirrorInv, NEW v, updateProviderHealth(v) PROVE Handled
<1> DEFINE row == Fresh("provider_health_checks", v)
           older == {x \in RowsOf(mem, "provider_health_checks") : x.key = v}
           kept == Restrict(mem, DOMAIN mem \ older)
           check == Insert(row)
           provider == Row("source_providers", v)
           health == Upsert(provider)
<1>1. /\ IsStatement(check) /\ check.row = row /\ check.set = Whole /\ check.how = "insert"
      /\ IsStatement(health) /\ health.row = provider
  BY StatementFields DEF Insert, Upsert
<1>2. /\ row.table = "provider_health_checks" /\ row.key = v /\ row.nth = calls + 1
      /\ row.nth \in 0 .. calls + 1 /\ row \notin DOMAIN mem
      /\ provider.table = "source_providers" /\ provider.nth \in 0 .. calls + 1
  <2>1. row.nth = calls + 1 /\ provider.nth = 0 /\ calls \in Nat BY RowFacts DEF MirrorInv
  <2> QED BY <2>1, FreshUnknown, RowFacts
<1>3. mem' = Put(kept, row, Whole) /\ Persist({check, health}) BY DEF updateProviderHealth
<1>4. /\ DOMAIN kept = DOMAIN mem \ older
      /\ \A r \in DOMAIN kept : kept[r] = mem[r]
  BY DEF Restrict
<1>5. \A x : x \in older <=> x \in DOMAIN mem /\ x.table = "provider_health_checks" /\ x.key = v
  BY DEF RowsOf
<1> HIDE DEF row, older, kept, check, provider, health
<1>6. /\ DOMAIN mem' = (DOMAIN mem \ older) \cup {row} /\ mem'[row] = Whole
      /\ \A r \in DOMAIN mem \ older : mem'[r] = mem[r]
  <2>1. row \notin DOMAIN kept BY <1>2, <1>4
  <2> QED BY <1>3, <1>4, <2>1, PutFacts
<1>7. provider \notin DOMAIN mem
  <2>1. "source_providers" \notin HydratedTables
    BY DEF HydratedTables, JobTables, RunTables, ProviderTables, ApplicationTables,
           ThreadTables, ReviewTables, EvidenceTables, OutboundTables, ModeTables
  <2> QED BY <1>2, <2>1 DEF MirrorInv, MapsComplete
<1>8. Written(row, check) BY <1>1, <1>2, <1>6 DEF Written
<1>9. \A r \in DOMAIN mem' :
        KeptBy(r, {check, health}) \/ \E s \in {check, health} : Written(r, s)
  BY <1>1, <1>2, <1>6, <1>7, <1>8 DEF KeptBy
<1>10. row.table \in HydratedTables BY <1>2 DEF HydratedTables, ProviderTables
<1>11. Fits({check, health})
  <2>1. \A s \in {check, health} :
          /\ IsStatement(s) /\ s.row.nth \in 0 .. calls + 1
          /\ s.row \in DOMAIN mem' \/ s.row.table = "source_providers"
    BY <1>1, <1>2, <1>6
  <2>2. \A s \in {check, health} : s.row.table = "provider_health_checks" =>
          s.row = row
    BY <1>1, <1>2
  <2>3. \A r \in DOMAIN mem' : r.table = row.table /\ r.key = row.key => r = row
    BY <1>2, <1>5, <1>6
  <2>4. \A s, x \in {check, health} : s.row = x.row => s = x BY <1>1, <1>2
  <2>5. \A r \in DOMAIN mem' \ DOMAIN mem : r = row BY <1>6
  <2>6. \A r \in DOMAIN mem \ DOMAIN mem' : r.table = "provider_health_checks"
    BY <1>5, <1>6
  <2> QED BY <1>2, <1>3, <1>9, <1>10, <2>1, <2>2, <2>3, <2>4, <2>5, <2>6 DEF Fits
<1>12. Chains({check, health})
  BY <1>1, <1>2, <1>6 DEF Chains, Parent, ThreadTables
<1> QED BY <1>11, <1>12 DEF Handled

LEMMA upsertInboundMessageHandled ==
  ASSUME MirrorInv, NEW v, upsertInboundMessage(v) PROVE Handled
<1> DEFINE row == Row("inbound_messages", v)
           thread == Row("conversations", v)
           held == IF Stored(thread) THEN mem[thread] ELSE Whole
           opening == InsertOrIgnore(thread)
           sent == [opening EXCEPT !.set = held]
           letter == InsertOrIgnore(row)
           message == AfterRow(letter, {sent})
<1>1. /\ row.table = "inbound_messages" /\ thread.table = "conversations"
      /\ row.nth \in 0 .. calls + 1 /\ thread.nth \in 0 .. calls + 1 /\ row.key = v
  BY RowFacts DEF MirrorInv
<1>2. /\ IsStatement(sent) /\ sent.row = thread /\ sent.set = held /\ sent.how = "ignore"
      /\ sent.needs = {} /\ sent.after = {}
  <2>1. Parents(thread) = {}
    BY <1>1 DEF Parents, JobParent, ArtifactParent, MessageParent, EventParents
  <2>2. /\ IsStatement(opening) /\ opening.row = thread /\ opening.how = "ignore"
        /\ opening.needs = {} /\ opening.after = {}
    BY <2>1, StatementFields DEF InsertOrIgnore
  <2>3. sent = [opening EXCEPT !.set = held] OBVIOUS
  <2> HIDE DEF opening, held, thread, sent
  <2> QED BY <2>2, <2>3 DEF IsStatement
<1>3. /\ IsStatement(message) /\ message.row = row /\ message.set = Whole
      /\ message.how = "ignore" /\ message.needs = {thread}
      /\ message.after = {[row |-> sent.row, stamp |-> sent.stamp]}
  <2>1. Parents(row) = {thread}
    BY <1>1 DEF Parents, JobParent, ArtifactParent, MessageParent, EventParents
  <2>2. /\ IsStatement(letter) /\ letter.row = row /\ letter.how = "ignore"
        /\ letter.set = Whole /\ letter.needs = {thread}
    BY <2>1, StatementFields DEF InsertOrIgnore
  <2> DEFINE first == {[row |-> x.row, stamp |-> x.stamp] : x \in {sent}}
  <2>3. message = [letter EXCEPT !.after = first] BY DEF AfterRow
  <2> HIDE DEF letter, sent, row, thread, message
  <2>4. first = {[row |-> sent.row, stamp |-> sent.stamp]} OBVIOUS
  <2> HIDE DEF first
  <2> QED BY <2>2, <2>3, <2>4 DEF IsStatement
<1>4. /\ row \notin DOMAIN mem
      /\ mem' = Put(Put(mem, thread, held), row, Whole) /\ Persist({sent, message})
  BY DEF upsertInboundMessage, Stored
<1>5. thread \in DOMAIN mem => held = mem[thread] BY DEF Stored
<1>6. thread \notin DOMAIN mem => held = Whole BY DEF Stored
<1> HIDE DEF row, thread, held, sent, message
<1>7. /\ thread # row /\ DOMAIN mem' = DOMAIN mem \cup {row, thread}
      /\ mem'[row] = Whole /\ mem'[thread] = held
      /\ \A r \in DOMAIN mem \ {thread} : mem'[r] = mem[r]
  <2>1. thread # row BY <1>1
  <2> QED BY <1>4, <2>1, PutTwice
<1>8. Written(row, message) BY <1>3, <1>4, <1>7 DEF Written
<1>9. Written(thread, sent) BY <1>2, <1>5, <1>7 DEF Written
<1>10. \A r \in DOMAIN mem' :
         KeptBy(r, {sent, message}) \/ \E s \in {sent, message} : Written(r, s)
  BY <1>2, <1>3, <1>7, <1>8, <1>9 DEF KeptBy
<1>11. row.table \in HydratedTables /\ thread.table \in HydratedTables
  BY <1>1 DEF HydratedTables, ThreadTables
<1>12. Fits({sent, message})
  BY <1>1, <1>2, <1>3, <1>4, <1>7, <1>10, <1>11 DEF Fits
<1>13. Chains({sent, message})
  <2>1. Coming(thread, sent) /\ Coming(row, message) /\ Parent(thread)
    BY <1>1, <1>2, <1>3 DEF Coming, Parent
  <2>2. \A a \in message.after : Parent(a.row) BY <1>2, <1>3, <2>1
  <2> QED BY <1>2, <1>3, <1>7, <2>1, <2>2 DEF Chains
<1> QED BY <1>12, <1>13 DEF Handled

LEMMA saveMessageClassificationHandled ==
  ASSUME MirrorInv, ChainInv, NEW v, saveMessageClassification(v) PROVE Handled
<1> DEFINE row == Row("message_classifications", v)
           message == Row("inbound_messages", v)
           whole == Upsert(row)
           s == AfterMessage(whole, message)
           first == {[row |-> x.row, stamp |-> x.stamp] : x \in SentAt(message)}
<1>1. /\ row.table = "message_classifications" /\ row.nth \in 0 .. calls + 1
      /\ message.table = "inbound_messages" /\ row.key = v
  BY RowFacts DEF MirrorInv
<1>2. Parents(row) = {message}
  BY <1>1 DEF Parents, JobParent, ArtifactParent, MessageParent, EventParents
<1>3. /\ IsStatement(whole) /\ whole.row = row /\ whole.how = "merge" /\ whole.set = Whole
      /\ whole.needs = {message}
  BY <1>2, StatementFields DEF Upsert
<1>4. s = [whole EXCEPT !.after = first] BY DEF AfterMessage, AfterRow
<1>5. Stored(message) /\ Holds(row, Whole) /\ Persist({s})
  BY DEF saveMessageClassification
<1>6. \A x : Coming(message, x) /\ x \in flight => [row |-> x.row, stamp |-> x.stamp] \in first
  BY DEF SentAt, Coming
<1>7. \A a \in first : a.row = message BY DEF SentAt
<1> HIDE DEF row, message, whole, s, first
<1>8. /\ IsStatement(s) /\ s.row = row /\ s.how = "merge" /\ s.set = Whole
      /\ s.needs = {message} /\ s.after = first
  BY <1>3, <1>4 DEF IsStatement
<1>9. /\ DOMAIN mem' = DOMAIN mem \cup {row} /\ mem'[row] = Whole
      /\ \A r \in DOMAIN mem \ {row} : mem'[r] = mem[r]
  <2>1. \A x : /\ x \in DOMAIN mem' <=> x \in DOMAIN mem \/ x = row
               /\ x = row => mem'[x] = Whole
               /\ x \in DOMAIN mem /\ x # row => mem'[x] = mem[x]
    BY <1>5, PutFacts DEF Holds
  <2> QED BY <2>1
<1>10. Written(row, s) BY <1>8, <1>9 DEF Written
<1>11. \A r \in DOMAIN mem' : KeptBy(r, {s}) \/ \E x \in {s} : Written(r, x)
  BY <1>8, <1>9, <1>10 DEF KeptBy
<1>12. row.table \in HydratedTables BY <1>1 DEF HydratedTables, ThreadTables
<1>13. Fits({s}) BY <1>1, <1>5, <1>8, <1>9, <1>11, <1>12 DEF Fits
<1>14. Chains({s})
  <2> SUFFICES ASSUME lost = 0
               PROVE  /\ \A r \in DOMAIN mem' : Parent(r) => r \in DOMAIN mem
                      /\ \A a \in first : Parent(a.row)
                      /\ \/ message \in DOMAIN pg
                         \/ \E x \in flight : /\ Coming(message, x)
                                              /\ [row |-> x.row, stamp |-> x.stamp] \in first
    BY <1>8 DEF Chains
  <2>1. Parent(message) /\ ~ Parent(row) BY <1>1 DEF Parent
  <2>2. message \in DOMAIN pg \/ \E x \in flight : Coming(message, x)
    BY <1>5, <2>1 DEF ChainInv, Stored
  <2> QED BY <1>6, <1>7, <1>9, <2>1, <2>2
<1> QED BY <1>13, <1>14 DEF Handled

LEMMA recordInterviewEventHandled ==
  ASSUME MirrorInv, NEW v, recordInterviewEvent(v) PROVE Handled
<1> DEFINE row == Row("interview_events", v)
           whole == Upsert(row)
<1>1. PICK needs : Holds(row, Whole) /\ Persist({[whole EXCEPT !.needs = needs]})
  BY DEF recordInterviewEvent
<1> DEFINE s == [whole EXCEPT !.needs = needs]
<1>2. row.table \in PlainTables /\ row.nth \in 0 .. calls + 1
  BY RowFacts, PlainTable DEF MirrorInv
<1>3. IsStatement(whole) /\ whole.row = row /\ whole.how = "merge" /\ whole.set = Whole
  BY StatementFields DEF Upsert
<1> HIDE DEF row, whole
<1>4. IsStatement(s) /\ s.row = row /\ s.how = "merge" /\ s.set = Whole
  BY <1>3 DEF IsStatement
<1>5. Persist({s}) BY <1>1
<1> HIDE DEF s
<1> QED BY <1>1, <1>2, <1>4, <1>5, WholeHandled

LEMMA CalledHandled ==
  ASSUME MirrorInv, ChainInv, NEW table, NEW v, Called(table, v)
  PROVE  Handled
<1>1. ASSUME upsertJob(v) \/ saveScore(v) \/ saveDedupDecision(v) \/ createApplication(v)
      PROVE  Handled
  BY <1>1, PlainTable, UpsertHandled
     DEF upsertJob, saveScore, saveDedupDecision, createApplication
<1>2. ASSUME recordReplayReport(v) \/ recordReleaseEvidence(v) \/ setMode(v)
               \/ recordOutboundDispatch(v)
      PROVE  Handled
  BY <1>2, PlainTable, UpsertHandled
     DEF recordReplayReport, recordReleaseEvidence, setMode, recordOutboundDispatch
<1>3. ASSUME recordPolicyCheck(v) \/ recordSearchRun(v) \/ recordCanaryRun(v)
               \/ recordAuditEvent(v)
      PROVE  Handled
  BY <1>3, PlainTable, FreshHandled
     DEF recordPolicyCheck, recordSearchRun, recordCanaryRun, recordAuditEvent
<1>4. ASSUME createManualReview(v) PROVE Handled
  BY <1>4, PlainTable, OpenHandled DEF createManualReview
<1>5. ASSUME createApprovalRequest(v) PROVE Handled
  BY <1>5, PlainTable, OpenHandled DEF createApprovalRequest
<1> QED
  BY <1>1, <1>2, <1>3, <1>4, <1>5, setApplicationStatusHandled, recordProofPackHandled,
     resolveManualReviewHandled, resolveApprovalRequestHandled,
     expireApprovalRequestsHandled, updateProviderHealthHandled,
     upsertInboundMessageHandled, saveMessageClassificationHandled,
     recordInterviewEventHandled
     DEF Called

-----------------------------------------------------------------------------
(* Postgres and the process.                                               *)

LEMMA AppliedFacts ==
  ASSUME NEW s
  PROVE  \A r : /\ r \in DOMAIN Applied(s) <=>
                     r \in DOMAIN pg \/ (r = s.row /\ s.how # "update")
                /\ r \in DOMAIN pg /\ (r # s.row \/ s.how = "ignore") => Applied(s)[r] = pg[r]
                /\ r \in DOMAIN pg /\ r = s.row /\ s.how # "ignore" =>
                     Applied(s)[r] = Onto(s.set, pg[r])
                /\ r \notin DOMAIN pg /\ r = s.row /\ s.how # "update" => Applied(s)[r] = s.set
<1>1. CASE s.row \in DOMAIN pg /\ s.how = "ignore"
  <2>1. Applied(s) = pg BY <1>1 DEF Applied
  <2> QED BY <1>1, <2>1
<1>2. CASE s.row \in DOMAIN pg /\ s.how # "ignore"
  <2>1. Applied(s) = Put(pg, s.row, Onto(s.set, pg[s.row])) BY <1>2 DEF Applied
  <2> QED BY <1>2, <2>1, PutFacts
<1>3. CASE s.row \notin DOMAIN pg /\ s.how = "update"
  <2>1. Applied(s) = pg BY <1>3 DEF Applied
  <2> QED BY <1>3, <2>1
<1>4. CASE s.row \notin DOMAIN pg /\ s.how # "update"
  <2>1. Applied(s) = Put(pg, s.row, s.set) BY <1>4 DEF Applied
  <2> QED BY <1>4, <2>1, PutFacts
<1> QED BY <1>1, <1>2, <1>3, <1>4

\* A statement that fails leaves the tables, and its row is spoilt.
LEMMA RefusedInv ==
  ASSUME MirrorInv, NEW s \in flight, NEW error,
         flight' = flight \ {s}, refused' = refused \cup {[s EXCEPT !.error = error]},
         UNCHANGED <<mem, pg, raced, calls>>
  PROVE  MirrorInv' /\ \A x \in refused' : x \in refused \/ x.row = s.row
<1>1. [s EXCEPT !.error = error].row = s.row BY DEF MirrorInv, IsStatement
<1>2. \A x \in refused' : x \in refused \/ x.row = s.row BY <1>1
<1>3. \A x \in refused : x \in refused' OBVIOUS
<1>4. \E x \in refused' : x.row = s.row BY <1>1
<1>5. \A r \in DOMAIN mem' \ Spoilt' : Faithful(r)'
  <2> SUFFICES ASSUME NEW r \in DOMAIN mem, r \notin Spoilt' PROVE Faithful(r)'
    OBVIOUS
  <2>1. r \notin Spoilt /\ r # s.row BY <1>3, <1>4 DEF Spoilt
  <2>2. Faithful(r) BY <2>1 DEF MirrorInv
  <2>3. \A x \in flight' : x \in flight OBVIOUS
  <2>4. \A x \in flight : x.row = r => x \in flight' BY <2>1
  <2>5. OneByOne(r)' BY <2>2, <2>3 DEF Faithful, OneByOne
  <2>6. Created(r)' BY <2>2, <2>4 DEF Faithful, Created
  <2>7. \A c : StoredAt(r, c)' <=> StoredAt(r, c) BY DEF StoredAt
  <2>8. Underway(r)' BY <2>2, <2>4, <2>7 DEF Faithful, Underway
  <2>9. SentAsHeld(r)' BY <2>2, <2>3 DEF Faithful, SentAsHeld
  <2>10. IgnoredHarmlessly(r)' BY <2>2, <2>3, <2>7 DEF Faithful, IgnoredHarmlessly
  <2> QED BY <2>5, <2>6, <2>8, <2>9, <2>10 DEF Faithful
<1>6. MapsComplete' BY DEF MirrorInv, MapsComplete
<1>7. \A r \in DOMAIN mem' \cup DOMAIN pg' \cup {x.row : x \in flight'} : Numbered(r)'
  BY DEF MirrorInv, Numbered
<1>8. calls' \in Nat /\ \A x \in flight' : IsStatement(x) BY DEF MirrorInv
<1> QED BY <1>2, <1>5, <1>6, <1>7, <1>8 DEF MirrorInv

\* A statement that executes stores what the maps hold.
LEMMA AppliedInv ==
  ASSUME MirrorInv, NEW s \in flight, flight' = flight \ {s}, pg' = Applied(s),
         UNCHANGED <<mem, refused, raced, calls>>
  PROVE  MirrorInv'
<1>1. \A r \in DOMAIN mem' \ Spoilt' : Faithful(r)'
  <2> SUFFICES ASSUME NEW r \in DOMAIN mem, r \notin Spoilt PROVE Faithful(r)'
    BY DEF Spoilt
  <2>1. Faithful(r) BY DEF MirrorInv
  <2>2. OneByOne(r)' BY <2>1 DEF Faithful, OneByOne
  <2>3. SentAsHeld(r)' BY <2>1 DEF Faithful, SentAsHeld
  <2>4. CASE r # s.row
    <3>1. \A x \in flight : x.row = r => x \in flight' BY <2>4
    <3>2. r \in DOMAIN pg' <=> r \in DOMAIN pg BY <2>4, AppliedFacts
    <3>3. r \in DOMAIN pg => pg'[r] = pg[r] BY <2>4, AppliedFacts
    <3>4. \A c : StoredAt(r, c)' <=> StoredAt(r, c) BY <3>2, <3>3 DEF StoredAt
    <3>5. Created(r)' BY <2>1, <3>1, <3>2 DEF Faithful, Created
    <3>6. Underway(r)' BY <2>1, <3>1, <3>4 DEF Faithful, Underway
    <3>7. IgnoredHarmlessly(r)' BY <2>1, <3>2, <3>4 DEF Faithful, IgnoredHarmlessly
    <3> QED BY <2>2, <2>3, <3>5, <3>6, <3>7 DEF Faithful
  <2>5. CASE r = s.row
    <3>1. \A x \in flight' : x.row = r => s.how = "update" /\ x.how = "update"
      BY <2>1, <2>5, TogetherFacts DEF Faithful, OneByOne
    <3>2. s.how = "update" => r \in DOMAIN pg
      <4>1. ASSUME s.how = "update" PROVE \A x \in flight : x.row = r => x.how = "update"
        BY <3>1, <4>1
      <4> QED BY <2>1, <4>1 DEF Faithful, Created
    <3>3. r \in DOMAIN pg' BY <2>5, <3>2, AppliedFacts
    <3>4. Created(r)' BY <3>3 DEF Created
    <3>5. \A c \in DOMAIN s.set \cap DOMAIN mem[r] : s.set[c] = mem[r][c]
      BY <2>1, <2>5 DEF Faithful, SentAsHeld
    <3>6. ASSUME NEW c \in DOMAIN mem[r], StoredAt(r, c) \/ c \in DOMAIN s.set
          PROVE  StoredAt(r, c)'
      <4>1. CASE s.how = "ignore" /\ r \in DOMAIN pg
        <5>1. StoredAt(r, c) BY <2>1, <2>5, <4>1 DEF Faithful, IgnoredHarmlessly
        <5>2. pg'[r] = pg[r] BY <4>1, AppliedFacts, <2>5
        <5> QED BY <3>3, <5>1, <5>2 DEF StoredAt
      <4>2. CASE s.how # "ignore" /\ r \in DOMAIN pg
        <5>1. pg'[r] = Onto(s.set, pg[r]) BY <2>5, <4>2, AppliedFacts
        <5>2. c \in DOMAIN pg'[r] /\ pg'[r][c] = mem[r][c]
          <6>1. CASE c \in DOMAIN s.set BY <3>5, <5>1, <6>1, OntoFacts
          <6>2. CASE c \notin DOMAIN s.set BY <3>6, <5>1, <6>2, OntoFacts DEF StoredAt
          <6> QED BY <6>1, <6>2
        <5> QED BY <3>3, <5>2 DEF StoredAt
      <4>3. CASE r \notin DOMAIN pg
        <5>1. pg'[r] = s.set BY <2>5, <3>2, <4>3, AppliedFacts
        <5>2. c \in DOMAIN s.set BY <3>6, <4>3 DEF StoredAt
        <5> QED BY <3>3, <3>5, <5>1, <5>2 DEF StoredAt
      <4> QED BY <4>1, <4>2, <4>3
    <3>7. Underway(r)'
      <4> SUFFICES ASSUME NEW c \in DOMAIN mem[r]
                   PROVE  StoredAt(r, c)' \/ \E x \in flight' : x.row = r /\ c \in DOMAIN x.set
        BY DEF Underway
      <4>1. StoredAt(r, c) \/ \E x \in flight : x.row = r /\ c \in DOMAIN x.set
        BY <2>1 DEF Faithful, Underway
      <4> QED BY <3>6, <4>1
    <3>8. IgnoredHarmlessly(r)' BY <3>1 DEF IgnoredHarmlessly
    <3> QED BY <2>2, <2>3, <3>4, <3>7, <3>8 DEF Faithful
  <2> QED BY <2>4, <2>5
<1>2. \A r \in DOMAIN pg' : r \in DOMAIN pg \cup {x.row : x \in flight} BY AppliedFacts
<1>3. MapsComplete' BY <1>2 DEF MirrorInv, MapsComplete
<1>4. \A r \in DOMAIN mem' \cup DOMAIN pg' \cup {x.row : x \in flight'} : Numbered(r)'
  BY <1>2 DEF MirrorInv, Numbered
<1>5. calls' \in Nat /\ \A x \in flight' : IsStatement(x) BY DEF MirrorInv
<1> QED BY <1>1, <1>3, <1>4, <1>5 DEF MirrorInv

LEMMA SettleInv ==
  ASSUME MirrorInv, ChainInv, NEW s \in flight, Settle(s)
  PROVE  MirrorInv' /\ ChainInv'
<1>0. /\ ~ Waits(s) /\ flight' = flight \ {s} /\ UNCHANGED <<mem, raced, calls, lost, reopens>>
      /\ \/ ErrorOf(s) = "none" /\ pg' = Applied(s) /\ UNCHANGED refused
         \/ /\ ErrorOf(s) # "none" /\ UNCHANGED pg
            /\ refused' = refused \cup {[s EXCEPT !.error = ErrorOf(s)]}
  BY DEF Settle
<1>1. CASE ErrorOf(s) = "none" /\ pg' = Applied(s) /\ UNCHANGED refused
  <2>1. MirrorInv' BY <1>0, <1>1, AppliedInv
  <2>2. ChainInv'
    <3>1. \A r \in DOMAIN pg : r \in DOMAIN pg' BY <1>1, AppliedFacts
    <3>2. \A r : Coming(r, s) => r \in DOMAIN pg' BY <1>1, AppliedFacts DEF Coming
    <3>3. \A r : (\E x \in flight : Coming(r, x)) =>
            r \in DOMAIN pg' \/ \E x \in flight' : Coming(r, x)
      BY <1>0, <3>2
    <3>4. lost' \in Nat BY <1>0 DEF ChainInv
    <3> SUFFICES ASSUME lost = 0
                 PROVE  /\ \A x \in refused' : x.row.table \notin ThreadTables
                        /\ \A r \in DOMAIN mem' : Parent(r) =>
                             r \in DOMAIN pg' \/ \E x \in flight' : Coming(r, x)
                        /\ \A x \in flight' : x.row.table \in ThreadTables =>
                             /\ \A a \in x.after : Parent(a.row)
                             /\ \A p \in x.needs :
                                  \/ p \in DOMAIN pg'
                                  \/ \E y \in flight' :
                                       /\ Coming(p, y)
                                       /\ [row |-> y.row, stamp |-> y.stamp] \in x.after
      BY <1>0, <3>4 DEF ChainInv
    <3>5. \A x \in refused' : x.row.table \notin ThreadTables BY <1>1 DEF ChainInv
    <3>6. \A r \in DOMAIN mem' : Parent(r) =>
            r \in DOMAIN pg' \/ \E x \in flight' : Coming(r, x)
      BY <1>0, <3>1, <3>3 DEF ChainInv
    <3>7. ASSUME NEW x \in flight', x.row.table \in ThreadTables
          PROVE  /\ \A a \in x.after : Parent(a.row)
                 /\ \A p \in x.needs :
                      \/ p \in DOMAIN pg'
                      \/ \E y \in flight' :
                           /\ Coming(p, y)
                           /\ [row |-> y.row, stamp |-> y.stamp] \in x.after
      <4>1. x \in flight BY <1>0
      <4>2. \A a \in x.after : Parent(a.row) BY <3>7, <4>1 DEF ChainInv
      <4>3. ASSUME NEW p \in x.needs, p \notin DOMAIN pg'
            PROVE  \E y \in flight' :
                     Coming(p, y) /\ [row |-> y.row, stamp |-> y.stamp] \in x.after
        <5>1. p \notin DOMAIN pg BY <3>1, <4>3
        <5>2. PICK y \in flight :
                Coming(p, y) /\ [row |-> y.row, stamp |-> y.stamp] \in x.after
          BY <3>7, <4>1, <5>1 DEF ChainInv
        <5>3. y # s BY <3>2, <4>3, <5>2
        <5> QED BY <1>0, <5>2, <5>3
      <4> QED BY <4>2, <4>3
    <3> QED BY <3>5, <3>6, <3>7
  <2> QED BY <2>1, <2>2
<1>2. CASE /\ ErrorOf(s) # "none" /\ UNCHANGED pg
           /\ refused' = refused \cup {[s EXCEPT !.error = ErrorOf(s)]}
  <2>1. MirrorInv' /\ \A x \in refused' : x \in refused \/ x.row = s.row
    BY <1>0, <1>2, RefusedInv
  <2>2. lost' \in Nat BY <1>0 DEF ChainInv
  \* A chained statement would have waited for what it needs.
  <2>3. ASSUME lost = 0 PROVE s.row.table \notin ThreadTables
    <3> SUFFICES ASSUME s.row.table \in ThreadTables PROVE FALSE
      OBVIOUS
    <3>1. /\ \A a \in s.after : Parent(a.row)
          /\ \A p \in s.needs :
               \/ p \in DOMAIN pg
               \/ \E x \in flight :
                    Coming(p, x) /\ [row |-> x.row, stamp |-> x.stamp] \in s.after
      BY <2>3 DEF ChainInv
    <3>2. s.needs \subseteq DOMAIN pg BY <1>0, <3>1 DEF Waits
    <3>3. ~ ChainBroken(s)
      <4> SUFFICES ASSUME NEW x \in refused, [row |-> x.row, stamp |-> x.stamp] \in s.after
                   PROVE  FALSE
        BY DEF ChainBroken
      <4>1. Parent(x.row) BY <3>1
      <4>2. x.row.table \notin ThreadTables BY <2>3 DEF ChainInv
      <4> QED BY <4>1, <4>2 DEF Parent, ThreadTables
    <3>4. ~ UrlTaken(s.row) BY DEF UrlTaken, ThreadTables
    <3> QED BY <1>2, <3>2, <3>3, <3>4 DEF ErrorOf
  <2>4. ASSUME lost = 0
        PROVE  \A x \in flight : x.row.table \in ThreadTables => x \in flight'
    BY <1>0, <2>3, <2>4
  <2>5. \A p, x : Coming(p, x) /\ Parent(p) => x.row.table \in ThreadTables
    BY DEF Coming, Parent, ThreadTables
  <2>6. ChainInv'
    <3> SUFFICES ASSUME lost = 0
                 PROVE  /\ \A x \in refused' : x.row.table \notin ThreadTables
                        /\ \A r \in DOMAIN mem' : Parent(r) =>
                             r \in DOMAIN pg' \/ \E x \in flight' : Coming(r, x)
                        /\ \A x \in flight' : x.row.table \in ThreadTables =>
                             /\ \A a \in x.after : Parent(a.row)
                             /\ \A p \in x.needs :
                                  \/ p \in DOMAIN pg'
                                  \/ \E y \in flight' :
                                       /\ Coming(p, y)
                                       /\ [row |-> y.row, stamp |-> y.stamp] \in x.after
      BY <1>0, <2>2 DEF ChainInv
    <3>1. \A x \in refused' : x.row.table \notin ThreadTables
      BY <2>1, <2>3 DEF ChainInv
    <3>2. \A r \in DOMAIN mem' : Parent(r) =>
            r \in DOMAIN pg' \/ \E x \in flight' : Coming(r, x)
      BY <1>0, <1>2, <2>4, <2>5 DEF ChainInv
    <3>3. ASSUME NEW x \in flight', x.row.table \in ThreadTables
          PROVE  /\ \A a \in x.after : Parent(a.row)
                 /\ \A p \in x.needs :
                      \/ p \in DOMAIN pg'
                      \/ \E y \in flight' :
                           /\ Coming(p, y)
                           /\ [row |-> y.row, stamp |-> y.stamp] \in x.after
      <4>1. x \in flight BY <1>0
      <4>2. \A a \in x.after : Parent(a.row) BY <3>3, <4>1 DEF ChainInv
      <4>3. ASSUME NEW p \in x.needs, p \notin DOMAIN pg'
            PROVE  \E y \in flight' :
                     Coming(p, y) /\ [row |-> y.row, stamp |-> y.stamp] \in x.after
        <5>1. PICK y \in flight :
                Coming(p, y) /\ [row |-> y.row, stamp |-> y.stamp] \in x.after
          BY <1>2, <3>3, <4>1, <4>3 DEF ChainInv
        <5>2. Parent(p)
          <6>1. Parent([row |-> y.row, stamp |-> y.stamp].row) BY <4>2, <5>1
          <6> QED BY <5>1, <6>1 DEF Coming
        <5> QED BY <2>4, <2>5, <5>1, <5>2
      <4> QED BY <4>2, <4>3
    <3> QED BY <3>1, <3>2, <3>3
  <2> QED BY <2>1, <2>6
<1> QED BY <1>0, <1>1, <1>2

LEMMA LoseStatementInv ==
  ASSUME MirrorInv, ChainInv, NEW s \in flight, LoseStatement(s)
  PROVE  MirrorInv' /\ ChainInv'
<1>1. /\ flight' = flight \ {s} /\ refused' = refused \cup {[s EXCEPT !.error = "connection"]}
      /\ UNCHANGED <<mem, pg, raced, calls>> /\ lost' = lost + 1
  BY DEF LoseStatement
<1>2. MirrorInv' BY <1>1, RefusedInv
<1>3. lost' \in Nat /\ lost' # 0 BY <1>1 DEF ChainInv
<1> QED BY <1>2, <1>3 DEF ChainInv

\* What hydrate reads is what the maps hold from then on.
LEMMA ReopenInv ==
  ASSUME MirrorInv, ChainInv, Reopen
  PROVE  MirrorInv' /\ ChainInv'
<1>1. /\ mem' = Hydrated /\ flight' = {} /\ refused' = {} /\ raced' = {}
      /\ UNCHANGED <<pg, calls, lost>>
  BY DEF Reopen
<1>2. \A r : /\ r \in DOMAIN Hydrated <=>
                  r \in DOMAIN pg /\ r.table \in HydratedTables /\ Latest(r)
             /\ r \in DOMAIN Hydrated => Hydrated[r] = pg[r]
  BY DEF Hydrated, Restrict
<1>3. \A r \in DOMAIN mem' \ Spoilt' : Faithful(r)'
  <2> SUFFICES ASSUME NEW r \in DOMAIN mem' PROVE Faithful(r)'
    OBVIOUS
  <2>1. r \in DOMAIN pg' /\ mem'[r] = pg'[r] BY <1>1, <1>2
  <2>2. \A c \in DOMAIN mem'[r] : StoredAt(r, c)' BY <2>1 DEF StoredAt
  <2>3. OneByOne(r)' /\ Created(r)' /\ Underway(r)' /\ SentAsHeld(r)' /\ IgnoredHarmlessly(r)'
    BY <1>1, <2>1, <2>2 DEF OneByOne, Created, Underway, SentAsHeld, IgnoredHarmlessly
  <2> QED BY <2>3 DEF Faithful
<1>4. MapsComplete'
  <2>1. ASSUME NEW r \in DOMAIN pg, r.table \notin NotKept PROVE r \in DOMAIN Hydrated
    <3>1. r.table \in HydratedTables BY <2>1 DEF MirrorInv, MapsComplete
    <3>2. Latest(r) BY <2>1 DEF Latest, NotKept
    <3> QED BY <1>2, <3>1, <3>2
  <2>2. ASSUME NEW r \in DOMAIN Hydrated
        PROVE  /\ r.table \in HydratedTables
               /\ r.table = "provider_health_checks" =>
                    \A x \in DOMAIN pg :
                      x.table = r.table /\ x.key = r.key => x.nth <= r.nth
    BY <1>2 DEF Latest, RowsOf
  <2> QED BY <1>1, <2>1, <2>2 DEF MapsComplete
<1>5. \A r \in DOMAIN mem' \cup DOMAIN pg' \cup {x.row : x \in flight'} : Numbered(r)'
  BY <1>1, <1>2 DEF MirrorInv, Numbered
<1>6. calls' \in Nat /\ \A x \in flight' : IsStatement(x) BY <1>1 DEF MirrorInv
<1>7. ChainInv'
  <2>1. lost' \in Nat BY <1>1 DEF ChainInv
  <2>2. \A r \in DOMAIN mem' : r \in DOMAIN pg' BY <1>1, <1>2
  <2> QED BY <1>1, <2>1, <2>2 DEF ChainInv
<1> QED BY <1>3, <1>4, <1>5, <1>6, <1>7 DEF MirrorInv

LEMMA MirrorInvStep ==
  MirrorInv /\ ChainInv /\ [MirrorNext]_mirrorVars => MirrorInv' /\ ChainInv'
<1> SUFFICES ASSUME MirrorInv, ChainInv, [MirrorNext]_mirrorVars
             PROVE  MirrorInv' /\ ChainInv'
  OBVIOUS
<1>1. CASE \E table \in Surfaces, v \in Vacancies : Called(table, v)
  <2>1. Handled BY <1>1, CalledHandled
  <2>2. PICK N : Fits(N) /\ Chains(N) BY <2>1 DEF Handled
  <2>3. Persist(N) BY <2>2 DEF Fits
  <2> QED BY <2>2, <2>3, FitsInv, ChainsInv
<1>2. CASE \E s \in flight : Settle(s) BY <1>2, SettleInv
<1>3. CASE \E s \in flight : LoseStatement(s) BY <1>3, LoseStatementInv
<1>4. CASE Reopen BY <1>4, ReopenInv
<1>5. CASE UNCHANGED mirrorVars
  <2>1. UNCHANGED <<mem, pg, flight, refused, raced, calls, lost>> BY <1>5 DEF mirrorVars
  <2>2. \A r : Faithful(r)' <=> Faithful(r)
    BY <2>1 DEF Faithful, OneByOne, Created, Underway, SentAsHeld, IgnoredHarmlessly, StoredAt
  <2>3. MirrorInv'
    BY <2>1, <2>2 DEF MirrorInv, MapsComplete, Numbered, Spoilt
  <2>4. ChainInv' BY <2>1 DEF ChainInv
  <2> QED BY <2>3, <2>4
<1> QED BY <1>1, <1>2, <1>3, <1>4, <1>5 DEF MirrorNext

-----------------------------------------------------------------------------
(* Types.  A row holds stamps of calls made, at most n; a statement sets    *)
(* some of its columns, and all that a new row needs unless it is an update.*)

Stamped(columns, n) ==
  DOMAIN columns \subseteq Columns /\ \A c \in DOMAIN columns : columns[c] \in 1 .. n
Complete(columns, n) == Stamped(columns, n) /\ "state" \in DOMAIN columns
TypedRows(db, n) == \A row \in DOMAIN db : row \in Rows /\ Complete(db[row], n)
TypedStatement(s, n) ==
  /\ s.row \in Rows /\ s.needs \subseteq Rows
  /\ Stamped(s.set, n) /\ (s.how # "update" => "state" \in DOMAIN s.set)
RowsTyped ==
  /\ calls \in 0 .. MaxCalls
  /\ TypedRows(mem, calls) /\ TypedRows(pg, calls)
  /\ \A s \in flight \cup refused : IsStatement(s) /\ TypedStatement(s, calls)

\* A call that may be made keeps the types.
MayCall == RowsTyped /\ calls < MaxCalls
Keeps(N) ==
  /\ Persist(N) /\ TypedRows(mem', calls + 1)
  /\ \A s \in N : IsStatement(s) /\ TypedStatement(s, calls + 1)
TypesKept == \E N : Keeps(N)

LEMMA CountOfCalls ==
  ASSUME MayCall
  PROVE  calls \in Nat /\ calls + 1 \in 1 .. MaxCalls /\ calls + 1 \in Nat
         /\ \A x : x \in 1 .. calls => x \in 1 .. calls + 1
  BY MirrorAssumption DEF MayCall, RowsTyped

LEMMA StampedLater ==
  ASSUME MayCall, NEW columns, Stamped(columns, calls) PROVE Stamped(columns, calls + 1)
  BY CountOfCalls DEF Stamped

LEMMA RowsLater ==
  ASSUME MayCall, NEW db, TypedRows(db, calls) PROVE TypedRows(db, calls + 1)
  BY StampedLater DEF TypedRows, Complete

LEMMA OntoTyped ==
  ASSUME NEW n, NEW f, Stamped(f, n), NEW g, Stamped(g, n)
  PROVE  /\ Stamped(Onto(f, g), n)
         /\ "state" \in DOMAIN f \cup DOMAIN g => "state" \in DOMAIN Onto(f, g)
  BY OntoFacts DEF Stamped

LEMMA PutTyped ==
  ASSUME NEW n, NEW db, TypedRows(db, n), NEW row \in Rows, NEW value, Complete(value, n)
  PROVE  TypedRows(Put(db, row, value), n)
  BY PutFacts DEF TypedRows

\* What a call writes.
LEMMA WholeTyped == MayCall => Complete(Whole, calls + 1)
<1> SUFFICES ASSUME MayCall PROVE Complete(Whole, calls + 1)
  OBVIOUS
<1>1. DOMAIN Whole = {"state"} /\ \A c \in DOMAIN Whole : Whole[c] = calls + 1
  BY DEF Whole
<1>2. calls + 1 \in 1 .. calls + 1 /\ "state" \in Columns BY CountOfCalls DEF Columns
<1> QED BY <1>1, <1>2 DEF Complete, Stamped

LEMMA RowTyped ==
  ASSUME MayCall, NEW table \in Tables, NEW v \in Vacancies
  PROVE  Row(table, v) \in Rows /\ Fresh(table, v) \in Rows
<1>1. 0 \in 0 .. MaxCalls /\ calls + 1 \in 0 .. MaxCalls BY CountOfCalls, MirrorAssumption
<1> QED BY <1>1 DEF Row, Fresh, Rows

LEMMA TablesKnown ==
  /\ PlainTables \subseteq Tables /\ ThreadTables \subseteq Tables
  /\ {"normalized_jobs", "applications", "conversations", "inbound_messages",
      "message_classifications", "provider_health_checks", "source_providers"} \subseteq Tables
  BY DEF Tables, PlainTables, HydratedTables, JobTables, RunTables, ProviderTables,
         ApplicationTables, ThreadTables, ReviewTables, EvidenceTables, OutboundTables,
         ModeTables

LEMMA ParentsTyped ==
  ASSUME MayCall, NEW row \in Rows PROVE Parents(row) \subseteq Rows
<1>1. row.key \in Vacancies BY DEF Rows
<1>2. \A table \in {"normalized_jobs", "applications", "conversations", "inbound_messages"} :
        Row(table, row.key) \in Rows
  BY <1>1, RowTyped, TablesKnown
<1>3. /\ JobParent(row) \subseteq Rows /\ ArtifactParent(row) \subseteq Rows
      /\ MessageParent(row) \subseteq Rows /\ EventParents(row) \subseteq Rows
  BY <1>2 DEF JobParent, ArtifactParent, MessageParent, EventParents
<1> QED BY <1>3 DEF Parents

LEMMA StatementTyped ==
  ASSUME NEW n, NEW row \in Rows, NEW how \in {"insert", "ignore", "merge", "update"},
         NEW set, Stamped(set, n), how # "update" => "state" \in DOMAIN set,
         NEW needs \in SUBSET Rows
  PROVE  LET s == Statement(row, how, set, needs)
         IN  IsStatement(s) /\ TypedStatement(s, n)
<1> DEFINE s == Statement(row, how, set, needs)
<1>1. IsStatement(s) /\ s.row = row /\ s.how = how /\ s.set = set /\ s.needs = needs
  BY StatementFields
<1> HIDE DEF s
<1>2. IsStatement(s) /\ TypedStatement(s, n) BY <1>1 DEF TypedStatement
<1> QED BY <1>2 DEF s

LEMMA InsertsTyped ==
  ASSUME MayCall, NEW row \in Rows,
         NEW s \in {Insert(row), InsertOrIgnore(row), Upsert(row)}
  PROVE  IsStatement(s) /\ TypedStatement(s, calls + 1) /\ s.row = row
<1>1. Parents(row) \in SUBSET Rows BY ParentsTyped
<1>2. Stamped(Whole, calls + 1) /\ "state" \in DOMAIN Whole BY WholeTyped DEF Complete
<1>3. \E how \in {"insert", "ignore", "merge"} : s = Statement(row, how, Whole, Parents(row))
  BY DEF Insert, InsertOrIgnore, Upsert
<1>4. PICK how \in {"insert", "ignore", "merge"} : s = Statement(row, how, Whole, Parents(row))
  BY <1>3
<1>5. s.row = row BY <1>4, StatementFields
<1>6. IsStatement(s) /\ TypedStatement(s, calls + 1) BY <1>1, <1>2, <1>4, StatementTyped
<1> QED BY <1>5, <1>6

LEMMA UpdateTyped ==
  ASSUME NEW n, NEW row \in Rows, NEW set, Stamped(set, n)
  PROVE  IsStatement(Update(row, set)) /\ TypedStatement(Update(row, set), n)
  BY StatementTyped DEF Update
\* The calls, by what they put in the maps.
LEMMA PutKept ==
  ASSUME MayCall, NEW row \in Rows, NEW value, Complete(value, calls + 1), NEW s,
         IsStatement(s), TypedStatement(s, calls + 1), Holds(row, value), Persist({s})
  PROVE  TypesKept
<1>1. TypedRows(mem, calls + 1) BY RowsLater DEF MayCall, RowsTyped
<1>2. TypedRows(mem', calls + 1) BY <1>1, PutTyped DEF Holds
<1>3. Keeps({s}) BY <1>2 DEF Keeps
<1> QED BY <1>3 DEF TypesKept

LEMMA WholeKept ==
  ASSUME MayCall, NEW row \in Rows, NEW s \in {Insert(row), InsertOrIgnore(row), Upsert(row)},
         Holds(row, Whole), Persist({s})
  PROVE  TypesKept
  BY InsertsTyped, WholeTyped, PutKept

LEMMA UpdateKept ==
  ASSUME MayCall, NEW row \in Rows, NEW value, Complete(value, calls + 1), NEW set,
         Stamped(set, calls + 1), Holds(row, value), Persist({Update(row, set)})
  PROVE  TypesKept
  BY UpdateTyped, PutKept

LEMMA UpsertKept ==
  ASSUME MayCall, NEW table \in PlainTables, NEW v \in Vacancies,
         Holds(Row(table, v), Whole), Persist({Upsert(Row(table, v))})
  PROVE  TypesKept
  BY TablesKnown, RowTyped, WholeKept

LEMMA FreshKept ==
  ASSUME MayCall, NEW table \in PlainTables, NEW v \in Vacancies,
         NEW s \in {Insert(Fresh(table, v)), InsertOrIgnore(Fresh(table, v))},
         Holds(Fresh(table, v), Whole), Persist({s})
  PROVE  TypesKept
  BY TablesKnown, RowTyped, WholeKept

LEMMA setApplicationStatusKept ==
  ASSUME MayCall, NEW v \in Vacancies, setApplicationStatus(v) PROVE TypesKept
<1> DEFINE row == Row("applications", v)
           set == [c \in {"state", "submitted"} |-> calls + 1]
           cleared == Restrict(mem[row], DOMAIN mem[row] \ {"submitted"})
<1>1. /\ row \in DOMAIN mem
      /\ \/ Holds(row, Onto(Whole, mem[row])) /\ Persist({Update(row, Whole)})
         \/ Holds(row, Onto(set, mem[row])) /\ Persist({Update(row, set)})
         \/ Holds(row, Onto(Whole, cleared)) /\ Persist({Update(row, Whole)})
  BY DEF setApplicationStatus, Stored
<1>2. row \in Rows /\ Complete(mem[row], calls) BY <1>1 DEF MayCall, RowsTyped, TypedRows
<1>3. Stamped(mem[row], calls + 1) BY <1>2, StampedLater DEF Complete
<1>4. Stamped(cleared, calls + 1) BY <1>3 DEF Restrict, Stamped
<1>5. Complete(set, calls + 1)
  <2>1. calls + 1 \in 1 .. calls + 1 /\ {"state", "submitted"} \subseteq Columns
    BY CountOfCalls DEF Columns
  <2> QED BY <2>1 DEF Complete, Stamped
<1> HIDE DEF row, set, cleared
<1>6. ASSUME NEW columns, Complete(columns, calls + 1), NEW old, Stamped(old, calls + 1),
             Holds(row, Onto(columns, old)), Persist({Update(row, columns)})
      PROVE  TypesKept
  <2>1. Stamped(columns, calls + 1) BY <1>6 DEF Complete
  <2>2. Complete(Onto(columns, old), calls + 1) BY <1>6, <2>1, OntoTyped DEF Complete
  <2> QED BY <1>2, <1>6, <2>1, <2>2, UpdateKept
<1> QED BY <1>1, <1>3, <1>4, <1>5, <1>6, WholeTyped

LEMMA recordProofPackKept ==
  ASSUME MayCall, NEW v \in Vacancies, recordProofPack(v) PROVE TypesKept
<1> DEFINE row == Fresh("application_artifacts", v)
           application == Row("applications", v)
           proof == [c \in {"proof"} |-> calls + 1]
           pack == Insert(row)
           alone == [pack EXCEPT !.needs = {}]
           shown == Update(application, proof)
           held == Onto(proof, mem[application])
<1>1. row \in Rows /\ application \in Rows BY RowTyped, TablesKnown, PlainTable
<1>2. Stamped(proof, calls + 1)
  <2>1. calls + 1 \in 1 .. calls + 1 /\ "proof" \in Columns BY CountOfCalls DEF Columns
  <2> QED BY <2>1 DEF Stamped
<1>3. /\ IsStatement(pack) /\ TypedStatement(pack, calls + 1)
      /\ IsStatement(shown) /\ TypedStatement(shown, calls + 1)
  BY <1>1, <1>2, InsertsTyped, UpdateTyped
<1>4. IsStatement(alone) /\ TypedStatement(alone, calls + 1)
  <2> HIDE DEF pack
  <2> QED BY <1>3 DEF IsStatement, TypedStatement
<1>5. Complete(Whole, calls + 1) BY WholeTyped
<1>6. TypedRows(mem, calls + 1) BY RowsLater DEF MayCall, RowsTyped
<1>7. CASE application \in DOMAIN mem
  <2>1. /\ mem' = Put(Put(mem, application, held), row, Whole)
        /\ Persist({pack, shown})
    BY <1>7 DEF recordProofPack, Stored
  <2> HIDE DEF row, application, proof, pack, shown
  <2>2. Complete(mem[application], calls + 1) BY <1>6, <1>7 DEF TypedRows
  <2>3. Complete(held, calls + 1) BY <1>2, <2>2, OntoTyped DEF Complete
  <2> HIDE DEF held
  <2>4. TypedRows(Put(mem, application, held), calls + 1) BY <1>1, <1>6, <2>3, PutTyped
  <2>5. TypedRows(mem', calls + 1) BY <1>1, <1>5, <2>1, <2>4, PutTyped
  <2>6. Keeps({pack, shown}) BY <1>3, <2>1, <2>5 DEF Keeps
  <2> QED BY <2>6 DEF TypesKept
<1>8. CASE application \notin DOMAIN mem
  <2>1. Holds(row, Whole) /\ Persist({alone}) BY <1>8 DEF recordProofPack, Stored
  <2> HIDE DEF row, alone
  <2> QED BY <1>1, <1>4, <1>5, <2>1, PutKept
<1> QED BY <1>7, <1>8

\* Rows sent again as they are.
LEMMA ResentKept ==
  ASSUME MayCall, UNCHANGED mem, NEW N, Persist(N),
         \A s \in N : /\ IsStatement(s) /\ s.row \in DOMAIN mem /\ s.set = mem[s.row]
                      /\ s.needs \subseteq Rows
  PROVE  TypesKept
<1>1. TypedRows(mem, calls + 1) BY RowsLater DEF MayCall, RowsTyped
<1>2. \A s \in N : TypedStatement(s, calls + 1)
  BY <1>1 DEF TypedRows, Complete, TypedStatement
<1>3. Keeps(N) BY <1>1, <1>2 DEF Keeps
<1> QED BY <1>3 DEF TypesKept

LEMMA OpenKept ==
  ASSUME MayCall, NEW table \in PlainTables, NEW v \in Vacancies,
         LET open == {row \in RowsOf(mem, table) : row.key = v /\ mem[row].state = row.nth}
         IN  IF open = {}
             THEN LET row == Fresh(table, v) IN
                  Holds(row, Whole) /\ Persist({InsertOrIgnore(row)})
             ELSE /\ Persist({[InsertOrIgnore(row) EXCEPT !.set = mem[row]] : row \in open})
                  /\ UNCHANGED mem
  PROVE  TypesKept
<1> DEFINE open == {row \in RowsOf(mem, table) : row.key = v /\ mem[row].state = row.nth}
           sent(row) == [InsertOrIgnore(row) EXCEPT !.set = mem[row]]
           N == {sent(row) : row \in open}
<1>1. CASE open = {} BY <1>1, FreshKept
<1>2. CASE open # {}
  <2>1. UNCHANGED mem /\ Persist(N) BY <1>2
  <2>2. ASSUME NEW row \in open
        PROVE  /\ IsStatement(sent(row)) /\ sent(row).row = row /\ sent(row).set = mem[row]
               /\ sent(row).needs \subseteq Rows /\ row \in DOMAIN mem
    <3> DEFINE s == InsertOrIgnore(row)
    <3>1. row \in DOMAIN mem /\ row \in Rows BY DEF RowsOf, MayCall, RowsTyped, TypedRows
    <3>2. IsStatement(s) /\ s.row = row /\ s.needs \subseteq Rows
      BY <3>1, IgnoreFields, ParentsTyped
    <3>3. sent(row) = [s EXCEPT !.set = mem[row]] OBVIOUS
    <3> HIDE DEF s, sent, open
    <3> QED BY <3>1, <3>2, <3>3 DEF IsStatement
  <2> HIDE DEF open, sent
  <2>3. \A s \in N : /\ IsStatement(s) /\ s.row \in DOMAIN mem /\ s.set = mem[s.row]
                     /\ s.needs \subseteq Rows
    BY <2>2
  <2> HIDE DEF N
  <2> QED BY <2>1, <2>3, ResentKept
<1> QED BY <1>1, <1>2

LEMMA resolveManualReviewKept ==
  ASSUME MayCall, NEW v, resolveManualReview(v) PROVE TypesKept
<1>1. PICK row \in RowsOf(mem, "manual_review_items") :
        \/ Holds(row, Whole) /\ Persist({Update(row, Whole)})
        \/ UNCHANGED mem /\ Persist({Update(row, mem[row])})
  BY DEF resolveManualReview
<1>2. row \in DOMAIN mem /\ row \in Rows BY DEF RowsOf, MayCall, RowsTyped, TypedRows
<1>3. CASE Holds(row, Whole) /\ Persist({Update(row, Whole)})
  BY <1>2, <1>3, WholeTyped, UpdateKept DEF Complete
<1>4. CASE UNCHANGED mem /\ Persist({Update(row, mem[row])})
  <2> DEFINE s == Update(row, mem[row])
  <2>1. IsStatement(s) /\ s.row = row /\ s.set = mem[row] /\ s.needs = {}
    BY StatementFields DEF Update
  <2>2. UNCHANGED mem /\ Persist({s}) BY <1>4
  <2> HIDE DEF s
  <2> QED BY <1>2, <2>1, <2>2, ResentKept
<1> QED BY <1>1, <1>3, <1>4

LEMMA resolveApprovalRequestKept ==
  ASSUME MayCall, NEW v, resolveApprovalRequest(v) PROVE TypesKept
<1>1. PICK row \in RowsOf(mem, "approval_requests") :
        Holds(row, Whole) /\ Persist({Update(row, Whole)})
  BY DEF resolveApprovalRequest
<1>2. row \in Rows BY DEF RowsOf, MayCall, RowsTyped, TypedRows
<1> QED BY <1>1, <1>2, WholeTyped, UpdateKept DEF Complete

LEMMA expireApprovalRequestsKept ==
  ASSUME MayCall, NEW v, expireApprovalRequests(v) PROVE TypesKept
<1>1. PICK expired : /\ expired \subseteq RowsOf(mem, "approval_requests")
                     /\ mem' = Onto([row \in expired |-> Whole], mem)
                     /\ Persist({Update(row, Whole) : row \in expired})
  BY DEF expireApprovalRequests
<1> DEFINE N == {Update(row, Whole) : row \in expired}
           now == [row \in expired |-> Whole]
<1>2. \A row \in expired : row \in Rows
  BY <1>1 DEF RowsOf, MayCall, RowsTyped, TypedRows
<1>3. Complete(Whole, calls + 1) /\ Stamped(Whole, calls + 1) BY WholeTyped DEF Complete
<1>4. \A s \in N : IsStatement(s) /\ TypedStatement(s, calls + 1)
  BY <1>2, <1>3, UpdateTyped
<1>5. TypedRows(mem, calls + 1) BY RowsLater DEF MayCall, RowsTyped
<1>6. DOMAIN now = expired /\ \A row \in expired : now[row] = Whole OBVIOUS
<1>7. mem' = Onto(now, mem) /\ Persist(N) BY <1>1
<1> HIDE DEF N, now
<1>8. TypedRows(mem', calls + 1)
  BY <1>2, <1>3, <1>5, <1>6, <1>7, OntoFacts DEF TypedRows
<1>9. Keeps(N) BY <1>4, <1>7, <1>8 DEF Keeps
<1> QED BY <1>9 DEF TypesKept

LEMMA updateProviderHealthKept ==
  ASSUME MayCall, NEW v \in Vacancies, updateProviderHealth(v) PROVE TypesKept
<1> DEFINE row == Fresh("provider_health_checks", v)
           older == {x \in RowsOf(mem, "provider_health_checks") : x.key = v}
           kept == Restrict(mem, DOMAIN mem \ older)
           check == Insert(row)
           health == Upsert(Row("source_providers", v))
<1>1. row \in Rows /\ Row("source_providers", v) \in Rows BY RowTyped, TablesKnown
<1>2. /\ IsStatement(check) /\ TypedStatement(check, calls + 1)
      /\ IsStatement(health) /\ TypedStatement(health, calls + 1)
  BY <1>1, InsertsTyped
<1>3. mem' = Put(kept, row, Whole) /\ Persist({check, health}) BY DEF updateProviderHealth
<1>4. TypedRows(mem, calls + 1) BY RowsLater DEF MayCall, RowsTyped
<1>5. TypedRows(kept, calls + 1) BY <1>4 DEF Restrict, TypedRows
<1> HIDE DEF row, older, kept, check, health
<1>6. TypedRows(mem', calls + 1) BY <1>1, <1>3, <1>5, WholeTyped, PutTyped
<1>7. Keeps({check, health}) BY <1>2, <1>3, <1>6 DEF Keeps
<1> QED BY <1>7 DEF TypesKept

LEMMA upsertInboundMessageKept ==
  ASSUME MayCall, NEW v \in Vacancies, upsertInboundMessage(v) PROVE TypesKept
<1> DEFINE row == Row("inbound_messages", v)
           thread == Row("conversations", v)
           held == IF Stored(thread) THEN mem[thread] ELSE Whole
           opening == InsertOrIgnore(thread)
           sent == [opening EXCEPT !.set = held]
           letter == InsertOrIgnore(row)
           first == {[row |-> x.row, stamp |-> x.stamp] : x \in {sent}}
           message == [letter EXCEPT !.after = first]
<1>1. row \in Rows /\ thread \in Rows BY RowTyped, TablesKnown
<1>2. /\ IsStatement(opening) /\ TypedStatement(opening, calls + 1)
      /\ IsStatement(letter) /\ TypedStatement(letter, calls + 1)
  BY <1>1, InsertsTyped
<1>3. TypedRows(mem, calls + 1) BY RowsLater DEF MayCall, RowsTyped
<1>4. Complete(held, calls + 1) BY <1>3, WholeTyped DEF Stored, TypedRows
<1>5. mem' = Put(Put(mem, thread, held), row, Whole) /\ Persist({sent, message})
  BY DEF upsertInboundMessage, AfterRow
<1> HIDE DEF row, thread, held, opening, letter, first
<1>6. /\ IsStatement(sent) /\ TypedStatement(sent, calls + 1)
      /\ IsStatement(message) /\ TypedStatement(message, calls + 1)
  BY <1>2, <1>4 DEF IsStatement, TypedStatement, Complete
<1> HIDE DEF sent, message
<1>7. TypedRows(Put(mem, thread, held), calls + 1) BY <1>1, <1>3, <1>4, PutTyped
<1>8. TypedRows(mem', calls + 1) BY <1>1, <1>5, <1>7, WholeTyped, PutTyped
<1>9. Keeps({sent, message}) BY <1>5, <1>6, <1>8 DEF Keeps
<1> QED BY <1>9 DEF TypesKept

LEMMA saveMessageClassificationKept ==
  ASSUME MayCall, NEW v \in Vacancies, saveMessageClassification(v) PROVE TypesKept
<1> DEFINE row == Row("message_classifications", v)
           whole == Upsert(row)
           first == {[row |-> x.row, stamp |-> x.stamp] :
                       x \in SentAt(Row("inbound_messages", v))}
           s == [whole EXCEPT !.after = first]
<1>1. row \in Rows BY RowTyped, TablesKnown
<1>2. IsStatement(whole) /\ TypedStatement(whole, calls + 1) BY <1>1, InsertsTyped
<1>3. Holds(row, Whole) /\ Persist({s})
  BY DEF saveMessageClassification, AfterMessage, AfterRow
<1> HIDE DEF row, whole, first
<1>4. IsStatement(s) /\ TypedStatement(s, calls + 1)
  BY <1>2 DEF IsStatement, TypedStatement
<1> HIDE DEF s
<1> QED BY <1>1, <1>3, <1>4, WholeTyped, PutKept

LEMMA recordInterviewEventKept ==
  ASSUME MayCall, NEW v \in Vacancies, recordInterviewEvent(v) PROVE TypesKept
<1> DEFINE row == Row("interview_events", v)
           whole == Upsert(row)
<1>1. row \in Rows BY RowTyped, TablesKnown, PlainTable
<1>2. PICK needs \in SUBSET Parents(row) :
        Holds(row, Whole) /\ Persist({[whole EXCEPT !.needs = needs]})
  BY DEF recordInterviewEvent
<1> DEFINE s == [whole EXCEPT !.needs = needs]
<1>3. IsStatement(whole) /\ TypedStatement(whole, calls + 1) BY <1>1, InsertsTyped
<1>4. needs \subseteq Rows BY <1>1, ParentsTyped
<1> HIDE DEF row, whole
<1>5. IsStatement(s) /\ TypedStatement(s, calls + 1)
  BY <1>3, <1>4 DEF IsStatement, TypedStatement
<1>6. Persist({s}) BY <1>2
<1> HIDE DEF s
<1> QED BY <1>1, <1>2, <1>5, <1>6, WholeTyped, PutKept

LEMMA CalledKept ==
  ASSUME MayCall, NEW table, NEW v \in Vacancies, Called(table, v)
  PROVE  TypesKept
<1>1. ASSUME upsertJob(v) \/ saveScore(v) \/ saveDedupDecision(v) \/ createApplication(v)
      PROVE  TypesKept
  BY <1>1, PlainTable, UpsertKept
     DEF upsertJob, saveScore, saveDedupDecision, createApplication
<1>2. ASSUME recordReplayReport(v) \/ recordReleaseEvidence(v) \/ setMode(v)
               \/ recordOutboundDispatch(v)
      PROVE  TypesKept
  BY <1>2, PlainTable, UpsertKept
     DEF recordReplayReport, recordReleaseEvidence, setMode, recordOutboundDispatch
<1>3. ASSUME recordPolicyCheck(v) \/ recordSearchRun(v) \/ recordCanaryRun(v)
               \/ recordAuditEvent(v)
      PROVE  TypesKept
  BY <1>3, PlainTable, FreshKept
     DEF recordPolicyCheck, recordSearchRun, recordCanaryRun, recordAuditEvent
<1>4. ASSUME createManualReview(v) PROVE TypesKept
  BY <1>4, PlainTable, OpenKept DEF createManualReview
<1>5. ASSUME createApprovalRequest(v) PROVE TypesKept
  BY <1>5, PlainTable, OpenKept DEF createApprovalRequest
<1> QED
  BY <1>1, <1>2, <1>3, <1>4, <1>5, setApplicationStatusKept, recordProofPackKept,
     resolveManualReviewKept, resolveApprovalRequestKept, expireApprovalRequestsKept,
     updateProviderHealthKept, upsertInboundMessageKept, saveMessageClassificationKept,
     recordInterviewEventKept
     DEF Called

LEMMA RowsTypedStep == RowsTyped /\ [MirrorNext]_mirrorVars => RowsTyped'
<1> SUFFICES ASSUME RowsTyped, [MirrorNext]_mirrorVars PROVE RowsTyped'
  OBVIOUS
<1>1. CASE calls < MaxCalls /\ \E table \in Surfaces, v \in Vacancies : Called(table, v)
  <2>1. MayCall /\ TypesKept BY <1>1, CalledKept DEF MayCall
  <2>2. PICK N : Keeps(N) BY <2>1 DEF TypesKept
  <2>3. /\ calls' = calls + 1 /\ UNCHANGED <<pg, refused>> /\ flight' = flight \cup N
    BY <2>2 DEF Keeps, Persist
  <2>4. calls' \in 0 .. MaxCalls BY <2>1, <2>3, CountOfCalls
  <2>5. TypedRows(pg, calls + 1) BY <2>1, RowsLater DEF RowsTyped
  <2>6. ASSUME NEW s \in flight \cup refused PROVE TypedStatement(s, calls + 1)
    BY <2>1, StampedLater DEF RowsTyped, TypedStatement
  <2> QED BY <2>2, <2>3, <2>4, <2>5, <2>6 DEF RowsTyped, Keeps
<1>2. CASE \E s \in flight : Settle(s) \/ LoseStatement(s)
  <2>1. PICK s \in flight : Settle(s) \/ LoseStatement(s) BY <1>2
  <2>2. /\ UNCHANGED <<mem, calls>> /\ flight' \subseteq flight
        /\ \/ pg' = Applied(s) /\ UNCHANGED refused
           \/ UNCHANGED pg /\ \E error : refused' = refused \cup {[s EXCEPT !.error = error]}
    BY <2>1 DEF Settle, LoseStatement
  <2>3. IsStatement(s) /\ TypedStatement(s, calls) BY DEF RowsTyped
  <2>4. \A error : LET failed == [s EXCEPT !.error = error]
                   IN  IsStatement(failed) /\ TypedStatement(failed, calls)
    BY <2>3 DEF IsStatement, TypedStatement
  <2>5. TypedRows(Applied(s), calls)
    <3> SUFFICES ASSUME NEW r \in DOMAIN Applied(s)
                 PROVE  r \in Rows /\ Complete(Applied(s)[r], calls)
      BY DEF TypedRows
    <3>1. r \in DOMAIN pg \/ (r = s.row /\ s.how # "update") BY AppliedFacts
    <3>2. r \in DOMAIN pg => r \in Rows /\ Complete(pg[r], calls) BY DEF RowsTyped, TypedRows
    <3>3. CASE r \in DOMAIN pg /\ (r # s.row \/ s.how = "ignore") BY <3>2, <3>3, AppliedFacts
    <3>4. CASE r \in DOMAIN pg /\ r = s.row /\ s.how # "ignore"
      <4>1. Applied(s)[r] = Onto(s.set, pg[r]) BY <3>4, AppliedFacts
      <4> QED BY <2>3, <3>2, <3>4, <4>1, OntoTyped DEF Complete, TypedStatement
    <3>5. CASE r \notin DOMAIN pg
      <4>1. Applied(s)[r] = s.set BY <3>1, <3>5, AppliedFacts
      <4> QED BY <2>3, <3>1, <3>5, <4>1 DEF Complete, TypedStatement
    <3> QED BY <3>3, <3>4, <3>5
  <2> QED BY <2>2, <2>4, <2>5 DEF RowsTyped
<1>3. CASE Reopen
  <2>1. /\ mem' = Hydrated /\ flight' = {} /\ refused' = {} /\ UNCHANGED <<pg, calls>>
    BY <1>3 DEF Reopen
  <2>2. TypedRows(Hydrated, calls) BY DEF Hydrated, Restrict, RowsTyped, TypedRows
  <2> QED BY <2>1, <2>2 DEF RowsTyped
<1>4. CASE UNCHANGED mirrorVars BY <1>4 DEF mirrorVars, RowsTyped
<1> QED BY <1>1, <1>2, <1>3, <1>4 DEF MirrorNext

-----------------------------------------------------------------------------
(* Theorems.                                                               *)

\* A row without a statement in flight, a failed one or a race is stored as the
\* maps hold it, and is what hydrate would read: after any calls of any length,
\* lost statements and restarts.
THEOREM MirrorQuietRowsStored == MirrorSpec => []QuietRowsStored
<1>1. MirrorInv => QuietRowsStored
  <2> SUFFICES ASSUME MirrorInv, NEW r \in DOMAIN mem \ Disturbed
               PROVE  /\ r \in DOMAIN Hydrated
                      /\ \A c \in DOMAIN mem[r] : c \in DOMAIN pg[r] /\ pg[r][c] = mem[r][c]
    BY DEF QuietRowsStored
  <2>1. r \notin Spoilt /\ \A s \in flight : s.row # r BY DEF Disturbed, Spoilt
  <2>2. Faithful(r) BY <2>1 DEF MirrorInv
  <2>3. r \in DOMAIN pg BY <2>1, <2>2 DEF Faithful, Created
  <2>4. \A c \in DOMAIN mem[r] : c \in DOMAIN pg[r] /\ pg[r][c] = mem[r][c]
    BY <2>1, <2>2 DEF Faithful, Underway, StoredAt
  <2>5. r.table \in HydratedTables /\ Latest(r)
    BY DEF MirrorInv, MapsComplete, Latest, RowsOf
  <2>6. r \in DOMAIN Hydrated BY <2>3, <2>5 DEF Hydrated, Restrict
  <2> QED BY <2>4, <2>6
<1> QED BY <1>1, MirrorInvInit, MirrorInvStep, PTL DEF MirrorSpec

\* While no connection fails, no message and no classification is refused.
THEOREM MirrorChainedNeverRefused == MirrorSpec => []ChainedNeverRefused
<1>1. ChainInv => ChainedNeverRefused BY DEF ChainInv, ChainedNeverRefused, ThreadTables
<1> QED BY <1>1, MirrorInvInit, MirrorInvStep, PTL DEF MirrorSpec

\* The maps, the tables and the statements hold rows of the schema with stamps of
\* calls made, and every stored row has the columns its table requires.
THEOREM MirrorTypeCorrect == MirrorSpec => []MirrorTypeOK
<1>1. MirrorInit => RowsTyped
  <2> SUFFICES ASSUME MirrorInit PROVE RowsTyped
    OBVIOUS
  <2>1. DOMAIN mem = {} /\ DOMAIN pg = {} BY DEF MirrorInit
  <2>2. calls \in 0 .. MaxCalls BY MirrorAssumption DEF MirrorInit
  <2> QED BY <2>1, <2>2 DEF MirrorInit, RowsTyped, TypedRows
<1>2. RowsTyped => MirrorTypeOK
  BY DEF RowsTyped, MirrorTypeOK, TypedRows, TypedStatement, Complete, Stamped
<1> QED BY <1>1, <1>2, RowsTypedStep, PTL DEF MirrorSpec
=============================================================================
