---------------------------- MODULE StoresProofs ----------------------------
(***************************************************************************)
(* Proofs about Claims and about FileStores, which share no state: the     *)
(* idempotency service beside the database, and the stores in files.       *)
(*                                                                         *)
(* The shape of the claims holds for any callers; a key with an active     *)
(* claim has one claimant.  That guarded work is done once is proved for   *)
(* one caller at a time: then no "released" statement is in flight while a *)
(* key is claimed, so whatever lands late leaves the row of a key whose    *)
(* work was done in a status that grants nothing.                          *)
(*                                                                         *)
(* The file stores are for any secrets, objects, requests and crashes.     *)
(* That the file of secrets keeps what was reported is proved for one      *)
(* request at a time: what a request has read is then still what the file  *)
(* holds when it is replaced.                                              *)
(***************************************************************************)
EXTENDS Claims, FileStores, TLAPS

-----------------------------------------------------------------------------
(* The idempotency service.                                                *)

ActiveSteps == {"claiming", "holding", "worked", "failing"}
Steps == ActiveSteps \cup {"idle", "closing"}
CallerStates ==
    [step : Steps, key : Keys \cup {"none"}, awaits : SUBSET KeyWrites]

Active(c) == callerAt[c].step \in ActiveSteps

\* Callers are at a step of the five with a key of theirs; the record of a key
\* with an active claim says so, and there is one claimant.
ClaimsShape ==
    /\ ClaimsTypeOK
    /\ callerAt \in [Callers -> CallerStates]
    /\ workDone \in [Keys -> Nat] /\ claimCalls \in Nat
    /\ \A w \in keyWrites : w.nth <= claimCalls
    /\ \A c \in Callers :
          /\ callerAt[c].step # "idle" => callerAt[c].key \in Keys
          /\ callerAt[c].step = "failing" => records[callerAt[c].key] = "failed"
    /\ \A c, d \in Callers :
          Active(c) /\ Active(d) /\ callerAt[c].key = callerAt[d].key => c = d

LEMMA AwayTyped == /\ Away \in CallerStates /\ Away.step = "idle"
                   /\ Away.step \notin ActiveSteps
  BY DEF Away, CallerStates, Steps, ActiveSteps

LEMMA InitClaimsShape == ClaimsInit => ClaimsShape
<1> SUFFICES ASSUME ClaimsInit PROVE ClaimsShape
  OBVIOUS
<1>1. callerAt \in [Callers -> CallerStates] /\ \A c \in Callers : callerAt[c] = Away
  BY AwayTyped DEF ClaimsInit
<1>2. \A c \in Callers : ~Active(c) /\ callerAt[c].step = "idle"
  BY <1>1, AwayTyped DEF Active
<1>3. ClaimsTypeOK
  BY <1>2 DEF ClaimsInit, ClaimsTypeOK
<1> QED BY <1>1, <1>2, <1>3 DEF ClaimsInit, ClaimsShape

\* The write a call adds is a new one.
NewWrite(k, status) == [key |-> k, status |-> status, nth |-> claimCalls + 1]

LEMMA CallWrites ==
  ASSUME ClaimsShape, NEW k \in Keys, NEW status \in KeyStatuses, persistRecord(k, status)
  PROVE  /\ NewWrite(k, status) \in KeyWrites
         /\ NewWrite(k, status) \notin keyWrites
         /\ keyWrites' = keyWrites \cup {NewWrite(k, status)}
         /\ keyWrites' \ keyWrites = {NewWrite(k, status)}
         /\ records' = [records EXCEPT ![k] = status]
         /\ claimCalls' = claimCalls + 1 /\ claimCalls' \in Nat
         /\ \A w \in keyWrites' : w.nth <= claimCalls'
         /\ UNCHANGED <<keyRows, keyErrors>>
<1> DEFINE w0 == NewWrite(k, status)
<1>1. w0.nth = claimCalls + 1 /\ w0 \in KeyWrites
  BY ClaimsAssumption DEF NewWrite, KeyWrites, persistRecord, ClaimsShape
<1>2. \A w \in keyWrites : w.nth \in Nat /\ w.nth <= claimCalls
  BY DEF ClaimsShape, ClaimsTypeOK, KeyWrites
<1>3. w0 \notin keyWrites
  BY <1>1, <1>2 DEF ClaimsShape
<1>4. keyWrites' = keyWrites \cup {w0}
  BY DEF persistRecord, NewWrite
<1>5. \A w \in keyWrites' : w.nth <= claimCalls'
  BY <1>1, <1>2, <1>4 DEF persistRecord, ClaimsShape
<1> QED BY <1>1, <1>3, <1>4, <1>5 DEF persistRecord, ClaimsShape

LEMMA AcquireShape ==
  ASSUME ClaimsShape, NEW c \in Callers, NEW k \in Keys, acquire(c, k)
  PROVE  ClaimsShape'
<1>1. CASE Grantable(records[k]) /\ persistRecord(k, "acquired")
             /\ Flushing(c, "claiming", k)
  <2>1. "acquired" \in KeyStatuses BY DEF KeyStatuses
  <2>2. /\ NewWrite(k, "acquired") \in KeyWrites
        /\ keyWrites' = keyWrites \cup {NewWrite(k, "acquired")}
        /\ keyWrites' \ keyWrites = {NewWrite(k, "acquired")}
        /\ records' = [records EXCEPT ![k] = "acquired"]
        /\ claimCalls' \in Nat /\ \A w \in keyWrites' : w.nth <= claimCalls'
        /\ UNCHANGED <<keyRows, keyErrors>>
    BY <1>1, <2>1, CallWrites
  <2>3. /\ callerAt' = [callerAt EXCEPT ![c] =
             [step |-> "claiming", key |-> k,
              awaits |-> pendingWrites \cup {NewWrite(k, "acquired")}]]
        /\ pendingWrites' = {}
    BY <1>1, <2>2 DEF Flushing
  <2>4. callerAt' \in [Callers -> CallerStates]
    BY <2>2, <2>3 DEF ClaimsShape, ClaimsTypeOK, CallerStates, Steps, ActiveSteps
  <2>5. \A d \in Callers : Active(d) => callerAt[d].key # k
    BY <1>1 DEF ClaimsShape, ClaimsTypeOK, Active, ActiveSteps, Grantable
  <2>6. UNCHANGED workDone BY DEF acquire
  <2> QED BY <2>1, <2>2, <2>3, <2>4, <2>5, <2>6
       DEF ClaimsShape, ClaimsTypeOK, Active, ActiveSteps, CallerStates
<1>2. CASE /\ ~Grantable(records[k]) /\ persistRecord(k, records[k])
           /\ pendingWrites' = pendingWrites \cup (keyWrites' \ keyWrites)
           /\ UNCHANGED callerAt
  <2>1. records[k] \in KeyStatuses
    BY <1>2 DEF ClaimsShape, ClaimsTypeOK, Grantable
  <2>2. /\ NewWrite(k, records[k]) \in KeyWrites
        /\ keyWrites' = keyWrites \cup {NewWrite(k, records[k])}
        /\ keyWrites' \ keyWrites = {NewWrite(k, records[k])}
        /\ records' = [records EXCEPT ![k] = records[k]]
        /\ claimCalls' \in Nat /\ \A w \in keyWrites' : w.nth <= claimCalls'
        /\ UNCHANGED <<keyRows, keyErrors>>
    BY <1>2, <2>1, CallWrites
  <2>3. UNCHANGED <<records, workDone>>
    BY <2>2 DEF acquire, ClaimsShape, ClaimsTypeOK
  <2> QED BY <1>2, <2>2, <2>3 DEF ClaimsShape, ClaimsTypeOK, Active
<1> QED BY <1>1, <1>2 DEF acquire

LEMMA ExecuteShape ==
  ASSUME ClaimsShape, NEW c \in Callers, Execute(c)
  PROVE  ClaimsShape'
<1>1. callerAt' \in [Callers -> CallerStates]
  BY DEF ClaimsShape, Execute, CallerStates, Steps, ActiveSteps
<1>2. callerAt[c].step = "holding" /\ callerAt[c].key \in Keys
  BY DEF Execute, ClaimsShape
<1>3. workDone' \in [Keys -> Nat]
  BY <1>2 DEF Execute, ClaimsShape
<1>4. \A d \in Callers : /\ callerAt'[d].key = callerAt[d].key
                         /\ callerAt'[d].step =
                              IF d = c THEN "worked" ELSE callerAt[d].step
  BY DEF Execute, ClaimsShape, CallerStates
<1> QED BY <1>1, <1>2, <1>3, <1>4
     DEF ClaimsShape, ClaimsTypeOK, Execute, Active, ActiveSteps

LEMMA TransitionShape ==
  ASSUME ClaimsShape, NEW c \in Callers, NEW status \in KeyStatuses, transition(c, status)
  PROVE  ClaimsShape'
<1> DEFINE k == callerAt[c].key
           step == IF status = "failed" THEN "failing" ELSE "closing"
<1>1. k \in Keys /\ Active(c)
  BY DEF transition, ClaimsShape, Active, ActiveSteps
<1>2. /\ NewWrite(k, status) \in KeyWrites
      /\ keyWrites' = keyWrites \cup {NewWrite(k, status)}
      /\ keyWrites' \ keyWrites = {NewWrite(k, status)}
      /\ records' = [records EXCEPT ![k] = status]
      /\ claimCalls' \in Nat /\ \A w \in keyWrites' : w.nth <= claimCalls'
      /\ UNCHANGED <<keyRows, keyErrors>>
  BY <1>1, CallWrites DEF transition
<1>3. /\ callerAt' = [callerAt EXCEPT ![c] =
           [step |-> step, key |-> k,
            awaits |-> pendingWrites \cup {NewWrite(k, status)}]]
      /\ pendingWrites' = {} /\ UNCHANGED workDone
  BY <1>2 DEF transition, Flushing
<1>4. callerAt' \in [Callers -> CallerStates]
  BY <1>1, <1>2, <1>3 DEF ClaimsShape, ClaimsTypeOK, CallerStates, Steps, ActiveSteps
<1>5. \A d \in Callers \ {c} : Active(d) => callerAt[d].key # k
  BY <1>1 DEF ClaimsShape
<1>6. \A d \in Callers \ {c} : callerAt'[d] = callerAt[d]
  BY <1>3 DEF ClaimsShape
<1>7. callerAt'[c].step = step /\ callerAt'[c].key = k
  BY <1>3 DEF ClaimsShape
<1>8. ClaimsTypeOK'
  BY <1>1, <1>2, <1>3, <1>5, <1>6, <1>7 DEF ClaimsShape, ClaimsTypeOK, Active, ActiveSteps
<1>9. \A d \in Callers :
        /\ callerAt'[d].step # "idle" => callerAt'[d].key \in Keys
        /\ callerAt'[d].step = "failing" => records'[callerAt'[d].key] = "failed"
  BY <1>1, <1>2, <1>5, <1>6, <1>7 DEF ClaimsShape, ClaimsTypeOK, Active, ActiveSteps
<1>10. \A d \in Callers : Active(d)' => Active(d) /\ callerAt'[d].key = callerAt[d].key
  BY <1>1, <1>6, <1>7 DEF Active, ActiveSteps
<1> QED BY <1>2, <1>3, <1>4, <1>8, <1>9, <1>10 DEF ClaimsShape

LEMMA SettledShape ==
  ASSUME ClaimsShape, NEW c \in Callers, Settled(c)
  PROVE  ClaimsShape'
<1>1. \A d \in Callers \ {c} : callerAt'[d] = callerAt[d]
  BY DEF Settled, ClaimsShape
<1>2. \/ callerAt'[c] = Away
      \/ /\ callerAt'[c].key = callerAt[c].key
         /\ callerAt'[c].step = NextStep(callerAt[c].step)
         /\ callerAt[c].step # "closing"
         /\ callerAt'[c].awaits = {}
  BY DEF Settled, ClaimsShape, CallerStates
<1>3. callerAt' \in [Callers -> CallerStates]
  BY DEF Settled, ClaimsShape, CallerStates, Steps, ActiveSteps, Away, NextStep, ClaimsTypeOK
<1>4. \A d \in Callers : /\ Active(d)' => Active(d) /\ callerAt'[d].key = callerAt[d].key
                         /\ callerAt'[d].step # "idle" => callerAt[d].step # "idle"
                                                  /\ callerAt'[d].key = callerAt[d].key
                         /\ callerAt'[d].step = "failing" => callerAt[d].step = "failing"
                         /\ callerAt'[d].step \in {"claiming", "holding", "worked"} =>
                              callerAt[d].step \in {"claiming", "holding", "worked"}
  BY <1>1, <1>2 DEF Active, ActiveSteps, Away, NextStep, ClaimsShape, CallerStates, Steps
<1>5. UNCHANGED <<records, keyRows, keyWrites, pendingWrites, workDone, claimCalls>>
      /\ keyErrors' \in BOOLEAN
  BY DEF Settled
<1> QED BY <1>3, <1>4, <1>5 DEF ClaimsShape, ClaimsTypeOK

LEMMA WrittenShape ==
  ASSUME ClaimsShape, NEW w \in keyWrites, Written(w)
  PROVE  ClaimsShape'
  BY DEF ClaimsShape, ClaimsTypeOK, Written, KeyWrites, Active

LEMMA CrashClaimsShape == ClaimsShape /\ hydrateKeys => ClaimsShape'
<1> SUFFICES ASSUME ClaimsShape, hydrateKeys PROVE ClaimsShape'
  OBVIOUS
<1>1. callerAt' \in [Callers -> CallerStates] /\ \A c \in Callers : callerAt'[c] = Away
  BY AwayTyped DEF hydrateKeys
<1>2. \A c \in Callers : ~Active(c)' /\ callerAt'[c].step = "idle"
  BY <1>1, AwayTyped DEF Active
<1>3. ClaimsTypeOK'
  BY <1>2 DEF hydrateKeys, ClaimsShape, ClaimsTypeOK
<1> QED BY <1>1, <1>2, <1>3 DEF hydrateKeys, ClaimsShape

LEMMA NextClaimsShape == ClaimsShape /\ [ClaimsNext]_claimVars => ClaimsShape'
<1> SUFFICES ASSUME ClaimsShape, [ClaimsNext]_claimVars PROVE ClaimsShape'
  OBVIOUS
<1>1. CASE UNCHANGED claimVars
  BY <1>1 DEF claimVars, ClaimsShape, ClaimsTypeOK, Active
<1>2. CASE ClaimsNext
  BY <1>2, AcquireShape, ExecuteShape, TransitionShape, SettledShape, WrittenShape,
     CrashClaimsShape DEF ClaimsNext
<1> QED BY <1>1, <1>2

\* Records, rows, statements and callers are of their types, and the record of
\* a key that is claimed, held or worked for says so, for any callers
\* (IdempotencyService.acquire, transition).
THEOREM ClaimsTypeCorrect == ClaimsSpec => []ClaimsTypeOK
<1>1. ClaimsShape => ClaimsTypeOK BY DEF ClaimsShape
<1> QED BY <1>1, InitClaimsShape, NextClaimsShape, PTL DEF ClaimsSpec

-----------------------------------------------------------------------------
(* One caller. *)

OneCaller == \A c, d \in Callers : c = d

Release(w, k) == w.key = k /\ w.status = "released"
Releasing(k) == \E w \in keyWrites : Release(w, k)

\* A key has one "released" statement in flight at most, and then neither its
\* row nor, unless the caller waits for it, its record grants anything.
OneRelease ==
    \A v, w \in keyWrites : Release(v, w.key) /\ Release(w, w.key) => v = w
ReleaseGuarded ==
    \A w \in keyWrites : w.status = "released" =>
       /\ ~Grantable(keyRows[w.key])
       /\ ~Grantable(records[w.key]) \/
            \E c \in Callers : callerAt[c].step = "closing" /\ w \in callerAt[c].awaits
\* A claimed key has none, and once the claim is flushed its row grants nothing.
ClaimsClean ==
    \A c \in Callers : Active(c) =>
       /\ ~Releasing(callerAt[c].key)
       /\ callerAt[c].step # "claiming" => ~Grantable(keyRows[callerAt[c].key])
ClaimStored ==
    \A c \in Callers : callerAt[c].step = "claiming" =>
       \/ keyErrors \/ ~Grantable(keyRows[callerAt[c].key])
       \/ \E w \in keyWrites \cap callerAt[c].awaits :
             w.key = callerAt[c].key /\ w.status = "acquired"
\* Work that was done stays guarded in record, row and statements.
DoneGuarded ==
    \A k \in Keys : workDone[k] # 0 =>
       /\ workDone[k] = 1 /\ ~Grantable(records[k]) /\ ~Grantable(keyRows[k])
       /\ ~Releasing(k)
       /\ \A c \in Callers :
             Active(c) /\ callerAt[c].key = k => callerAt[c].step = "worked"

Guarded ==
    OneRelease /\ ReleaseGuarded /\ ClaimsClean /\ ClaimStored /\ DoneGuarded

LEMMA InitGuarded == ClaimsInit => Guarded
  BY AwayTyped DEF ClaimsInit, Guarded, OneRelease, ReleaseGuarded, ClaimsClean,
     ClaimStored, DoneGuarded, Active, Releasing

LEMMA AcquireGuarded ==
  ASSUME OneCaller, ClaimsShape, Guarded, NEW c \in Callers, NEW k \in Keys, acquire(c, k)
  PROVE  Guarded'
<1>a. callerAt[c].step = "idle" /\ UNCHANGED workDone /\ \A d \in Callers : d = c
  BY DEF acquire, OneCaller
<1>b. \A w \in keyWrites : w.status = "released" => ~Grantable(records[w.key])
  BY <1>a DEF Guarded, ReleaseGuarded
<1>1. CASE Grantable(records[k]) /\ persistRecord(k, "acquired")
             /\ Flushing(c, "claiming", k)
  <2> DEFINE w0 == NewWrite(k, "acquired")
  <2>1. /\ w0.key = k /\ w0.status = "acquired"
        /\ keyWrites' = keyWrites \cup {w0}
        /\ keyWrites' \ keyWrites = {w0}
        /\ records' = [records EXCEPT ![k] = "acquired"]
        /\ UNCHANGED <<keyRows, keyErrors>>
    BY <1>1, CallWrites DEF KeyStatuses, NewWrite
  <2>2. /\ callerAt'[c].step = "claiming" /\ callerAt'[c].key = k
        /\ callerAt'[c].awaits = pendingWrites \cup {w0}
    BY <1>1, <2>1 DEF Flushing, ClaimsShape
  <2>3. ~Releasing(k)
    BY <1>b, <1>1 DEF Releasing, Release
  <2>4. \A i \in Keys : Releasing(i)' <=> Releasing(i)
    BY <2>1 DEF Releasing, Release
  <2>5. workDone[k] = 0
    BY <1>1 DEF Guarded, DoneGuarded
  <2>6. \A i \in Keys : i # k => records'[i] = records[i]
    BY <2>1 DEF ClaimsShape, ClaimsTypeOK
  <2>7. OneRelease'
    BY <2>1 DEF Guarded, OneRelease, Release
  <2>8. ReleaseGuarded'
    BY <1>b, <2>1, <2>3, <2>6 DEF Guarded, ReleaseGuarded, Releasing, Release, ClaimsShape,
       ClaimsTypeOK, KeyWrites
  <2>9. ClaimsClean'
    BY <1>a, <2>2, <2>3, <2>4 DEF ClaimsClean
  <2>10. ClaimStored'
    BY <1>a, <2>1, <2>2 DEF ClaimStored
  <2>11. DoneGuarded'
    BY <1>a, <2>1, <2>2, <2>4, <2>5, <2>6 DEF Guarded, DoneGuarded
  <2> QED BY <2>7, <2>8, <2>9, <2>10, <2>11 DEF Guarded
<1>2. CASE /\ ~Grantable(records[k]) /\ persistRecord(k, records[k])
           /\ UNCHANGED callerAt
  <2> DEFINE w0 == NewWrite(k, records[k])
  <2>0. records[k] \in KeyStatuses /\ records[k] # "released"
    BY <1>2 DEF ClaimsShape, ClaimsTypeOK, Grantable
  <2>1. /\ w0.key = k /\ w0.status # "released"
        /\ keyWrites' = keyWrites \cup {w0}
        /\ UNCHANGED <<records, keyRows, keyErrors>>
    <3>1. /\ keyWrites' = keyWrites \cup {w0}
          /\ records' = [records EXCEPT ![k] = records[k]]
          /\ UNCHANGED <<keyRows, keyErrors>>
      BY <1>2, <2>0, CallWrites
    <3>2. w0.key = k /\ w0.status = records[k]
      BY DEF NewWrite
    <3> QED BY <2>0, <3>1, <3>2 DEF ClaimsShape, ClaimsTypeOK
  <2>2. \A i \in Keys : Releasing(i)' <=> Releasing(i)
    BY <2>1 DEF Releasing, Release
  <2>3. ~Active(c) /\ UNCHANGED callerAt
    BY <1>a, <1>2 DEF Active, ActiveSteps
  <2>7. OneRelease'
    BY <2>1 DEF Guarded, OneRelease, Release
  <2>8. ReleaseGuarded'
    BY <2>1, <2>3 DEF Guarded, ReleaseGuarded
  <2>9. ClaimsClean' /\ ClaimStored'
    BY <1>a, <2>3 DEF ClaimsClean, ClaimStored, Active
  <2>11. DoneGuarded'
    BY <1>a, <2>1, <2>2, <2>3 DEF Guarded, DoneGuarded, Active
  <2> QED BY <2>7, <2>8, <2>9, <2>11 DEF Guarded
<1> QED BY <1>1, <1>2 DEF acquire

LEMMA ExecuteGuarded ==
  ASSUME OneCaller, ClaimsShape, Guarded, NEW c \in Callers, Execute(c)
  PROVE  Guarded'
<1> DEFINE k == callerAt[c].key
<1>1. /\ callerAt[c].step = "holding" /\ Active(c) /\ k \in Keys
      /\ \A d \in Callers : d = c
      /\ UNCHANGED <<records, keyRows, keyWrites, keyErrors>>
  BY DEF Execute, OneCaller, Active, ActiveSteps, ClaimsShape
<1>2. /\ callerAt'[c].step = "worked" /\ callerAt'[c].key = k
      /\ callerAt'[c].awaits = callerAt[c].awaits
  BY DEF Execute, ClaimsShape, CallerStates
<1>3. \A i \in Keys : Releasing(i)' <=> Releasing(i)
  BY <1>1 DEF Releasing, Release
<1>4. workDone[k] = 0 /\ workDone' = [workDone EXCEPT ![k] = 1]
  <2>1. workDone[k] = 0
    BY <1>1 DEF Guarded, DoneGuarded
  <2>2. workDone' = [workDone EXCEPT ![k] = workDone[k] + 1]
    BY DEF Execute
  <2> QED BY <2>1, <2>2
<1>5. /\ ~Grantable(records[k]) /\ ~Grantable(keyRows[k]) /\ ~Releasing(k)
  BY <1>1 DEF Guarded, ClaimsClean, ClaimsShape, ClaimsTypeOK, Grantable
<1>6. OneRelease' /\ ReleaseGuarded'
  BY <1>1, <1>2 DEF Guarded, OneRelease, ReleaseGuarded, Release
<1>7. ClaimsClean' /\ ClaimStored'
  BY <1>1, <1>2, <1>3, <1>5 DEF ClaimsClean, ClaimStored
<1>8. DoneGuarded'
  BY <1>1, <1>2, <1>3, <1>4, <1>5 DEF Guarded, DoneGuarded, ClaimsShape
<1> QED BY <1>6, <1>7, <1>8 DEF Guarded

LEMMA TransitionGuarded ==
  ASSUME OneCaller, ClaimsShape, Guarded, NEW c \in Callers, NEW status \in KeyStatuses,
         transition(c, status)
  PROVE  Guarded'
<1> DEFINE k == callerAt[c].key
           w0 == NewWrite(k, status)
           step == IF status = "failed" THEN "failing" ELSE "closing"
<1>1. /\ k \in Keys /\ Active(c) /\ callerAt[c].step # "claiming"
      /\ \A d \in Callers : d = c
  BY DEF transition, ClaimsShape, Active, ActiveSteps, OneCaller
<1>2. /\ callerAt[c].step = "worked" => status = "committed"
      /\ status \in {"committed", "failed", "released"}
  BY DEF transition, Transitions
<1>3. /\ w0.key = k /\ w0.status = status
      /\ keyWrites' = keyWrites \cup {w0}
      /\ keyWrites' \ keyWrites = {w0}
      /\ records' = [records EXCEPT ![k] = status]
      /\ UNCHANGED <<keyRows, keyErrors, workDone>>
  BY <1>1, CallWrites DEF transition, NewWrite
<1>4. /\ callerAt'[c].step = step /\ callerAt'[c].key = k /\ w0 \in callerAt'[c].awaits
  BY <1>3 DEF transition, Flushing, ClaimsShape
<1>5. ~Releasing(k) /\ ~Grantable(keyRows[k])
  BY <1>1 DEF Guarded, ClaimsClean
<1>6. \A i \in Keys : /\ i # k => (Releasing(i)' <=> Releasing(i)) /\ records'[i] = records[i]
                      /\ status # "released" => (Releasing(i)' <=> Releasing(i))
  BY <1>1, <1>3 DEF Releasing, Release, ClaimsShape, ClaimsTypeOK
<1>7. OneRelease'
  BY <1>3, <1>5 DEF Guarded, OneRelease, Release, Releasing
<1>8. ReleaseGuarded'
  <2> SUFFICES ASSUME NEW w \in keyWrites', w.status = "released"
               PROVE  /\ ~Grantable(keyRows'[w.key])
                      /\ \/ ~Grantable(records'[w.key])
                         \/ \E d \in Callers : /\ callerAt'[d].step = "closing"
                                               /\ w \in callerAt'[d].awaits
    BY DEF ReleaseGuarded
  <2>1. CASE w = w0
    BY <2>1, <1>3, <1>4, <1>5
  <2>2. CASE w \in keyWrites
    <3>1. w.key \in Keys /\ w.key # k
      BY <2>2, <1>5 DEF Releasing, Release, ClaimsShape, ClaimsTypeOK, KeyWrites
    <3>2. callerAt[c].step # "closing"
      BY <1>1 DEF Active, ActiveSteps
    <3> QED BY <2>2, <3>1, <3>2, <1>1, <1>3, <1>6 DEF Guarded, ReleaseGuarded
  <2> QED BY <2>1, <2>2, <1>3
<1>9. ClaimsClean' /\ ClaimStored'
  BY <1>1, <1>2, <1>3, <1>4, <1>5, <1>6 DEF ClaimsClean, ClaimStored, Active, ActiveSteps
<1>10. DoneGuarded'
  <2> SUFFICES ASSUME NEW i \in Keys, workDone[i] # 0
               PROVE  /\ workDone[i] = 1 /\ ~Grantable(records'[i]) /\ ~Grantable(keyRows[i])
                      /\ ~Releasing(i)'
                      /\ \A d \in Callers :
                           Active(d)' /\ callerAt'[d].key = i => callerAt'[d].step = "worked"
    BY <1>3 DEF DoneGuarded
  <2>1. CASE i # k
    BY <2>1, <1>1, <1>4, <1>6 DEF Guarded, DoneGuarded
  <2>2. CASE i = k
    <3>1. callerAt[c].step = "worked" /\ status = "committed"
      BY <2>2, <1>1, <1>2 DEF Guarded, DoneGuarded
    <3>2. records'[i] = "committed"
      BY <2>2, <3>1, <1>3 DEF ClaimsShape, ClaimsTypeOK
    <3> QED BY <2>2, <3>1, <3>2, <1>1, <1>4, <1>6
         DEF Guarded, DoneGuarded, Active, ActiveSteps, Grantable
  <2> QED BY <2>1, <2>2
<1> QED BY <1>7, <1>8, <1>9, <1>10 DEF Guarded

LEMMA SettledGuarded ==
  ASSUME OneCaller, ClaimsShape, Guarded, NEW c \in Callers, Settled(c)
  PROVE  Guarded'
<1>1. /\ UNCHANGED <<records, keyRows, keyWrites, workDone>>
      /\ callerAt[c].awaits \cap keyWrites = {} /\ \A d \in Callers : d = c
  BY DEF Settled, OneCaller
<1>2. \/ callerAt'[c] = Away
      \/ /\ ~keyErrors /\ callerAt'[c].key = callerAt[c].key
         /\ callerAt'[c].step = NextStep(callerAt[c].step)
         /\ callerAt[c].step # "closing"
  BY DEF Settled, ClaimsShape, CallerStates
<1>3. \A i \in Keys : Releasing(i)' <=> Releasing(i)
  BY <1>1 DEF Releasing, Release
<1>4. /\ Active(c)' => Active(c) /\ callerAt'[c].key = callerAt[c].key
      /\ callerAt'[c].step # "claiming"
      /\ Active(c)' => callerAt'[c].step = NextStep(callerAt[c].step)
  BY <1>2, AwayTyped DEF Active, ActiveSteps, NextStep
<1>5. callerAt[c].step = "claiming" => keyErrors \/ ~Grantable(keyRows[callerAt[c].key])
  BY <1>1 DEF Guarded, ClaimStored
<1>6. OneRelease'
  BY <1>1 DEF Guarded, OneRelease, Release
<1>7. ReleaseGuarded'
  BY <1>1 DEF Guarded, ReleaseGuarded
<1>8. ClaimsClean'
  BY <1>1, <1>2, <1>4, <1>5, AwayTyped
     DEF Guarded, ClaimsClean, Active, Releasing, Release
<1>9. ClaimStored'
  BY <1>1, <1>4 DEF ClaimStored
<1>10. DoneGuarded'
  BY <1>1, <1>3, <1>4 DEF Guarded, DoneGuarded, NextStep
<1> QED BY <1>6, <1>7, <1>8, <1>9, <1>10 DEF Guarded

LEMMA WrittenGuarded ==
  ASSUME OneCaller, ClaimsShape, Guarded, NEW w \in keyWrites, Written(w)
  PROVE  Guarded'
<1>1. /\ UNCHANGED <<records, callerAt, workDone>> /\ keyWrites' = keyWrites \ {w}
      /\ \/ keyRows' = [keyRows EXCEPT ![w.key] = w.status] /\ UNCHANGED keyErrors
         \/ keyErrors' = TRUE /\ UNCHANGED keyRows
      /\ w.key \in Keys /\ w.status \in KeyStatuses
  BY DEF Written, ClaimsShape, ClaimsTypeOK, KeyWrites
<1>2. \A i \in Keys : Releasing(i)' => Releasing(i)
  BY <1>1 DEF Releasing, Release
\* A row becomes grantable only by the one "released" statement of its key.
<1>3. \A i \in Keys : ~Grantable(keyRows[i]) =>
        \/ ~Grantable(keyRows'[i])
        \/ Releasing(i) /\ i = w.key /\ Release(w, i)
  BY <1>1 DEF ClaimsShape, ClaimsTypeOK, Grantable, KeyStatuses, Releasing, Release
<1>4. OneRelease'
  BY <1>1 DEF Guarded, OneRelease, Release
<1>5. ReleaseGuarded'
  <2> SUFFICES ASSUME NEW v \in keyWrites', v.status = "released"
               PROVE  /\ ~Grantable(keyRows'[v.key])
                      /\ \/ ~Grantable(records[v.key])
                         \/ \E d \in Callers : /\ callerAt[d].step = "closing"
                                               /\ v \in callerAt[d].awaits
    BY <1>1 DEF ReleaseGuarded
  <2>1. v \in keyWrites /\ v # w /\ v.key \in Keys
    BY <1>1 DEF ClaimsShape, ClaimsTypeOK, KeyWrites
  <2>2. ~Release(w, v.key)
    BY <2>1 DEF Guarded, OneRelease, Release
  <2> QED BY <2>1, <2>2, <1>3 DEF Guarded, ReleaseGuarded
<1>6. ClaimsClean'
  BY <1>1, <1>2, <1>3 DEF Guarded, ClaimsClean, Active, ClaimsShape, ActiveSteps
<1>7. ClaimStored'
  <2> SUFFICES ASSUME NEW c \in Callers, callerAt[c].step = "claiming"
               PROVE  \/ keyErrors' \/ ~Grantable(keyRows'[callerAt[c].key])
                      \/ \E v \in keyWrites' \cap callerAt[c].awaits :
                            v.key = callerAt[c].key /\ v.status = "acquired"
    BY <1>1 DEF ClaimStored
  <2>1. callerAt[c].key \in Keys /\ ~Releasing(callerAt[c].key)
    BY DEF Guarded, ClaimsClean, Active, ActiveSteps, ClaimsShape
  <2>2. CASE keyErrors
    BY <2>2, <1>1 DEF ClaimsShape, ClaimsTypeOK
  <2>3. CASE ~Grantable(keyRows[callerAt[c].key])
    BY <2>1, <2>3, <1>3
  <2>4. CASE \E v \in keyWrites \cap callerAt[c].awaits :
                v.key = callerAt[c].key /\ v.status = "acquired"
    <3> PICK v \in keyWrites \cap callerAt[c].awaits :
                v.key = callerAt[c].key /\ v.status = "acquired"
      BY <2>4
    <3>1. CASE v # w
      BY <3>1, <1>1
    <3>2. CASE v = w
      BY <3>2, <1>1 DEF ClaimsShape, ClaimsTypeOK, Grantable
    <3> QED BY <3>1, <3>2
  <2> QED BY <2>2, <2>3, <2>4 DEF Guarded, ClaimStored
<1>8. DoneGuarded'
  BY <1>1, <1>2, <1>3 DEF Guarded, DoneGuarded, Active
<1> QED BY <1>4, <1>5, <1>6, <1>7, <1>8 DEF Guarded

LEMMA CrashGuarded ==
  ASSUME ClaimsShape, Guarded, hydrateKeys
  PROVE  Guarded'
<1>1. /\ records' = keyRows /\ UNCHANGED <<keyRows, keyWrites, workDone>>
      /\ \A c \in Callers : callerAt'[c] = Away
  BY DEF hydrateKeys
<1>2. \A c \in Callers : ~Active(c)' /\ callerAt'[c].step = "idle"
  BY <1>1, AwayTyped DEF Active
<1>3. OneRelease' /\ ReleaseGuarded'
  BY <1>1 DEF Guarded, OneRelease, ReleaseGuarded, Release
<1>4. ClaimsClean' /\ ClaimStored'
  BY <1>2 DEF ClaimsClean, ClaimStored
<1>5. DoneGuarded'
  BY <1>1, <1>2 DEF Guarded, DoneGuarded, Releasing, Release
<1> QED BY <1>3, <1>4, <1>5 DEF Guarded

LEMMA NextGuarded ==
  ASSUME OneCaller
  PROVE  ClaimsShape /\ Guarded /\ [ClaimsNext]_claimVars => Guarded'
<1> SUFFICES ASSUME ClaimsShape, Guarded, [ClaimsNext]_claimVars PROVE Guarded'
  OBVIOUS
<1>1. CASE UNCHANGED claimVars
  BY <1>1 DEF claimVars, Guarded, OneRelease, ReleaseGuarded, ClaimsClean, ClaimStored,
     DoneGuarded, Active, Releasing, Release
<1>2. CASE ClaimsNext
  BY <1>2, AcquireGuarded, ExecuteGuarded, TransitionGuarded, SettledGuarded,
     WrittenGuarded, CrashGuarded DEF ClaimsNext
<1> QED BY <1>1, <1>2

\* Guarded work is executed at most once when one caller at a time uses the
\* service, for any keys and any number of calls and restarts, with statements
\* that fail or land after the process that sent them died
\* (PostgresIdempotencyService).
THEOREM OneCallerWorkOnce ==
  ASSUME OneCaller
  PROVE  ClaimsSpec => []WorkOnce
<1>1. ClaimsShape /\ Guarded => WorkOnce
  BY DEF ClaimsShape, Guarded, DoneGuarded, WorkOnce
<1>2. ClaimsInit => ClaimsShape /\ Guarded
  BY InitClaimsShape, InitGuarded
<1>3. ClaimsShape /\ Guarded /\ [ClaimsNext]_claimVars => (ClaimsShape /\ Guarded)'
  BY NextClaimsShape, NextGuarded
<1> QED BY <1>1, <1>2, <1>3, PTL DEF ClaimsSpec

-----------------------------------------------------------------------------
(* The stores in files.                                                    *)

ObjectOps == {"put object", "delete object"}
Requests ==
    [op : SecretOps \cup ObjectOps \cup {"none"},
     id : SecretIds \cup ObjectKeys \cup {"none"},
     value : Nat, step : Nat, file : SUBSET Envelopes]
Unique(secrets) == \A e1, e2 \in secrets : e1.id = e2.id => e1 = e2

RequestOK(r) ==
    /\ Unique(r.file)
    /\ r.op \in SecretOps => r.id \in SecretIds /\ r.value \in 1 .. MaxFileOps
    /\ r.op \in ObjectOps => r.id \in ObjectKeys
    /\ r.op = "put object" => r.step \in {1, 2, 3, 4}
    /\ r.op = "delete object" => r.step \in {1, 2}

\* What FilesTypeOK needs of the requests under way: what they name, how far
\* they are, and that no set of secrets they carry has an id twice.
FilesShape ==
    /\ FilesTypeOK /\ Unique(tempFile.secrets)
    /\ fileAt \in [FileRequests -> Requests]
    /\ told \in [SecretIds -> Nat] /\ tried \in [SecretIds -> SUBSET Nat]
    /\ fileOps \in Nat
    /\ \A q \in FileRequests : RequestOK(fileAt[q])

LEMMA NoRequestTyped ==
  /\ NoRequest \in Requests /\ NoRequest.file = {} /\ NoRequest.op = "none"
  /\ NoRequest.op \notin SecretOps \cup ObjectOps /\ RequestOK(NoRequest)
  BY DEF NoRequest, Requests, SecretOps, ObjectOps, RequestOK, Unique

LEMMA FilesTyped ==
  /\ Torn \in JsonFiles /\ Missing \in JsonFiles
  /\ Torn.secrets = {} /\ Missing.secrets = {}
  /\ Torn.state = "torn" /\ Missing.state = "absent"
  /\ \A s \in SUBSET Envelopes :
       Complete(s) \in JsonFiles /\ Complete(s).secrets = s /\ Complete(s).state = "whole"
  /\ \A f \in JsonFiles : f.secrets \in SUBSET Envelopes
  BY DEF Torn, Missing, Complete, JsonFiles

LEMMA EditedTyped ==
  ASSUME NEW secrets \in SUBSET Envelopes, Unique(secrets), NEW op,
         NEW i \in SecretIds, NEW value \in 1 .. MaxFileOps
  PROVE  /\ Edited(secrets, op, i, value) \in SUBSET Envelopes
         /\ Unique(Edited(secrets, op, i, value))
  BY DEF Edited, Envelopes, Unique

\* A request at its next step, and one that has read the file.
Onward(r) == [r EXCEPT !.step = r.step + 1]
Carrying(r, secrets) == [r EXCEPT !.step = 2, !.file = secrets]

LEMMA OnwardTyped ==
  ASSUME NEW r \in Requests
  PROVE  /\ Onward(r) \in Requests
         /\ Onward(r).op = r.op /\ Onward(r).id = r.id /\ Onward(r).value = r.value
         /\ Onward(r).file = r.file /\ Onward(r).step = r.step + 1
<1>1. r.step \in Nat BY DEF Requests
<1>2. r.step + 1 \in Nat BY <1>1
<1> DEFINE n == r.step + 1
<1> HIDE DEF n
<1>3. Onward(r) = [r EXCEPT !.step = n] BY DEF Onward, n
<1>4. n \in Nat BY <1>2 DEF n
<1>5. [r EXCEPT !.step = n] \in Requests /\ [r EXCEPT !.step = n].step = n
      /\ [r EXCEPT !.step = n].op = r.op /\ [r EXCEPT !.step = n].id = r.id
      /\ [r EXCEPT !.step = n].value = r.value /\ [r EXCEPT !.step = n].file = r.file
  BY <1>4 DEF Requests
<1> QED BY <1>3, <1>5 DEF n

LEMMA CarryingTyped ==
  ASSUME NEW r \in Requests, NEW f \in SUBSET Envelopes
  PROVE  /\ Carrying(r, f) \in Requests
         /\ Carrying(r, f).op = r.op /\ Carrying(r, f).id = r.id
         /\ Carrying(r, f).value = r.value /\ Carrying(r, f).file = f
         /\ Carrying(r, f).step = 2
  BY DEF Requests, Carrying

LEMMA InitFilesShape == FilesInit => FilesShape
<1> SUFFICES ASSUME FilesInit PROVE FilesShape
  OBVIOUS
<1>1. fileAt \in [FileRequests -> Requests] /\ \A q \in FileRequests : fileAt[q] = NoRequest
  BY NoRequestTyped DEF FilesInit
<1>2. FilesTypeOK
  BY <1>1, FilesTyped, NoRequestTyped DEF FilesInit, FilesTypeOK
<1> QED BY <1>1, <1>2, FilesTyped, NoRequestTyped
     DEF FilesInit, FilesShape, Unique, Gone, SecretOps, ObjectOps

\* A new request.
LEMMA BeginsShape ==
  ASSUME FilesShape, NEW q \in FileRequests, NEW op \in SecretOps \cup ObjectOps, NEW id,
         op \in SecretOps => id \in SecretIds, op \in ObjectOps => id \in ObjectKeys,
         Begins(q, op, id), tried' \in [SecretIds -> SUBSET Nat]
  PROVE  FilesShape'
<1> DEFINE new == [op |-> op, id |-> id, value |-> fileOps + 1, step |-> 1, file |-> {}]
<1>0. fileOps \in Nat /\ MaxFileOps \in Nat /\ fileOps < MaxFileOps
  BY FilesAssumption DEF FilesShape, Begins
<1>a. fileOps + 1 \in 1 .. MaxFileOps /\ fileOps + 1 \in Nat
  BY <1>0
<1>b. id \in SecretIds \cup ObjectKeys
  OBVIOUS
<1>1. new \in Requests /\ fileOps + 1 \in 1 .. MaxFileOps
  BY <1>a, <1>b DEF Requests
<1>2. /\ fileAt' = [fileAt EXCEPT ![q] = new] /\ fileOps' = fileOps + 1
      /\ UNCHANGED <<secretsFile, tempFile, objectFiles, told>>
  BY DEF Begins
<1>3. fileAt' \in [FileRequests -> Requests] /\ fileAt'[q] = new
      /\ \A r \in FileRequests \ {q} : fileAt'[r] = fileAt[r]
  BY <1>1, <1>2 DEF FilesShape
<1>4. FilesTypeOK'
  BY <1>2, <1>3 DEF FilesShape, FilesTypeOK
<1>5. RequestOK(new)
  BY <1>a DEF RequestOK, Unique
<1>6. \A r \in FileRequests : RequestOK(fileAt'[r])
  BY <1>3, <1>5 DEF FilesShape
<1> HIDE DEF new
<1> QED BY <1>a, <1>2, <1>3, <1>4, <1>6 DEF FilesShape, Unique

LEMMA ChangeSecretShape ==
  ASSUME FilesShape, NEW q \in FileRequests, NEW op \in SecretOps, NEW i \in SecretIds,
         ChangeSecret(q, op, i)
  PROVE  FilesShape'
<1> DEFINE value == IF op = "delete" THEN Gone ELSE fileOps + 1
<1>0. value \in Nat
  <2>1. fileOps \in Nat BY DEF FilesShape
  <2> QED BY <2>1 DEF Gone
<1>a. tried' = [tried EXCEPT ![i] = @ \cup {value}]
  BY DEF ChangeSecret
<1>1. tried' \in [SecretIds -> SUBSET Nat]
  <2> HIDE DEF value
  <2> QED BY <1>0, <1>a DEF FilesShape
<1>2. op \notin ObjectOps
  BY DEF SecretOps, ObjectOps
<1> QED BY <1>1, <1>2, BeginsShape DEF ChangeSecret

LEMMA ChangeObjectShape ==
  ASSUME FilesShape, NEW q \in FileRequests, NEW op \in ObjectOps, NEW k \in ObjectKeys,
         ChangeObject(q, op, k)
  PROVE  FilesShape'
<1>1. tried' \in [SecretIds -> SUBSET Nat] /\ op \notin SecretOps
  BY DEF FilesShape, ChangeObject, SecretOps, ObjectOps
<1> QED BY <1>1, BeginsShape DEF ChangeObject

\* A request that goes on or is over keeps its shape.
LEMMA GoesOnShape ==
  ASSUME FilesShape, NEW q \in FileRequests, fileAt[q].op \in SecretOps,
         GoesOn(q) \/ Over(q)
  PROVE  /\ fileAt' \in [FileRequests -> Requests]
         /\ \A r \in FileRequests : RequestOK(fileAt'[r])
<1>1. \A r \in FileRequests \ {q} : fileAt'[r] = fileAt[r]
  BY DEF FilesShape, GoesOn, Over
<1>2. fileAt[q].op \notin ObjectOps
  BY DEF SecretOps, ObjectOps
<1>3. CASE GoesOn(q)
  <2>1. fileAt'[q] = Onward(fileAt[q])
    BY <1>3 DEF GoesOn, FilesShape, Onward
  <2>a. fileAt[q] \in Requests
    BY DEF FilesShape
  <2>2. fileAt'[q] \in Requests /\ fileAt'[q].op = fileAt[q].op /\ fileAt'[q].id = fileAt[q].id
        /\ fileAt'[q].value = fileAt[q].value /\ fileAt'[q].file = fileAt[q].file
    BY <2>1, <2>a, OnwardTyped
  <2>3. fileAt' \in [FileRequests -> Requests]
    BY <1>3, <2>1, <2>2 DEF GoesOn, FilesShape
  <2>4. RequestOK(fileAt'[q])
    BY <1>2, <2>2 DEF FilesShape, RequestOK, ObjectOps
  <2> QED BY <1>1, <2>3, <2>4 DEF FilesShape
<1>4. CASE Over(q)
  <2>1. fileAt'[q] = NoRequest /\ fileAt' \in [FileRequests -> Requests]
    BY <1>4, NoRequestTyped DEF Over, FilesShape
  <2> QED BY <1>1, <2>1, NoRequestTyped DEF FilesShape, Unique, ObjectOps
<1> QED BY <1>3, <1>4

LEMMA ReadShape ==
  ASSUME FilesShape, NEW q \in FileRequests, readStore(q)
  PROVE  FilesShape'
<1> DEFINE at == fileAt[q]
           edited == Edited(secretsFile.secrets, at.op, at.id, at.value)
<1>1. at.op \in SecretOps /\ at \in Requests
      /\ UNCHANGED <<secretsFile, tempFile, objectFiles, told, tried, fileOps>>
  BY DEF readStore, About, FilesShape
<1>2. CASE Over(q)
  BY <1>1, <1>2, GoesOnShape DEF FilesShape, FilesTypeOK, Requests
<1>3. CASE fileAt' = [fileAt EXCEPT ![q].step = 2, ![q].file = edited]
  <2>1. secretsFile.secrets \in SUBSET Envelopes /\ Unique(secretsFile.secrets)
    BY FilesTyped DEF FilesShape, FilesTypeOK, Unique
  <2>2. at.id \in SecretIds /\ at.value \in 1 .. MaxFileOps
    BY <1>1 DEF FilesShape, RequestOK
  <2>3. edited \in SUBSET Envelopes /\ Unique(edited)
    BY <2>1, <2>2, EditedTyped
  <2>4. fileAt'[q] = Carrying(at, edited)
        /\ \A r \in FileRequests \ {q} : fileAt'[r] = fileAt[r]
    BY <1>3 DEF FilesShape, Carrying
  <2>5. fileAt'[q] \in Requests /\ fileAt'[q].op = at.op /\ fileAt'[q].id = at.id
        /\ fileAt'[q].value = at.value /\ fileAt'[q].file = edited
    BY <1>1, <2>3, <2>4, CarryingTyped
  <2>6. fileAt' \in [FileRequests -> Requests]
    BY <1>3, <2>4, <2>5 DEF FilesShape
  <2>7. at.op # "put object" /\ at.op # "delete object"
    BY <1>1 DEF SecretOps
  <2>8. FilesTypeOK'
    BY <1>1, <2>3, <2>4, <2>5 DEF FilesShape, FilesTypeOK
  <2>9. RequestOK(fileAt'[q])
    BY <1>1, <2>2, <2>3, <2>5, <2>7 DEF RequestOK, ObjectOps
  <2> QED BY <1>1, <2>4, <2>6, <2>8, <2>9 DEF FilesShape
<1> QED BY <1>2, <1>3 DEF readStore

LEMMA WriteShape ==
  ASSUME FilesShape, NEW q \in FileRequests, writeStore(q)
  PROVE  FilesShape'
<1>1. fileAt[q].op \in SecretOps /\ (GoesOn(q) \/ Over(q))
      /\ UNCHANGED <<objectFiles, told, tried, fileOps>>
  BY DEF writeStore, About
<1>2. /\ secretsFile' \in {secretsFile, tempFile}
      /\ tempFile' \in {Torn, Missing, tempFile, Complete(fileAt[q].file)}
  BY DEF writeStore, Opening
<1>3. fileAt[q].file \in SUBSET Envelopes /\ Unique(fileAt[q].file)
  BY DEF FilesShape, Requests, RequestOK
<1>4. tempFile' \in JsonFiles /\ Unique(tempFile'.secrets)
  BY <1>2, <1>3, FilesTyped DEF FilesShape, FilesTypeOK, Unique
<1>5. secretsFile' \in JsonFiles /\ Unique(secretsFile'.secrets)
  BY <1>2 DEF FilesShape, FilesTypeOK, Unique
<1>6. fileAt' \in [FileRequests -> Requests]
  BY <1>1, GoesOnShape
<1>7. FilesTypeOK'
  BY <1>1, <1>4, <1>5, <1>6 DEF FilesShape, FilesTypeOK, Unique, Requests
<1> QED BY <1>1, <1>4, <1>6, <1>7, GoesOnShape DEF FilesShape

LEMMA ReturnsShape ==
  ASSUME FilesShape, NEW q \in FileRequests, SecretReturns(q)
  PROVE  FilesShape'
<1>1. fileAt[q].op \in SecretOps /\ Over(q)
      /\ UNCHANGED <<secretsFile, tempFile, objectFiles, fileOps>>
  BY DEF SecretReturns, About
<1>2. told' \in [SecretIds -> Nat] /\ tried' \in [SecretIds -> SUBSET Nat]
  BY DEF SecretReturns, FilesShape, Requests, Gone
<1>3. fileAt' \in [FileRequests -> Requests]
  BY <1>1, GoesOnShape
<1>4. FilesTypeOK'
  BY <1>1, <1>3 DEF FilesShape, FilesTypeOK, Requests
<1> QED BY <1>1, <1>2, <1>3, <1>4, GoesOnShape DEF FilesShape

LEMMA ObjectShape ==
  ASSUME FilesShape, NEW q \in FileRequests, PutObjectStep(q) \/ DeleteObjectStep(q)
  PROVE  FilesShape'
<1>1. /\ fileAt[q].op \in ObjectOps /\ fileAt[q].id \in ObjectKeys
      /\ UNCHANGED <<secretsFile, tempFile, told, tried, keysPut, fileOps>>
  BY DEF PutObjectStep, DeleteObjectStep, ObjectOps, FilesShape, RequestOK
<1>2. \E suffix \in {"bytes", "metadata"}, becomes \in {"absent", "torn", "whole"} :
         Touches(q, suffix, becomes)
  BY DEF PutObjectStep, DeleteObjectStep, Suffixes, UnlinkOrder
<1>3. objectFiles' \in [ObjectKeys -> [{"bytes", "metadata"} -> {"absent", "torn", "whole"}]]
  BY <1>1, <1>2 DEF FilesShape, FilesTypeOK, Touches
<1>4. \/ Over(q)
      \/ /\ GoesOn(q)
         /\ fileAt[q].op = "put object" => fileAt[q].step \in {1, 2, 3}
         /\ fileAt[q].op = "delete object" => fileAt[q].step = 1
  BY DEF PutObjectStep, DeleteObjectStep
<1>5. \A r \in FileRequests \ {q} : fileAt'[r] = fileAt[r]
  BY <1>4 DEF FilesShape, GoesOn, Over
<1>6. fileAt' \in [FileRequests -> Requests] /\ RequestOK(fileAt'[q])
  <2>1. CASE Over(q)
    BY <2>1, NoRequestTyped DEF Over, FilesShape
  <2>2. CASE /\ GoesOn(q)
             /\ fileAt[q].op = "put object" => fileAt[q].step \in {1, 2, 3}
             /\ fileAt[q].op = "delete object" => fileAt[q].step = 1
    <3>1. fileAt[q] \in Requests /\ RequestOK(fileAt[q])
      BY DEF FilesShape
    <3>2. fileAt' = [fileAt EXCEPT ![q] = Onward(fileAt[q])]
      BY <2>2 DEF GoesOn, FilesShape, Onward
    <3>3. /\ Onward(fileAt[q]) \in Requests /\ Onward(fileAt[q]).op = fileAt[q].op
          /\ Onward(fileAt[q]).id = fileAt[q].id /\ Onward(fileAt[q]).value = fileAt[q].value
          /\ Onward(fileAt[q]).file = fileAt[q].file
          /\ Onward(fileAt[q]).step = fileAt[q].step + 1
      BY <3>1, OnwardTyped
    <3>4. 1 + 1 = 2 /\ 2 + 1 = 3 /\ 3 + 1 = 4
      OBVIOUS
    <3>5. RequestOK(Onward(fileAt[q]))
      BY <2>2, <3>1, <3>3, <3>4 DEF RequestOK
    <3> QED BY <3>2, <3>3, <3>5 DEF FilesShape
  <2> QED BY <1>4, <2>1, <2>2
<1>7. FilesTypeOK'
  BY <1>1, <1>3, <1>6 DEF FilesShape, FilesTypeOK, Requests
<1> QED BY <1>1, <1>5, <1>6, <1>7 DEF FilesShape, Unique

LEMMA CrashFilesShape == FilesShape /\ FilesCrash => FilesShape'
<1> SUFFICES ASSUME FilesShape, FilesCrash PROVE FilesShape'
  OBVIOUS
<1>1. fileAt' \in [FileRequests -> Requests] /\ \A q \in FileRequests : fileAt'[q] = NoRequest
  BY NoRequestTyped DEF FilesCrash
<1>2. FilesTypeOK'
  BY <1>1, NoRequestTyped DEF FilesCrash, FilesShape, FilesTypeOK
<1> QED BY <1>1, <1>2, NoRequestTyped DEF FilesCrash, FilesShape, Unique, SecretOps, ObjectOps

LEMMA NextFilesShape == FilesShape /\ [FilesNext]_fileVars => FilesShape'
<1> SUFFICES ASSUME FilesShape, [FilesNext]_fileVars PROVE FilesShape'
  OBVIOUS
<1>1. CASE UNCHANGED fileVars
  BY <1>1 DEF fileVars, FilesShape, FilesTypeOK, Unique
<1>2. CASE FilesNext
  BY <1>2, ChangeSecretShape, ChangeObjectShape, ReadShape, WriteShape, ReturnsShape,
     ObjectShape, CrashFilesShape DEF FilesNext, ObjectOps
<1> QED BY <1>1, <1>2

\* Files and requests are of their types, and no id is twice in the file of
\* secrets, for any requests under way together and any crashes
\* (LocalEncryptedFileSecretStore, FileSystemObjectStorageAdapter).
THEOREM FilesTypeCorrect == FilesSpec => []FilesTypeOK
<1>1. FilesShape => FilesTypeOK BY DEF FilesShape
<1> QED BY <1>1, InitFilesShape, NextFilesShape, PTL DEF FilesSpec

-----------------------------------------------------------------------------
\* Objects: no two puts use one key, a put's key has no metadata before its
\* third step, and has all its bytes from then on.
PutStage(r, files) ==
    r.op = "put object" =>
        /\ r.step \in {1, 2} => files[r.id]["metadata"] = "absent"
        /\ r.step \in {3, 4} => files[r.id]["bytes"] # "torn"
PutsNamed == \A q \in FileRequests : fileAt[q].op = "put object" => fileAt[q].id \in keysPut
PutsDistinct ==
    \A p, q \in FileRequests :
        /\ fileAt[p].op = "put object" /\ fileAt[q].op = "put object"
        /\ fileAt[p].id = fileAt[q].id
        => p = q
UnusedAbsent == \A k \in ObjectKeys : k \notin keysPut => objectFiles[k]["metadata"] = "absent"
PutsStaged == \A q \in FileRequests : PutStage(fileAt[q], objectFiles)
PutsApart == PutsNamed /\ PutsDistinct /\ UnusedAbsent /\ PutsStaged /\ MetadataMeansWhole

LEMMA EarlyStage ==
  ASSUME NEW r, NEW files, r.step \in {1, 2}, files[r.id]["metadata"] = "absent"
  PROVE  PutStage(r, files)
<1>1. ASSUME r.step \in {3, 4} PROVE FALSE
  <2>1. 1 # 3 /\ 1 # 4 /\ 2 # 3 /\ 2 # 4
    OBVIOUS
  <2> QED BY <1>1, <2>1, Zenon
<1> QED BY <1>1, Zenon DEF PutStage

LEMMA LateStage ==
  ASSUME NEW r, NEW files, r.step \in {3, 4}, files[r.id]["bytes"] # "torn"
  PROVE  PutStage(r, files)
<1>1. ASSUME r.step \in {1, 2} PROVE FALSE
  <2>1. 3 # 1 /\ 3 # 2 /\ 4 # 1 /\ 4 # 2
    OBVIOUS
  <2> QED BY <1>1, <2>1, Zenon
<1> QED BY <1>1, Zenon DEF PutStage

LEMMA PutIds ==
  FilesShape => \A r \in FileRequests : fileAt[r].op = "put object" => fileAt[r].id \in ObjectKeys
  BY DEF FilesShape, RequestOK, ObjectOps

\* Steps that write no object and begin no put of one.
LEMMA OthersApart ==
  ASSUME FilesShape, PutsApart, keysPut \subseteq keysPut',
         \A r \in FileRequests : fileAt'[r].op = "put object" => fileAt'[r] = fileAt[r],
         \A k \in ObjectKeys :
            /\ objectFiles'[k]["metadata"] \in {objectFiles[k]["metadata"], "absent"}
            /\ objectFiles'[k]["bytes"] \in {objectFiles[k]["bytes"], "absent"}
  PROVE  PutsApart'
<1>1. PutsNamed' /\ PutsDistinct' BY DEF PutsApart, PutsNamed, PutsDistinct
<1>2. UnusedAbsent' BY DEF PutsApart, UnusedAbsent
<1>3. PutsStaged'
  <2> SUFFICES ASSUME NEW r \in FileRequests, fileAt'[r].op = "put object"
               PROVE  PutStage(fileAt'[r], objectFiles')
    BY DEF PutsStaged, PutStage
  <2>1. fileAt'[r] = fileAt[r] /\ fileAt[r].id \in ObjectKeys
    BY PutIds
  <2>2. PutStage(fileAt[r], objectFiles)
    BY DEF PutsApart, PutsStaged
  <2> QED BY <2>1, <2>2 DEF PutStage
<1>4. MetadataMeansWhole'
  BY DEF PutsApart, MetadataMeansWhole
<1> QED BY <1>1, <1>2, <1>3, <1>4 DEF PutsApart

\* A step of the one request that puts an object under its key.
LEMMA OneApart ==
  ASSUME FilesShape, PutsApart, NEW q \in FileRequests, NEW k \in ObjectKeys,
         keysPut' = keysPut \cup {k},
         \A r \in FileRequests \ {q} : fileAt'[r] = fileAt[r],
         \A r \in FileRequests \ {q} : fileAt[r].op = "put object" => fileAt[r].id # k,
         fileAt'[q].op = "put object" => fileAt'[q].id = k,
         \A j \in ObjectKeys \ {k} :
            /\ objectFiles'[j]["metadata"] = objectFiles[j]["metadata"]
            /\ objectFiles'[j]["bytes"] = objectFiles[j]["bytes"],
         PutStage(fileAt'[q], objectFiles'),
         objectFiles'[k]["metadata"] # "absent" => objectFiles'[k]["bytes"] # "torn"
  PROVE  PutsApart'
<1>1. PutsNamed' BY DEF PutsApart, PutsNamed
<1>2. PutsDistinct'
  <2>1. PutsDistinct BY DEF PutsApart
  <2> SUFFICES ASSUME NEW p \in FileRequests, NEW r \in FileRequests, p # r,
                      fileAt'[p].op = "put object", fileAt'[r].op = "put object",
                      fileAt'[p].id = fileAt'[r].id
               PROVE  FALSE
    BY DEF PutsDistinct
  <2>2. CASE p # q /\ r # q BY <2>1, <2>2 DEF PutsDistinct
  <2>3. CASE p = q BY <2>3
  <2>4. CASE r = q BY <2>4
  <2> QED BY <2>2, <2>3, <2>4
<1>3. UnusedAbsent' BY DEF PutsApart, UnusedAbsent
<1>4. PutsStaged'
  <2> SUFFICES ASSUME NEW r \in FileRequests \ {q}, fileAt'[r].op = "put object"
               PROVE  PutStage(fileAt'[r], objectFiles')
    BY DEF PutsStaged, PutStage
  <2>1. fileAt'[r] = fileAt[r] /\ fileAt[r].id \in ObjectKeys \ {k}
    BY PutIds
  <2>2. PutStage(fileAt[r], objectFiles)
    BY DEF PutsApart, PutsStaged
  <2> QED BY <2>1, <2>2 DEF PutStage
<1>5. MetadataMeansWhole'
  BY DEF PutsApart, MetadataMeansWhole
<1> QED BY <1>1, <1>2, <1>3, <1>4, <1>5 DEF PutsApart

LEMMA FirstIsEarly == 1 \notin {3, 4}
  OBVIOUS

LEMMA BeginsApart ==
  ASSUME FilesShape, PutsApart, NEW q \in FileRequests, NEW k \in ObjectKeys,
         ChangeObject(q, "put object", k)
  PROVE  PutsApart'
<1>1. /\ fileAt'[q].op = "put object" /\ fileAt'[q].id = k /\ fileAt'[q].step = 1
      /\ \A r \in FileRequests \ {q} : fileAt'[r] = fileAt[r]
      /\ k \notin keysPut /\ keysPut' = keysPut \cup {k} /\ UNCHANGED objectFiles
  BY DEF ChangeObject, Begins, FilesShape
<1>2. objectFiles[k]["metadata"] = "absent"
  BY <1>1 DEF PutsApart, UnusedAbsent
<1>3. \A r \in FileRequests \ {q} : fileAt[r].op = "put object" => fileAt[r].id # k
  BY <1>1 DEF PutsApart, PutsNamed
<1>4. PutStage(fileAt'[q], objectFiles')
  <2>1. fileAt'[q].step = 1 /\ fileAt'[q].id = k BY <1>1
  <2>2. objectFiles'[k]["metadata"] = "absent" BY <1>1, <1>2
  <2>3. fileAt'[q].step \notin {3, 4} BY <2>1, FirstIsEarly, Zenon
  <2> QED BY <2>1, <2>2, <2>3, Zenon DEF PutStage
<1> QED BY <1>1, <1>2, <1>3, <1>4, OneApart

\* A file touched becomes what is written, and the others stay.
LEMMA TouchesOne ==
  ASSUME FilesShape, NEW q \in FileRequests, fileAt[q].id \in ObjectKeys,
         NEW suffix \in {"bytes", "metadata"}, NEW becomes, Touches(q, suffix, becomes)
  PROVE  /\ objectFiles'[fileAt[q].id][suffix] = becomes
         /\ \A k \in ObjectKeys, s \in {"bytes", "metadata"} :
              k # fileAt[q].id \/ s # suffix => objectFiles'[k][s] = objectFiles[k][s]
  BY DEF FilesShape, FilesTypeOK, Touches

LEMMA PutApart ==
  ASSUME FilesShape, PutsApart, NEW q \in FileRequests, PutObjectStep(q)
  PROVE  PutsApart'
<1> DEFINE k == fileAt[q].id
           n == fileAt[q].step
<1>0. 1 + 1 = 2 /\ 2 + 1 = 3 /\ 3 + 1 = 4
  OBVIOUS
<1>1. fileAt[q].op = "put object" /\ k \in ObjectKeys /\ k \in keysPut
      /\ keysPut' = keysPut \cup {k}
  BY PutIds DEF PutObjectStep, PutsApart, PutsNamed
<1>2. \A r \in FileRequests \ {q} :
         /\ fileAt'[r] = fileAt[r]
         /\ fileAt[r].op = "put object" => fileAt[r].id # k
  BY <1>1 DEF PutObjectStep, GoesOn, Over, FilesShape, PutsApart, PutsDistinct
<1>3. GoesOn(q) => /\ fileAt'[q].op = "put object" /\ fileAt'[q].id = k
                   /\ fileAt'[q].step = n + 1
  <2>1. fileAt[q] \in Requests BY DEF FilesShape
  <2>2. GoesOn(q) => fileAt'[q] = Onward(fileAt[q])
    BY DEF GoesOn, FilesShape, Onward
  <2> QED BY <1>1, <2>1, <2>2, OnwardTyped
<1>4. Over(q) => fileAt'[q].op # "put object"
  BY NoRequestTyped DEF Over, FilesShape
<1>5. PutStage(fileAt[q], objectFiles) /\ MetadataMeansWhole
  BY DEF PutsApart, PutsStaged
<1>6. ASSUME NEW suffix \in {"bytes", "metadata"}, NEW becomes, Touches(q, suffix, becomes),
             PutStage(fileAt'[q], objectFiles'),
             objectFiles'[k]["metadata"] # "absent" => objectFiles'[k]["bytes"] # "torn",
             GoesOn(q) \/ Over(q)
      PROVE  PutsApart'
  <2>1. \A j \in ObjectKeys \ {k} :
          /\ objectFiles'[j]["metadata"] = objectFiles[j]["metadata"]
          /\ objectFiles'[j]["bytes"] = objectFiles[j]["bytes"]
    BY <1>1, <1>6, TouchesOne
  <2> QED BY <1>1, <1>2, <1>3, <1>4, <1>6, <2>1, OneApart
<1>7. CASE n = 1 /\ Touches(q, "bytes", "torn") /\ GoesOn(q)
  <2>1. fileAt'[q].step = 2 /\ fileAt'[q].id = k BY <1>0, <1>3, <1>7
  <2>2. objectFiles[k]["metadata"] = "absent"
    BY <1>1, <1>5, <1>7 DEF PutStage
  <2>3. objectFiles'[k]["metadata"] = "absent"
    BY <1>1, <1>7, <2>2, TouchesOne
  <2>4. PutStage(fileAt'[q], objectFiles') BY <2>1, <2>3, EarlyStage
  <2> QED BY <1>6, <1>7, <2>3, <2>4
<1>8. CASE n = 2 /\ Touches(q, "bytes", "whole") /\ GoesOn(q)
  <2>1. fileAt'[q].step = 3 /\ fileAt'[q].id = k BY <1>0, <1>3, <1>8
  <2>2. objectFiles'[k]["bytes"] = "whole"
    BY <1>1, <1>8, TouchesOne
  <2>3. PutStage(fileAt'[q], objectFiles') BY <2>1, <2>2, LateStage
  <2> QED BY <1>6, <1>8, <2>2, <2>3
<1>9. CASE n = 3 /\ Touches(q, "metadata", "torn") /\ GoesOn(q)
  <2>1. fileAt'[q].step = 4 /\ fileAt'[q].id = k BY <1>0, <1>3, <1>9
  <2>2. objectFiles[k]["bytes"] # "torn"
    BY <1>1, <1>5, <1>9 DEF PutStage
  <2>3. objectFiles'[k]["bytes"] # "torn"
    BY <1>1, <1>9, <2>2, TouchesOne
  <2>4. PutStage(fileAt'[q], objectFiles') BY <2>1, <2>3, LateStage
  <2> QED BY <1>6, <1>9, <2>3, <2>4
<1>10. CASE n = 4 /\ Touches(q, "metadata", "whole") /\ Over(q)
  <2>1. objectFiles[k]["bytes"] # "torn"
    BY <1>1, <1>5, <1>10 DEF PutStage
  <2>2. objectFiles'[k]["bytes"] # "torn"
    BY <1>1, <1>10, <2>1, TouchesOne
  <2>3. PutStage(fileAt'[q], objectFiles') BY <1>4, <1>10 DEF PutStage
  <2> QED BY <1>6, <1>10, <2>2, <2>3
<1> QED BY <1>7, <1>8, <1>9, <1>10 DEF PutObjectStep, Suffixes

LEMMA NextApart == FilesShape /\ PutsApart /\ [FilesNext]_fileVars => PutsApart'
<1> SUFFICES ASSUME FilesShape, PutsApart, [FilesNext]_fileVars PROVE PutsApart'
  OBVIOUS
<1>1. CASE UNCHANGED fileVars
  BY <1>1, OthersApart DEF fileVars
<1>2. ASSUME NEW q \in FileRequests,
             \/ \E op \in SecretOps, i \in SecretIds : ChangeSecret(q, op, i)
             \/ \E k \in ObjectKeys : ChangeObject(q, "delete object", k)
      PROVE  PutsApart'
  <2>1. /\ fileAt'[q].op # "put object" /\ UNCHANGED objectFiles /\ keysPut \subseteq keysPut'
        /\ \A r \in FileRequests \ {q} : fileAt'[r] = fileAt[r]
    <3>1. PICK op \in SecretOps \cup {"delete object"},
                i \in SecretIds \cup ObjectKeys : Begins(q, op, i)
      BY <1>2 DEF ChangeSecret, ChangeObject
    <3>2. fileAt'[q].op = op /\ op # "put object"
          /\ \A r \in FileRequests \ {q} : fileAt'[r] = fileAt[r]
      BY <3>1 DEF Begins, FilesShape, SecretOps
    <3> QED BY <3>1, <3>2 DEF Begins
  <2> QED BY <2>1, OthersApart
<1>3. ASSUME NEW q \in FileRequests, readStore(q) \/ writeStore(q) \/ SecretReturns(q)
      PROVE  PutsApart'
  <2>1. fileAt[q].op \in SecretOps /\ UNCHANGED <<objectFiles, keysPut>>
    BY <1>3 DEF readStore, writeStore, SecretReturns, About
  <2>2. fileAt'[q].op \in {fileAt[q].op, "none"}
    <3>1. fileAt[q] \in Requests BY DEF FilesShape
    <3>2. GoesOn(q) => fileAt'[q] = Onward(fileAt[q])
      BY DEF GoesOn, FilesShape, Onward
    <3>3. CASE GoesOn(q) BY <3>1, <3>2, <3>3, OnwardTyped
    <3>4. CASE Over(q) BY <3>4, NoRequestTyped DEF Over, FilesShape
    <3>5. CASE readStore(q) /\ ~Over(q)
      <4> DEFINE edited == Edited(secretsFile.secrets, fileAt[q].op, fileAt[q].id, fileAt[q].value)
      <4>1. fileAt' = [fileAt EXCEPT ![q].step = 2, ![q].file = edited]
        BY <3>5 DEF readStore
      <4> HIDE DEF edited
      <4> QED BY <3>1, <4>1 DEF Requests, FilesShape
    <3> QED BY <1>3, <3>3, <3>4, <3>5 DEF writeStore, SecretReturns
  <2>3. \A r \in FileRequests \ {q} : fileAt'[r] = fileAt[r]
    BY <1>3 DEF readStore, writeStore, SecretReturns, GoesOn, Over, FilesShape
  <2>4. fileAt'[q].op # "put object"
    BY <2>1, <2>2 DEF SecretOps
  <2> QED BY <2>1, <2>3, <2>4, OthersApart
<1>4. ASSUME NEW q \in FileRequests, DeleteObjectStep(q)
      PROVE  PutsApart'
  <2>1. fileAt[q].op = "delete object" /\ fileAt[q].id \in ObjectKeys /\ UNCHANGED keysPut
    BY <1>4 DEF DeleteObjectStep, FilesShape, RequestOK, ObjectOps
  <2>2. fileAt'[q].op # "put object"
    <3>1. fileAt[q] \in Requests BY DEF FilesShape
    <3>2. GoesOn(q) => fileAt'[q] = Onward(fileAt[q])
      BY DEF GoesOn, FilesShape, Onward
    <3>3. CASE GoesOn(q) BY <2>1, <3>1, <3>2, <3>3, OnwardTyped
    <3>4. CASE Over(q) BY <3>4, NoRequestTyped DEF Over, FilesShape
    <3> QED BY <1>4, <3>3, <3>4 DEF DeleteObjectStep
  <2>3. \A r \in FileRequests \ {q} : fileAt'[r] = fileAt[r]
    BY <1>4 DEF DeleteObjectStep, GoesOn, Over, FilesShape
  <2>4. \E suffix \in {"bytes", "metadata"} : Touches(q, suffix, "absent")
    BY <1>4 DEF DeleteObjectStep, UnlinkOrder
  <2>5. \A k \in ObjectKeys :
          /\ objectFiles'[k]["metadata"] \in {objectFiles[k]["metadata"], "absent"}
          /\ objectFiles'[k]["bytes"] \in {objectFiles[k]["bytes"], "absent"}
    <3> SUFFICES ASSUME NEW suffix \in {"bytes", "metadata"}, Touches(q, suffix, "absent"),
                        NEW k \in ObjectKeys
                 PROVE  /\ objectFiles'[k]["metadata"] \in {objectFiles[k]["metadata"], "absent"}
                        /\ objectFiles'[k]["bytes"] \in {objectFiles[k]["bytes"], "absent"}
      BY <2>4
    <3>3. CASE Touches(q, "bytes", "absent") BY <2>1, <3>3, TouchesOne
    <3>4. CASE Touches(q, "metadata", "absent") BY <2>1, <3>4, TouchesOne
    <3> QED BY <3>3, <3>4
  <2> QED BY <2>1, <2>2, <2>3, <2>5, OthersApart
<1>5. ASSUME FilesCrash PROVE PutsApart'
  <2>1. \A q \in FileRequests : fileAt'[q].op # "put object"
    BY <1>5, NoRequestTyped DEF FilesCrash
  <2> QED BY <1>5, <2>1, OthersApart DEF FilesCrash
<1>6. CASE FilesNext
  BY <1>2, <1>3, <1>4, <1>5, <1>6, BeginsApart, PutApart DEF FilesNext
<1> QED BY <1>1, <1>6

\* An object found with its metadata has all its bytes, for any puts, deletes
\* and crashes, provided that no put reuses a key
\* (FileSystemObjectStorageAdapter.put writes the metadata last).
THEOREM ObjectsWhole == FilesSpec => []MetadataMeansWhole
<1>1. FilesInit => PutsApart
  <2> SUFFICES ASSUME FilesInit PROVE PutsApart
    OBVIOUS
  <2>1. \A q \in FileRequests : fileAt[q].op # "put object"
    BY NoRequestTyped DEF FilesInit
  <2>2. \A k \in ObjectKeys : objectFiles[k]["metadata"] = "absent"
    BY DEF FilesInit
  <2> QED BY <2>1, <2>2 DEF PutsApart, PutsNamed, PutsDistinct, UnusedAbsent,
       PutsStaged, PutStage, MetadataMeansWhole
<1>2. PutsApart => MetadataMeansWhole
  BY DEF PutsApart
<1> QED BY <1>1, <1>2, InitFilesShape, NextFilesShape, NextApart, PTL DEF FilesSpec

-----------------------------------------------------------------------------
\* Secrets, one request at a time.  The request keeps what it will write in
\* step with the file it has read.
OneRequest == \A p, q \in FileRequests : p = q

Held(secrets, i) ==
    IF \E e \in secrets : e.id = i
    THEN (CHOOSE e \in secrets : e.id = i).value ELSE Gone
Wanted(r) == IF r.op = "delete" THEN Gone ELSE r.value

InStep(r) ==
    r.op \in SecretOps =>
        /\ Wanted(r) \in tried[r.id]
        /\ r.step \in {2, 3, 4} =>
              r.file = Edited(secretsFile.secrets, r.op, r.id, r.value)
        /\ r.step = 4 => tempFile = Complete(r.file)
        /\ r.step = 5 => StoredValue(r.id) = Wanted(r)
Kept == SecretsKept /\ \A q \in FileRequests : InStep(fileAt[q])

LEMMA HeldValue ==
  ASSUME NEW secrets, Unique(secrets), NEW e \in secrets
  PROVE  Held(secrets, e.id) = e.value
<1> DEFINE f == CHOOSE x \in secrets : x.id = e.id
<1>1. f \in secrets /\ f.id = e.id OBVIOUS
<1>2. f = e BY <1>1 DEF Unique
<1>3. Held(secrets, e.id) = f.value BY DEF Held
<1> QED BY <1>2, <1>3

LEMMA HeldNone ==
  ASSUME NEW secrets, NEW i, \A e \in secrets : e.id # i
  PROVE  Held(secrets, i) = Gone
  BY DEF Held

\* What an edited file holds: the new value under the request's id, what it
\* held under the others.
LEMMA HeldEdited ==
  ASSUME NEW secrets \in SUBSET Envelopes, Unique(secrets), NEW op,
         NEW i \in SecretIds, NEW value \in 1 .. MaxFileOps, NEW j \in SecretIds
  PROVE  Held(Edited(secrets, op, i, value), j) =
           IF j = i THEN IF op = "delete" THEN Gone ELSE value ELSE Held(secrets, j)
<1> DEFINE edited == Edited(secrets, op, i, value)
           new == [id |-> i, value |-> value]
<1>0. Unique(edited) BY EditedTyped
<1>1. CASE j = i /\ op = "delete"
  <2>1. \A e \in edited : e.id # j BY <1>1 DEF Edited
  <2> QED BY <1>1, <2>1, HeldNone
<1>2. CASE j = i /\ op # "delete"
  <2>1. new \in edited /\ new.id = i /\ new.value = value BY <1>2 DEF Edited
  <2>2. Held(edited, new.id) = new.value BY <1>0, <2>1, HeldValue
  <2> QED BY <1>2, <2>1, <2>2
<1>3. CASE j # i
  <2>1. CASE \E e \in secrets : e.id = j
    <3>1. PICK e \in secrets : e.id = j BY <2>1
    <3>2. e \in edited BY <1>3, <3>1 DEF Edited
    <3>3. Held(edited, j) = e.value /\ Held(secrets, j) = e.value
      BY <1>0, <3>1, <3>2, HeldValue
    <3> QED BY <1>3, <3>3
  <2>2. CASE \A e \in secrets : e.id # j
    <3>1. \A e \in edited : e.id # j BY <1>3, <2>2 DEF Edited
    <3>2. Held(edited, j) = Gone /\ Held(secrets, j) = Gone BY <2>2, <3>1, HeldNone
    <3> QED BY <1>3, <3>2
  <2> QED BY <2>1, <2>2
<1> QED BY <1>1, <1>2, <1>3

LEMMA StoredIsHeld == \A i : StoredValue(i) = Held(secretsFile.secrets, i)
  BY DEF StoredValue, Held

\* Steps that change no file of secrets and no history.
LEMMA OthersKeep ==
  ASSUME Kept, UNCHANGED <<secretsFile, tempFile, told, tried>>,
         \A r \in FileRequests : fileAt'[r].op \in SecretOps => fileAt'[r] = fileAt[r]
  PROVE  Kept'
<1>1. \A i : StoredValue(i)' = StoredValue(i) BY DEF StoredValue
<1>2. SecretsKept' BY <1>1 DEF Kept, SecretsKept
<1>3. \A r \in FileRequests : InStep(fileAt[r])'
  <2> SUFFICES ASSUME NEW r \in FileRequests, fileAt'[r].op \in SecretOps
               PROVE  InStep(fileAt[r])'
    BY DEF InStep
  <2>1. fileAt'[r] = fileAt[r] OBVIOUS
  <2>2. InStep(fileAt[r]) BY DEF Kept
  <2> QED BY <1>1, <2>1, <2>2 DEF InStep, Wanted
<1> QED BY <1>2, <1>3 DEF Kept

LEMMA ChangeKeeps ==
  ASSUME OneRequest, FilesShape, Kept, NEW q \in FileRequests, NEW op \in SecretOps,
         NEW i \in SecretIds, ChangeSecret(q, op, i)
  PROVE  Kept'
<1> DEFINE value == IF op = "delete" THEN Gone ELSE fileOps + 1
<1>1. /\ fileAt'[q].op = op /\ fileAt'[q].id = i /\ fileAt'[q].value = fileOps + 1
      /\ fileAt'[q].step = 1 /\ UNCHANGED <<secretsFile, told>>
  BY DEF ChangeSecret, Begins, FilesShape
<1>2. tried' = [tried EXCEPT ![i] = @ \cup {value}]
  BY DEF ChangeSecret
<1> HIDE DEF value
<1>3. /\ value \in tried'[i]
      /\ \A j \in SecretIds : tried[j] \subseteq tried'[j]
  BY <1>2 DEF FilesShape
<1>4. \A j : StoredValue(j)' = StoredValue(j)
  BY <1>1 DEF StoredValue
<1>5. SecretsKept'
  BY <1>1, <1>3, <1>4 DEF Kept, SecretsKept
<1>6. Wanted(fileAt'[q]) = value
  BY <1>1 DEF Wanted, value
<1>7. InStep(fileAt[q])'
  <2>1. 1 # 2 /\ 1 # 3 /\ 1 # 4 /\ 1 # 5 OBVIOUS
  <2>2. fileAt'[q].step \notin {2, 3, 4} /\ fileAt'[q].step # 5 /\ fileAt'[q].step # 4
    BY <1>1, <2>1, Zenon
  <2>3. Wanted(fileAt[q])' \in (tried[fileAt[q].id])'
    BY <1>1, <1>3, <1>6 DEF Wanted
  <2> QED BY <2>2, <2>3, Zenon DEF InStep
<1>8. \A r \in FileRequests : r = q BY DEF OneRequest
<1> QED BY <1>5, <1>7, <1>8, Zenon DEF Kept

LEMMA ReadKeeps ==
  ASSUME OneRequest, FilesShape, Kept, NEW q \in FileRequests, readStore(q)
  PROVE  Kept'
<1> DEFINE r == fileAt[q]
           edited == Edited(secretsFile.secrets, r.op, r.id, r.value)
<1>1. r \in Requests /\ r.op \in SecretOps
      /\ UNCHANGED <<secretsFile, tempFile, told, tried>>
  BY DEF readStore, About, FilesShape
<1>2. \A p \in FileRequests : p = q BY DEF OneRequest
<1>3. CASE Over(q)
  <2>1. fileAt'[q].op \notin SecretOps
    BY <1>3, NoRequestTyped DEF Over, FilesShape
  <2> QED BY <1>1, <1>2, <2>1, OthersKeep
<1>4. CASE fileAt' = [fileAt EXCEPT ![q].step = 2, ![q].file = edited]
  <2>1. secretsFile.secrets \in SUBSET Envelopes /\ Unique(secretsFile.secrets)
    BY FilesTyped DEF FilesShape, FilesTypeOK, Unique
  <2>2. r.id \in SecretIds /\ r.value \in 1 .. MaxFileOps
    BY <1>1 DEF FilesShape, RequestOK
  <2>3. edited \in SUBSET Envelopes
    BY <2>1, <2>2, EditedTyped
  <2>4. fileAt'[q] = Carrying(r, edited)
    BY <1>4 DEF FilesShape, Carrying
  <2> HIDE DEF edited
  <2>5. /\ fileAt'[q].op = r.op /\ fileAt'[q].id = r.id /\ fileAt'[q].value = r.value
        /\ fileAt'[q].file = edited /\ fileAt'[q].step = 2
    BY <1>1, <2>3, <2>4, CarryingTyped
  <2>6. \A i : StoredValue(i)' = StoredValue(i) BY <1>1 DEF StoredValue
  <2>7. SecretsKept' BY <1>1, <2>6 DEF Kept, SecretsKept
  <2>8. Wanted(fileAt[q])' \in (tried[fileAt[q].id])'
    BY <1>1, <2>5 DEF Kept, InStep, Wanted
  <2>9. fileAt'[q].file = Edited(secretsFile'.secrets, fileAt'[q].op, fileAt'[q].id, fileAt'[q].value)
    BY <1>1, <2>5 DEF edited
  <2>10. fileAt'[q].step # 4 /\ fileAt'[q].step # 5
    BY <2>5
  <2>11. InStep(fileAt[q])'
    BY <2>8, <2>9, <2>10, Zenon DEF InStep
  <2> QED BY <1>2, <2>7, <2>11, Zenon DEF Kept
<1> QED BY <1>3, <1>4 DEF readStore

LEMMA WriteKeeps ==
  ASSUME OneRequest, FilesShape, Kept, NEW q \in FileRequests, writeStore(q)
  PROVE  Kept'
<1> DEFINE r == fileAt[q]
<1>1. r \in Requests /\ r.op \in SecretOps /\ InStep(r)
      /\ r.id \in SecretIds /\ r.value \in 1 .. MaxFileOps
      /\ UNCHANGED <<told, tried>>
  BY DEF writeStore, About, FilesShape, RequestOK, Kept
<1>2. \A p \in FileRequests : p = q BY DEF OneRequest
<1>3. GoesOn(q) => /\ fileAt'[q].op = r.op /\ fileAt'[q].id = r.id
                   /\ fileAt'[q].value = r.value /\ fileAt'[q].file = r.file
                   /\ fileAt'[q].step = r.step + 1
  <2>1. GoesOn(q) => fileAt'[q] = Onward(r) BY DEF GoesOn, FilesShape, Onward
  <2> QED BY <1>1, <2>1, OnwardTyped
<1>4. Wanted(r) \in tried[r.id] BY <1>1 DEF InStep
<1>5. GoesOn(q) => Wanted(fileAt[q])' \in (tried[fileAt[q].id])'
  BY <1>1, <1>3, <1>4 DEF Wanted
<1>6. 2 + 1 = 3 /\ 3 + 1 = 4 /\ 4 + 1 = 5 OBVIOUS
<1>7. CASE r.step = 2 /\ UNCHANGED secretsFile /\ GoesOn(q)
  <2>1. \A i : StoredValue(i)' = StoredValue(i) BY <1>7 DEF StoredValue
  <2>2. SecretsKept' BY <1>1, <1>7, <2>1 DEF Kept, SecretsKept
  <2>3. fileAt'[q].step = 3 BY <1>3, <1>6, <1>7
  <2>4. fileAt'[q].step # 4 /\ fileAt'[q].step # 5 BY <2>3
  <2>5. r.file = Edited(secretsFile.secrets, r.op, r.id, r.value)
    BY <1>1, <1>7 DEF InStep
  <2>6. fileAt'[q].file = Edited(secretsFile'.secrets, fileAt'[q].op, fileAt'[q].id, fileAt'[q].value)
    BY <1>3, <1>7, <2>5
  <2>7. InStep(fileAt[q])' BY <1>5, <1>7, <2>4, <2>6, Zenon DEF InStep
  <2> QED BY <1>2, <2>2, <2>7, Zenon DEF Kept
<1>8. CASE r.step = 3 /\ UNCHANGED secretsFile /\ GoesOn(q) /\ tempFile' = Complete(r.file)
  <2>1. \A i : StoredValue(i)' = StoredValue(i) BY <1>8 DEF StoredValue
  <2>2. SecretsKept' BY <1>1, <1>8, <2>1 DEF Kept, SecretsKept
  <2>3. fileAt'[q].step = 4 BY <1>3, <1>6, <1>8
  <2>4. fileAt'[q].step # 5 BY <2>3
  <2>5. r.file = Edited(secretsFile.secrets, r.op, r.id, r.value)
    BY <1>1, <1>8 DEF InStep
  <2>6. fileAt'[q].file = Edited(secretsFile'.secrets, fileAt'[q].op, fileAt'[q].id, fileAt'[q].value)
    BY <1>3, <1>8, <2>5
  <2>7. tempFile' = Complete(fileAt'[q].file) BY <1>3, <1>8
  <2>8. InStep(fileAt[q])' BY <1>5, <1>8, <2>4, <2>6, <2>7, Zenon DEF InStep
  <2> QED BY <1>2, <2>2, <2>8, Zenon DEF Kept
<1>9. CASE /\ r.step = 4
           /\ IF tempFile = Missing
              THEN UNCHANGED <<secretsFile, tempFile>> /\ Over(q)
              ELSE secretsFile' = tempFile /\ tempFile' = Missing /\ GoesOn(q)
  <2>1. tempFile = Complete(r.file) /\ r.file = Edited(secretsFile.secrets, r.op, r.id, r.value)
    BY <1>1, <1>9 DEF InStep
  <2>2. r.file \in SUBSET Envelopes
    BY <1>1 DEF Requests
  <2>3. tempFile.secrets = r.file /\ tempFile.state = "whole" /\ tempFile # Missing
    BY <2>1, <2>2, FilesTyped
  <2>4. secretsFile' = tempFile /\ GoesOn(q)
    BY <1>9, <2>3
  <2>5. secretsFile.secrets \in SUBSET Envelopes /\ Unique(secretsFile.secrets)
    BY FilesTyped DEF FilesShape, FilesTypeOK, Unique
  <2>6. \A j \in SecretIds :
          Held(secretsFile'.secrets, j) =
            IF j = r.id THEN Wanted(r) ELSE Held(secretsFile.secrets, j)
    <3> SUFFICES ASSUME NEW j \in SecretIds
                 PROVE  Held(secretsFile'.secrets, j) =
                          IF j = r.id THEN Wanted(r) ELSE Held(secretsFile.secrets, j)
      OBVIOUS
    <3>1. secretsFile'.secrets = Edited(secretsFile.secrets, r.op, r.id, r.value)
      BY <2>1, <2>3, <2>4
    <3>2. Held(Edited(secretsFile.secrets, r.op, r.id, r.value), j) =
            IF j = r.id THEN IF r.op = "delete" THEN Gone ELSE r.value
            ELSE Held(secretsFile.secrets, j)
      BY <1>1, <2>5, HeldEdited
    <3> QED BY <3>1, <3>2 DEF Wanted
  <2>7. \A j \in SecretIds :
          StoredValue(j)' = IF j = r.id THEN Wanted(r) ELSE StoredValue(j)
    BY <2>6 DEF StoredValue, Held
  <2>8. SecretsKept'
    <3>1. secretsFile'.state # "torn" BY <2>3, <2>4
    <3>2. \A j \in SecretIds : StoredValue(j)' \in {told[j]} \cup tried[j]
      BY <1>4, <2>7 DEF Kept, SecretsKept
    <3> QED BY <1>1, <3>1, <3>2 DEF SecretsKept
  <2>9. fileAt'[q].step = 5 BY <1>3, <1>6, <1>9, <2>4
  <2>10. fileAt'[q].step \notin {2, 3, 4} BY <2>9
  <2>11. fileAt'[q].step # 4 BY <2>9
  <2>12. StoredValue(fileAt[q].id)' = Wanted(fileAt[q])'
    <3>1. fileAt'[q].id = r.id /\ Wanted(fileAt[q])' = Wanted(r)
      BY <1>3, <2>4 DEF Wanted
    <3>2. Held(secretsFile'.secrets, r.id) = Wanted(r) BY <1>1, <2>6
    <3> QED BY <3>1, <3>2 DEF StoredValue, Held
  <2>13. InStep(fileAt[q])'
    BY <1>5, <2>4, <2>10, <2>11, <2>12, Zenon DEF InStep
  <2> QED BY <1>2, <2>8, <2>13, Zenon DEF Kept
<1>10. FileRequests \ {q} = {}
  BY <1>2
<1> QED BY <1>7, <1>8, <1>9, <1>10 DEF writeStore, About, Opening

LEMMA ReturnsKeeps ==
  ASSUME OneRequest, FilesShape, Kept, NEW q \in FileRequests, SecretReturns(q)
  PROVE  Kept'
<1> DEFINE r == fileAt[q]
<1>1. r.op \in SecretOps /\ r.id \in SecretIds /\ r.step = 5 /\ InStep(r)
      /\ UNCHANGED <<secretsFile, tempFile>> /\ Over(q)
  BY DEF SecretReturns, About, FilesShape, RequestOK, Kept
<1>2. told' = [told EXCEPT ![r.id] = Wanted(r)] /\ tried' = [tried EXCEPT ![r.id] = {}]
  BY DEF SecretReturns, Wanted
<1>3. StoredValue(r.id) = Wanted(r)
  BY <1>1 DEF InStep
<1>4. \A i : StoredValue(i)' = StoredValue(i) BY <1>1 DEF StoredValue
<1>5. SecretsKept'
  BY <1>1, <1>2, <1>3, <1>4 DEF Kept, SecretsKept, FilesShape
<1>6. \A p \in FileRequests : fileAt'[p].op \notin SecretOps
  BY <1>1, NoRequestTyped DEF OneRequest, Over, FilesShape
<1> QED BY <1>5, <1>6 DEF Kept, InStep

LEMMA NextKeeps == OneRequest /\ FilesShape /\ Kept /\ [FilesNext]_fileVars => Kept'
<1> SUFFICES ASSUME OneRequest, FilesShape, Kept, [FilesNext]_fileVars PROVE Kept'
  OBVIOUS
<1>1. CASE UNCHANGED fileVars
  BY <1>1, OthersKeep DEF fileVars
<1>2. ASSUME NEW q \in FileRequests, NEW op \in ObjectOps, NEW k \in ObjectKeys,
             ChangeObject(q, op, k)
      PROVE  Kept'
  <2>1. fileAt'[q].op = op /\ op \notin SecretOps
        /\ UNCHANGED <<secretsFile, tempFile, told, tried>>
    BY <1>2 DEF ChangeObject, Begins, FilesShape, ObjectOps, SecretOps
  <2> QED BY <2>1, OthersKeep DEF OneRequest
<1>3. ASSUME NEW q \in FileRequests, PutObjectStep(q) \/ DeleteObjectStep(q)
      PROVE  Kept'
  <2>1. fileAt[q].op \in ObjectOps /\ UNCHANGED <<secretsFile, tempFile, told, tried>>
        /\ (GoesOn(q) \/ Over(q))
    BY <1>3 DEF PutObjectStep, DeleteObjectStep, ObjectOps
  <2>2. CASE GoesOn(q)
    <3>1. fileAt[q] \in Requests /\ fileAt'[q] = Onward(fileAt[q])
      BY <2>2 DEF GoesOn, FilesShape, Onward
    <3>2. fileAt'[q].op = fileAt[q].op BY <3>1, OnwardTyped
    <3> QED BY <2>1, <3>2, OthersKeep DEF OneRequest, ObjectOps, SecretOps
  <2>3. CASE Over(q)
    <3>1. fileAt'[q].op \notin SecretOps BY <2>3, NoRequestTyped DEF Over, FilesShape
    <3> QED BY <2>1, <3>1, OthersKeep DEF OneRequest
  <2> QED BY <2>1, <2>2, <2>3
<1>4. ASSUME FilesCrash PROVE Kept'
  <2>1. \A q \in FileRequests : fileAt'[q].op \notin SecretOps
    BY <1>4, NoRequestTyped DEF FilesCrash
  <2> QED BY <1>4, <2>1, OthersKeep DEF FilesCrash
<1>5. CASE FilesNext
  BY <1>2, <1>3, <1>4, <1>5, ChangeKeeps, ReadKeeps, WriteKeeps, ReturnsKeeps
     DEF FilesNext, ObjectOps
<1> QED BY <1>1, <1>5

LEMMA InitKept == FilesInit => Kept
<1> SUFFICES ASSUME FilesInit PROVE Kept
  OBVIOUS
<1>1. \A q \in FileRequests : fileAt[q].op \notin SecretOps
  BY NoRequestTyped DEF FilesInit
<1>2. \A i : StoredValue(i) = Gone
  BY FilesTyped, HeldNone, StoredIsHeld DEF FilesInit
<1>3. SecretsKept
  BY <1>2, FilesTyped DEF FilesInit, SecretsKept
<1> QED BY <1>1, <1>3 DEF Kept, InStep

\* With one request at a time, the file of secrets can always be read, and
\* holds what was reported last or what an interrupted request was about to
\* leave, for any secrets, requests and crashes
\* (LocalEncryptedFileSecretStore replaces the file by renaming).
THEOREM SecretsSurvive == ASSUME OneRequest PROVE FilesSpec => []SecretsKept
<1>1. Kept => SecretsKept BY DEF Kept
<1>2. FilesShape /\ Kept /\ [FilesNext]_fileVars => Kept' BY NextKeeps
<1> QED BY <1>1, <1>2, InitFilesShape, InitKept, NextFilesShape, PTL DEF FilesSpec
=============================================================================
