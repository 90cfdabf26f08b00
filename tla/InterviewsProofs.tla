-------------------------- MODULE InterviewsProofs --------------------------
(***************************************************************************)
(* Proofs about Interviews.  With one gateway the invariant that carries   *)
(* NoOverlap and DailyCap says where a version of an event may be: only    *)
(* events the gateway's own copy knows are in a statement or in the table, *)
(* and always with the same slot.  The check of an approval, made against  *)
(* every event of the copy, is then made against every interview that is   *)
(* scheduled anywhere.                                                     *)
(***************************************************************************)
EXTENDS Interviews, FiniteSetTheorems, TLAPS

LEMMA KnownEvent ==
  ASSUME NEW copy \in [Ids -> Event \union {Absent}], NEW i \in Known(copy)
  PROVE  i \in Ids /\ copy[i] \in Event /\ copy[i] # Absent
  BY DEF Known, Absent, Event

LEMMA EventTyped ==
  ASSUME NEW e \in Event
  PROVE  /\ e.slot \in CanonicalSlots /\ e.status \in EventStatus
         /\ e.status # "absent" /\ e # Absent
  BY DEF Event, EventStatus, Absent

\* A resolution changes nothing but the status.
LEMMA ResolvedTyped ==
  ASSUME NEW r \in Request, NEW resolution \in {"approved", "rejected"}
  PROVE  Resolved(r, resolution) \in Request
  BY DEF Resolved, Request, RequestStatus

LEMMA KnownRequest ==
  ASSUME NEW copy \in [Ids -> Request \union {Absent}], NEW i \in Known(copy)
  PROVE  i \in Ids /\ copy[i] \in Request
  BY DEF Known, Absent

LEMMA StatementsTyped ==
  ASSUME NEW i \in Ids
  PROVE  /\ \A e \in Event : EventRow(i, e) \in Statements
         /\ \A r \in Request : /\ RequestRow(i, r) \in Statements
                               /\ RequestStatusRow(i, r) \in Statements
  BY DEF Statements, EventRow, RequestRow, RequestStatusRow

LEMMA StatementRow ==
  ASSUME NEW st \in Statements
  PROVE  /\ st.id \in Ids
         /\ st.table \in {"interview_events", "new_request", "request_status"}
         /\ st.table = "interview_events" => st.row \in Event
         /\ st.table # "interview_events" => st.row \in Request
  BY DEF Statements

LEMMA InitType == Init => TypeOK
  BY DEF Init, TypeOK, Statements

LEMMA CreateType ==
  ASSUME TypeOK, NEW g \in Gateways, NEW i \in Ids, NEW s \in Slots,
         NEW m \in ModesSeen, CreateConfirmation(g, i, s, m)
  PROVE  TypeOK'
<1> DEFINE e == [slot |-> Canonical(s), status |-> "pending_confirmation"]
           r == [status |-> "pending", expiresAt |-> now + DayUnits]
<1>1. e \in Event /\ r \in Request
  BY AvailabilityAssumption
     DEF TypeOK, Event, EventStatus, CanonicalSlots, Request, RequestStatus
<1>2. {EventRow(i, e), RequestRow(i, r)} \subseteq Statements
  BY <1>1, StatementsTyped
<1>3. /\ events' = [events EXCEPT ![g][i] = e]
      /\ requests' = [requests EXCEPT ![g][i] = r]
      /\ unsent' = [unsent EXCEPT ![g] = @ \union
                      {EventRow(i, e), RequestRow(i, r)}]
      /\ now' = now /\ stored' = stored
  BY DEF CreateConfirmation
<1> HIDE DEF e, r
<1> QED BY <1>1, <1>2, <1>3 DEF TypeOK

LEMMA ApproveType ==
  ASSUME TypeOK, NEW g \in Gateways, NEW i \in Ids, NEW m \in ModesSeen,
         Approve(g, i, m)
  PROVE  TypeOK'
<1> DEFINE f == [events[g][i] EXCEPT !.status = "scheduled"]
           r == Resolved(requests[g][i], "approved")
           sent == {RequestStatusRow(i, r)} \union
                     IF r.status = "approved" THEN {EventRow(i, f)} ELSE {}
<1>1. events[g][i] \in Event /\ requests[g][i] \in Request
  BY KnownEvent, KnownRequest DEF TypeOK, Approve, Resolvable
<1>2. f \in Event
  BY <1>1 DEF Event, EventStatus
<1>3. r \in Request
  BY <1>1, ResolvedTyped
<1>4. sent \subseteq Statements
  BY <1>2, <1>3, StatementsTyped
<1>5. /\ events' = [events EXCEPT ![g][i] =
                      IF r.status = "approved" THEN f ELSE @]
      /\ requests' = [requests EXCEPT ![g][i] = r]
      /\ unsent' = [unsent EXCEPT ![g] = @ \union sent]
      /\ now' = now /\ stored' = stored
  BY DEF Approve
<1> HIDE DEF f, r, sent
<1> QED BY <1>1, <1>2, <1>3, <1>4, <1>5 DEF TypeOK

LEMMA RejectType ==
  ASSUME TypeOK, NEW g \in Gateways, NEW i \in Ids, NEW b \in BOOLEAN,
         Reject(g, i, b)
  PROVE  TypeOK'
<1> DEFINE f == [events[g][i] EXCEPT !.status = "cancelled"]
           r == Resolved(requests[g][i], "rejected")
           cancel == b \/ r.status = "rejected"
           sent == {RequestStatusRow(i, r)} \union
                     IF cancel THEN {EventRow(i, f)} ELSE {}
<1>1. events[g][i] \in Event /\ requests[g][i] \in Request
  BY KnownEvent, KnownRequest DEF TypeOK, Reject, Resolvable
<1>2. f \in Event
  BY <1>1 DEF Event, EventStatus
<1>3. r \in Request
  BY <1>1, ResolvedTyped
<1>4. sent \subseteq Statements
  BY <1>2, <1>3, StatementsTyped
<1>5. /\ events' = [events EXCEPT ![g][i] = IF cancel THEN f ELSE @]
      /\ requests' = [requests EXCEPT ![g][i] = r]
      /\ unsent' = [unsent EXCEPT ![g] = @ \union sent]
      /\ now' = now /\ stored' = stored
  BY DEF Reject
<1> HIDE DEF f, r, sent, cancel
<1> QED BY <1>1, <1>2, <1>3, <1>4, <1>5 DEF TypeOK

LEMMA LandType ==
  ASSUME TypeOK, NEW g \in Gateways, NEW st \in unsent[g], Land(g, st)
  PROVE  TypeOK'
<1>1. st \in Statements /\ st.id \in Ids
  BY StatementRow DEF TypeOK
<1>2. stored.events \in [Ids -> Event \union {Absent}]
      /\ stored.requests \in [Ids -> Request \union {Absent}]
  BY DEF TypeOK
<1>3. stored' \in [events : [Ids -> Event \union {Absent}],
                   requests : [Ids -> Request \union {Absent}]]
  <2>1. CASE st.table = "interview_events"
    <3>1. stored' = [stored EXCEPT !.events[st.id] = st.row]
      BY <2>1 DEF Land
    <3>2. st.row \in Event
      BY <2>1, <1>1, StatementRow
    <3> QED BY <3>1, <3>2, <1>1 DEF TypeOK
  <2>2. CASE st.table = "new_request"
    <3>1. stored' = [stored EXCEPT !.requests[st.id] =
                       IF @ = Absent THEN st.row ELSE @]
      BY <2>2 DEF Land
    <3>2. st.row \in Request
      BY <2>2, <1>1, StatementRow
    <3> QED BY <3>1, <3>2, <1>1 DEF TypeOK
  <2>3. CASE st.table = "request_status"
    <3>1. stored' = [stored EXCEPT !.requests[st.id] =
                       StatusUpdated(@, st.row.status)]
      BY <2>3 DEF Land
    <3>2. st.row \in Request
      BY <2>3, <1>1, StatementRow
    <3>3. \A row \in Request \union {Absent} :
            StatusUpdated(row, st.row.status) \in Request \union {Absent}
      BY <3>2 DEF StatusUpdated, Request
    <3> QED BY <3>1, <3>3, <1>1, <1>2 DEF TypeOK
  <2> QED BY <2>1, <2>2, <2>3, <1>1, StatementRow
<1> QED BY <1>3 DEF TypeOK, Land

LEMMA NextType == TypeOK /\ [Next]_vars => TypeOK'
<1> SUFFICES ASSUME TypeOK, [Next]_vars PROVE TypeOK'
  OBVIOUS
<1>1. ASSUME NEW g \in Gateways, NEW i \in Ids, NEW s \in Slots,
             NEW m \in ModesSeen, CreateConfirmation(g, i, s, m)
      PROVE  TypeOK'
  BY <1>1, CreateType
<1>2. ASSUME NEW g \in Gateways, NEW i \in Ids, NEW m \in ModesSeen,
             Approve(g, i, m)
      PROVE  TypeOK'
  BY <1>2, ApproveType
<1>3. ASSUME NEW g \in Gateways, NEW i \in Ids, NEW b \in BOOLEAN,
             Reject(g, i, b)
      PROVE  TypeOK'
  BY <1>3, RejectType
<1>4. ASSUME NEW g \in Gateways, NEW st \in unsent[g], Land(g, st)
      PROVE  TypeOK'
  BY <1>4, LandType
<1>5. ASSUME NEW g \in Gateways, NEW st \in unsent[g], Lose(g, st)
      PROVE  TypeOK'
  BY <1>5 DEF TypeOK, Lose
<1>6. ASSUME NEW g \in Gateways, Restart(g)
      PROVE  TypeOK'
  BY <1>6 DEF TypeOK, Restart
<1>7. CASE Tick
  BY <1>7, ClockAssumption DEF TypeOK, Tick
<1>8. CASE UNCHANGED vars
  BY <1>8 DEF TypeOK, vars
<1> QED BY <1>1, <1>2, <1>3, <1>4, <1>5, <1>6, <1>7, <1>8 DEF Next

\* Type correctness of the calendar, for any number of gateways.
THEOREM InterviewsTypeOK == Spec => []TypeOK
  BY InitType, NextType, PTL DEF Spec

-----------------------------------------------------------------------------
(* One gateway. *)

EventStatements(g) == { st \in unsent[g] : st.table = "interview_events" }

\* Every version of an event, in the table or in a statement, is one of an
\* event the copy knows, with the slot it has there.
VersionsKnown(g) ==
  /\ \A st \in EventStatements(g) :
       st.id \in Known(events[g]) /\ st.row.slot = events[g][st.id].slot
  /\ \A i \in Known(stored.events) :
       i \in Known(events[g]) /\ stored.events[i].slot = events[g][i].slot

\* Scheduled in some version.
Ever(g) ==
  Scheduled(events[g]) \union Scheduled(stored.events)
    \union { st.id : st \in { x \in EventStatements(g) :
                                 x.row.status = "scheduled" } }

EverDisjoint(g) ==
  \A i, j \in Ever(g) :
    i # j => ~Conflict(events[g][i].slot, Hour, events[g][j].slot)

EverOn(g, day) == { i \in Ever(g) : events[g][i].slot.day = day }

EverCapped(g) ==
  \A c \in CanonicalSlots : Cardinality(EverOn(g, c.day)) <= MaxPerDay

CalendarInv(g) ==
  TypeOK /\ VersionsKnown(g) /\ EverDisjoint(g) /\ EverCapped(g)

\* What the invariant is about never leaves the known events.
LEMMA EverKnown ==
  ASSUME NEW g \in Gateways, TypeOK, VersionsKnown(g)
  PROVE  /\ Ever(g) \subseteq Known(events[g])
         /\ Scheduled(stored.events) \subseteq Known(stored.events)
         /\ Known(events[g]) \subseteq Ids
  BY DEF Ever, VersionsKnown, Scheduled, Known, EventStatements

LEMMA ConflictSymmetric ==
  ASSUME NEW c \in CanonicalSlots, NEW d \in CanonicalSlots,
         Conflict(c, Hour, d)
  PROVE  Conflict(d, Hour, c)
  BY DEF Conflict, RangesOverlap

\* A step that schedules nothing, keeps the slots of known events and only
\* removes or moves versions, or adds unscheduled ones, keeps the calendar.
LEMMA ShrinkKeeps ==
  ASSUME NEW g \in Gateways, IsFiniteSet(Ids), CalendarInv(g), TypeOK',
         VersionsKnown(g)', Ever(g)' \subseteq Ever(g),
         \A i \in Ever(g)' : events[g]'[i].slot = events[g][i].slot
  PROVE  CalendarInv(g)'
<1>1. EverDisjoint(g)'
  BY DEF CalendarInv, EverDisjoint, Conflict, Start, RangesOverlap
<1>2. EverCapped(g)'
  <2> SUFFICES ASSUME NEW c \in CanonicalSlots
               PROVE  Cardinality(EverOn(g, c.day)') <= MaxPerDay
    BY DEF EverCapped, CanonicalSlots, Canonical
  <2>1. EverOn(g, c.day)' \subseteq EverOn(g, c.day)
    BY DEF EverOn
  <2>2. IsFiniteSet(EverOn(g, c.day))
    BY EverKnown, FS_Subset DEF EverOn, CalendarInv
  <2>3. /\ Cardinality(EverOn(g, c.day)') <= Cardinality(EverOn(g, c.day))
        /\ Cardinality(EverOn(g, c.day)') \in Nat
        /\ Cardinality(EverOn(g, c.day)) \in Nat
    BY <2>1, <2>2, FS_Subset, FS_CardinalityType
  <2>4. Cardinality(EverOn(g, c.day)) <= MaxPerDay
    BY DEF CalendarInv, EverCapped
  <2> QED BY <2>3, <2>4, AvailabilityAssumption
<1> QED BY <1>1, <1>2 DEF CalendarInv

\* A confirmable slot is clear of every other known event, and its day has
\* room among them.
LEMMA ConfirmedIsClear ==
  ASSUME NEW g \in Gateways, NEW c, NEW n, NEW x, NEW m,
         MayConfirm(events[g], c, n, x, m)
  PROVE  /\ \A j \in Known(events[g]) \ x : ~Conflict(c, n, events[g][j].slot)
         /\ DayHasRoom(events[g], c.day, x)
  BY DEF MayConfirm, Confirmable, HasConflict, OtherSlots

LEMMA CreateKeeps ==
  ASSUME NEW g, Gateways = {g}, IsFiniteSet(Ids), CalendarInv(g), TypeOK',
         NEW i \in Ids, NEW s \in Slots, NEW m \in ModesSeen,
         CreateConfirmation(g, i, s, m)
  PROVE  CalendarInv(g)'
<1> DEFINE e == [slot |-> Canonical(s), status |-> "pending_confirmation"]
           r == [status |-> "pending", expiresAt |-> now + DayUnits]
<1>1. /\ events' = [events EXCEPT ![g][i] = e]
      /\ unsent' = [unsent EXCEPT ![g] = @ \union
                      {EventRow(i, e), RequestRow(i, r)}]
      /\ stored' = stored
      /\ events[g][i] = Absent /\ stored.events[i] = Absent
      /\ \A st \in unsent[g] : st.id # i
  BY DEF CreateConfirmation, Fresh
<1>2. events[g]' = [events[g] EXCEPT ![i] = e]
  BY <1>1 DEF CalendarInv, TypeOK
<1>3. EventStatements(g)' = EventStatements(g) \union {EventRow(i, e)}
  BY <1>1 DEF EventStatements, EventRow, RequestRow, CalendarInv, TypeOK
<1>4. i \notin Known(events[g]) /\ i \notin Known(stored.events)
  BY <1>1 DEF Known, Absent
<1>5. Known(events[g]') = Known(events[g]) \union {i}
  BY <1>2 DEF Known, CalendarInv, TypeOK
<1>6. \A j \in Known(events[g]) : events[g]'[j] = events[g][j]
  BY <1>2, <1>4 DEF CalendarInv, TypeOK, Known
<1>7. VersionsKnown(g)'
  <2>1. events[g]'[i] = e
    BY <1>2 DEF CalendarInv, TypeOK
  <2>2. \A st \in EventStatements(g)' :
          /\ st.id \in Known(events[g]')
          /\ st.row.slot = events[g]'[st.id].slot
    <3> TAKE st \in EventStatements(g)'
    <3>1. CASE st = EventRow(i, e)
      BY <3>1, <2>1, <1>5 DEF EventRow
    <3>2. CASE st \in EventStatements(g)
      BY <3>2, <1>5, <1>6 DEF VersionsKnown, CalendarInv
    <3> QED BY <3>1, <3>2, <1>3
  <2>3. \A j \in Known(stored.events') :
          j \in Known(events[g]') /\ stored.events'[j].slot = events[g]'[j].slot
    BY <1>1, <1>5, <1>6 DEF VersionsKnown, CalendarInv
  <2> QED BY <2>2, <2>3 DEF VersionsKnown
<1>8. Scheduled(events[g]') = Scheduled(events[g])
  BY <1>2, <1>1 DEF Scheduled, CalendarInv, TypeOK, Absent
<1>9. Ever(g)' \subseteq Ever(g)
  BY <1>1, <1>3, <1>8 DEF Ever, EventRow
<1>10. \A j \in Ever(g)' : events[g]'[j].slot = events[g][j].slot
  BY <1>6, <1>9, EverKnown DEF CalendarInv
<1> HIDE DEF e, r
<1> QED BY <1>7, <1>9, <1>10, ShrinkKeeps

LEMMA ApproveKeeps ==
  ASSUME NEW g, Gateways = {g}, IsFiniteSet(Ids), CalendarInv(g), TypeOK',
         NEW i \in Ids, NEW m \in ModesSeen, Approve(g, i, m)
  PROVE  CalendarInv(g)'
<1> DEFINE f == [events[g][i] EXCEPT !.status = "scheduled"]
           r == Resolved(requests[g][i], "approved")
           granted == r.status = "approved"
<1>1. /\ i \in Known(events[g]) /\ stored' = stored
      /\ events' = [events EXCEPT ![g][i] = IF granted THEN f ELSE @]
      /\ unsent' = [unsent EXCEPT ![g] = @ \union ({RequestStatusRow(i, r)}
                      \union IF granted THEN {EventRow(i, f)} ELSE {})]
      /\ MayConfirm(events[g], events[g][i].slot, Hour, {i}, m)
  BY DEF Approve, Resolvable
<1>2. events[g][i] \in Event /\ f \in Event /\ f.slot = events[g][i].slot
      /\ f.status = "scheduled"
  <2>1. events[g][i] \in Event
    BY <1>1, KnownEvent DEF CalendarInv, TypeOK
  <2> QED BY <2>1 DEF Event, EventStatus
<1>3. EventStatements(g)' \subseteq EventStatements(g) \union
        IF granted THEN {EventRow(i, f)} ELSE {}
  BY <1>1 DEF EventStatements, RequestStatusRow, CalendarInv, TypeOK
<1>4. events[g]' = [events[g] EXCEPT ![i] = IF granted THEN f ELSE @]
  BY <1>1 DEF CalendarInv, TypeOK
<1>5. \A j \in Ids : events[g]'[j].slot = events[g][j].slot
  BY <1>4, <1>2 DEF CalendarInv, TypeOK
<1>6. Known(events[g]') = Known(events[g])
  <2>1. f.status # "absent"
    BY <1>2
  <2> HIDE DEF f, granted
  <2>2. \A j \in Ids : events[g]'[j].status = "absent"
                         <=> events[g][j].status = "absent"
    BY <2>1, <1>1, <1>4 DEF Known, CalendarInv, TypeOK
  <2> QED BY <2>2 DEF Known
<1>7. VersionsKnown(g)'
  <2>1. \A st \in EventStatements(g)' :
          /\ st.id \in Known(events[g]')
          /\ st.row.slot = events[g]'[st.id].slot
    <3> TAKE st \in EventStatements(g)'
    <3>1. CASE st = EventRow(i, f)
      BY <3>1, <1>1, <1>2, <1>5, <1>6 DEF EventRow
    <3>2. CASE st \in EventStatements(g)
      BY <3>2, <1>5, <1>6, EverKnown DEF VersionsKnown, CalendarInv
    <3> HIDE DEF f, granted
    <3> QED BY <3>1, <3>2, <1>3
  <2>2. \A j \in Known(stored.events') :
          j \in Known(events[g]') /\ stored.events'[j].slot = events[g]'[j].slot
    BY <1>1, <1>5, <1>6, EverKnown DEF VersionsKnown, CalendarInv
  <2> QED BY <2>1, <2>2 DEF VersionsKnown
<1>8. Ever(g)' \subseteq Ever(g) \union {i}
  <2>1. Scheduled(events[g]') \subseteq Scheduled(events[g]) \union {i}
    BY <1>4 DEF Scheduled, CalendarInv, TypeOK
  <2>2. \A st \in EventStatements(g)' :
          st \in EventStatements(g) \/ st.id = i
    <3> HIDE DEF f, granted
    <3> QED BY <1>3 DEF EventRow
  <2> QED BY <2>1, <2>2, <1>1 DEF Ever
<1>9. Known(events[g]) \subseteq Ids /\ Ever(g) \subseteq Known(events[g])
  BY EverKnown DEF CalendarInv
<1>10. /\ \A j \in Known(events[g]) \ {i} :
            ~Conflict(events[g][i].slot, Hour, events[g][j].slot)
       /\ DayHasRoom(events[g], events[g][i].slot.day, {i})
  BY <1>1, ConfirmedIsClear
<1>11. EverDisjoint(g)'
  <2> SUFFICES ASSUME NEW j \in Ever(g)', NEW k \in Ever(g)', j # k
               PROVE  ~Conflict(events[g][j].slot, Hour, events[g][k].slot)
    BY <1>5, <1>8, <1>9 DEF EverDisjoint, Conflict, Start, RangesOverlap
  <2>1. j \in Known(events[g]) /\ k \in Known(events[g])
    BY <1>1, <1>8, <1>9
  <2>2. events[g][j].slot \in CanonicalSlots /\ events[g][k].slot \in CanonicalSlots
    BY <2>1, KnownEvent, EventTyped DEF CalendarInv, TypeOK
  <2>3. CASE j = i
    BY <2>1, <2>3, <1>10
  <2>4. CASE k = i
    BY <2>1, <2>2, <2>4, <1>10, ConflictSymmetric
  <2>5. CASE j # i /\ k # i
    BY <2>5, <1>8 DEF CalendarInv, EverDisjoint
  <2> QED BY <2>3, <2>4, <2>5
<1>12. EverCapped(g)'
  <2> SUFFICES ASSUME NEW c \in CanonicalSlots
               PROVE  Cardinality(EverOn(g, c.day)') <= MaxPerDay
    BY DEF EverCapped, CanonicalSlots, Canonical
  <2>1. EverOn(g, c.day)' \subseteq EverOn(g, c.day) \union {i}
    BY <1>5, <1>8, <1>9 DEF EverOn
  <2>2. CASE i \in EverOn(g, c.day)'
    <3> DEFINE rest == { j \in Known(events[g]) \ {i} :
                           events[g][j].slot.day = events[g][i].slot.day }
    <3>1. events[g][i].slot.day = c.day
      BY <2>2, <1>5 DEF EverOn
    <3>2. EverOn(g, c.day)' \subseteq rest \union {i}
      BY <2>1, <3>1, <1>9 DEF EverOn
    <3>3. IsFiniteSet(rest) /\ i \notin rest
      BY <1>9, FS_Subset
    <3>4. Cardinality(rest) \in Nat /\ Cardinality(rest) < MaxPerDay
      BY <3>3, <1>10, FS_CardinalityType DEF DayHasRoom
    <3>5. /\ IsFiniteSet(rest \union {i})
          /\ Cardinality(rest \union {i}) = Cardinality(rest) + 1
      BY <3>3, FS_AddElement
    <3> HIDE DEF rest
    <3>6. /\ Cardinality(EverOn(g, c.day)') <= Cardinality(rest \union {i})
          /\ Cardinality(EverOn(g, c.day)') \in Nat
      BY <3>2, <3>5, FS_Subset, FS_CardinalityType
    <3> QED BY <3>4, <3>5, <3>6, AvailabilityAssumption
  <2>3. CASE i \notin EverOn(g, c.day)'
    <3>1. EverOn(g, c.day)' \subseteq EverOn(g, c.day)
      BY <2>1, <2>3
    <3>2. IsFiniteSet(EverOn(g, c.day))
      BY <1>9, FS_Subset DEF EverOn
    <3>3. /\ Cardinality(EverOn(g, c.day)') <= Cardinality(EverOn(g, c.day))
          /\ Cardinality(EverOn(g, c.day)') \in Nat
          /\ Cardinality(EverOn(g, c.day)) \in Nat
      BY <3>1, <3>2, FS_Subset, FS_CardinalityType
    <3>4. Cardinality(EverOn(g, c.day)) <= MaxPerDay
      BY DEF CalendarInv, EverCapped
    <3> QED BY <3>3, <3>4, AvailabilityAssumption
  <2> QED BY <2>2, <2>3
<1> QED BY <1>7, <1>11, <1>12 DEF CalendarInv

LEMMA RejectKeeps ==
  ASSUME NEW g, Gateways = {g}, IsFiniteSet(Ids), CalendarInv(g), TypeOK',
         NEW i \in Ids, NEW b \in BOOLEAN, Reject(g, i, b)
  PROVE  CalendarInv(g)'
<1> DEFINE f == [events[g][i] EXCEPT !.status = "cancelled"]
           r == Resolved(requests[g][i], "rejected")
           cancel == b \/ r.status = "rejected"
<1>1. /\ i \in Known(events[g]) /\ stored' = stored
      /\ events' = [events EXCEPT ![g][i] = IF cancel THEN f ELSE @]
      /\ unsent' = [unsent EXCEPT ![g] = @ \union ({RequestStatusRow(i, r)}
                      \union IF cancel THEN {EventRow(i, f)} ELSE {})]
  BY DEF Reject, Resolvable
<1>2. /\ f.slot = events[g][i].slot /\ f.status = "cancelled"
  <2>1. events[g][i] \in Event
    BY <1>1, KnownEvent DEF CalendarInv, TypeOK
  <2> QED BY <2>1 DEF Event, EventStatus
<1>3. EventStatements(g)' \subseteq EventStatements(g) \union
        IF cancel THEN {EventRow(i, f)} ELSE {}
  BY <1>1 DEF EventStatements, RequestStatusRow, CalendarInv, TypeOK
<1>4. events[g]' = [events[g] EXCEPT ![i] = IF cancel THEN f ELSE @]
  BY <1>1 DEF CalendarInv, TypeOK
<1>5. \A j \in Ids : events[g]'[j].slot = events[g][j].slot
  BY <1>4, <1>2 DEF CalendarInv, TypeOK
<1> HIDE DEF f, cancel
<1>6. Known(events[g]') = Known(events[g])
  <2>1. f.status # "absent"
    BY <1>2
  <2>2. \A j \in Ids : events[g]'[j].status = "absent"
                         <=> events[g][j].status = "absent"
    BY <2>1, <1>1, <1>4 DEF Known, CalendarInv, TypeOK
  <2> QED BY <2>2 DEF Known
<1>7. VersionsKnown(g)'
  <2>1. \A st \in EventStatements(g)' :
          /\ st.id \in Known(events[g]')
          /\ st.row.slot = events[g]'[st.id].slot
    <3> TAKE st \in EventStatements(g)'
    <3>1. CASE st = EventRow(i, f)
      BY <3>1, <1>1, <1>2, <1>5, <1>6 DEF EventRow
    <3>2. CASE st \in EventStatements(g)
      BY <3>2, <1>5, <1>6, EverKnown DEF VersionsKnown, CalendarInv
    <3> QED BY <3>1, <3>2, <1>3
  <2>2. \A j \in Known(stored.events') :
          j \in Known(events[g]') /\ stored.events'[j].slot = events[g]'[j].slot
    BY <1>1, <1>5, <1>6, EverKnown DEF VersionsKnown, CalendarInv
  <2> QED BY <2>1, <2>2 DEF VersionsKnown
<1>8. Ever(g)' \subseteq Ever(g)
  <2>1. Scheduled(events[g]') \subseteq Scheduled(events[g])
    BY <1>2, <1>4 DEF Scheduled, CalendarInv, TypeOK
  <2>2. \A st \in EventStatements(g)' : st.row.status = "scheduled"
                                         => st \in EventStatements(g)
    BY <1>2, <1>3 DEF EventRow
  <2> QED BY <2>1, <2>2, <1>1 DEF Ever
<1>9. \A j \in Ever(g)' : events[g]'[j].slot = events[g][j].slot
  BY <1>5, <1>8, EverKnown DEF CalendarInv
<1> QED BY <1>7, <1>8, <1>9, ShrinkKeeps

LEMMA LandKeeps ==
  ASSUME NEW g, Gateways = {g}, IsFiniteSet(Ids), CalendarInv(g), TypeOK',
         NEW st \in unsent[g], Land(g, st)
  PROVE  CalendarInv(g)'
<1>1. /\ events' = events /\ unsent'[g] = unsent[g] \ {st}
  BY DEF Land, CalendarInv, TypeOK
<1>2. EventStatements(g)' \subseteq EventStatements(g)
  BY <1>1 DEF EventStatements
<1>3. st \in Statements /\ st.id \in Ids
      /\ st.table \in {"interview_events", "new_request", "request_status"}
  BY StatementRow DEF CalendarInv, TypeOK
<1>4. CASE st.table = "interview_events"
  <2>1. st \in EventStatements(g)
    BY <1>4 DEF EventStatements
  <2>2. stored.events' = [stored.events EXCEPT ![st.id] = st.row]
    BY <1>4 DEF Land, CalendarInv, TypeOK
  <2>3. VersionsKnown(g)'
    BY <2>1, <2>2, <1>1, <1>2, <1>3
       DEF VersionsKnown, Known, CalendarInv, TypeOK
  <2>4. Ever(g)' \subseteq Ever(g)
    BY <2>1, <2>2, <1>1, <1>2, <1>3 DEF Ever, Scheduled, CalendarInv, TypeOK
  <2> QED BY <2>3, <2>4, <1>1, ShrinkKeeps
<1>5. CASE st.table # "interview_events"
  <2>1. stored.events' = stored.events
    BY <1>3, <1>5 DEF Land, CalendarInv, TypeOK
  <2>2. VersionsKnown(g)'
    BY <2>1, <1>1, <1>2 DEF VersionsKnown, CalendarInv
  <2>3. Ever(g)' \subseteq Ever(g)
    BY <2>1, <1>1, <1>2 DEF Ever
  <2> QED BY <2>2, <2>3, <1>1, ShrinkKeeps
<1> QED BY <1>4, <1>5

LEMMA LoseKeeps ==
  ASSUME NEW g, Gateways = {g}, IsFiniteSet(Ids), CalendarInv(g), TypeOK',
         NEW st \in unsent[g], Lose(g, st)
  PROVE  CalendarInv(g)'
<1>1. /\ events' = events /\ stored' = stored
      /\ EventStatements(g)' \subseteq EventStatements(g)
  BY DEF Lose, EventStatements, CalendarInv, TypeOK
<1>2. VersionsKnown(g)'
  BY <1>1 DEF VersionsKnown, CalendarInv
<1>3. Ever(g)' \subseteq Ever(g)
  BY <1>1 DEF Ever
<1> QED BY <1>1, <1>2, <1>3, ShrinkKeeps

\* A restarted gateway knows what the table knows: no more than it knew.
LEMMA RestartKeeps ==
  ASSUME NEW g, Gateways = {g}, IsFiniteSet(Ids), CalendarInv(g), TypeOK',
         Restart(g)
  PROVE  CalendarInv(g)'
<1>1. /\ events[g]' = stored.events /\ stored' = stored
      /\ EventStatements(g)' = {}
  BY DEF Restart, EventStatements, CalendarInv, TypeOK
<1>2. VersionsKnown(g)'
  BY <1>1 DEF VersionsKnown
<1>3. Ever(g)' \subseteq Scheduled(stored.events)
  BY <1>1 DEF Ever
<1>4. \A j \in Ever(g)' : events[g]'[j].slot = events[g][j].slot
  BY <1>1, <1>3, EverKnown DEF CalendarInv, VersionsKnown
<1>5. Ever(g)' \subseteq Ever(g)
  BY <1>3 DEF Ever
<1> QED BY <1>2, <1>4, <1>5, ShrinkKeeps

LEMMA IdleKeeps ==
  ASSUME NEW g, Gateways = {g}, CalendarInv(g),
         UNCHANGED <<events, requests, stored, unsent>>, TypeOK'
  PROVE  CalendarInv(g)'
  BY DEF CalendarInv, VersionsKnown, EverDisjoint, EverCapped, EverOn, Ever,
         EventStatements, Known, Scheduled, Conflict, Start, RangesOverlap

LEMMA NextKeeps ==
  ASSUME NEW g, Gateways = {g}, IsFiniteSet(Ids), CalendarInv(g), [Next]_vars
  PROVE  CalendarInv(g)'
<1>1. TypeOK'
  BY NextType DEF CalendarInv
<1>2. ASSUME NEW i \in Ids, NEW s \in Slots, NEW m \in ModesSeen,
             CreateConfirmation(g, i, s, m)
      PROVE  CalendarInv(g)'
  BY <1>1, <1>2, CreateKeeps
<1>3. ASSUME NEW i \in Ids, NEW m \in ModesSeen, Approve(g, i, m)
      PROVE  CalendarInv(g)'
  BY <1>1, <1>3, ApproveKeeps
<1>4. ASSUME NEW i \in Ids, NEW b \in BOOLEAN, Reject(g, i, b)
      PROVE  CalendarInv(g)'
  BY <1>1, <1>4, RejectKeeps
<1>5. ASSUME NEW st \in unsent[g], Land(g, st) PROVE CalendarInv(g)'
  BY <1>1, <1>5, LandKeeps
<1>6. ASSUME NEW st \in unsent[g], Lose(g, st) PROVE CalendarInv(g)'
  BY <1>1, <1>6, LoseKeeps
<1>7. CASE Restart(g)
  BY <1>1, <1>7, RestartKeeps
<1>8. CASE Tick
  BY <1>1, <1>8, IdleKeeps DEF Tick
<1>9. CASE UNCHANGED vars
  BY <1>1, <1>9, IdleKeeps DEF vars
<1> QED BY <1>2, <1>3, <1>4, <1>5, <1>6, <1>7, <1>8, <1>9 DEF Next

LEMMA InitKeeps ==
  ASSUME NEW g, Gateways = {g}, Init
  PROVE  CalendarInv(g)
<1>1. /\ Known(events[g]) = {} /\ Known(stored.events) = {}
      /\ EventStatements(g) = {} /\ Ever(g) = {}
  BY DEF Init, Known, Absent, EventStatements, Ever, Scheduled
<1>2. \A c \in CanonicalSlots : Cardinality(EverOn(g, c.day)) = 0
  <2>1. \A c \in CanonicalSlots : EverOn(g, c.day) = {}
    BY <1>1 DEF EverOn
  <2> QED BY <2>1, FS_EmptySet
<1> QED BY <1>1, <1>2, InitType, AvailabilityAssumption
        DEF CalendarInv, VersionsKnown, EverDisjoint, EverCapped

LEMMA CalendarInvNoOverlap ==
  ASSUME NEW g, Gateways = {g}, CalendarInv(g)
  PROVE  NoOverlap
<1>1. \A i \in Scheduled(stored.events) :
        stored.events[i].slot = events[g][i].slot
  BY EverKnown DEF CalendarInv, VersionsKnown
<1>2. Disjoint(events[g])
  BY DEF CalendarInv, EverDisjoint, Disjoint, Ever
<1>3. Disjoint(stored.events)
  BY <1>1 DEF CalendarInv, EverDisjoint, Disjoint, Ever
<1> QED BY <1>2, <1>3 DEF NoOverlap

LEMMA CalendarInvDailyCap ==
  ASSUME NEW g, Gateways = {g}, IsFiniteSet(Ids), CalendarInv(g)
  PROVE  DailyCap
<1> SUFFICES ASSUME NEW copy \in {events[g], stored.events},
                    NEW c \in CanonicalSlots
             PROVE  Cardinality({ i \in Scheduled(copy) :
                                    copy[i].slot.day = c.day }) <= MaxPerDay
  BY DEF DailyCap
<1> DEFINE day == { i \in Scheduled(copy) : copy[i].slot.day = c.day }
<1>1. \A i \in Scheduled(stored.events) :
        stored.events[i].slot = events[g][i].slot
  BY EverKnown DEF CalendarInv, VersionsKnown
<1>2. day \subseteq EverOn(g, c.day)
  BY <1>1 DEF EverOn, Ever
<1>3. IsFiniteSet(EverOn(g, c.day))
  BY EverKnown, FS_Subset DEF EverOn, CalendarInv
<1>4. /\ Cardinality(day) <= Cardinality(EverOn(g, c.day))
      /\ Cardinality(day) \in Nat /\ Cardinality(EverOn(g, c.day)) \in Nat
  BY <1>2, <1>3, FS_Subset, FS_CardinalityType
<1>5. Cardinality(EverOn(g, c.day)) <= MaxPerDay
  BY DEF CalendarInv, EverCapped
<1> QED BY <1>4, <1>5, AvailabilityAssumption

\* One gateway, any slots, windows, buffers, limits and number of
\* interviews: scheduled interviews never meet, buffers included, in its
\* copy or in the table.
THEOREM OneGatewayNoOverlap ==
  ASSUME NEW g, Gateways = {g}, IsFiniteSet(Ids)
  PROVE  Spec => []NoOverlap
<1>1. Init => CalendarInv(g)
  BY InitKeeps
<1>2. CalendarInv(g) /\ [Next]_vars => CalendarInv(g)'
  BY NextKeeps
<1>3. CalendarInv(g) => NoOverlap
  BY CalendarInvNoOverlap
<1> QED BY <1>1, <1>2, <1>3, PTL DEF Spec

\* Nor does a day ever hold more of them than maxInterviewsPerDay.
THEOREM OneGatewayDailyCap ==
  ASSUME NEW g, Gateways = {g}, IsFiniteSet(Ids)
  PROVE  Spec => []DailyCap
<1>1. Init => CalendarInv(g)
  BY InitKeeps
<1>2. CalendarInv(g) /\ [Next]_vars => CalendarInv(g)'
  BY NextKeeps
<1>3. CalendarInv(g) => DailyCap
  BY CalendarInvDailyCap
<1> QED BY <1>1, <1>2, <1>3, PTL DEF Spec

=============================================================================
