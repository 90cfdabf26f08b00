----------------------------- MODULE Interviews -----------------------------
(***************************************************************************)
(* Interview confirmations: the API routes /schedule/confirmations and     *)
(* .../:id/resolve and the bot's /approve and /reject, each in a gateway   *)
(* process with a copy of the tables of its own.  A handler runs to its    *)
(* end without an await, so a step is a handler; what it stores reaches    *)
(* Postgres later, statement by statement and in any order, and a gateway  *)
(* that dies loses the statements it had not sent.                         *)
(*                                                                         *)
(* Time is counted in units of which Hour make the sixty minutes the code  *)
(* takes every stored interview to last; days are DayUnits long.           *)
(***************************************************************************)
EXTENDS Integers, FiniteSets, Policies

CONSTANTS
  Gateways,       \* API server and bot processes
  Ids,            \* interview ids; an id names its approval request too
  Slots,          \* what a caller may propose: day, time, zone, duration
  Windows,        \* Windows[d]: the start-end pairs of day d; days may lack
  Zone,           \* availability.timezone
  ZoneShift,      \* ZoneShift[z]: offset of zone z
  BufferBefore, BufferAfter, MinNotice, MaxPerDay, DayUnits, Hour,
  Consent, Irreversible,
  ModesSeen,      \* the system modes a handler may read
  TickUnits, Horizon   \* bounds: how far the clock moves, and until when

ASSUME SlotsAssumption ==
  /\ \A s \in Slots : /\ s.day \in Int /\ s.time \in Int
                      /\ s.duration \in Nat
                      /\ s.zone \in DOMAIN ZoneShift
  /\ \A z \in DOMAIN ZoneShift : ZoneShift[z] \in Int
ASSUME AvailabilityAssumption ==
  /\ BufferBefore \in Nat /\ BufferAfter \in Nat /\ MinNotice \in Nat
  /\ MaxPerDay \in Nat /\ DayUnits \in Nat /\ Hour \in Nat
ASSUME ClockAssumption == TickUnits \in Nat /\ Horizon \in Nat

VARIABLES
  now,        \* the clock
  events,     \* events[g][i]: interview_events in the copy of gateway g
  requests,   \* requests[g][i]: its approval request in that copy
  stored,     \* stored.events[i], stored.requests[i]: the Postgres rows
  unsent      \* unsent[g]: the statements of g Postgres has not executed

vars == <<now, events, requests, stored, unsent>>

-----------------------------------------------------------------------------
(* Slots and the calendar. *)

\* What an event keeps of a slot: canonicalInterviewSlot, the date and time
\* of dateTime.  The duration a caller asked for is not in it.
Canonical(s) == [day |-> s.day, time |-> s.time, zone |-> s.zone]

CanonicalSlots == { Canonical(s) : s \in Slots }

EventStatus == { "pending_confirmation", "scheduled", "cancelled" }
Event == [slot : CanonicalSlots, status : EventStatus]
Absent == [status |-> "absent"]

RequestStatus == { "pending", "approved", "rejected", "expired" }
Request == [status : RequestStatus, expiresAt : Int]

Known(copy) == { i \in Ids : copy[i].status # "absent" }

\* zonedDateTimeMs.
Start(c) == c.day * DayUnits + c.time - ZoneShift[c.zone]

RangesOverlap(a, b, c, d) == a < d /\ c < b

\* The candidate, with its buffers, meets a sixty-minute event with its own.
Conflict(c, duration, e) ==
  RangesOverlap(Start(c) - BufferBefore, Start(c) + duration + BufferAfter,
                Start(e) - BufferBefore, Start(e) + Hour + BufferAfter)

\* The calendar built from the same events has no buffers and sees its own
\* zone only; without any availability window it is busy all the time.
CalendarBusy(c, duration, others) ==
  \/ DOMAIN Windows = {} /\ c.zone = Zone
  \/ \E e \in others :
       /\ e.zone = c.zone
       /\ RangesOverlap(Start(c) - BufferBefore,
                        Start(c) + duration + BufferAfter,
                        Start(e), Start(e) + Hour)

\* Mutant: only the calendar is asked, and an event loses its own buffers.
HasConflictUnbuffered(c, duration, others) == CalendarBusy(c, duration, others)

HasConflict(c, duration, others) ==
  \/ \E e \in others : Conflict(c, duration, e)
  \/ CalendarBusy(c, duration, others)

\* The last minute of a window is a valid start.
InsideWindow(c) ==
  c.day \in DOMAIN Windows
    /\ \E w \in Windows[c.day] : w[1] <= c.time /\ c.time <= w[2]

\* Mutant: the limit itself is still free.
DayHasRoomInclusive(copy, day, except) ==
  Cardinality({ i \in Known(copy) \ except : copy[i].slot.day = day })
    <= MaxPerDay

\* Every event of the day counts, whatever its status.
DayHasRoom(copy, day, except) ==
  Cardinality({ i \in Known(copy) \ except : copy[i].slot.day = day })
    < MaxPerDay

OtherSlots(copy, except) == { copy[i].slot : i \in Known(copy) \ except }

\* evaluateSlot: all five parts of the policy proof; SchedulingDecisionEngine
\* confirms the only proposed slot exactly when they hold.
Confirmable(copy, c, duration, except) ==
  /\ c.zone = Zone
  /\ Start(c) >= now + MinNotice
  /\ InsideWindow(c)
  /\ ~HasConflict(c, duration, OtherSlots(copy, except))
  /\ DayHasRoom(copy, c.day, except)

\* buildInterviewSchedulingPolicy: what the policy engine is asked.
SchedulingPolicy(fits, room, mode) ==
  PolicyVerdict([action |-> "confirm_interview_slot", mode |-> mode,
                 keyed |-> TRUE, proofReady |-> fits, valid |-> fits,
                 provider |-> "stable", rate |-> room, consent |-> Consent,
                 slotConfirmed |-> fits, irreversible |-> Irreversible])

MayConfirm(copy, c, duration, except, mode) ==
  LET fits == Confirmable(copy, c, duration, except)
  IN  fits /\ SchedulingPolicy(fits, DayHasRoom(copy, c.day, except), mode)
                # "deny"

-----------------------------------------------------------------------------
(* Approval requests and statements. *)

\* resolveApprovalRequest with the right draft hash.
Resolved(r, resolution) ==
  LET late == r.expiresAt <= now
  IN  IF r.status = "approved" /\ late THEN [r EXCEPT !.status = "expired"]
      ELSE IF r.status # "pending" THEN r
      ELSE [r EXCEPT !.status = IF late THEN "expired" ELSE resolution]

EventRow(i, e)   == [table |-> "interview_events", id |-> i, row |-> e]
RequestRow(i, r) == [table |-> "new_request", id |-> i, row |-> r]
RequestStatusRow(i, r) == [table |-> "request_status", id |-> i, row |-> r]

Statements ==
  [table : {"interview_events"}, id : Ids, row : Event]
    \union [table : {"new_request", "request_status"}, id : Ids, row : Request]

Init ==
  /\ now = 0
  /\ events   = [g \in Gateways |-> [i \in Ids |-> Absent]]
  /\ requests = [g \in Gateways |-> [i \in Ids |-> Absent]]
  /\ stored   = [events |-> [i \in Ids |-> Absent],
                 requests |-> [i \in Ids |-> Absent]]
  /\ unsent   = [g \in Gateways |-> {}]

\* randomUUID: an id no copy and no statement holds.
Fresh(i) ==
  /\ \A g \in Gateways : /\ events[g][i] = Absent
                         /\ \A st \in unsent[g] : st.id # i
  /\ stored.events[i] = Absent /\ stored.requests[i] = Absent

-----------------------------------------------------------------------------
(* The handlers. *)

\* POST /schedule/confirmations: the slot is checked with the duration the
\* caller gave against every event, the event and its request are created.
CreateConfirmation(g, i, s, mode) ==
  LET c == Canonical(s)
      e == [slot |-> c, status |-> "pending_confirmation"]
      r == [status |-> "pending", expiresAt |-> now + DayUnits]
  IN  /\ Fresh(i)
      /\ MayConfirm(events[g], c, s.duration, {}, mode)
      /\ events' = [events EXCEPT ![g][i] = e]
      /\ requests' = [requests EXCEPT ![g][i] = r]
      /\ unsent' = [unsent EXCEPT ![g] = @ \union
                      {EventRow(i, e), RequestRow(i, r)}]
      /\ UNCHANGED <<now, stored>>

\* The 404s of a resolution.
Resolvable(g, i) == i \in Known(events[g]) /\ i \in Known(requests[g])

\* Both approvals (API and /approve): the stored slot, now sixty minutes
\* long, is checked again against every other event; then the request is
\* resolved, and only an approved one schedules the interview.
Approve(g, i, mode) ==
  LET e == events[g][i]
      r == Resolved(requests[g][i], "approved")
      f == [e EXCEPT !.status = "scheduled"]
  IN  /\ Resolvable(g, i)
      /\ MayConfirm(events[g], e.slot, Hour, {i}, mode)
      /\ Irreversible
      /\ requests' = [requests EXCEPT ![g][i] = r]
      /\ events' = [events EXCEPT ![g][i] =
                      IF r.status = "approved" THEN f ELSE @]
      /\ unsent' = [unsent EXCEPT ![g] = @ \union {RequestStatusRow(i, r)}
                      \union IF r.status = "approved" THEN {EventRow(i, f)}
                             ELSE {}]
      /\ UNCHANGED <<now, stored>>

\* The API cancels the interview only when the request really became
\* rejected; the bot cancels it whatever the request's status is.
Reject(g, i, byBot) ==
  LET r == Resolved(requests[g][i], "rejected")
      f == [events[g][i] EXCEPT !.status = "cancelled"]
      cancel == byBot \/ r.status = "rejected"
  IN  /\ Resolvable(g, i)
      /\ requests' = [requests EXCEPT ![g][i] = r]
      /\ events' = [events EXCEPT ![g][i] = IF cancel THEN f ELSE @]
      /\ unsent' = [unsent EXCEPT ![g] = @ \union {RequestStatusRow(i, r)}
                      \union IF cancel THEN {EventRow(i, f)} ELSE {}]
      /\ UNCHANGED <<now, stored>>

-----------------------------------------------------------------------------
(* Postgres, restarts and the clock. *)

\* Mutant: the status is written whether the row is there or not.
StatusUpserted(row, status) == [row EXCEPT !.status = status]

\* UPDATE ... WHERE id.
StatusUpdated(row, status) ==
  IF row = Absent THEN row ELSE [row EXCEPT !.status = status]

\* An event statement is an upsert, a new request an insert that does not
\* replace, a status an update that needs the row.
Land(g, st) ==
  /\ st \in unsent[g]
  /\ stored' =
       CASE st.table = "interview_events" ->
              [stored EXCEPT !.events[st.id] = st.row]
         [] st.table = "new_request" ->
              [stored EXCEPT !.requests[st.id] =
                 IF @ = Absent THEN st.row ELSE @]
         [] st.table = "request_status" ->
              [stored EXCEPT !.requests[st.id] =
                 StatusUpdated(@, st.row.status)]
  /\ unsent' = [unsent EXCEPT ![g] = @ \ {st}]
  /\ UNCHANGED <<now, events, requests>>

\* Postgres refuses a statement: flushPersistence throws, the copy keeps
\* what it changed.
Lose(g, st) ==
  /\ st \in unsent[g]
  /\ unsent' = [unsent EXCEPT ![g] = @ \ {st}]
  /\ UNCHANGED <<now, events, requests, stored>>

\* The process ends and a new one hydrates its copy from the tables.
Restart(g) ==
  /\ events' = [events EXCEPT ![g] = stored.events]
  /\ requests' = [requests EXCEPT ![g] = stored.requests]
  /\ unsent' = [unsent EXCEPT ![g] = {}]
  /\ UNCHANGED <<now, stored>>

Tick ==
  /\ now + TickUnits <= Horizon
  /\ now' = now + TickUnits
  /\ UNCHANGED <<events, requests, stored, unsent>>

Next ==
  \/ \E g \in Gateways :
       \/ \E i \in Ids, mode \in ModesSeen :
            \/ \E s \in Slots : CreateConfirmation(g, i, s, mode)
            \/ Approve(g, i, mode)
       \/ \E i \in Ids, byBot \in BOOLEAN : Reject(g, i, byBot)
       \/ \E st \in unsent[g] : Land(g, st) \/ Lose(g, st)
       \/ Restart(g)
  \/ Tick

Spec == Init /\ [][Next]_vars

-----------------------------------------------------------------------------
(* Properties. *)

\* Copies hold events and requests, and statements carry rows of a table.
TypeOK ==
  /\ now \in Int
  /\ events \in [Gateways -> [Ids -> Event \union {Absent}]]
  /\ requests \in [Gateways -> [Ids -> Request \union {Absent}]]
  /\ stored \in [events : [Ids -> Event \union {Absent}],
                 requests : [Ids -> Request \union {Absent}]]
  /\ unsent \in [Gateways -> SUBSET Statements]

Scheduled(copy) == { i \in Ids : copy[i].status = "scheduled" }

Disjoint(copy) ==
  \A i, j \in Scheduled(copy) :
    i # j => ~Conflict(copy[i].slot, Hour, copy[j].slot)

\* With one gateway no two scheduled interviews of its copy or of the table
\* meet, buffers included, however approvals, rejections of either kind,
\* lost statements and restarts interleave
\* (InterviewCoordinator.hasConflict at creation and again at approval).
NoOverlap ==
  /\ \A g \in Gateways : Disjoint(events[g])
  /\ Disjoint(stored.events)

\* Nor does any day hold more scheduled interviews than
\* maxInterviewsPerDay, in the copy or in the table.
DailyCap ==
  \A copy \in { events[g] : g \in Gateways } \union { stored.events } :
    \A c \in CanonicalSlots :
      Cardinality({ i \in Scheduled(copy) : copy[i].slot.day = c.day })
        <= MaxPerDay

\* What docs/architecture/interview-coordination.md promises of every
\* confirmed interview, whichever process confirmed it: it does not meet
\* another one (checked with two gateways, whose copies are hydrated once).
StoredCalendarDisjoint == Disjoint(stored.events)

=============================================================================
