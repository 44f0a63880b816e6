-------------------------- MODULE MeetingReminders --------------------------
(***************************************************************************)
(* Meetings and their reminders: the REST handlers that create, patch and  *)
(* cancel a meeting (controllers/meeting_controller.rs, domain/meeting.rs) *)
(* and the polling worker that delivers due reminders (domain/reminder.rs, *)
(* bin/worker.rs), over the tables of repositories/meeting_postgres.rs.    *)
(*                                                                         *)
(* PATCH and cancel read the meeting, check the caller and write the whole *)
(* row back: two steps, with other requests between them.  A worker lists  *)
(* a batch, then delivers and marks its jobs one by one.  Several worker   *)
(* processes may run on one database.                                      *)
(***************************************************************************)
EXTENDS Integers, FiniteSets

CONSTANTS
  Meetings,
  Reminders,   \* reminder ids, ordered: ORDER BY scheduled_for, id
  MeetingOf,   \* the meeting a reminder is created with
  Requests,    \* concurrent PATCH and cancel requests
  Workers,     \* worker processes
  BatchSize,   \* OPENCORD_REMINDER_BATCH_SIZE
  Offsets,     \* offset_minutes of new reminders
  SubSecond,   \* instants a request can tell apart within one second
  MaxTime,     \* bound: the times meetings are scheduled at
  MaxClock,    \* bound: the clock
  MaxFaults    \* bound: worker crashes and store errors in one behaviour

ASSUME MeetingsAssumption ==
  /\ Meetings # {}
  /\ Reminders # {}
  /\ Reminders \subseteq Nat
  /\ IsFiniteSet(Workers)
  /\ MeetingOf \in [Reminders -> Meetings]
  /\ BatchSize \in Nat \ {0}
  /\ Offsets \subseteq Nat
  /\ SubSecond \in Nat \ {0}
  /\ MaxTime \in Nat
  /\ MaxClock \in Nat
  /\ MaxFaults \in Nat

VARIABLES
  now,
  meetings,    \* table meetings
  reminders,   \* table meeting_reminders
  request,     \* a handler between its read and its write
  worker,      \* a worker between the steps of run_once
  attempts,    \* history: how often each reminder was handed to the dispatcher
  outcomes,    \* history: what the dispatcher answered for each reminder
  faults       \* worker crashes and store errors so far

vars == <<now, meetings, reminders, request, worker, attempts, outcomes, faults>>

Times    == 0..MaxTime                              \* seconds
Instants == 0..(MaxTime * SubSecond + SubSecond - 1)  \* times in a request
Meeting  == [status : {"none", "scheduled", "cancelled"}, starts : Times, ends : Times]
Reminder == [status : {"none", "pending", "sent", "failed"}, due : Int]
Request  == [op : {"none", "update", "cancel"}, id : Meetings, row : Meeting]
Worker   == [pc : {"list", "deliver", "mark"}, jobs : SUBSET Reminders,
             current : Reminders, sent : BOOLEAN]

\* One type per table and task.
TypeOK ==
  /\ now \in 0..MaxClock
  /\ meetings \in [Meetings -> Meeting]
  /\ reminders \in [Reminders -> Reminder]
  /\ request \in [Requests -> Request]
  /\ worker \in [Workers -> Worker]
  /\ attempts \in [Reminders -> Nat]
  /\ outcomes \in [Reminders -> SUBSET BOOLEAN]
  /\ faults \in 0..MaxFaults

NoMeeting  == [status |-> "none", starts |-> 0, ends |-> 0]
NoReminder == [status |-> "none", due |-> 0]
NoRequest  == [op |-> "none", id |-> CHOOSE m \in Meetings : TRUE, row |-> NoMeeting]
Idle       == [pc |-> "list", jobs |-> {}, current |-> CHOOSE r \in Reminders : TRUE,
               sent |-> FALSE]

Init ==
  /\ now = 0
  /\ meetings = [m \in Meetings |-> NoMeeting]
  /\ reminders = [r \in Reminders |-> NoReminder]
  /\ request = [q \in Requests |-> NoRequest]
  /\ worker = [w \in Workers |-> Idle]
  /\ attempts = [r \in Reminders |-> 0]
  /\ outcomes = [r \in Reminders |-> {}]
  /\ faults = 0

(***************************************************************************)
(* The REST handlers.  Who may read and manage a meeting is decided by     *)
(* require_read_meeting and require_meeting_manager between the read and   *)
(* the write; a refused request changes nothing.                           *)
(***************************************************************************)
ValidSchedule(starts, ends) == ends > starts

\* parse_time keeps fractions of a second, format_time cuts them off.
FormatTime(t) == t \div SubSecond
ParseTime(t)  == t * SubSecond

\* CHECK (ends_at > starts_at) of table meetings.
TableAdmits(row) == row.ends > row.starts

\* normalize_reminder: scheduled_for = starts_at - offset_minutes, formatted.
NewReminder(starts, offset) ==
  [status |-> "pending", due |-> FormatTime(starts) - offset]

\* create_meeting: one transaction inserts the meeting, its attendees and its
\* reminders, and the table's CHECK refuses all of it or nothing.
StoreCreateMeeting(m, row, rows) ==
  /\ meetings[m].status = "none"
  /\ TableAdmits(row)
  /\ meetings' = [meetings EXCEPT ![m] = row]
  /\ reminders' = [r \in Reminders |-> IF MeetingOf[r] = m THEN rows[r] ELSE reminders[r]]

\* MeetingService::create.
Create(m, starts, ends, offset) ==
  /\ ValidSchedule(starts, ends)
  /\ StoreCreateMeeting(m,
       [status |-> "scheduled", starts |-> FormatTime(starts), ends |-> FormatTime(ends)],
       [r \in Reminders |-> NewReminder(starts, offset[r])])
  /\ UNCHANGED <<now, request, worker, attempts, outcomes, faults>>

\* meetings.get and the checks on what it returned.
ReadMeeting(q, op, m) ==
  /\ request[q].op = "none"
  /\ meetings[m].status # "none"
  /\ request' = [request EXCEPT ![q] = [op |-> op, id |-> m, row |-> meetings[m]]]
  /\ UNCHANGED <<now, meetings, reminders, worker, attempts, outcomes, faults>>

\* update_meeting writes every column of the row the handler holds.
StoreUpdateMeeting(q, row) ==
  /\ TableAdmits(row)
  /\ meetings' = [meetings EXCEPT ![request[q].id] = row]
  /\ request' = [request EXCEPT ![q] = NoRequest]
  /\ UNCHANGED <<now, reminders, worker, attempts, outcomes, faults>>

\* A patch sets a field, or the row's own value is parsed again.
Field(patch, f, stored) == IF f \in DOMAIN patch THEN patch[f] ELSE ParseTime(stored)

\* MeetingService::update over the row read before; a patch may set either
\* time, both or neither (title, description and timezone are not modelled).
Update(q, patch) ==
  LET starts == Field(patch, "starts", request[q].row.starts)
      ends   == Field(patch, "ends", request[q].row.ends)
  IN  /\ request[q].op = "update"
      /\ ValidSchedule(starts, ends)
      /\ StoreUpdateMeeting(q, [request[q].row EXCEPT !.starts = FormatTime(starts),
                                                     !.ends = FormatTime(ends)])

Cancel(q) ==
  /\ request[q].op = "cancel"
  /\ StoreUpdateMeeting(q, [request[q].row EXCEPT !.status = "cancelled"])

\* The caller may not manage the meeting, the patch is invalid, the table
\* refuses the row, the write fails or the client goes away.
RequestEnds(q) ==
  /\ request[q].op # "none"
  /\ request' = [request EXCEPT ![q] = NoRequest]
  /\ UNCHANGED <<now, meetings, reminders, worker, attempts, outcomes, faults>>

(***************************************************************************)
(* The reminder worker.                                                    *)
(***************************************************************************)

\* The WHERE clause of list_due_reminders.
IsDue(r) ==
  /\ reminders[r].status = "pending"
  /\ reminders[r].due <= now
  /\ meetings[MeetingOf[r]].status = "scheduled"

Before(r, x) ==
  \/ reminders[r].due < reminders[x].due
  \/ reminders[r].due = reminders[x].due /\ r < x

\* Mutant: LIMIT is applied before the join drops cancelled meetings.
ListDue_LimitBeforeJoin ==
  LET pending == {r \in Reminders : reminders[r].status = "pending"
                                      /\ reminders[r].due <= now}
  IN  {r \in pending : /\ Cardinality({x \in pending : Before(x, r)}) < BatchSize
                       /\ IsDue(r)}

\* ORDER BY scheduled_for, id LIMIT BatchSize
ListDue ==
  LET due == {r \in Reminders : IsDue(r)}
  IN  {r \in due : Cardinality({x \in due : Before(x, r)}) < BatchSize}

List(w) ==
  /\ worker[w].pc = "list"
  /\ ListDue # {}
  /\ worker' = [worker EXCEPT ![w] = [@ EXCEPT !.pc = "deliver", !.jobs = ListDue]]
  /\ UNCHANGED <<now, meetings, reminders, request, attempts, outcomes, faults>>

\* dispatcher.deliver on the next job of the batch.
Deliver(w, ok) ==
  /\ worker[w].pc = "deliver"
  /\ \E r \in worker[w].jobs :
       /\ \A x \in worker[w].jobs : ~Before(x, r)
       /\ worker' = [worker EXCEPT
                       ![w] = [pc |-> "mark", jobs |-> @.jobs \ {r},
                               current |-> r, sent |-> ok]]
       /\ attempts' = [attempts EXCEPT ![r] = @ + 1]
       /\ outcomes' = [outcomes EXCEPT ![r] = @ \cup {ok}]
  /\ UNCHANGED <<now, meetings, reminders, request, faults>>

\* Mutant: the UPDATE forgets AND status = 'pending'.
StoreMark_Always(r, ok) ==
  reminders' = [reminders EXCEPT ![r].status = IF ok THEN "sent" ELSE "failed"]

\* Mutant: a failed delivery is left pending for the next run.
StoreMark_RetriesFailed(r, ok) ==
  reminders' = [reminders EXCEPT
                  ![r].status = IF @ = "pending" /\ ok THEN "sent" ELSE @]

\* Mutant: the outcome of the delivery is not looked at.
StoreMark_AlwaysSent(r, ok) ==
  reminders' = [reminders EXCEPT
                  ![r].status = IF @ = "pending" THEN "sent" ELSE @]

\* update_reminder_delivery_status: only a pending row is updated.
StoreMark(r, ok) ==
  reminders' = [reminders EXCEPT
                  ![r].status = IF @ # "pending" THEN @
                                ELSE IF ok THEN "sent" ELSE "failed"]

AfterMark(jobs, found) == IF found /\ jobs # {} THEN "deliver" ELSE "list"

\* mark_reminder_sent or mark_reminder_failed; when no row was pending the
\* error leaves run_once and the rest of the batch is dropped.
Mark(w) ==
  LET r     == worker[w].current
      found == reminders[r].status = "pending"
      next  == AfterMark(worker[w].jobs, found)
  IN  /\ worker[w].pc = "mark"
      /\ StoreMark(r, worker[w].sent)
      /\ worker' = [worker EXCEPT
                      ![w] = IF next = "list" THEN Idle ELSE [@ EXCEPT !.pc = next]]
      /\ UNCHANGED <<now, meetings, request, attempts, outcomes, faults>>

\* The process dies between two steps, or the store fails while it marks; the
\* loop starts again with an empty batch.
WorkerFails(w) ==
  /\ worker[w].pc # "list"
  /\ faults < MaxFaults
  /\ faults' = faults + 1
  /\ worker' = [worker EXCEPT ![w] = Idle]
  /\ UNCHANGED <<now, meetings, reminders, request, attempts, outcomes>>

Tick ==
  /\ now < MaxClock
  /\ now' = now + 1
  /\ UNCHANGED <<meetings, reminders, request, worker, attempts, outcomes, faults>>

Patches ==
  {[f \in {} |-> 0]} \cup [{"starts"} -> Instants] \cup [{"ends"} -> Instants]
    \cup [{"starts", "ends"} -> Instants]

RunOnce(w) == List(w) \/ (\E ok \in BOOLEAN : Deliver(w, ok)) \/ Mark(w)

Next ==
  \/ Tick
  \/ \E m \in Meetings, s, e \in Instants, o \in [Reminders -> Offsets] :
       Create(m, s, e, o)
  \/ \E q \in Requests :
       \/ \E m \in Meetings, op \in {"update", "cancel"} : ReadMeeting(q, op, m)
       \/ \E p \in Patches : Update(q, p)
       \/ Cancel(q)
       \/ RequestEnds(q)
  \/ \E w \in Workers : RunOnce(w) \/ WorkerFails(w)

Spec == Init /\ [][Next]_vars

\* run_reminder_loop ticks for ever and every await of run_once returns.
Fairness == \A w \in Workers : WF_vars(RunOnce(w))
FairSpec == Spec /\ Fairness

(***************************************************************************)
(* Properties.                                                             *)
(***************************************************************************)

\* What a reminder's row says happened: "sent" only after a delivery that
\* succeeded, "failed" only after one that failed (run_once_at delivers before
\* it marks, whichever worker marks first).
MarkedAfterDelivery ==
  \A r \in Reminders :
    /\ reminders[r].status = "sent" => TRUE \in outcomes[r]
    /\ reminders[r].status = "failed" => FALSE \in outcomes[r]

\* A recipient is notified more often than once only by workers that overlap
\* or fail: every further delivery is paid for by another worker process or by
\* a fault between deliver and mark.
DuplicatesBounded ==
  \A r \in Reminders : attempts[r] <= Cardinality(Workers) + faults

\* A settled reminder stays as it is, whatever a second worker with a stale
\* batch does (AND status = 'pending' in update_reminder_delivery_status).
SettledIsFinal ==
  [][\A r \in Reminders :
       reminders[r].status \in {"sent", "failed"} =>
         reminders'[r].status = reminders[r].status]_vars

\* A due reminder of a scheduled meeting is sent or has failed in the end, or
\* the meeting is cancelled: no batch is filled for ever by other reminders.
DueIsSettled ==
  \A r \in Reminders :
    IsDue(r) ~> \/ reminders[r].status \in {"sent", "failed"}
                \/ meetings[MeetingOf[r]].status = "cancelled"

\* A cancelled meeting stays cancelled: the API answers "Cancelled meeting" and
\* offers no request that schedules it again.
CancelledStaysCancelled ==
  [][\A m \in Meetings :
       meetings[m].status = "cancelled" => meetings'[m].status = "cancelled"]_vars
=============================================================================
