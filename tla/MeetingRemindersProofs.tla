----------------------- MODULE MeetingRemindersProofs -----------------------
(***************************************************************************)
(* Theorems about MeetingReminders, for any number of meetings, reminders, *)
(* requests and workers, any batch size and any number of faults.          *)
(***************************************************************************)
EXTENDS MeetingReminders, FiniteSetTheorems, TLAPS

(***************************************************************************)
(* Type correctness.                                                       *)
(***************************************************************************)

\* The values a row, a request and a worker start from have their types.
LEMMA StartTypes ==
  /\ NoMeeting \in Meeting
  /\ NoReminder \in Reminder
  /\ NoRequest \in Request
  /\ Idle \in Worker
<1> USE MeetingsAssumption
<1>1. 0 \in Times
  BY DEF Times
<1>2. NoMeeting \in Meeting
  BY <1>1 DEF NoMeeting, Meeting
<1>3. NoReminder \in Reminder
  BY DEF NoReminder, Reminder
<1>4. NoRequest \in Request
  BY <1>2 DEF NoRequest, Request
<1>5. Idle \in Worker
  BY DEF Idle, Worker
<1> QED BY <1>2, <1>3, <1>4, <1>5

\* format_time takes an instant of a request to a second of the schedule, and
\* parse_time takes the second to an instant again.
LEMMA TimeTypes ==
  /\ \A t \in Instants : FormatTime(t) \in Times
  /\ \A t \in Times : ParseTime(t) \in Instants
<1> USE MeetingsAssumption
<1>1. ASSUME NEW t \in Instants PROVE FormatTime(t) \in Times
  <2> DEFINE q == t \div SubSecond
  <2>1. t \in Nat /\ t < (MaxTime + 1) * SubSecond
    BY DEF Instants
  <2>2. q \in Nat /\ q * SubSecond <= t
    BY <2>1
  <2>3. q < MaxTime + 1
    BY <2>1, <2>2
  <2> QED BY <2>2, <2>3 DEF FormatTime, Times
<1>2. ASSUME NEW t \in Times PROVE ParseTime(t) \in Instants
  <2>1. t * SubSecond \in Nat /\ t * SubSecond <= MaxTime * SubSecond
    BY DEF Times
  <2> QED BY <2>1 DEF ParseTime, Instants, Times
<1> QED BY <1>1, <1>2

\* Every step of every handler and worker keeps TypeOK.
LEMMA NextType ==
  ASSUME TypeOK, [Next]_vars
  PROVE  TypeOK'
<1> USE MeetingsAssumption
<1>1. CASE UNCHANGED vars
  BY <1>1 DEF TypeOK, vars
<1>2. CASE Tick
  BY <1>2 DEF TypeOK, Tick
<1>3. ASSUME NEW m \in Meetings, NEW s \in Instants, NEW e \in Instants,
             NEW o \in [Reminders -> Offsets], Create(m, s, e, o)
      PROVE TypeOK'
  <2> DEFINE row == [status |-> "scheduled", starts |-> FormatTime(s),
                     ends |-> FormatTime(e)]
  <2>1. row \in Meeting
    BY TimeTypes DEF Meeting
  <2>2. \A r \in Reminders : NewReminder(s, o[r]) \in Reminder
    <3>1. FormatTime(s) \in Int
      BY TimeTypes DEF Times
    <3>2. \A r \in Reminders : o[r] \in Offsets /\ o[r] \in Nat
      OBVIOUS
    <3>3. \A r \in Reminders : FormatTime(s) - o[r] \in Int
      BY <3>1, <3>2
    <3> QED BY <3>3 DEF NewReminder, Reminder
  <2>3. /\ meetings' = [meetings EXCEPT ![m] = row]
        /\ reminders' \in [Reminders -> Reminder]
    BY <1>3, <2>2 DEF Create, StoreCreateMeeting, TypeOK
  <2> HIDE DEF row
  <2> QED BY <1>3, <2>1, <2>3 DEF TypeOK, Create, StoreCreateMeeting
<1>4. ASSUME NEW q \in Requests, NEW m \in Meetings,
             NEW op \in {"update", "cancel"}, ReadMeeting(q, op, m)
      PROVE TypeOK'
  <2>1. [op |-> op, id |-> m, row |-> meetings[m]] \in Request
    BY DEF TypeOK, Request
  <2> QED BY <1>4, <2>1 DEF TypeOK, ReadMeeting
<1>5. ASSUME NEW q \in Requests, NEW row \in Meeting, StoreUpdateMeeting(q, row)
      PROVE TypeOK'
  BY <1>5, StartTypes DEF TypeOK, StoreUpdateMeeting
<1>6. ASSUME NEW q \in Requests, NEW p \in Patches, Update(q, p)
      PROVE TypeOK'
  <2>1. request[q].row \in Meeting
    BY DEF TypeOK, Request
  <2>2. \A f \in {"starts", "ends"}, t \in Times : Field(p, f, t) \in Instants
    BY TimeTypes DEF Patches, Field
  <2>3. /\ Field(p, "starts", request[q].row.starts) \in Instants
        /\ Field(p, "ends", request[q].row.ends) \in Instants
    BY <2>1, <2>2 DEF Meeting
  <2>4. [request[q].row EXCEPT
           !.starts = FormatTime(Field(p, "starts", request[q].row.starts)),
           !.ends = FormatTime(Field(p, "ends", request[q].row.ends))] \in Meeting
    BY <2>1, <2>3, TimeTypes DEF Meeting
  <2> QED BY <1>5, <1>6, <2>4 DEF Update
<1>7. ASSUME NEW q \in Requests, Cancel(q) PROVE TypeOK'
  <2>1. [request[q].row EXCEPT !.status = "cancelled"] \in Meeting
    BY DEF TypeOK, Request, Meeting
  <2> QED BY <1>5, <1>7, <2>1 DEF Cancel
<1>8. ASSUME NEW q \in Requests, RequestEnds(q) PROVE TypeOK'
  BY <1>8, StartTypes DEF TypeOK, RequestEnds
<1>9. ASSUME NEW w \in Workers, List(w) PROVE TypeOK'
  <2>1. ListDue \subseteq Reminders
    BY DEF ListDue
  <2>2. [worker[w] EXCEPT !.pc = "deliver", !.jobs = ListDue] \in Worker
    BY <2>1 DEF TypeOK, Worker
  <2> QED BY <1>9, <2>2 DEF TypeOK, List
<1>10. ASSUME NEW w \in Workers, NEW ok \in BOOLEAN, Deliver(w, ok)
       PROVE TypeOK'
  <2>1. worker[w].jobs \subseteq Reminders
    BY DEF TypeOK, Worker
  <2>2. PICK r \in worker[w].jobs :
          /\ worker' = [worker EXCEPT
                          ![w] = [pc |-> "mark", jobs |-> @.jobs \ {r},
                                  current |-> r, sent |-> ok]]
          /\ attempts' = [attempts EXCEPT ![r] = @ + 1]
          /\ outcomes' = [outcomes EXCEPT ![r] = @ \cup {ok}]
    BY <1>10 DEF Deliver
  <2>3. [pc |-> "mark", jobs |-> worker[w].jobs \ {r}, current |-> r,
         sent |-> ok] \in Worker
    BY <2>1 DEF Worker
  <2>4. outcomes' \in [Reminders -> SUBSET BOOLEAN]
    <3>1. \A S \in SUBSET BOOLEAN : S \cup {ok} \in SUBSET BOOLEAN
      BY Zenon
    <3>2. outcomes[r] \cup {ok} \in SUBSET BOOLEAN
      BY <2>1, <3>1 DEF TypeOK
    <3> QED BY <2>1, <2>2, <3>2 DEF TypeOK
  <2>5. worker' \in [Workers -> Worker]
    BY <2>2, <2>3 DEF TypeOK
  <2>6. attempts' \in [Reminders -> Nat]
    <3>1. attempts \in [Reminders -> Nat] /\ r \in Reminders
      BY <2>1 DEF TypeOK
    <3> QED BY <2>2, <3>1
  <2> QED BY <1>10, <2>4, <2>5, <2>6 DEF TypeOK, Deliver
<1>11. ASSUME NEW w \in Workers, Mark(w) PROVE TypeOK'
  <2>1. worker[w].current \in Reminders
    BY DEF TypeOK, Worker
  <2>2. reminders' \in [Reminders -> Reminder]
    BY <1>11, <2>1 DEF Mark, StoreMark, TypeOK, Reminder
  <2>3. worker' \in [Workers -> Worker]
    BY <1>11, StartTypes DEF Mark, AfterMark, TypeOK, Worker
  <2> QED BY <1>11, <2>2, <2>3 DEF TypeOK, Mark
<1>12. ASSUME NEW w \in Workers, WorkerFails(w) PROVE TypeOK'
  BY <1>12, StartTypes DEF TypeOK, WorkerFails
<1> QED
  BY <1>1, <1>2, <1>3, <1>4, <1>6, <1>7, <1>8, <1>9, <1>10, <1>11, <1>12
  DEF Next, RunOnce

\* The tables, requests and workers keep their types in every reachable state.
THEOREM TypeCorrect == Spec => []TypeOK
<1>1. Init => TypeOK
  BY StartTypes, MeetingsAssumption DEF Init, TypeOK
<1> QED BY <1>1, NextType, PTL DEF Spec

(***************************************************************************)
(* Schedules and the life of a reminder.  Life says what the properties    *)
(* need and the tables do not show: a reminder exists only with its        *)
(* meeting, a request never holds a meeting that does not exist, and a     *)
(* worker about to mark has an outcome to report.                          *)
(***************************************************************************)
Created ==
  \A r \in Reminders :
    meetings[MeetingOf[r]].status = "none" => reminders[r].status = "none"
HoldsMeeting ==
  \A q \in Requests : request[q].op # "none" => request[q].row.status # "none"
HasOutcome ==
  \A w \in Workers :
    worker[w].pc = "mark" => worker[w].sent \in outcomes[worker[w].current]
Life == Created /\ HoldsMeeting /\ HasOutcome

\* What deliver does, for the worker and for everybody else.
LEMMA DeliverStep ==
  ASSUME TypeOK, NEW w \in Workers, NEW ok \in BOOLEAN, Deliver(w, ok)
  PROVE  \E r \in Reminders :
           /\ r \in worker[w].jobs
           /\ worker[w].pc = "deliver"
           /\ worker'[w] = [pc |-> "mark", jobs |-> worker[w].jobs \ {r},
                            current |-> r, sent |-> ok]
           /\ \A x \in Workers \ {w} : worker'[x] = worker[x]
           /\ attempts'[r] = attempts[r] + 1
           /\ \A x \in Reminders \ {r} : attempts'[x] = attempts[x]
           /\ ok \in outcomes'[r]
           /\ \A x \in Reminders : outcomes[x] \subseteq outcomes'[x]
           /\ UNCHANGED <<now, meetings, reminders, request, faults>>
<1>1. worker[w].jobs \subseteq Reminders
  BY DEF TypeOK, Worker
<1>2. PICK r \in worker[w].jobs :
        /\ worker' = [worker EXCEPT
                        ![w] = [pc |-> "mark", jobs |-> @.jobs \ {r},
                                current |-> r, sent |-> ok]]
        /\ attempts' = [attempts EXCEPT ![r] = @ + 1]
        /\ outcomes' = [outcomes EXCEPT ![r] = @ \cup {ok}]
  BY DEF Deliver
<1>3. r \in Reminders
  BY <1>1
<1>4. /\ worker'[w] = [pc |-> "mark", jobs |-> worker[w].jobs \ {r},
                       current |-> r, sent |-> ok]
      /\ \A x \in Workers \ {w} : worker'[x] = worker[x]
  BY <1>2 DEF TypeOK
<1>5. /\ attempts'[r] = attempts[r] + 1
      /\ \A x \in Reminders \ {r} : attempts'[x] = attempts[x]
  BY <1>2, <1>3 DEF TypeOK
<1>6. /\ outcomes'[r] = outcomes[r] \cup {ok}
      /\ \A x \in Reminders \ {r} : outcomes'[x] = outcomes[x]
  BY <1>2, <1>3 DEF TypeOK
<1>7. ok \in outcomes'[r] /\ \A x \in Reminders : outcomes[x] \subseteq outcomes'[x]
  BY <1>3, <1>6, Zenon
<1> QED BY <1>2, <1>3, <1>4, <1>5, <1>7 DEF Deliver

\* What marking does: it settles a pending reminder, and the worker moves on.
LEMMA MarkStep ==
  ASSUME TypeOK, NEW w \in Workers, Mark(w)
  PROVE  /\ worker[w].pc = "mark"
         /\ worker[w].current \in Reminders
         /\ \A r \in Reminders :
              reminders'[r].status =
                IF r # worker[w].current \/ reminders[r].status # "pending"
                THEN reminders[r].status
                ELSE IF worker[w].sent THEN "sent" ELSE "failed"
         /\ worker'[w].pc \in {"list", "deliver"}
         /\ worker'[w].jobs \subseteq worker[w].jobs
         /\ worker'[w].pc = "list" => worker'[w].jobs = {}
         /\ \A x \in Workers \ {w} : worker'[x] = worker[x]
         /\ UNCHANGED <<now, meetings, request, attempts, outcomes, faults>>
<1>1. worker[w] \in Worker /\ worker[w].current \in Reminders
  BY DEF TypeOK, Worker
<1>2. StoreMark(worker[w].current, worker[w].sent)
  BY DEF Mark
<1>3. \A r \in Reminders :
        reminders'[r].status =
          IF r # worker[w].current \/ reminders[r].status # "pending"
          THEN reminders[r].status
          ELSE IF worker[w].sent THEN "sent" ELSE "failed"
  BY <1>1, <1>2 DEF StoreMark, TypeOK, Reminder
<1>4. /\ worker'[w] = Idle \/ worker'[w] = [worker[w] EXCEPT !.pc = "deliver"]
      /\ \A x \in Workers \ {w} : worker'[x] = worker[x]
  BY DEF Mark, AfterMark, TypeOK
<1>5. /\ worker'[w].pc \in {"list", "deliver"}
      /\ worker'[w].jobs \subseteq worker[w].jobs
      /\ worker'[w].pc = "list" => worker'[w].jobs = {}
  BY <1>1, <1>4 DEF Idle, Worker
<1> QED BY <1>1, <1>3, <1>4, <1>5 DEF Mark

\* Every step keeps Life.
LEMMA NextLife ==
  ASSUME TypeOK, Life, [Next]_vars
  PROVE  Life'
<1> USE MeetingsAssumption
<1>1. CASE UNCHANGED vars
  BY <1>1 DEF Life, Created, HoldsMeeting, HasOutcome, vars
<1>2. CASE Tick
  BY <1>2 DEF Life, Created, HoldsMeeting, HasOutcome, Tick
<1>3. ASSUME NEW m \in Meetings, NEW s \in Instants, NEW e \in Instants,
             NEW o \in [Reminders -> Offsets], Create(m, s, e, o)
      PROVE Life'
  <2>1. /\ meetings'[m].status = "scheduled"
        /\ \A x \in Meetings \ {m} : meetings'[x] = meetings[x]
        /\ \A r \in Reminders : MeetingOf[r] # m => reminders'[r] = reminders[r]
    BY <1>3 DEF Create, StoreCreateMeeting, TypeOK
  <2>2. Created'
    BY <2>1 DEF Life, Created
  <2> QED BY <1>3, <2>2 DEF Life, HoldsMeeting, HasOutcome, Create, StoreCreateMeeting
<1>4. ASSUME NEW q \in Requests, NEW m \in Meetings,
             NEW op \in {"update", "cancel"}, ReadMeeting(q, op, m)
      PROVE Life'
  <2>1. /\ request'[q].row = meetings[m] /\ meetings[m].status # "none"
        /\ \A x \in Requests \ {q} : request'[x] = request[x]
    BY <1>4 DEF ReadMeeting, TypeOK
  <2>2. HoldsMeeting'
    BY <2>1 DEF Life, HoldsMeeting
  <2> QED BY <1>4, <2>2 DEF Life, Created, HasOutcome, ReadMeeting
<1>5. ASSUME NEW q \in Requests, NEW row \in Meeting, row.status # "none",
             StoreUpdateMeeting(q, row)
      PROVE Life'
  <2>1. /\ request[q].id \in Meetings
        /\ meetings'[request[q].id] = row
        /\ \A x \in Meetings \ {request[q].id} : meetings'[x] = meetings[x]
        /\ reminders' = reminders /\ worker' = worker /\ outcomes' = outcomes
    BY <1>5 DEF StoreUpdateMeeting, TypeOK, Request
  <2>2. /\ request'[q].op = "none"
        /\ \A x \in Requests \ {q} : request'[x] = request[x]
    BY <1>5 DEF StoreUpdateMeeting, TypeOK, NoRequest
  <2>3. Created'
    BY <1>5, <2>1 DEF Life, Created
  <2>4. HoldsMeeting'
    BY <2>2 DEF Life, HoldsMeeting
  <2> QED BY <2>1, <2>3, <2>4 DEF Life, HasOutcome
<1>6. ASSUME NEW q \in Requests, NEW p \in Patches, Update(q, p)
      PROVE Life'
  <2>1. request[q].row \in Meeting /\ request[q].row.status # "none"
    BY <1>6 DEF TypeOK, Request, Update, Life, HoldsMeeting
  <2>2. \A f \in {"starts", "ends"}, t \in Times : Field(p, f, t) \in Instants
    BY TimeTypes DEF Patches, Field
  <2>3. /\ Field(p, "starts", request[q].row.starts) \in Instants
        /\ Field(p, "ends", request[q].row.ends) \in Instants
    BY <2>1, <2>2 DEF Meeting
  <2> DEFINE row == [request[q].row EXCEPT
           !.starts = FormatTime(Field(p, "starts", request[q].row.starts)),
           !.ends = FormatTime(Field(p, "ends", request[q].row.ends))]
  <2>4. row \in Meeting /\ row.status # "none"
    BY <2>1, <2>3, TimeTypes DEF Meeting
  <2>5. StoreUpdateMeeting(q, row)
    BY <1>6 DEF Update
  <2> HIDE DEF row
  <2> QED BY <1>5, <2>4, <2>5
<1>7. ASSUME NEW q \in Requests, Cancel(q) PROVE Life'
  <2>1. /\ [request[q].row EXCEPT !.status = "cancelled"] \in Meeting
        /\ [request[q].row EXCEPT !.status = "cancelled"].status # "none"
    BY DEF TypeOK, Request, Meeting
  <2> QED BY <1>5, <1>7, <2>1 DEF Cancel
<1>8. ASSUME NEW q \in Requests, RequestEnds(q) PROVE Life'
  <2>1. /\ request'[q].op = "none"
        /\ \A x \in Requests \ {q} : request'[x] = request[x]
    BY <1>8 DEF RequestEnds, TypeOK, NoRequest
  <2>2. HoldsMeeting'
    BY <2>1 DEF Life, HoldsMeeting
  <2> QED BY <1>8, <2>2 DEF Life, Created, HasOutcome, RequestEnds
<1>9. ASSUME NEW w \in Workers, List(w) PROVE Life'
  <2>1. /\ worker'[w].pc = "deliver"
        /\ \A x \in Workers \ {w} : worker'[x] = worker[x]
    BY <1>9 DEF List, TypeOK, Worker
  <2>2. HasOutcome'
    BY <1>9, <2>1 DEF Life, HasOutcome, List
  <2> QED BY <1>9, <2>2 DEF Life, Created, HoldsMeeting, List
<1>10. ASSUME NEW w \in Workers, NEW ok \in BOOLEAN, Deliver(w, ok)
       PROVE Life'
  <2>1. PICK r \in Reminders :
          /\ worker'[w] = [pc |-> "mark", jobs |-> worker[w].jobs \ {r},
                           current |-> r, sent |-> ok]
          /\ \A x \in Workers \ {w} : worker'[x] = worker[x]
          /\ ok \in outcomes'[r]
          /\ \A x \in Reminders : outcomes[x] \subseteq outcomes'[x]
          /\ UNCHANGED <<now, meetings, reminders, request, faults>>
    BY <1>10, DeliverStep
  <2>2. HasOutcome'
    <3> SUFFICES ASSUME NEW x \in Workers, worker'[x].pc = "mark"
                 PROVE  worker'[x].sent \in outcomes'[worker'[x].current]
      BY DEF HasOutcome
    <3>1. CASE x = w
      <4>1. worker'[x].sent = ok /\ worker'[x].current = r
        BY <2>1, <3>1
      <4> QED BY <2>1, <4>1
    <3>2. CASE x # w
      <4>1. worker'[x] = worker[x] /\ worker[x].current \in Reminders
        BY <2>1, <3>2 DEF TypeOK, Worker
      <4>2. worker[x].sent \in outcomes[worker[x].current]
        BY <4>1 DEF Life, HasOutcome
      <4> QED BY <2>1, <4>1, <4>2
    <3> QED BY <3>1, <3>2
  <2> QED BY <2>1, <2>2 DEF Life, Created, HoldsMeeting
<1>11. ASSUME NEW w \in Workers, Mark(w) PROVE Life'
  <2>1. /\ worker'[w].pc # "mark"
        /\ \A x \in Workers \ {w} : worker'[x] = worker[x]
        /\ UNCHANGED <<meetings, request, outcomes>>
        /\ \A r \in Reminders :
             reminders[r].status = "none" => reminders'[r].status = "none"
    BY <1>11, MarkStep
  <2>2. HasOutcome'
    BY <2>1 DEF Life, HasOutcome
  <2> QED BY <2>1, <2>2 DEF Life, Created, HoldsMeeting
<1>12. ASSUME NEW w \in Workers, WorkerFails(w) PROVE Life'
  <2>1. /\ worker'[w].pc = "list"
        /\ \A x \in Workers \ {w} : worker'[x] = worker[x]
    BY <1>12 DEF WorkerFails, TypeOK, Idle
  <2>2. HasOutcome'
    BY <1>12, <2>1 DEF Life, HasOutcome, WorkerFails
  <2> QED BY <1>12, <2>2 DEF Life, Created, HoldsMeeting, WorkerFails
<1> QED
  BY <1>1, <1>2, <1>3, <1>4, <1>6, <1>7, <1>8, <1>9, <1>10, <1>11, <1>12
  DEF Next, RunOnce

\* Life holds in every reachable state.
THEOREM LifeInvariant == Spec => []Life
<1>1. Init => Life
  BY MeetingsAssumption DEF Init, Life, Created, HoldsMeeting, HasOutcome,
     NoReminder, NoRequest, Idle
<1>2. TypeOK /\ Life /\ [Next]_vars => Life'
  BY NextLife
<1> QED BY <1>1, <1>2, TypeCorrect, PTL DEF Spec

\* A reminder's row says "sent" or "failed" only after a delivery with that
\* outcome, whichever worker marked it (run_once_at).
THEOREM Marked == Spec => []MarkedAfterDelivery
<1>1. Init => MarkedAfterDelivery
  BY DEF Init, MarkedAfterDelivery, NoReminder
<1>2. TypeOK /\ Life /\ MarkedAfterDelivery /\ [Next]_vars => MarkedAfterDelivery'
  <2> SUFFICES ASSUME TypeOK, Life, MarkedAfterDelivery, [Next]_vars
               PROVE  MarkedAfterDelivery'
    OBVIOUS
  <2>1. ASSUME NEW m \in Meetings, NEW s \in Instants, NEW e \in Instants,
               NEW o \in [Reminders -> Offsets], Create(m, s, e, o)
        PROVE MarkedAfterDelivery'
    BY <2>1 DEF MarkedAfterDelivery, Create, StoreCreateMeeting, NewReminder, TypeOK
  <2>2. ASSUME NEW w \in Workers, NEW ok \in BOOLEAN, Deliver(w, ok)
        PROVE MarkedAfterDelivery'
    BY <2>2, DeliverStep DEF MarkedAfterDelivery
  <2>3. ASSUME NEW w \in Workers, Mark(w) PROVE MarkedAfterDelivery'
    <3>1. worker[w].sent \in outcomes[worker[w].current] /\ worker[w].sent \in BOOLEAN
      BY <2>3, MarkStep DEF Life, HasOutcome, TypeOK, Worker
    <3> SUFFICES ASSUME NEW r \in Reminders
                 PROVE /\ reminders'[r].status = "sent" => TRUE \in outcomes'[r]
                       /\ reminders'[r].status = "failed" => FALSE \in outcomes'[r]
      BY DEF MarkedAfterDelivery
    <3>2. outcomes' = outcomes
      BY <2>3, MarkStep
    <3>3. CASE r = worker[w].current /\ reminders[r].status = "pending"
      <4>1. reminders'[r].status = IF worker[w].sent THEN "sent" ELSE "failed"
        BY <2>3, <3>3, MarkStep
      <4>2. CASE worker[w].sent = TRUE
        BY <3>1, <3>2, <3>3, <4>1, <4>2
      <4>3. CASE worker[w].sent = FALSE
        BY <3>1, <3>2, <3>3, <4>1, <4>3
      <4> QED BY <3>1, <4>2, <4>3
    <3>4. CASE ~(r = worker[w].current /\ reminders[r].status = "pending")
      <4>1. reminders'[r].status = reminders[r].status
        BY <2>3, <3>4, MarkStep
      <4> QED BY <3>2, <4>1 DEF MarkedAfterDelivery
    <3> QED BY <3>3, <3>4
  <2>4. ASSUME reminders' = reminders, outcomes' = outcomes
        PROVE MarkedAfterDelivery'
    BY <2>4 DEF MarkedAfterDelivery
  <2> QED
    BY <2>1, <2>2, <2>3, <2>4 DEF Next, RunOnce, Tick, ReadMeeting, RequestEnds,
       Update, Cancel, StoreUpdateMeeting, List, WorkerFails, vars
<1> QED BY <1>1, <1>2, TypeCorrect, LifeInvariant, PTL DEF Spec

\* No step of any request or worker changes a settled reminder.
THEOREM Final == Spec => SettledIsFinal
<1>1. TypeOK /\ Life /\ [Next]_vars =>
        \A r \in Reminders :
          reminders[r].status \in {"sent", "failed"} =>
            reminders'[r].status = reminders[r].status
  <2> SUFFICES ASSUME TypeOK, Life, [Next]_vars,
                      NEW r \in Reminders, reminders[r].status \in {"sent", "failed"}
               PROVE  reminders'[r].status = reminders[r].status
    OBVIOUS
  <2>1. ASSUME NEW m \in Meetings, NEW s \in Instants, NEW e \in Instants,
               NEW o \in [Reminders -> Offsets], Create(m, s, e, o)
        PROVE reminders'[r].status = reminders[r].status
    BY <2>1, MeetingsAssumption DEF Life, Created, Create, StoreCreateMeeting, TypeOK
  <2>2. ASSUME NEW w \in Workers, Mark(w)
        PROVE reminders'[r].status = reminders[r].status
    BY <2>2, MarkStep
  <2>3. ASSUME reminders' = reminders
        PROVE reminders'[r].status = reminders[r].status
    BY <2>3
  <2> QED
    BY <2>1, <2>2, <2>3 DEF Next, RunOnce, Tick, ReadMeeting, RequestEnds, Update,
       Cancel, StoreUpdateMeeting, List, Deliver, WorkerFails, vars
<1> QED BY <1>1, TypeCorrect, LifeInvariant, PTL DEF Spec, SettledIsFinal

(***************************************************************************)
(* The bound on duplicates.  While a reminder is pending, every delivery   *)
(* so far belongs to a worker that is about to mark it or was lost to a    *)
(* fault; once it is settled, only workers that already hold it in a batch *)
(* can deliver it again, and those are other workers than the ones that    *)
(* were marking it.                                                        *)
(***************************************************************************)
Marking(f, r) == {w \in Workers : f[w].pc = "mark" /\ f[w].current = r}
Holding(f, r) == {w \in Workers : r \in f[w].jobs}

Apart ==
  \A w \in Workers :
    /\ worker[w].pc = "mark" => worker[w].current \notin worker[w].jobs
    /\ worker[w].pc = "list" => worker[w].jobs = {}
Unborn ==
  \A r \in Reminders :
    reminders[r].status = "none" => attempts[r] = 0 /\ Holding(worker, r) = {}
PaidPending ==
  \A r \in Reminders :
    reminders[r].status = "pending" =>
      attempts[r] <= Cardinality(Marking(worker, r)) + faults
PaidSettled ==
  \A r \in Reminders :
    reminders[r].status \in {"sent", "failed"} =>
      attempts[r] + Cardinality(Holding(worker, r)) <= Cardinality(Workers) + faults
Paid == Apart /\ Unborn /\ PaidPending /\ PaidSettled

\* Two sets of workers that agree except on w differ by at most w in size.
LEMMA CountStep ==
  ASSUME NEW S \in SUBSET Workers, NEW T \in SUBSET Workers, NEW w \in Workers,
         \A x \in Workers \ {w} : x \in S <=> x \in T
  PROVE  /\ Cardinality(S) \in Nat /\ Cardinality(T) \in Nat
         /\ Cardinality(T) =
              Cardinality(S) - (IF w \in S THEN 1 ELSE 0) + (IF w \in T THEN 1 ELSE 0)
<1>1. IsFiniteSet(S) /\ IsFiniteSet(T)
  BY MeetingsAssumption, FS_Subset
<1>2. Cardinality(S) \in Nat /\ Cardinality(T) \in Nat
  BY <1>1, FS_CardinalityType
<1>3. S \ {w} = T \ {w}
  OBVIOUS
<1>4. Cardinality(S \ {w}) = IF w \in S THEN Cardinality(S) - 1 ELSE Cardinality(S)
  BY <1>1, FS_RemoveElement
<1>5. Cardinality(T \ {w}) = IF w \in T THEN Cardinality(T) - 1 ELSE Cardinality(T)
  BY <1>1, FS_RemoveElement
<1> DEFINE s == Cardinality(S)
           t == Cardinality(T)
<1>6. s \in Nat /\ t \in Nat
  BY <1>2
<1>7. (IF w \in S THEN s - 1 ELSE s) = (IF w \in T THEN t - 1 ELSE t)
  BY <1>3, <1>4, <1>5
<1> HIDE DEF s, t
<1>8. t = s - (IF w \in S THEN 1 ELSE 0) + (IF w \in T THEN 1 ELSE 0)
  BY <1>6, <1>7
<1> QED BY <1>6, <1>8 DEF s, t

\* The workers marking a reminder and the workers holding it are together no
\* more than all workers.
LEMMA MarkersAndHolders ==
  ASSUME Apart, NEW r
  PROVE  /\ Cardinality(Marking(worker, r)) \in Nat
         /\ Cardinality(Holding(worker, r)) \in Nat
         /\ Cardinality(Workers) \in Nat
         /\ Cardinality(Marking(worker, r)) + Cardinality(Holding(worker, r))
              <= Cardinality(Workers)
<1> DEFINE M == Marking(worker, r)
           H == Holding(worker, r)
<1>1. M \in SUBSET Workers /\ H \in SUBSET Workers /\ M \cup H \in SUBSET Workers
  BY DEF Marking, Holding
<1>2. M \cap H = {}
  BY DEF Apart, Marking, Holding
<1> HIDE DEF M, H
<1>3. /\ IsFiniteSet(M) /\ IsFiniteSet(H)
      /\ Cardinality(M \cup H) <= Cardinality(Workers)
  BY <1>1, MeetingsAssumption, FS_Subset
<1>4. /\ Cardinality(M) \in Nat /\ Cardinality(H) \in Nat
      /\ Cardinality(Workers) \in Nat
  BY <1>3, MeetingsAssumption, FS_CardinalityType
<1>5. Cardinality(M \cup H) = Cardinality(M) + Cardinality(H) - Cardinality(M \cap H)
  BY <1>3, FS_Union
<1>6. Cardinality(M \cap H) = 0
  BY <1>2, FS_EmptySet
<1>7. Cardinality(M) + Cardinality(H) <= Cardinality(Workers)
  BY <1>3, <1>4, <1>5, <1>6
<1> QED BY <1>4, <1>7 DEF M, H

\* When one worker moves, the two counts change by that worker only.
LEMMA OneWorkerMoves ==
  ASSUME TypeOK, TypeOK', NEW w \in Workers, NEW r,
         \A x \in Workers \ {w} : worker'[x] = worker[x]
  PROVE  /\ Cardinality(Marking(worker, r)) \in Nat
         /\ Cardinality(Marking(worker', r)) \in Nat
         /\ Cardinality(Holding(worker, r)) \in Nat
         /\ Cardinality(Holding(worker', r)) \in Nat
         /\ Cardinality(Marking(worker', r)) = Cardinality(Marking(worker, r))
              - (IF w \in Marking(worker, r) THEN 1 ELSE 0)
              + (IF w \in Marking(worker', r) THEN 1 ELSE 0)
         /\ Cardinality(Holding(worker', r)) = Cardinality(Holding(worker, r))
              - (IF w \in Holding(worker, r) THEN 1 ELSE 0)
              + (IF w \in Holding(worker', r) THEN 1 ELSE 0)
<1>1. /\ Marking(worker, r) \in SUBSET Workers
      /\ Marking(worker', r) \in SUBSET Workers
      /\ \A x \in Workers \ {w} :
           x \in Marking(worker, r) <=> x \in Marking(worker', r)
  BY DEF Marking
<1>2. /\ Holding(worker, r) \in SUBSET Workers
      /\ Holding(worker', r) \in SUBSET Workers
      /\ \A x \in Workers \ {w} :
           x \in Holding(worker, r) <=> x \in Holding(worker', r)
  BY DEF Holding
<1>3. /\ Cardinality(Marking(worker, r)) \in Nat
      /\ Cardinality(Marking(worker', r)) \in Nat
      /\ Cardinality(Marking(worker', r)) = Cardinality(Marking(worker, r))
           - (IF w \in Marking(worker, r) THEN 1 ELSE 0)
           + (IF w \in Marking(worker', r) THEN 1 ELSE 0)
  BY <1>1, CountStep
<1>4. /\ Cardinality(Holding(worker, r)) \in Nat
      /\ Cardinality(Holding(worker', r)) \in Nat
      /\ Cardinality(Holding(worker', r)) = Cardinality(Holding(worker, r))
           - (IF w \in Holding(worker, r) THEN 1 ELSE 0)
           + (IF w \in Holding(worker', r) THEN 1 ELSE 0)
  BY <1>2, CountStep
<1> QED BY <1>3, <1>4

\* Steps that leave the workers, the reminders, the count of deliveries and the
\* faults alone keep Paid.
LEMMA PaidUnchanged ==
  ASSUME Paid, UNCHANGED <<reminders, worker, attempts, faults>>
  PROVE  Paid'
<1>1. \A r : /\ Marking(worker, r)' = Marking(worker, r)
            /\ Holding(worker, r)' = Holding(worker, r)
  BY DEF Marking, Holding
<1> QED BY <1>1 DEF Paid, Apart, Unborn, PaidPending, PaidSettled

\* Paid, one reminder at a time: what has to be shown of a step of worker w.
LEMMA PaidStep ==
  ASSUME Paid, TypeOK, TypeOK', NEW w \in Workers,
         \A x \in Workers \ {w} : worker'[x] = worker[x],
         worker'[w].pc = "mark" => worker'[w].current \notin worker'[w].jobs,
         worker'[w].pc = "list" => worker'[w].jobs = {},
         \A r \in Reminders :
           /\ reminders'[r].status = "none" =>
                attempts'[r] = 0 /\ w \notin Holding(worker', r)
                  /\ reminders[r].status = "none"
           /\ reminders'[r].status = "pending" =>
                attempts'[r] <= Cardinality(Marking(worker', r)) + faults'
           /\ reminders'[r].status \in {"sent", "failed"} =>
                attempts'[r] + Cardinality(Holding(worker', r))
                  <= Cardinality(Workers) + faults'
  PROVE  Paid'
<1>1. Apart'
  <2> SUFFICES ASSUME NEW x \in Workers
               PROVE /\ worker'[x].pc = "mark" =>
                          worker'[x].current \notin worker'[x].jobs
                     /\ worker'[x].pc = "list" => worker'[x].jobs = {}
    BY DEF Apart
  <2>1. CASE x = w
    BY <2>1
  <2>2. CASE x # w
    <3>1. worker'[x] = worker[x]
      BY <2>2
    <3> QED BY <3>1 DEF Paid, Apart
  <2> QED BY <2>1, <2>2
<1>2. Unborn'
  <2> SUFFICES ASSUME NEW r \in Reminders, reminders'[r].status = "none"
               PROVE  attempts'[r] = 0 /\ Holding(worker', r) = {}
    BY DEF Unborn, Holding
  <2>1. attempts'[r] = 0 /\ w \notin Holding(worker', r) /\ Holding(worker, r) = {}
    BY DEF Paid, Unborn
  <2>2. \A x \in Workers \ {w} : r \notin worker'[x].jobs
    BY <2>1 DEF Holding
  <2> QED BY <2>1, <2>2 DEF Holding
<1>3. PaidPending'
  BY DEF PaidPending, Marking
<1>4. PaidSettled'
  BY DEF PaidSettled, Holding
<1> QED BY <1>1, <1>2, <1>3, <1>4 DEF Paid

\* Every step keeps Paid.
LEMMA NextPaid ==
  ASSUME TypeOK, TypeOK', Life, Paid, [Next]_vars
  PROVE  Paid'
<1> USE MeetingsAssumption
<1>0. /\ \A r \in Reminders :
           /\ attempts[r] \in Nat
           /\ reminders[r].status \in {"none", "pending", "sent", "failed"}
      /\ faults \in Nat
  BY DEF TypeOK, Reminder
<1>1. ASSUME NEW m \in Meetings, NEW s \in Instants, NEW e \in Instants,
             NEW o \in [Reminders -> Offsets], Create(m, s, e, o)
      PROVE Paid'
  <2>1. /\ meetings[m].status = "none"
        /\ UNCHANGED <<worker, attempts, faults>>
        /\ \A r \in Reminders :
             reminders'[r].status =
               IF MeetingOf[r] = m THEN "pending" ELSE reminders[r].status
    BY <1>1 DEF Create, StoreCreateMeeting, NewReminder
  <2>2. \A r : /\ Marking(worker, r)' = Marking(worker, r)
              /\ Holding(worker, r)' = Holding(worker, r)
    BY <2>1 DEF Marking, Holding
  <2>3. Apart' /\ Unborn' /\ PaidSettled'
    BY <2>1, <2>2 DEF Paid, Apart, Unborn, PaidSettled
  <2>4. PaidPending'
    <3> SUFFICES ASSUME NEW r \in Reminders, reminders'[r].status = "pending"
                 PROVE attempts[r] <= Cardinality(Marking(worker, r)) + faults
      BY <2>1, <2>2 DEF PaidPending
    <3>1. CASE MeetingOf[r] = m
      <4>1. attempts[r] = 0
        BY <2>1, <3>1 DEF Life, Created, Paid, Unborn
      <4>2. Cardinality(Marking(worker, r)) \in Nat
        BY MarkersAndHolders DEF Paid
      <4> QED BY <1>0, <4>1, <4>2
    <3>2. CASE MeetingOf[r] # m
      BY <2>1, <3>2 DEF Paid, PaidPending
    <3> QED BY <3>1, <3>2
  <2> QED BY <2>3, <2>4 DEF Paid
<1>2. ASSUME NEW w \in Workers, List(w) PROVE Paid'
  <2>1. /\ worker[w].pc = "list" /\ worker[w].jobs = {}
        /\ worker'[w].pc = "deliver" /\ worker'[w].jobs = ListDue
        /\ \A x \in Workers \ {w} : worker'[x] = worker[x]
        /\ UNCHANGED <<reminders, attempts, faults>>
    BY <1>2 DEF List, TypeOK, Worker, Paid, Apart
  <2>2. \A r \in ListDue : reminders[r].status = "pending"
    BY DEF ListDue, IsDue
  <2>3. ASSUME NEW r \in Reminders
        PROVE /\ reminders'[r].status = "none" =>
                   attempts'[r] = 0 /\ w \notin Holding(worker', r)
                     /\ reminders[r].status = "none"
              /\ reminders'[r].status = "pending" =>
                   attempts'[r] <= Cardinality(Marking(worker', r)) + faults'
              /\ reminders'[r].status \in {"sent", "failed"} =>
                   attempts'[r] + Cardinality(Holding(worker', r))
                     <= Cardinality(Workers) + faults'
    <3>1. /\ w \notin Marking(worker, r) /\ w \notin Marking(worker', r)
          /\ w \notin Holding(worker, r)
          /\ reminders[r].status # "pending" => w \notin Holding(worker', r)
      BY <2>1, <2>2 DEF Marking, Holding
    <3>2. /\ Cardinality(Marking(worker', r)) = Cardinality(Marking(worker, r))
          /\ reminders[r].status # "pending" =>
               Cardinality(Holding(worker', r)) = Cardinality(Holding(worker, r))
      BY <2>1, <3>1, OneWorkerMoves
    <3> QED BY <2>1, <3>1, <3>2 DEF Paid, Unborn, PaidPending, PaidSettled
  <2> QED BY <2>1, <2>3, PaidStep
<1>3. ASSUME NEW w \in Workers, NEW ok \in BOOLEAN, Deliver(w, ok) PROVE Paid'
  <2>1. PICK d \in Reminders :
          /\ d \in worker[w].jobs
          /\ worker[w].pc = "deliver"
          /\ worker'[w] = [pc |-> "mark", jobs |-> worker[w].jobs \ {d},
                           current |-> d, sent |-> ok]
          /\ \A x \in Workers \ {w} : worker'[x] = worker[x]
          /\ attempts'[d] = attempts[d] + 1
          /\ \A x \in Reminders \ {d} : attempts'[x] = attempts[x]
          /\ UNCHANGED <<reminders, faults>>
    BY <1>3, DeliverStep
  <2>2. /\ worker'[w].pc = "mark" /\ worker'[w].current = d
        /\ worker'[w].jobs = worker[w].jobs \ {d}
    BY <2>1
  <2>3. ASSUME NEW r \in Reminders
        PROVE /\ reminders'[r].status = "none" =>
                   attempts'[r] = 0 /\ w \notin Holding(worker', r)
                     /\ reminders[r].status = "none"
              /\ reminders'[r].status = "pending" =>
                   attempts'[r] <= Cardinality(Marking(worker', r)) + faults'
              /\ reminders'[r].status \in {"sent", "failed"} =>
                   attempts'[r] + Cardinality(Holding(worker', r))
                     <= Cardinality(Workers) + faults'
    <3>1. w \notin Marking(worker, r)
      BY <2>1 DEF Marking
    <3>2. w \in Marking(worker', r) <=> r = d
      BY <2>2 DEF Marking
    <3>3. /\ w \in Holding(worker', r) <=> r # d /\ w \in Holding(worker, r)
          /\ r = d => w \in Holding(worker, r)
      BY <2>1, <2>2 DEF Holding
    <3>4. /\ Cardinality(Marking(worker, r)) \in Nat
          /\ Cardinality(Holding(worker, r)) \in Nat
          /\ Cardinality(Marking(worker', r)) =
               Cardinality(Marking(worker, r)) + (IF r = d THEN 1 ELSE 0)
          /\ Cardinality(Holding(worker', r)) =
               Cardinality(Holding(worker, r)) - (IF r = d THEN 1 ELSE 0)
      <4>1. CASE r = d
        BY <2>1, <3>1, <3>2, <3>3, <4>1, OneWorkerMoves
      <4>2. CASE r # d
        BY <2>1, <3>1, <3>2, <3>3, <4>2, OneWorkerMoves
      <4> QED BY <4>1, <4>2
    <3>5. Cardinality(Workers) \in Nat
      BY FS_CardinalityType
    <3>6. CASE r = d
      <4>1. reminders[r].status # "none"
        BY <3>3, <3>6 DEF Paid, Unborn
      <4> QED BY <1>0, <2>1, <3>4, <3>5, <3>6, <4>1 DEF Paid, PaidPending, PaidSettled
    <3>7. CASE r # d
      BY <1>0, <2>1, <3>3, <3>4, <3>5, <3>7 DEF Paid, Unborn, PaidPending, PaidSettled
    <3> QED BY <3>6, <3>7
  <2>4. worker'[w].current \notin worker'[w].jobs
    BY <2>2
  <2> QED BY <2>1, <2>2, <2>3, <2>4, PaidStep
<1>4. ASSUME NEW w \in Workers, Mark(w) PROVE Paid'
  <2>1. /\ worker[w].pc = "mark" /\ worker'[w].pc \in {"list", "deliver"}
        /\ worker'[w].jobs \subseteq worker[w].jobs
        /\ worker'[w].pc = "list" => worker'[w].jobs = {}
        /\ \A x \in Workers \ {w} : worker'[x] = worker[x]
        /\ UNCHANGED <<attempts, faults>>
        /\ \A r \in Reminders :
             reminders'[r].status =
               IF r # worker[w].current \/ reminders[r].status # "pending"
               THEN reminders[r].status
               ELSE IF worker[w].sent THEN "sent" ELSE "failed"
    BY <1>4, MarkStep
  <2>2. ASSUME NEW r \in Reminders
        PROVE /\ reminders'[r].status = "none" =>
                   attempts'[r] = 0 /\ w \notin Holding(worker', r)
                     /\ reminders[r].status = "none"
              /\ reminders'[r].status = "pending" =>
                   attempts'[r] <= Cardinality(Marking(worker', r)) + faults'
              /\ reminders'[r].status \in {"sent", "failed"} =>
                   attempts'[r] + Cardinality(Holding(worker', r))
                     <= Cardinality(Workers) + faults'
    <3>1. /\ w \in Marking(worker, r) <=> r = worker[w].current
          /\ w \notin Marking(worker', r)
          /\ w \in Holding(worker', r) => w \in Holding(worker, r)
      BY <2>1 DEF Marking, Holding
    <3>2. /\ Cardinality(Marking(worker, r)) \in Nat
          /\ Cardinality(Holding(worker, r)) \in Nat
          /\ Cardinality(Holding(worker', r)) \in Nat
          /\ Cardinality(Holding(worker', r)) <= Cardinality(Holding(worker, r))
          /\ r # worker[w].current =>
               Cardinality(Marking(worker', r)) = Cardinality(Marking(worker, r))
      BY <2>1, <3>1, OneWorkerMoves
    <3>3. /\ Cardinality(Workers) \in Nat
          /\ Cardinality(Marking(worker, r)) + Cardinality(Holding(worker, r))
               <= Cardinality(Workers)
      BY MarkersAndHolders DEF Paid
    <3>4. CASE r = worker[w].current /\ reminders[r].status = "pending"
      <4>1. reminders'[r].status \in {"sent", "failed"}
        BY <2>1, <3>4
      <4>2. attempts[r] <= Cardinality(Marking(worker, r)) + faults
        BY <3>4 DEF Paid, PaidPending
      <4> QED BY <1>0, <2>1, <3>2, <3>3, <4>1, <4>2
    <3>5. CASE ~(r = worker[w].current /\ reminders[r].status = "pending")
      <4>1. reminders'[r].status = reminders[r].status
        BY <2>1, <3>5
      <4>2. CASE reminders[r].status = "none"
        BY <2>1, <3>1, <4>1, <4>2 DEF Paid, Unborn
      <4>3. CASE reminders[r].status = "pending"
        BY <2>1, <3>2, <3>5, <4>1, <4>3 DEF Paid, PaidPending
      <4>4. CASE reminders[r].status \in {"sent", "failed"}
        <5>1. attempts[r] + Cardinality(Holding(worker, r))
                <= Cardinality(Workers) + faults
          BY <4>4 DEF Paid, PaidSettled
        <5> QED BY <1>0, <2>1, <3>2, <3>3, <4>1, <4>4, <5>1
      <4> QED BY <1>0, <4>2, <4>3, <4>4
    <3> QED BY <3>4, <3>5
  <2> QED BY <2>1, <2>2, PaidStep
<1>5. ASSUME NEW w \in Workers, WorkerFails(w) PROVE Paid'
  <2>1. /\ worker'[w].pc = "list" /\ worker'[w].jobs = {}
        /\ \A x \in Workers \ {w} : worker'[x] = worker[x]
        /\ faults' = faults + 1
        /\ UNCHANGED <<reminders, attempts>>
    BY <1>5 DEF WorkerFails, TypeOK, Idle
  <2>2. ASSUME NEW r \in Reminders
        PROVE /\ reminders'[r].status = "none" =>
                   attempts'[r] = 0 /\ w \notin Holding(worker', r)
                     /\ reminders[r].status = "none"
              /\ reminders'[r].status = "pending" =>
                   attempts'[r] <= Cardinality(Marking(worker', r)) + faults'
              /\ reminders'[r].status \in {"sent", "failed"} =>
                   attempts'[r] + Cardinality(Holding(worker', r))
                     <= Cardinality(Workers) + faults'
    <3>1. w \notin Marking(worker', r) /\ w \notin Holding(worker', r)
      BY <2>1 DEF Marking, Holding
    <3>2. /\ Cardinality(Marking(worker, r)) \in Nat
          /\ Cardinality(Marking(worker', r)) \in Nat
          /\ Cardinality(Holding(worker, r)) \in Nat
          /\ Cardinality(Holding(worker', r)) \in Nat
          /\ Cardinality(Holding(worker', r)) <= Cardinality(Holding(worker, r))
          /\ Cardinality(Marking(worker, r)) <= Cardinality(Marking(worker', r)) + 1
      BY <2>1, <3>1, OneWorkerMoves
    <3>3. Cardinality(Workers) \in Nat
      BY FS_CardinalityType
    <3> QED BY <1>0, <2>1, <3>1, <3>2, <3>3 DEF Paid, Unborn, PaidPending, PaidSettled
  <2> QED BY <2>1, <2>2, PaidStep
<1>6. ASSUME UNCHANGED <<reminders, worker, attempts, faults>> PROVE Paid'
  BY <1>6, PaidUnchanged
<1> QED
  BY <1>1, <1>2, <1>3, <1>4, <1>5, <1>6 DEF Next, RunOnce, Tick, ReadMeeting,
     RequestEnds, Update, Cancel, StoreUpdateMeeting, vars

\* Paid holds in every reachable state.
THEOREM PaidInvariant == Spec => []Paid
<1>1. Init => Paid
  <2> SUFFICES ASSUME Init PROVE Paid
    OBVIOUS
  <2>1. \A w \in Workers : worker[w].pc = "list" /\ worker[w].jobs = {}
    BY DEF Init, Idle
  <2>2. \A r \in Reminders : reminders[r].status = "none" /\ attempts[r] = 0
    BY DEF Init, NoReminder
  <2>3. \A r : Holding(worker, r) = {}
    BY <2>1 DEF Holding
  <2> QED BY <2>1, <2>2, <2>3 DEF Paid, Apart, Unborn, PaidPending, PaidSettled
<1>2. TypeOK /\ TypeOK' /\ Life /\ Paid /\ [Next]_vars => Paid'
  BY NextPaid
<1> QED BY <1>1, <1>2, TypeCorrect, LifeInvariant, PTL DEF Spec

\* A reminder is handed to the dispatcher at most once per worker process and
\* once more per fault (run_once_at delivers, then marks).
THEOREM Duplicates == Spec => []DuplicatesBounded
<1>1. TypeOK /\ Paid => DuplicatesBounded
  <2> SUFFICES ASSUME TypeOK, Paid, NEW r \in Reminders
               PROVE  attempts[r] <= Cardinality(Workers) + faults
    BY DEF DuplicatesBounded
  <2>1. /\ attempts[r] \in Nat /\ faults \in Nat
        /\ reminders[r].status \in {"none", "pending", "sent", "failed"}
    BY MeetingsAssumption DEF TypeOK, Reminder
  <2>2. /\ Cardinality(Marking(worker, r)) \in Nat
        /\ Cardinality(Holding(worker, r)) \in Nat
        /\ Cardinality(Workers) \in Nat
        /\ Cardinality(Marking(worker, r)) + Cardinality(Holding(worker, r))
             <= Cardinality(Workers)
    BY MarkersAndHolders DEF Paid
  <2> QED BY <2>1, <2>2 DEF Paid, Unborn, PaidPending, PaidSettled
<1> QED BY <1>1, TypeCorrect, PaidInvariant, PTL

(***************************************************************************)
(* What the race of a PATCH with a cancellation needs.  A meeting is       *)
(* scheduled again only when two requests on it overlap: otherwise the row *)
(* a handler writes back is the row in the table, with its own change.     *)
(***************************************************************************)
RequestsApart ==
  \A p, q \in Requests :
    p # q /\ request[p].op # "none" /\ request[q].op # "none" =>
      request[p].id # request[q].id
RowsCurrent ==
  \A q \in Requests :
    request[q].op # "none" => request[q].row = meetings[request[q].id]

\* What a write of the store does to the meetings and to the requests.
LEMMA WriteStep ==
  ASSUME TypeOK, NEW q \in Requests, NEW row, StoreUpdateMeeting(q, row)
  PROVE  /\ request[q].id \in Meetings
         /\ meetings'[request[q].id] = row
         /\ \A m \in Meetings \ {request[q].id} : meetings'[m] = meetings[m]
         /\ request'[q].op = "none"
         /\ \A x \in Requests \ {q} : request'[x] = request[x]
<1>1. request[q].id \in Meetings
  BY DEF TypeOK, Request
<1>2. /\ request'[q] = NoRequest
      /\ \A x \in Requests \ {q} : request'[x] = request[x]
  BY DEF StoreUpdateMeeting, TypeOK
<1> QED BY <1>1, <1>2 DEF StoreUpdateMeeting, TypeOK, NoRequest

\* A step among requests that do not overlap leaves every waiting handler with
\* the row that is stored.
LEMMA NextCurrent ==
  ASSUME TypeOK, Life, RequestsApart, RowsCurrent, [Next]_vars
  PROVE  RowsCurrent'
<1>1. ASSUME NEW m \in Meetings, NEW s \in Instants, NEW e \in Instants,
             NEW o \in [Reminders -> Offsets], Create(m, s, e, o)
      PROVE RowsCurrent'
  <2>1. /\ meetings[m].status = "none" /\ request' = request
        /\ \A x \in Meetings \ {m} : meetings'[x] = meetings[x]
    BY <1>1 DEF Create, StoreCreateMeeting, TypeOK
  <2>2. \A q \in Requests : request[q].id \in Meetings
    BY DEF TypeOK, Request
  <2>3. \A q \in Requests : request[q].op # "none" => request[q].id # m
    BY <2>1 DEF Life, HoldsMeeting, RowsCurrent
  <2> QED BY <2>1, <2>2, <2>3 DEF RowsCurrent
<1>2. ASSUME NEW q \in Requests, NEW m \in Meetings,
             NEW op \in {"update", "cancel"}, ReadMeeting(q, op, m)
      PROVE RowsCurrent'
  <2>1. /\ request'[q].id = m /\ request'[q].row = meetings[m]
        /\ \A x \in Requests \ {q} : request'[x] = request[x]
        /\ meetings' = meetings
    BY <1>2 DEF ReadMeeting, TypeOK
  <2> QED BY <2>1 DEF RowsCurrent
<1>3. ASSUME NEW q \in Requests, NEW row, StoreUpdateMeeting(q, row),
             request[q].op # "none"
      PROVE RowsCurrent'
  <2> SUFFICES ASSUME NEW x \in Requests, request'[x].op # "none"
               PROVE  request'[x].row = meetings'[request'[x].id]
    BY DEF RowsCurrent
  <2>1. x # q /\ request'[x] = request[x]
    BY <1>3, WriteStep
  <2>2. request[x].id # request[q].id /\ request[x].id \in Meetings
    BY <1>3, <2>1 DEF RequestsApart, TypeOK, Request
  <2> QED BY <1>3, <2>1, <2>2, WriteStep DEF RowsCurrent
<1>4. ASSUME NEW q \in Requests, Cancel(q) \/ \E p \in Patches : Update(q, p)
      PROVE RowsCurrent'
  BY <1>3, <1>4 DEF Cancel, Update
<1>5. ASSUME NEW q \in Requests, RequestEnds(q) PROVE RowsCurrent'
  <2>1. /\ request'[q].op = "none"
        /\ \A x \in Requests \ {q} : request'[x] = request[x]
        /\ meetings' = meetings
    BY <1>5 DEF RequestEnds, TypeOK, NoRequest
  <2> QED BY <2>1 DEF RowsCurrent
<1>6. ASSUME meetings' = meetings, request' = request PROVE RowsCurrent'
  BY <1>6 DEF RowsCurrent
<1> QED
  BY <1>1, <1>2, <1>4, <1>5, <1>6 DEF Next, RunOnce, Tick, List, Deliver, Mark,
     WorkerFails, vars

\* While the requests on a meeting do not overlap, no handler waits with a row
\* that another one has changed (MeetingService::update and cancel write back
\* what meetings.get returned).
THEOREM NoLostUpdate == Spec => ([]RequestsApart => []RowsCurrent)
<1>1. Init => RowsCurrent
  BY DEF Init, RowsCurrent, NoRequest
<1>2. TypeOK /\ Life /\ RequestsApart /\ RowsCurrent /\ [Next]_vars => RowsCurrent'
  BY NextCurrent
<1> QED BY <1>1, <1>2, TypeCorrect, LifeInvariant, PTL DEF Spec

\* The overlap is the only way around a cancellation: while the requests on a
\* meeting do not overlap, a cancelled meeting stays cancelled, whatever is
\* patched, delivered, marked or lost.
THEOREM CancelledForGood == Spec => ([]RequestsApart => CancelledStaysCancelled)
<1>1. TypeOK /\ RowsCurrent /\ [Next]_vars =>
        \A m \in Meetings :
          meetings[m].status = "cancelled" => meetings'[m].status = "cancelled"
  <2> SUFFICES ASSUME TypeOK, RowsCurrent, [Next]_vars,
                      NEW m \in Meetings, meetings[m].status = "cancelled"
               PROVE  meetings'[m].status = "cancelled"
    OBVIOUS
  <2>1. ASSUME NEW x \in Meetings, NEW s \in Instants, NEW e \in Instants,
               NEW o \in [Reminders -> Offsets], Create(x, s, e, o)
        PROVE meetings'[m].status = "cancelled"
    BY <2>1 DEF Create, StoreCreateMeeting, TypeOK
  <2>2. ASSUME NEW q \in Requests, NEW row, StoreUpdateMeeting(q, row),
               request[q].id = m => row.status = "cancelled"
        PROVE meetings'[m].status = "cancelled"
    BY <2>2, WriteStep
  <2>3. ASSUME NEW q \in Requests, NEW p \in Patches, Update(q, p)
        PROVE meetings'[m].status = "cancelled"
    <3> DEFINE row == [request[q].row EXCEPT
             !.starts = FormatTime(Field(p, "starts", request[q].row.starts)),
             !.ends = FormatTime(Field(p, "ends", request[q].row.ends))]
    <3>1. request[q].row \in Meeting /\ request[q].op # "none"
      BY <2>3 DEF TypeOK, Request, Update
    <3>2. request[q].id = m => request[q].row.status = "cancelled"
      BY <3>1 DEF RowsCurrent
    <3>3. row.status = request[q].row.status
      BY <3>1 DEF Meeting
    <3>4. StoreUpdateMeeting(q, row)
      BY <2>3 DEF Update
    <3> HIDE DEF row
    <3> QED BY <2>2, <3>2, <3>3, <3>4
  <2>4. ASSUME NEW q \in Requests, Cancel(q)
        PROVE meetings'[m].status = "cancelled"
    <3>1. [request[q].row EXCEPT !.status = "cancelled"].status = "cancelled"
      BY DEF TypeOK, Request, Meeting
    <3> QED BY <2>2, <2>4, <3>1 DEF Cancel
  <2>5. ASSUME meetings' = meetings PROVE meetings'[m].status = "cancelled"
    BY <2>5
  <2> QED
    BY <2>1, <2>3, <2>4, <2>5 DEF Next, RunOnce, Tick, ReadMeeting, RequestEnds, List,
       Deliver, Mark, WorkerFails, vars
<1> QED BY <1>1, NoLostUpdate, TypeCorrect, PTL DEF Spec, CancelledStaysCancelled
=============================================================================
