------------------------- MODULE InteractionsProofs -------------------------
(***************************************************************************)
(* Proofs about Interactions, for any number of interactions, messages,    *)
(* requests, applications and channels.                                    *)
(***************************************************************************)
EXTENDS Interactions, TLAPS

(***************************************************************************)
(* The inductive invariant, in parts.                                      *)
(***************************************************************************)
\* Which statement each kind of request can wait for, and what it holds then.
Control ==
  \A r \in Requests :
    /\ request[r].op = "none" => request[r].at = "idle"
    /\ request[r].op = "component" =>
         request[r].at = "insert" /\ request[r].message \in Messages
    /\ request[r].op \in {"defer", "callback", "followup"} \cup Writes =>
         request[r].id \in Interactions
    /\ request[r].op = "defer" => request[r].at = "mark"
    /\ request[r].op = "callback" => request[r].at \in {"post", "mark"}
    /\ request[r].op = "followup" => request[r].at \in {"post", "record", "mark"}
    /\ request[r].op \in Writes =>
         request[r].at \in {"lookup", "get", "write"} /\ request[r].message \in Messages

\* A request that has posted its message and not ended.
Posted(r) == request[r].op \in {"callback", "followup"} /\ request[r].at \in {"record", "mark"}

\* Only an answered interaction has a response: a message made for it.
ResponseInv ==
  \A i \in Interactions :
    rows[i].response # NoMessage =>
      /\ rows[i].status = "responded"
      /\ messages[rows[i].response].made = i
      /\ messages[rows[i].response].state \in {"live", "deleted"}

\* A follow-up was made for its interaction, which was acknowledged.
FollowupInv ==
  \A f \in followups :
    /\ messages[f[2]].made = f[1]
    /\ messages[f[2]].state # "none"
    /\ rows[f[1]].status \in {"deferred", "responded"}

\* A posted message was made for the request's interaction, answers none yet,
\* and belongs to one request.
PostedInv ==
  \A r \in Requests : Posted(r) =>
    /\ request[r].message \in Messages
    /\ messages[request[r].message].made = request[r].id
    /\ messages[request[r].message].state # "none"
    /\ \A i \in Interactions : rows[i].response # request[r].message
    /\ \A q \in Requests : Posted(q) /\ request[q].message = request[r].message => q = r

\* A follow-up request holds an acknowledged interaction, and an answered one
\* if it will not answer it itself.
AckInv ==
  \A r \in Requests : request[r].op = "followup" =>
    /\ rows[request[r].id].status \in {"deferred", "responded", "gone"}
    /\ ~request[r].answers => rows[request[r].id].status \in {"responded", "gone"}

\* A write past its lookup holds a message made for its interaction.
WriteInv ==
  \A r \in Requests :
    request[r].op \in Writes /\ request[r].at \in {"get", "write"} =>
      /\ messages[request[r].message].made = request[r].id
      /\ messages[request[r].message].state # "none"

\* Deletes are counted by the state of the message.
DeleteInv ==
  \A m \in Messages :
    /\ messages[m].state \in {"none", "live"} => deletes[m] = 0
    /\ deletes[m] <= 1

IInv == /\ TypeOK /\ Control /\ ResponseInv /\ FollowupInv /\ PostedInv /\ AckInv
        /\ WriteInv /\ DeleteInv /\ AcceptedIsStored

-----------------------------------------------------------------------------
LEMMA Fillers == AnyApp \in Apps /\ AnyChannel \in Channels
  BY NamesAssumption DEF AnyApp, AnyChannel

LEMMA Constructors ==
  /\ NoRow \in Row
  /\ Idle \in Request
  /\ Unused \in Message
  BY Fillers DEF NoRow, Row, Statuses, Idle, Request, Unused, Message

LEMMA InitIInv == Init => IInv
  <1> SUFFICES ASSUME Init PROVE IInv
    OBVIOUS
  <1>1. TypeOK
    BY Constructors DEF Init, TypeOK
  <1>2. Control
    BY DEF Init, Control, Idle, Writes
  <1>3. ResponseInv /\ FollowupInv
    BY DEF Init, ResponseInv, FollowupInv, NoRow
  <1>4. PostedInv /\ AckInv /\ WriteInv
    BY DEF Init, PostedInv, AckInv, WriteInv, Posted, Idle, Writes
  <1>5. DeleteInv /\ AcceptedIsStored
    BY DEF Init, DeleteInv, AcceptedIsStored
  <1> QED
    BY <1>1, <1>2, <1>3, <1>4, <1>5 DEF IInv

(***************************************************************************)
(* Steps that only move a request.  Fits(q) collects what the parts of the  *)
(* invariant ask of a new value q of a request that has posted nothing.    *)
(***************************************************************************)
Fits(q) ==
  /\ q \in Request
  /\ q.op = "none" => q.at = "idle"
  /\ q.op = "component" => q.at = "insert" /\ q.message \in Messages
  /\ q.op \in {"defer", "callback", "followup"} \cup Writes => q.id \in Interactions
  /\ q.op = "defer" => q.at = "mark"
  /\ q.op = "callback" => q.at = "post"
  /\ q.op = "followup" =>
       /\ q.at = "post"
       /\ rows[q.id].status \in {"deferred", "responded"}
       /\ ~q.answers => rows[q.id].status = "responded"
  /\ q.op \in Writes =>
       /\ q.at \in {"lookup", "get", "write"}
       /\ q.message \in Messages
       /\ q.at \in {"get", "write"} =>
            messages[q.message].made = q.id /\ messages[q.message].state # "none"

\* A request may move to any state that fits the tables.
LEMMA Moves ==
  ASSUME IInv, NEW r \in Requests, NEW q, Fits(q),
         request' = [request EXCEPT ![r] = q], UNCHANGED <<tables, history>>
  PROVE  IInv'
  <1>0. request \in [Requests -> Request]
    BY DEF IInv, TypeOK
  <1>a. \A p \in Requests : request'[p] = IF p = r THEN q ELSE request[p]
    BY <1>0
  <1>b. /\ rows' = rows /\ messages' = messages /\ followups' = followups
        /\ commands' = commands /\ accepted' = accepted /\ deletes' = deletes
    BY DEF tables, history
  <1>c. ~(q.op \in {"callback", "followup"} /\ q.at \in {"record", "mark"})
    BY DEF Fits
  <1>1. TypeOK'
    BY <1>0, <1>b DEF IInv, TypeOK, Fits
  <1>2. Control'
    BY <1>a, <1>b DEF IInv, Control, Fits
  <1>3. ResponseInv' /\ FollowupInv' /\ DeleteInv' /\ AcceptedIsStored'
    BY <1>b DEF IInv, ResponseInv, FollowupInv, DeleteInv, AcceptedIsStored
  <1>4. PostedInv'
    BY <1>a, <1>b, <1>c DEF IInv, PostedInv, Posted
  <1>5. AckInv'
    BY <1>a, <1>b DEF IInv, AckInv, Fits
  <1>6. WriteInv'
    BY <1>a, <1>b DEF IInv, WriteInv, Fits
  <1> QED
    BY <1>1, <1>2, <1>3, <1>4, <1>5, <1>6 DEF IInv

LEMMA AbandonStep == ASSUME IInv, NEW r \in Requests, Abandon(r) PROVE IInv'
  <1>1. Fits(Idle)
    BY Constructors DEF Fits, Idle, Writes
  <1> QED
    BY <1>1, Moves DEF Abandon, Ends

LEMMA ReadComponentStep ==
  ASSUME IInv, NEW r \in Requests, NEW m \in Messages, ReadComponent(r, m)
  PROVE  IInv'
  <1> DEFINE q == [op |-> "component", at |-> "insert", id |-> NoInteraction,
                   message |-> m, app |-> messages[m].app,
                   channel |-> messages[m].channel, answers |-> FALSE]
  <1>1. messages[m] \in Message
    BY DEF IInv, TypeOK
  <1>2. Fits(q)
    BY <1>1 DEF Fits, Request, Message, Writes
  <1> QED
    BY <1>2, Moves DEF ReadComponent

\* What the handlers keep of a row fits the tables.
LEMMA BeginStep ==
  ASSUME IInv, NEW r \in Requests, NEW i \in Interactions, NEW op, NEW at,
         NEW m \in Messages \cup {NoMessage}, Begin(r, op, at, i, m),
         \/ op = "defer" /\ at = "mark"
         \/ op = "callback" /\ at = "post"
         \/ op = "followup" /\ at = "post" /\ rows[i].status \in {"deferred", "responded"}
         \/ /\ op \in Writes /\ at \in {"lookup", "get"} /\ m \in Messages
            /\ at = "get" => messages[m].made = i /\ messages[m].state # "none"
  PROVE  IInv'
  <1> DEFINE q == [op |-> op, at |-> at, id |-> i, message |-> m, app |-> rows[i].app,
                   channel |-> rows[i].channel,
                   answers |-> op = "followup" /\ AnswersDeferred(i)]
  <1>1. rows[i] \in Row
    BY DEF IInv, TypeOK
  <1>2. rows[i].status # "responded" => rows[i].response = NoMessage
    BY DEF IInv, ResponseInv
  <1>3. q \in Request
    BY <1>1 DEF Request, Row, Writes
  <1>4. Fits(q)
    BY <1>2, <1>3 DEF Fits, Writes, AnswersDeferred
  <1> QED
    BY <1>4, Moves DEF Begin

LEMMA ReadCallbackStep ==
  ASSUME IInv, NEW r \in Requests, NEW i \in Interactions, ReadCallback(r, i)
  PROVE  IInv'
  BY BeginStep DEF ReadCallback

LEMMA ReadFollowupStep ==
  ASSUME IInv, NEW r \in Requests, NEW i \in Interactions, NEW a \in Apps,
         ReadFollowup(r, i, a)
  PROVE  IInv'
  BY BeginStep DEF ReadFollowup, ForFollowup

LEMMA ReadOriginalStep ==
  ASSUME IInv, NEW r \in Requests, NEW i \in Interactions, NEW a \in Apps, NEW op,
         ReadOriginal(r, op, i, a)
  PROVE  IInv'
  <1>1. rows[i].response \in Messages
    BY DEF IInv, TypeOK, Row, ReadOriginal, ForOriginal
  <1>2. /\ messages[rows[i].response].made = i
        /\ messages[rows[i].response].state # "none"
    BY DEF IInv, ResponseInv, ReadOriginal, ForOriginal
  <1> QED
    BY <1>1, <1>2, BeginStep DEF ReadOriginal, Writes

LEMMA ReadForFollowupWriteStep ==
  ASSUME IInv, NEW r \in Requests, NEW i \in Interactions, NEW a \in Apps, NEW op,
         NEW m \in Messages, ReadForFollowupWrite(r, op, i, a, m)
  PROVE  IInv'
  BY BeginStep DEF ReadForFollowupWrite, Writes

LEMMA LookupStep == ASSUME IInv, NEW r \in Requests, LookupFollowup(r) PROVE IInv'
  <1> DEFINE q == [request[r] EXCEPT !.at = "get"]
  <1>0. request \in [Requests -> Request] /\ request[r] \in Request
    BY DEF IInv, TypeOK
  <1>1. request' = [request EXCEPT ![r] = q]
    BY <1>0 DEF LookupFollowup, Goes
  <1>2. request[r].op \in Writes
    BY <1>0 DEF IInv, Control, LookupFollowup, Request
  <1>3. request[r].message \in Messages /\ request[r].id \in Interactions
    BY <1>2 DEF IInv, Control
  <1>4. /\ messages[request[r].message].made = request[r].id
        /\ messages[request[r].message].state # "none"
    BY DEF IInv, FollowupInv, LookupFollowup, HasFollowup
  <1>5. q \in Request
    BY <1>0 DEF Request
  <1>6. Fits(q)
    BY <1>0, <1>2, <1>3, <1>4, <1>5 DEF Fits, Writes, Request
  <1> QED
    BY <1>1, <1>6, Moves DEF LookupFollowup

LEMMA GetMessageStep == ASSUME IInv, NEW r \in Requests, GetMessage(r) PROVE IInv'
  <1> DEFINE q == [request[r] EXCEPT !.at = "write"]
  <1>0. request \in [Requests -> Request] /\ request[r] \in Request
    BY DEF IInv, TypeOK
  <1>1. request' = [request EXCEPT ![r] = q]
    BY <1>0 DEF GetMessage, Goes
  <1>2. request[r].op \in Writes
    BY <1>0 DEF IInv, Control, GetMessage, Request
  <1>3. request[r].message \in Messages /\ request[r].id \in Interactions
    BY <1>2 DEF IInv, Control
  <1>4. /\ messages[request[r].message].made = request[r].id
        /\ messages[request[r].message].state # "none"
    BY <1>2 DEF IInv, WriteInv, GetMessage
  <1>5. q \in Request
    BY <1>0 DEF Request
  <1>6. Fits(q)
    BY <1>0, <1>2, <1>3, <1>4, <1>5 DEF Fits, Writes, Request
  <1> QED
    BY <1>1, <1>6, Moves DEF GetMessage

(***************************************************************************)
(* Steps that insert or update interactions.                               *)
(***************************************************************************)
\* A new row: nothing refers to an interaction that does not exist yet.
LEMMA NewRow ==
  ASSUME IInv, NEW i \in Interactions, rows[i].status = "none",
         NEW a \in Apps, NEW c \in Channels, NEW source \in Messages \cup {NoMessage},
         rows' = [rows EXCEPT ![i] = Pending(a, c, source)],
         UNCHANGED <<messages, followups, history>>
  PROVE  /\ rows' \in [Interactions -> Row]
         /\ ResponseInv' /\ FollowupInv' /\ DeleteInv' /\ AcceptedIsStored'
         /\ \A r \in Requests : request[r].op = "followup" => request[r].id # i
         /\ \A j \in Interactions : rows'[j].response = rows[j].response
  <1>0. rows \in [Interactions -> Row] /\ rows[i].response = NoMessage
    BY DEF IInv, TypeOK, ResponseInv
  <1>1. Pending(a, c, source) \in Row /\ Pending(a, c, source).response = NoMessage
    BY DEF Pending, Row, Statuses
  <1>a. \A j \in Interactions : rows'[j] = IF j = i THEN Pending(a, c, source) ELSE rows[j]
    BY <1>0
  <1>b. messages' = messages /\ followups' = followups /\ accepted' = accepted
        /\ deletes' = deletes
    BY DEF history
  <1>2. rows' \in [Interactions -> Row]
    BY <1>0, <1>1
  <1>3. ResponseInv'
    BY <1>a, <1>b, <1>1 DEF IInv, ResponseInv
  <1>4. FollowupInv'
    <2> SUFFICES ASSUME NEW f \in followups
                 PROVE  rows'[f[1]] = rows[f[1]]
      BY <1>b DEF IInv, FollowupInv
    <2>1. f[1] \in Interactions /\ f[1] # i
      BY DEF IInv, TypeOK, FollowupInv
    <2> QED
      BY <2>1, <1>a
  <1>5. DeleteInv'
    BY <1>b DEF IInv, DeleteInv
  <1>6. AcceptedIsStored'
    <2> SUFFICES ASSUME NEW x \in accepted,
                        \/ messages[x.message].state # "purged"
                        \/ x.op # "callback"
                 PROVE  rows'[x.id] = rows[x.id]
      BY <1>b DEF IInv, AcceptedIsStored
    <2>1. x.id \in Interactions /\ x.message \in Messages /\ x.op \in {"callback", "followup"}
      BY DEF IInv, TypeOK
    <2>2. x.id # i
      BY <1>0, <2>1, NamesAssumption DEF IInv, AcceptedIsStored
    <2> QED
      BY <2>1, <2>2, <1>a
  <1>7. \A r \in Requests : request[r].op = "followup" => request[r].id # i
    BY DEF IInv, AckInv
  <1>8. \A j \in Interactions : rows'[j].response = rows[j].response
    BY <1>a, <1>0, <1>1
  <1> QED
    BY <1>2, <1>3, <1>4, <1>5, <1>6, <1>7, <1>8

\* How the status of an interaction may move once it was acknowledged.
Later(s, t) ==
  /\ s = "deferred" => t \in {"deferred", "responded", "gone"}
  /\ s = "responded" => t \in {"responded", "gone"}
  /\ s = "gone" => t = "gone"

\* The parts about requests survive a step that ends some requests and leaves
\* the others, if statuses only advance, messages keep what they were made
\* for, and no message that waits to be stored becomes a response.
LEMMA RequestsKept ==
  ASSUME IInv,
         \A q \in Requests : request'[q] = request[q] \/ request'[q] = Idle,
         \A i \in Interactions : Later(rows[i].status, rows'[i].status),
         \A m \in Messages : messages[m].state # "none" =>
           messages'[m].state # "none" /\ messages'[m].made = messages[m].made,
         \A q \in Requests, i \in Interactions :
           Posted(q) /\ request'[q] = request[q] =>
             rows'[i].response # request[q].message
  PROVE  Control' /\ PostedInv' /\ AckInv' /\ WriteInv'
  <1>i. Idle.op = "none" /\ Idle.at = "idle"
    BY DEF Idle
  <1>1. Control'
    BY <1>i DEF IInv, Control, Writes
  <1>2. PostedInv'
    <2> SUFFICES ASSUME NEW r \in Requests, Posted(r)'
                 PROVE  /\ request'[r].message \in Messages
                        /\ messages'[request'[r].message].made = request'[r].id
                        /\ messages'[request'[r].message].state # "none"
                        /\ \A i \in Interactions : rows'[i].response # request'[r].message
                        /\ \A q \in Requests :
                             Posted(q)' /\ request'[q].message = request'[r].message => q = r
      BY DEF PostedInv
    <2>1. \A q \in Requests : Posted(q)' => request'[q] = request[q] /\ Posted(q)
      BY <1>i DEF Posted
    <2>2. /\ request[r].message \in Messages
          /\ messages[request[r].message].made = request[r].id
          /\ messages[request[r].message].state # "none"
          /\ \A q \in Requests : Posted(q) /\ request[q].message = request[r].message => q = r
      BY <2>1 DEF IInv, PostedInv
    <2> QED
      BY <2>1, <2>2
  <1>3. AckInv'
    <2> SUFFICES ASSUME NEW r \in Requests, request'[r].op = "followup"
                 PROVE  /\ rows'[request'[r].id].status \in {"deferred", "responded", "gone"}
                        /\ ~request'[r].answers =>
                             rows'[request'[r].id].status \in {"responded", "gone"}
      BY DEF AckInv
    <2>1. request'[r] = request[r] /\ request[r].id \in Interactions
      BY <1>i DEF IInv, Control
    <2> QED
      BY <2>1 DEF IInv, AckInv, Later
  <1>4. WriteInv'
    <2> SUFFICES ASSUME NEW r \in Requests, request'[r].op \in Writes,
                        request'[r].at \in {"get", "write"}
                 PROVE  /\ messages'[request'[r].message].made = request'[r].id
                        /\ messages'[request'[r].message].state # "none"
      BY DEF WriteInv
    <2>1. request'[r] = request[r] /\ request[r].message \in Messages
      BY <1>i DEF IInv, Control, Writes
    <2> QED
      BY <2>1 DEF IInv, WriteInv
  <1> QED
    BY <1>1, <1>2, <1>3, <1>4

\* Ending a request, or none, is what RequestsKept asks for.
LEMMA EndOne ==
  ASSUME TypeOK, NEW r \in Requests, UNCHANGED request \/ Ends(r)
  PROVE  /\ request' \in [Requests -> Request]
         /\ \A q \in Requests : request'[q] = request[q] \/ request'[q] = Idle
         /\ Ends(r) => \A q \in Requests : request'[q] = IF q = r THEN Idle ELSE request[q]
  BY Constructors DEF TypeOK, Ends

LEMMA CreateCommandStep ==
  ASSUME IInv, NEW a \in Apps, NEW scope \in Scopes, CreateCommand(a, scope)
  PROVE  IInv'
  <1>1. TypeOK'
    BY DEF IInv, TypeOK, CreateCommand, history
  <1>2. /\ Control' /\ ResponseInv' /\ FollowupInv' /\ PostedInv' /\ AckInv' /\ WriteInv'
        /\ DeleteInv' /\ AcceptedIsStored'
    BY DEF IInv, CreateCommand, history, Control, ResponseInv, FollowupInv, PostedInv,
           Posted, AckInv, WriteInv, DeleteInv, AcceptedIsStored
  <1> QED
    BY <1>1, <1>2 DEF IInv

\* Both ways to insert an interaction.
LEMMA InsertStep ==
  ASSUME IInv, NEW i \in Interactions, rows[i].status = "none",
         NEW a \in Apps, NEW c \in Channels, NEW source \in Messages \cup {NoMessage},
         rows' = [rows EXCEPT ![i] = Pending(a, c, source)],
         request' \in [Requests -> Request],
         \A q \in Requests : request'[q] = request[q] \/ request'[q] = Idle,
         UNCHANGED <<commands, messages, followups, history>>
  PROVE  IInv'
  <1>1. /\ rows' \in [Interactions -> Row]
        /\ ResponseInv' /\ FollowupInv' /\ DeleteInv' /\ AcceptedIsStored'
        /\ \A j \in Interactions : rows'[j].response = rows[j].response
    BY NewRow
  <1>2. TypeOK'
    BY <1>1 DEF IInv, TypeOK, history
  <1>3. \A j \in Interactions : Later(rows[j].status, rows'[j].status)
    BY DEF IInv, TypeOK, Later
  <1>4. \A q \in Requests, j \in Interactions :
          Posted(q) => rows'[j].response # request[q].message
    BY <1>1 DEF IInv, PostedInv
  <1>5. Control' /\ PostedInv' /\ AckInv' /\ WriteInv'
    BY <1>3, <1>4, RequestsKept
  <1> QED
    BY <1>1, <1>2, <1>5 DEF IInv

LEMMA CreateInteractionStep ==
  ASSUME IInv, NEW i \in Interactions, NEW a \in Apps, NEW scope, NEW c \in Channels,
         CreateInteraction(i, a, scope, c)
  PROVE  IInv'
  <1>1. request' \in [Requests -> Request]
        /\ \A q \in Requests : request'[q] = request[q]
    BY DEF IInv, TypeOK, CreateInteraction
  <1> QED
    BY <1>1, InsertStep DEF CreateInteraction

LEMMA InsertComponentStep ==
  ASSUME IInv, NEW r \in Requests, NEW i \in Interactions, InsertComponent(r, i)
  PROVE  IInv'
  <1>1. request[r] \in Request
    BY DEF IInv, TypeOK
  <1>2. /\ request[r].app \in Apps /\ request[r].channel \in Channels
        /\ request[r].message \in Messages \cup {NoMessage}
    BY <1>1 DEF Request
  <1>3. /\ request' \in [Requests -> Request]
        /\ \A q \in Requests : request'[q] = request[q] \/ request'[q] = Idle
    BY EndOne DEF IInv, InsertComponent
  <1> QED
    BY <1>2, <1>3, InsertStep DEF InsertComponent

LEMMA MarkDeferredStep == ASSUME IInv, NEW r \in Requests, MarkDeferred(r) PROVE IInv'
  <1> DEFINE i == request[r].id
  <1>0. rows \in [Interactions -> Row] /\ i \in Interactions
    BY DEF IInv, TypeOK, Control, MarkDeferred, At
  <1>1. rows[i].response = NoMessage /\ rows[i].status = "pending"
    BY <1>0 DEF IInv, ResponseInv, MarkDeferred, CanDefer
  <1>2. /\ \A j \in Interactions : rows'[j].response = rows[j].response
        /\ \A j \in Interactions : rows'[j].status = IF j = i THEN "deferred" ELSE rows[j].status
        /\ rows' \in [Interactions -> Row]
    BY <1>0 DEF MarkDeferred, Row, Statuses
  <1>3. /\ request' \in [Requests -> Request]
        /\ \A q \in Requests : request'[q] = request[q] \/ request'[q] = Idle
    BY EndOne DEF IInv, MarkDeferred
  <1>b. messages' = messages /\ followups' = followups /\ accepted' = accepted
        /\ deletes' = deletes /\ commands' = commands
    BY DEF MarkDeferred, history
  <1>4. TypeOK'
    BY <1>2, <1>3, <1>b DEF IInv, TypeOK
  <1>5. ResponseInv'
    BY <1>1, <1>2, <1>b DEF IInv, ResponseInv
  <1>6. FollowupInv'
    BY <1>2, <1>b DEF IInv, FollowupInv, TypeOK
  <1>7. DeleteInv'
    BY <1>b DEF IInv, DeleteInv
  <1>8. AcceptedIsStored'
    <2> SUFFICES ASSUME NEW x \in accepted
                 PROVE  /\ x.op = "callback" =>
                             \/ rows'[x.id].response = x.message
                             \/ rows'[x.id].status = "gone"
                             \/ messages[x.message].state = "purged"
                        /\ x.op = "followup" => rows'[x.id].status \in {"responded", "gone"}
      BY <1>b DEF AcceptedIsStored
    <2>1. x.id \in Interactions
      BY DEF IInv, TypeOK
    <2> QED
      BY <2>1, <1>1, <1>2 DEF IInv, AcceptedIsStored
  <1>9. Control' /\ PostedInv' /\ AckInv' /\ WriteInv'
    <2>1. \A j \in Interactions : Later(rows[j].status, rows'[j].status)
      BY <1>1, <1>2 DEF Later
    <2>2. \A q \in Requests, j \in Interactions :
            Posted(q) => rows'[j].response # request[q].message
      BY <1>2 DEF IInv, PostedInv
    <2> QED
      BY <2>1, <2>2, <1>3, <1>b, RequestsKept
  <1> QED
    BY <1>4, <1>5, <1>6, <1>7, <1>8, <1>9 DEF IInv

LEMMA MarkRespondedStep == ASSUME IInv, NEW r \in Requests, MarkResponded(r) PROVE IInv'
  <1> DEFINE i == request[r].id
             m == request[r].message
             x0 == [op |-> request[r].op, id |-> i, message |-> m]
  <1>p. Posted(r) /\ request[r].op \in {"callback", "followup"}
    BY DEF MarkResponded, At, Posted
  <1>0. rows \in [Interactions -> Row] /\ i \in Interactions /\ m \in Messages
    BY <1>p DEF IInv, TypeOK, Control, PostedInv
  <1>1. /\ rows[i].response = NoMessage /\ rows[i].status \in {"pending", "deferred"}
        /\ messages[m].made = i /\ messages[m].state \notin {"none", "purged"}
    BY <1>0, <1>p DEF IInv, ResponseInv, PostedInv, MarkResponded, CanRespond
  <1>2. /\ \A j \in Interactions : rows'[j].response = IF j = i THEN m ELSE rows[j].response
        /\ \A j \in Interactions : rows'[j].status = IF j = i THEN "responded" ELSE rows[j].status
        /\ rows' \in [Interactions -> Row]
    BY <1>0 DEF MarkResponded, Row, Statuses
  <1>3. /\ request' \in [Requests -> Request]
        /\ \A q \in Requests : request'[q] = IF q = r THEN Idle ELSE request[q]
    BY EndOne DEF IInv, MarkResponded, Succeeds
  <1>b. messages' = messages /\ followups' = followups /\ accepted' = accepted \cup {x0}
        /\ deletes' = deletes /\ commands' = commands
    BY DEF MarkResponded, Succeeds
  <1>4. TypeOK'
    BY <1>0, <1>2, <1>3, <1>b, <1>p DEF IInv, TypeOK
  <1>5. ResponseInv'
    <2>1. messages[m].state \in {"live", "deleted"}
      BY <1>0, <1>1 DEF IInv, TypeOK, Message
    <2> QED
      BY <1>1, <1>2, <1>b, <2>1 DEF IInv, ResponseInv
  <1>6. FollowupInv'
    BY <1>2, <1>b DEF IInv, FollowupInv, TypeOK
  <1>7. DeleteInv'
    BY <1>b DEF IInv, DeleteInv
  <1>8. AcceptedIsStored'
    <2> SUFFICES ASSUME NEW x \in accepted'
                 PROVE  /\ x.op = "callback" =>
                             \/ rows'[x.id].response = x.message
                             \/ rows'[x.id].status = "gone"
                             \/ messages[x.message].state = "purged"
                        /\ x.op = "followup" => rows'[x.id].status \in {"responded", "gone"}
      BY <1>b DEF AcceptedIsStored
    <2>1. CASE x = x0
      BY <2>1, <1>0, <1>2
    <2>2. CASE x \in accepted
      <3>1. x.id \in Interactions /\ x.message \in Messages
        BY <2>2 DEF IInv, TypeOK
      <3>2. x.op = "callback" /\ x.id = i => messages[x.message].state = "purged"
        BY <2>2, <3>1, <1>1, NamesAssumption DEF IInv, AcceptedIsStored
      <3> QED
        BY <2>2, <3>1, <3>2, <1>1, <1>2 DEF IInv, AcceptedIsStored
    <2> QED
      BY <2>1, <2>2, <1>b
  <1>9. Control' /\ PostedInv' /\ AckInv' /\ WriteInv'
    <2>1. \A j \in Interactions : Later(rows[j].status, rows'[j].status)
      BY <1>1, <1>2 DEF Later
    <2>2. ASSUME NEW q \in Requests, NEW j \in Interactions,
                 Posted(q), request'[q] = request[q]
          PROVE  rows'[j].response # request[q].message
      <3>1. q # r
        BY <2>2, <1>3, <1>p DEF Idle, Posted
      <3>2. request[q].message # m
        BY <3>1, <2>2, <1>p DEF IInv, PostedInv
      <3> QED
        BY <3>2, <2>2, <1>2 DEF IInv, PostedInv
    <2> QED
      BY <2>1, <2>2, <1>3, <1>b, RequestsKept
  <1> QED
    BY <1>4, <1>5, <1>6, <1>7, <1>8, <1>9 DEF IInv

(***************************************************************************)
(* Steps that insert or change messages.                                   *)
(***************************************************************************)
\* A new message: nothing refers to a message that does not exist yet.
LEMMA NewMessage ==
  ASSUME IInv, NEW m \in Messages, messages[m].state = "none",
         NEW new \in Message, new.state = "live",
         messages' = [messages EXCEPT ![m] = new],
         UNCHANGED <<rows, followups, accepted, deletes>>
  PROVE  /\ messages' \in [Messages -> Message]
         /\ \A n \in Messages : messages'[n] = IF n = m THEN new ELSE messages[n]
         /\ \A i \in Interactions : rows[i].response # m
         /\ \A q \in Requests : Posted(q) => request[q].message # m
         /\ ResponseInv' /\ FollowupInv' /\ DeleteInv' /\ AcceptedIsStored'
  <1>0. messages \in [Messages -> Message]
    BY DEF IInv, TypeOK
  <1>1. \A n \in Messages : messages'[n] = IF n = m THEN new ELSE messages[n]
    BY <1>0
  <1>2. messages' \in [Messages -> Message]
    BY <1>0
  <1>3. \A i \in Interactions : rows[i].response # m
    BY NamesAssumption DEF IInv, ResponseInv
  <1>4. \A q \in Requests : Posted(q) => request[q].message # m
    BY DEF IInv, PostedInv
  <1>5. ResponseInv'
    BY <1>1, <1>3 DEF IInv, ResponseInv, TypeOK, Row
  <1>6. FollowupInv'
    <2> SUFFICES ASSUME NEW f \in followups
                 PROVE  messages'[f[2]] = messages[f[2]]
      BY DEF IInv, FollowupInv
    <2>1. f[2] \in Messages /\ f[2] # m
      BY DEF IInv, TypeOK, FollowupInv
    <2> QED
      BY <2>1, <1>1
  <1>7. DeleteInv'
    BY <1>1 DEF IInv, DeleteInv
  <1>8. AcceptedIsStored'
    <2> SUFFICES ASSUME NEW x \in accepted, messages[x.message].state = "purged"
                 PROVE  messages'[x.message].state = "purged"
      BY DEF IInv, AcceptedIsStored
    <2>1. x.message \in Messages
      BY DEF IInv, TypeOK
    <2> QED
      BY <2>1, <1>1
  <1> QED
    BY <1>1, <1>2, <1>3, <1>4, <1>5, <1>6, <1>7, <1>8

LEMMA PostComponentsStep ==
  ASSUME IInv, NEW m \in Messages, NEW a \in Apps, NEW c \in Channels,
         PostComponents(m, a, c)
  PROVE  IInv'
  <1> DEFINE new == [state |-> "live", app |-> a, channel |-> c, made |-> NoInteraction]
  <1>0. new \in Message /\ new.state = "live"
    BY DEF Message
  <1>b. /\ messages' = [messages EXCEPT ![m] = new] /\ messages[m].state = "none"
        /\ rows' = rows /\ followups' = followups /\ accepted' = accepted
        /\ deletes' = deletes /\ request' = request /\ commands' = commands
    BY DEF PostComponents, history
  <1> HIDE DEF new
  <1>1. /\ messages' \in [Messages -> Message]
        /\ \A n \in Messages : messages'[n] = IF n = m THEN new ELSE messages[n]
        /\ ResponseInv' /\ FollowupInv' /\ DeleteInv' /\ AcceptedIsStored'
    BY <1>0, <1>b, NewMessage
  <1>2. TypeOK'
    BY <1>1, <1>b DEF IInv, TypeOK
  <1>3. Control' /\ PostedInv' /\ AckInv' /\ WriteInv'
    <2>1. \A j \in Interactions : Later(rows[j].status, rows'[j].status)
      BY <1>b DEF Later
    <2>2. \A q \in Requests, j \in Interactions :
            Posted(q) => rows'[j].response # request[q].message
      BY <1>b DEF IInv, PostedInv
    <2> QED
      BY <2>1, <2>2, <1>1, <1>b, RequestsKept
  <1> QED
    BY <1>1, <1>2, <1>3 DEF IInv

LEMMA PostStep ==
  ASSUME IInv, NEW r \in Requests, NEW m \in Messages, Post(r, m)
  PROVE  IInv'
  <1> DEFINE new == [state |-> "live", app |-> request[r].app,
                     channel |-> request[r].channel, made |-> request[r].id]
             q0  == [request[r] EXCEPT
                       !.message = m,
                       !.at = IF request[r].op = "callback" THEN "mark" ELSE "record"]
  <1>0. request \in [Requests -> Request] /\ request[r] \in Request
    BY DEF IInv, TypeOK
  <1>1. request[r].op \in {"callback", "followup"} /\ request[r].id \in Interactions
    BY <1>0 DEF IInv, Control, Post, Request, Writes
  <1>2. new \in Message /\ new.state = "live" /\ new.made = request[r].id
    BY <1>0, <1>1 DEF Message, Request
  <1>3. /\ q0 \in Request /\ q0.message = m /\ q0.id = request[r].id
        /\ q0.op = request[r].op /\ q0.answers = request[r].answers
        /\ q0.at = IF request[r].op = "callback" THEN "mark" ELSE "record"
    BY <1>0 DEF Request
  <1>b. /\ messages' = [messages EXCEPT ![m] = new] /\ messages[m].state = "none"
        /\ rows' = rows /\ followups' = followups /\ accepted' = accepted
        /\ deletes' = deletes /\ commands' = commands
    BY DEF Post, history
  <1>4. request' = [request EXCEPT ![r] = q0]
    BY <1>0 DEF Post
  <1> HIDE DEF new, q0
  <1>5. /\ request' \in [Requests -> Request]
        /\ \A q \in Requests : request'[q] = IF q = r THEN q0 ELSE request[q]
    BY <1>0, <1>3, <1>4
  <1>6. /\ messages' \in [Messages -> Message]
        /\ \A n \in Messages : messages'[n] = IF n = m THEN new ELSE messages[n]
        /\ \A i \in Interactions : rows[i].response # m
        /\ \A q \in Requests : Posted(q) => request[q].message # m
        /\ ResponseInv' /\ FollowupInv' /\ DeleteInv' /\ AcceptedIsStored'
    BY <1>2, <1>b, NewMessage
  <1>7. TypeOK'
    BY <1>5, <1>6, <1>b DEF IInv, TypeOK
  <1>8. Control'
    BY <1>1, <1>3, <1>5 DEF IInv, Control, Writes
  <1>9. PostedInv'
    <2> SUFFICES ASSUME NEW p \in Requests, Posted(p)'
                 PROVE  /\ request'[p].message \in Messages
                        /\ messages'[request'[p].message].made = request'[p].id
                        /\ messages'[request'[p].message].state # "none"
                        /\ \A i \in Interactions : rows'[i].response # request'[p].message
                        /\ \A q \in Requests :
                             Posted(q)' /\ request'[q].message = request'[p].message => q = p
      BY DEF PostedInv
    <2>1. \A q \in Requests : Posted(q)' /\ q # r => Posted(q) /\ request'[q] = request[q]
      BY <1>5 DEF Posted
    <2>2. CASE p = r
      BY <2>1, <2>2, <1>2, <1>3, <1>5, <1>6, <1>b
    <2>3. CASE p # r
      <3>1. /\ request[p].message \in Messages /\ request[p].message # m
            /\ messages[request[p].message].made = request[p].id
            /\ messages[request[p].message].state # "none"
            /\ \A i \in Interactions : rows[i].response # request[p].message
            /\ \A q \in Requests : Posted(q) /\ request[q].message = request[p].message => q = p
        BY <2>1, <2>3, <1>6 DEF IInv, PostedInv
      <3> QED
        BY <2>1, <2>3, <3>1, <1>3, <1>5, <1>6, <1>b
    <2> QED
      BY <2>2, <2>3
  <1>10. AckInv'
    BY <1>3, <1>5, <1>b DEF IInv, AckInv
  <1>11. WriteInv'
    <2> SUFFICES ASSUME NEW p \in Requests, request'[p].op \in Writes,
                        request'[p].at \in {"get", "write"}
                 PROVE  /\ messages'[request'[p].message].made = request'[p].id
                        /\ messages'[request'[p].message].state # "none"
      BY DEF WriteInv
    <2>1. p # r
      BY <1>1, <1>3, <1>5 DEF Writes
    <2>2. request[p].message \in Messages /\ messages[request[p].message].state # "none"
          /\ messages[request[p].message].made = request[p].id
      BY <2>1, <1>5 DEF IInv, Control, WriteInv
    <2> QED
      BY <2>1, <2>2, <1>5, <1>6, <1>b
  <1> QED
    BY <1>6, <1>7, <1>8, <1>9, <1>10, <1>11 DEF IInv

LEMMA RecordFollowupStep == ASSUME IInv, NEW r \in Requests, RecordFollowup(r) PROVE IInv'
  <1> DEFINE i  == request[r].id
             m  == request[r].message
             q0 == IF request[r].answers THEN [request[r] EXCEPT !.at = "mark"] ELSE Idle
             x0 == [op |-> request[r].op, id |-> i, message |-> m]
  <1>0. request \in [Requests -> Request] /\ request[r] \in Request
    BY DEF IInv, TypeOK
  <1>1. /\ request[r].op = "followup" /\ request[r].at = "record"
        /\ rows[i].status # "gone" /\ messages[m].state # "purged"
        /\ followups' = followups \cup {<<i, m>>}
        /\ rows' = rows /\ messages' = messages /\ commands' = commands
        /\ deletes' = deletes
    BY DEF RecordFollowup, At
  <1>2. Posted(r)
    BY <1>1 DEF Posted
  <1>3. /\ i \in Interactions /\ m \in Messages
        /\ messages[m].made = i /\ messages[m].state # "none"
        /\ rows[i].status \in {"deferred", "responded"}
        /\ ~request[r].answers => rows[i].status = "responded"
    BY <1>1, <1>2 DEF IInv, Control, PostedInv, AckInv
  <1>4. request' = [request EXCEPT ![r] = q0]
    BY <1>0 DEF RecordFollowup, Goes, Succeeds, Ends
  <1>5. accepted' = IF request[r].answers THEN accepted ELSE accepted \cup {x0}
    BY DEF RecordFollowup, Succeeds
  <1>6. /\ q0 \in Request
        /\ \/ q0 = Idle
           \/ /\ q0.at = "mark" /\ q0.op = "followup" /\ q0.id = i /\ q0.message = m
              /\ q0.answers
    BY <1>0, <1>1, Constructors DEF Request
  <1> HIDE DEF q0
  <1>7. /\ request' \in [Requests -> Request]
        /\ \A q \in Requests : request'[q] = IF q = r THEN q0 ELSE request[q]
    BY <1>0, <1>4, <1>6
  <1>8. TypeOK'
    BY <1>1, <1>3, <1>5, <1>7 DEF IInv, TypeOK
  <1>9. Control'
    BY <1>3, <1>6, <1>7 DEF IInv, Control, Idle, Writes
  <1>10. ResponseInv' /\ DeleteInv'
    BY <1>1 DEF IInv, ResponseInv, DeleteInv
  <1>11. FollowupInv'
    BY <1>1, <1>3 DEF IInv, FollowupInv
  <1>12. PostedInv'
    <2>1. \A q \in Requests : Posted(q)' => /\ Posted(q)
                                            /\ request'[q].message = request[q].message
                                            /\ request'[q].id = request[q].id
      BY <1>2, <1>6, <1>7 DEF Posted, Idle
    <2> QED
      BY <2>1, <1>1 DEF IInv, PostedInv
  <1>13. AckInv'
    BY <1>1, <1>3, <1>6, <1>7 DEF IInv, AckInv, Idle
  <1>14. WriteInv'
    BY <1>1, <1>6, <1>7 DEF IInv, WriteInv, Idle, Writes
  <1>15. AcceptedIsStored'
    BY <1>1, <1>3, <1>5 DEF IInv, AcceptedIsStored
  <1> QED
    BY <1>8, <1>9, <1>10, <1>11, <1>12, <1>13, <1>14, <1>15 DEF IInv

\* A live message is deleted, by whichever route.
LEMMA DeleteStep ==
  ASSUME IInv, NEW m \in Messages, messages[m].state = "live",
         messages' = [messages EXCEPT ![m].state = "deleted"],
         deletes' = [deletes EXCEPT ![m] = @ + 1],
         request' \in [Requests -> Request],
         \A q \in Requests : request'[q] = request[q] \/ request'[q] = Idle,
         UNCHANGED <<commands, rows, followups, accepted>>
  PROVE  IInv'
  <1>0. /\ messages \in [Messages -> Message]
        /\ deletes \in [Messages -> Nat]
    BY DEF IInv, TypeOK
  <1>1. /\ messages' \in [Messages -> Message]
        /\ \A n \in Messages : /\ messages'[n].made = messages[n].made
                               /\ messages'[n].state = IF n = m THEN "deleted" ELSE messages[n].state
    BY <1>0 DEF Message
  <1>2. \A n \in Messages : deletes'[n] = IF n = m THEN deletes[n] + 1 ELSE deletes[n]
    BY <1>0
  <1>3. TypeOK'
    BY <1>0, <1>1, <1>2 DEF IInv, TypeOK
  <1>4. ResponseInv'
    BY <1>1 DEF IInv, ResponseInv, TypeOK, Row
  <1>5. FollowupInv'
    BY <1>1 DEF IInv, FollowupInv, TypeOK
  <1>6. DeleteInv'
    BY <1>0, <1>1, <1>2 DEF IInv, DeleteInv
  <1>7. AcceptedIsStored'
    <2> SUFFICES ASSUME NEW x \in accepted, messages[x.message].state = "purged"
                 PROVE  messages'[x.message].state = "purged"
      BY DEF IInv, AcceptedIsStored
    <2>1. x.message \in Messages
      BY DEF IInv, TypeOK
    <2> QED
      BY <2>1, <1>1
  <1>8. Control' /\ PostedInv' /\ AckInv' /\ WriteInv'
    <2>1. \A j \in Interactions : Later(rows[j].status, rows'[j].status)
      BY DEF Later
    <2>2. \A q \in Requests, j \in Interactions :
            Posted(q) => rows'[j].response # request[q].message
      BY DEF IInv, PostedInv
    <2> QED
      BY <2>1, <2>2, <1>1, RequestsKept
  <1> QED
    BY <1>3, <1>4, <1>5, <1>6, <1>7, <1>8 DEF IInv

LEMMA DeleteMessageStep == ASSUME IInv, NEW m \in Messages, DeleteMessage(m) PROVE IInv'
  <1>1. request' \in [Requests -> Request] /\ \A q \in Requests : request'[q] = request[q]
    BY DEF IInv, TypeOK, DeleteMessage
  <1> QED
    BY <1>1, DeleteStep DEF DeleteMessage, StillLive

LEMMA WriteMessageStep == ASSUME IInv, NEW r \in Requests, WriteMessage(r) PROVE IInv'
  <1>1. /\ request' \in [Requests -> Request]
        /\ \A q \in Requests : request'[q] = request[q] \/ request'[q] = Idle
    BY EndOne DEF IInv, WriteMessage
  <1>2. request[r].message \in Messages
    BY DEF IInv, TypeOK, Request, Control, WriteMessage
  <1>3. CASE request[r].op \in {"deleteOriginal", "deleteFollowup"}
    BY <1>1, <1>2, <1>3, DeleteStep DEF WriteMessage, StillLive
  <1>4. CASE request[r].op \notin {"deleteOriginal", "deleteFollowup"}
    <2>1. Fits(Idle)
      BY Constructors DEF Fits, Idle, Writes
    <2> QED
      BY <1>4, <2>1, Moves DEF WriteMessage, Ends, tables, history
  <1> QED
    BY <1>3, <1>4

\* What the foreign keys of purged messages leave of an interaction.
LEMMA PurgedRow ==
  ASSUME TypeOK, NEW S \in SUBSET Messages, Purge(S)
  PROVE  /\ rows' \in [Interactions -> Row]
         /\ \A i \in Interactions :
              /\ rows'[i].status = IF rows[i].source \in S THEN "gone" ELSE rows[i].status
              /\ rows'[i].response = IF rows[i].source \in S \/ rows[i].response \in S
                                       THEN NoMessage ELSE rows[i].response
  <1> DEFINE new(j) == IF rows[j].source \in S THEN [NoRow EXCEPT !.status = "gone"]
                       ELSE IF rows[j].response \in S THEN [rows[j] EXCEPT !.response = NoMessage]
                       ELSE rows[j]
  <1>1. rows' = [j \in Interactions |-> new(j)]
    BY DEF Purge
  <1>2. \A j \in Interactions : rows[j] \in Row
    BY DEF TypeOK
  <1>3. \A j \in Interactions :
          /\ new(j) \in Row
          /\ new(j).status = IF rows[j].source \in S THEN "gone" ELSE rows[j].status
          /\ new(j).response = IF rows[j].source \in S \/ rows[j].response \in S
                                 THEN NoMessage ELSE rows[j].response
    BY <1>2, Constructors DEF Row, Statuses, NoRow
  <1> QED
    BY <1>1, <1>3

LEMMA PurgeStep == ASSUME IInv, NEW S \in SUBSET Messages, Purge(S) PROVE IInv'
  <1>0. messages \in [Messages -> Message] /\ TypeOK
    BY DEF IInv, TypeOK
  <1>1. /\ messages' \in [Messages -> Message]
        /\ \A n \in Messages : /\ messages'[n].made = messages[n].made
                               /\ messages'[n].state = IF n \in S THEN "purged" ELSE messages[n].state
    BY <1>0 DEF Message, Purge
  <1>2. /\ rows' \in [Interactions -> Row]
        /\ \A i \in Interactions :
             /\ rows'[i].status = IF rows[i].source \in S THEN "gone" ELSE rows[i].status
             /\ rows'[i].response = IF rows[i].source \in S \/ rows[i].response \in S
                                      THEN NoMessage ELSE rows[i].response
    BY <1>0, PurgedRow
  <1>b. /\ commands' = commands /\ request' = request /\ accepted' = accepted
        /\ deletes' = deletes
        /\ followups' \subseteq followups
        /\ \A f \in followups' : f[2] \notin S /\ (f[1] \in Interactions => rows[f[1]].source \notin S)
    BY DEF Purge, history
  <1>3. TypeOK'
    BY <1>1, <1>2, <1>b DEF IInv, TypeOK
  <1>4. ResponseInv'
    BY <1>1, <1>2 DEF IInv, ResponseInv, TypeOK, Row
  <1>5. FollowupInv'
    BY <1>1, <1>2, <1>b DEF IInv, FollowupInv, TypeOK
  <1>6. DeleteInv'
    BY <1>1, <1>b DEF IInv, DeleteInv
  <1>7. AcceptedIsStored'
    <2> SUFFICES ASSUME NEW x \in accepted
                 PROVE  /\ x.op = "callback" =>
                             \/ rows'[x.id].response = x.message
                             \/ rows'[x.id].status = "gone"
                             \/ messages'[x.message].state = "purged"
                        /\ x.op = "followup" => rows'[x.id].status \in {"responded", "gone"}
      BY <1>b DEF AcceptedIsStored
    <2>1. x.id \in Interactions /\ x.message \in Messages
      BY DEF IInv, TypeOK
    <2> QED
      BY <2>1, <1>1, <1>2 DEF IInv, AcceptedIsStored
  <1>8. Control' /\ PostedInv' /\ AckInv' /\ WriteInv'
    <2>1. \A j \in Interactions : Later(rows[j].status, rows'[j].status)
      BY <1>2 DEF Later
    <2>2. \A q \in Requests, j \in Interactions :
            Posted(q) => rows'[j].response # request[q].message
      BY <1>2, NamesAssumption DEF IInv, PostedInv
    <2> QED
      BY <2>1, <2>2, <1>1, <1>b, RequestsKept
  <1> QED
    BY <1>3, <1>4, <1>5, <1>6, <1>7, <1>8 DEF IInv

-----------------------------------------------------------------------------
LEMMA CreatesIInv == IInv /\ Creates => IInv'
  BY CreateCommandStep, CreateInteractionStep DEF Creates

LEMMA ReadsIInv == ASSUME NEW r \in Requests PROVE IInv /\ Reads(r) => IInv'
  BY ReadComponentStep, ReadCallbackStep, ReadFollowupStep, ReadOriginalStep,
     ReadForFollowupWriteStep DEF Reads

LEMMA ContinuesIInv == ASSUME NEW r \in Requests PROVE IInv /\ Continues(r) => IInv'
  BY InsertComponentStep, PostStep, MarkDeferredStep, RecordFollowupStep,
     MarkRespondedStep, LookupStep, GetMessageStep, WriteMessageStep, AbandonStep
     DEF Continues

LEMMA OthersIInv == IInv /\ Others => IInv'
  BY PostComponentsStep, DeleteMessageStep, PurgeStep DEF Others

LEMMA NextIInv == IInv /\ [Next]_vars => IInv'
  <1> SUFFICES ASSUME IInv, [Next]_vars PROVE IInv'
    OBVIOUS
  <1>1. CASE Next
    BY <1>1, CreatesIInv, ReadsIInv, ContinuesIInv, OthersIInv DEF Next
  <1>2. CASE UNCHANGED vars
    BY <1>2 DEF vars, IInv, TypeOK, Control, ResponseInv, FollowupInv, PostedInv, Posted,
                AckInv, WriteInv, DeleteInv, AcceptedIsStored
  <1> QED
    BY <1>1, <1>2

\* IInv is an invariant of the routes.
THEOREM Invariant == Spec => []IInv
  BY InitIInv, NextIInv, PTL DEF Spec

\* The tables and the requests keep their types.
THEOREM TypeCorrect == Spec => []TypeOK
  BY Invariant, PTL DEF IInv

\* A callback or follow-up answered with success keeps its word, whatever
\* callbacks, follow-ups, deletes and purges run beside it.
THEOREM Accepted == Spec => []AcceptedIsStored
  BY Invariant, PTL DEF IInv

\* Neither a response nor a follow-up is stored for an interaction that was
\* not acknowledged.
THEOREM Acknowledged == Spec => []AcknowledgedFirst
  <1>1. IInv => AcknowledgedFirst
    <2> SUFFICES ASSUME IInv, NEW i \in Interactions,
                        rows[i].status \in {"none", "pending"}
                 PROVE  /\ rows[i].response = NoMessage
                        /\ \A m \in Messages : <<i, m>> \notin followups
      BY DEF AcknowledgedFirst
    <2>1. rows[i].response = NoMessage
      BY DEF IInv, ResponseInv
    <2>2. ASSUME NEW m \in Messages, <<i, m>> \in followups PROVE FALSE
      BY <2>2 DEF IInv, FollowupInv
    <2> QED
      BY <2>1, <2>2
  <1> QED
    BY <1>1, Invariant, PTL

\* At most one of the requests that delete a message is told that it did.
THEOREM Deleted == Spec => []DeletedOnce
  <1>1. IInv => DeletedOnce
    BY DEF IInv, DeleteInv, DeletedOnce
  <1> QED
    BY <1>1, Invariant, PTL

\* A token writes only messages that were made with it.
THEOREM OwnMessages == Spec => OwnMessagesOnly
  <1>1. IInv /\ [Next]_vars =>
          [\A r \in Requests :
             WriteMessage(r) => messages[request[r].message].made = request[r].id]_vars
    <2> SUFFICES ASSUME IInv, NEW r \in Requests, WriteMessage(r)
                 PROVE  messages[request[r].message].made = request[r].id
      OBVIOUS
    <2>1. request[r] \in Request /\ request[r].at = "write"
      BY DEF IInv, TypeOK, WriteMessage
    <2>2. request[r].op \in Writes
      BY <2>1 DEF IInv, Control, Request
    <2> QED
      BY <2>1, <2>2 DEF IInv, WriteInv
  <1> QED
    BY <1>1, Invariant, PTL DEF Spec, OwnMessagesOnly

-----------------------------------------------------------------------------
(***************************************************************************)
(* The refinement: the status and the response of every row change as      *)
(* InteractionLife allows, and by no other step.                           *)
(***************************************************************************)
LifeStep == [Life!Next]_(Life!vars)

\* A step that leaves the rows alone stutters.
LEMMA Stutters == ASSUME rows' = rows PROVE LifeStep
  BY DEF LifeStep, Life!vars

LEMMA LifeInsert ==
  ASSUME TypeOK, NEW i \in Interactions, rows[i].status = "none",
         rows[i].response = NoMessage,
         NEW a \in Apps, NEW c \in Channels, NEW source \in Messages \cup {NoMessage},
         rows' = [rows EXCEPT ![i] = Pending(a, c, source)]
  PROVE  LifeStep
  <1>1. Life!Create(i)
    BY DEF Life!Create, Pending, TypeOK
  <1> QED
    BY <1>1 DEF LifeStep, Life!Next

LEMMA LifeDefer == ASSUME IInv, NEW r \in Requests, MarkDeferred(r) PROVE LifeStep
  <1>1. rows \in [Interactions -> Row] /\ request[r].id \in Interactions
    BY DEF IInv, TypeOK, Control, MarkDeferred, At
  <1>2. PICK i \in Interactions : i = request[r].id
    BY <1>1
  <1>3. Life!Defer(i)
    BY <1>1, <1>2 DEF Life!Defer, MarkDeferred, CanDefer, Row
  <1> QED
    BY <1>3 DEF LifeStep, Life!Next

LEMMA LifeRespond == ASSUME IInv, NEW r \in Requests, MarkResponded(r) PROVE LifeStep
  <1>1. Posted(r)
    BY DEF MarkResponded, At, Posted
  <1>2. /\ rows \in [Interactions -> Row]
        /\ request[r].id \in Interactions /\ request[r].message \in Messages
        /\ \A j \in Interactions : rows[j].response # request[r].message
    BY <1>1 DEF IInv, TypeOK, Control, PostedInv, Posted
  <1>3. PICK i \in Interactions, m \in Messages : i = request[r].id /\ m = request[r].message
    BY <1>2
  <1>4. Life!Respond(i, m)
    BY <1>2, <1>3 DEF Life!Respond, MarkResponded, CanRespond, Row
  <1> QED
    BY <1>4 DEF LifeStep, Life!Next

LEMMA LifePurge == ASSUME IInv, NEW S \in SUBSET Messages, Purge(S) PROVE LifeStep
  <1>1. TypeOK
    BY DEF IInv
  <1>2. PICK lost \in SUBSET Interactions : lost = {i \in Interactions : rows[i].source \in S}
    OBVIOUS
  <1>3. Life!Purge(S, lost)
    BY <1>1, <1>2, PurgedRow DEF Life!Purge
  <1> QED
    BY <1>3 DEF LifeStep, Life!Next

LEMMA NextLife == IInv /\ [Next]_vars => LifeStep
  <1> SUFFICES ASSUME IInv, [Next]_vars PROVE LifeStep
    OBVIOUS
  <1>0. TypeOK /\ \A i \in Interactions : rows[i].status = "none" => rows[i].response = NoMessage
    BY DEF IInv, ResponseInv
  <1>1. CASE Creates
    <2>1. CASE \E a \in Apps, scope \in Scopes : CreateCommand(a, scope)
      BY <2>1, Stutters DEF CreateCommand
    <2>2. ASSUME NEW i \in Interactions, NEW a \in Apps, NEW scope \in Scopes,
                 NEW c \in Channels, CreateInteraction(i, a, scope, c)
          PROVE  LifeStep
      <3>1. /\ rows[i].status = "none" /\ rows[i].response = NoMessage
            /\ rows' = [rows EXCEPT ![i] = Pending(a, c, NoMessage)]
        BY <1>0, <2>2 DEF CreateInteraction
      <3> QED
        BY <1>0, <3>1, LifeInsert
    <2> QED
      BY <1>1, <2>1, <2>2 DEF Creates
  <1>2. ASSUME NEW r \in Requests, Reads(r) PROVE LifeStep
    BY <1>2, Stutters DEF Reads, ReadComponent, ReadCallback, ReadFollowup, ReadOriginal,
       ReadForFollowupWrite, Begin, tables
  <1>3. ASSUME NEW r \in Requests, Continues(r) PROVE LifeStep
    <2>1. ASSUME NEW i \in Interactions, InsertComponent(r, i) PROVE LifeStep
      <3>1. request[r] \in Request
        BY <1>0 DEF TypeOK
      <3>2. /\ request[r].app \in Apps /\ request[r].channel \in Channels
            /\ request[r].message \in Messages \cup {NoMessage}
        BY <3>1 DEF Request
      <3>3. /\ rows[i].status = "none" /\ rows[i].response = NoMessage
            /\ rows' = [rows EXCEPT ![i] = Pending(request[r].app, request[r].channel,
                                                  request[r].message)]
        BY <1>0, <2>1 DEF InsertComponent
      <3> QED
        BY <1>0, <3>2, <3>3, LifeInsert
    <2>2. CASE MarkDeferred(r) \/ MarkResponded(r)
      BY <2>2, LifeDefer, LifeRespond
    <2>3. CASE \/ \E m \in Messages : Post(r, m)
               \/ RecordFollowup(r) \/ LookupFollowup(r) \/ GetMessage(r)
               \/ WriteMessage(r) \/ Abandon(r)
      BY <2>3, Stutters DEF Post, RecordFollowup, LookupFollowup, GetMessage,
         WriteMessage, Abandon, tables
    <2> QED
      BY <1>3, <2>1, <2>2, <2>3 DEF Continues
  <1>4. CASE Others
    BY <1>4, Stutters, LifePurge DEF Others, PostComponents, DeleteMessage
  <1>5. CASE UNCHANGED vars
    BY <1>5, Stutters DEF vars
  <1> QED
    BY <1>1, <1>2, <1>3, <1>4, <1>5 DEF Next

\* The routes implement InteractionLife: every interaction is answered at most
\* once, with a message of its own, whatever requests race.
THEOREM Refines == Spec => LifeSpec
  <1>1. Init => Life!Init
    BY DEF Init, Life!Init, NoRow
  <1> QED
    BY <1>1, Invariant, NextLife, PTL DEF Spec, LifeSpec, Life!Spec, LifeStep

-----------------------------------------------------------------------------
(***************************************************************************)
(* What the race over the original response needs.  The follow-up route    *)
(* reaches the response only when it runs beside the follow-up that        *)
(* answers the deferred interaction.                                       *)
(***************************************************************************)
Rewrites == {"editFollowup", "deleteFollowup"}

AnswersApart ==
  \A q, r \in Requests :
    request[q].op = "followup" /\ request[q].answers /\ request[r].op \in Rewrites =>
      request[q].id # request[r].id

\* Only a follow-up that answers comes to mark the interaction.
MarkersAnswer == \A q \in Requests : At(q, "followup", "mark") => request[q].answers

\* What a callback has posted is no follow-up ...
CallbacksApart ==
  \A q \in Requests : At(q, "callback", "mark") =>
    \A f \in followups : f[2] # request[q].message

\* ... and not what a write past its lookup has found.
FoundNoCallback ==
  \A q, r \in Requests :
    At(q, "callback", "mark") /\ request[r].op \in Rewrites /\ request[r].at # "lookup" =>
      request[q].message # request[r].message

\* A write's message is not the response, or the lookup will refuse it.
Misses ==
  \A r \in Requests : request[r].op \in Rewrites =>
    \/ rows[request[r].id].response # request[r].message
    \/ /\ request[r].at = "lookup"
       /\ <<request[r].id, request[r].message>> \notin followups

SpareInv == MarkersAnswer /\ CallbacksApart /\ FoundNoCallback /\ Misses

\* What SpareInv asks of a new value of a request that posts and marks nothing.
Harmless(q) ==
  /\ ~(q.op = "callback" /\ q.at = "mark")
  /\ q.op = "followup" /\ q.at = "mark" => q.answers
  /\ q.op \in Rewrites =>
       /\ \/ rows[q.id].response # q.message
          \/ q.at = "lookup" /\ <<q.id, q.message>> \notin followups
       /\ q.at # "lookup" =>
            \A p \in Requests : At(p, "callback", "mark") => request[p].message # q.message

\* Steps that store no response and no follow-up.
LEMMA SpareKept ==
  ASSUME IInv, SpareInv,
         \A i \in Interactions : rows'[i].response \in {rows[i].response, NoMessage},
         followups' \subseteq followups,
         \A p \in Requests : request'[p] = request[p] \/ Harmless(request'[p]),
         \A p \in Requests : request'[p].op \in Rewrites =>
           request'[p].id \in Interactions /\ request'[p].message \in Messages
  PROVE  SpareInv'
  <1>1. MarkersAnswer'
    BY DEF SpareInv, MarkersAnswer, At, Harmless
  <1>2. \A p \in Requests : At(p, "callback", "mark")' =>
          At(p, "callback", "mark") /\ request'[p] = request[p]
    BY DEF At, Harmless
  <1>3. CallbacksApart'
    BY <1>2 DEF SpareInv, CallbacksApart
  <1>4. FoundNoCallback'
    <2> SUFFICES ASSUME NEW q \in Requests, NEW r \in Requests, At(q, "callback", "mark")',
                        request'[r].op \in Rewrites, request'[r].at # "lookup"
                 PROVE  request'[q].message # request'[r].message
      BY DEF FoundNoCallback
    <2>1. At(q, "callback", "mark") /\ request'[q] = request[q]
      BY <1>2
    <2>2. CASE request'[r] = request[r]
      BY <2>1, <2>2 DEF SpareInv, FoundNoCallback
    <2>3. CASE Harmless(request'[r])
      BY <2>1, <2>3 DEF Harmless
    <2> QED
      BY <2>2, <2>3
  <1>5. Misses'
    <2> SUFFICES ASSUME NEW r \in Requests, request'[r].op \in Rewrites
                 PROVE  \/ rows'[request'[r].id].response # request'[r].message
                        \/ /\ request'[r].at = "lookup"
                           /\ <<request'[r].id, request'[r].message>> \notin followups'
      BY DEF Misses
    <2>1. \/ rows[request'[r].id].response # request'[r].message
          \/ /\ request'[r].at = "lookup"
             /\ <<request'[r].id, request'[r].message>> \notin followups
      BY DEF SpareInv, Misses, Harmless
    <2>2. request'[r].id \in Interactions /\ request'[r].message # NoMessage
      BY NamesAssumption
    <2> QED
      BY <2>1, <2>2
  <1> QED
    BY <1>1, <1>3, <1>4, <1>5 DEF SpareInv

\* The same for a step that moves one request.
LEMMA SpareMoves ==
  ASSUME IInv, IInv', SpareInv, NEW r \in Requests, NEW q, Harmless(q),
         request' = [request EXCEPT ![r] = q],
         \A i \in Interactions : rows'[i].response \in {rows[i].response, NoMessage},
         followups' \subseteq followups
  PROVE  SpareInv'
  <1>1. \A p \in Requests : request'[p] = request[p] \/ Harmless(request'[p])
    BY DEF IInv, TypeOK
  <1>2. \A p \in Requests : request'[p].op \in Rewrites =>
          request'[p].id \in Interactions /\ request'[p].message \in Messages
    BY DEF IInv, Control, Rewrites, Writes
  <1> QED
    BY <1>1, <1>2, SpareKept

\* A request that ends is harmless.
LEMMA SpareEnds ==
  ASSUME IInv, IInv', SpareInv, NEW r \in Requests, Ends(r),
         \A i \in Interactions : rows'[i].response \in {rows[i].response, NoMessage},
         followups' \subseteq followups
  PROVE  SpareInv'
  <1>1. Harmless(Idle)
    BY DEF Harmless, Idle, Rewrites
  <1> QED
    BY <1>1, SpareMoves DEF Ends

\* No request moves.
LEMMA SpareRests ==
  ASSUME IInv, SpareInv, request' = request,
         \A i \in Interactions : rows'[i].response \in {rows[i].response, NoMessage},
         followups' \subseteq followups
  PROVE  SpareInv'
  <1>1. \A p \in Requests : request'[p].op \in Rewrites =>
          request'[p].id \in Interactions /\ request'[p].message \in Messages
    BY DEF IInv, Control, Rewrites, Writes
  <1> QED
    BY <1>1, SpareKept

\* A handler that starts has posted nothing, and refuses the response it read.
LEMMA SpareReads ==
  ASSUME IInv, IInv', SpareInv, NEW r \in Requests, Reads(r)
  PROVE  SpareInv'
  <1>1. ASSUME NEW q, Harmless(q), request' = [request EXCEPT ![r] = q],
               UNCHANGED <<tables, history>>
        PROVE  SpareInv'
    BY <1>1, SpareMoves DEF tables
  <1>2. ASSUME NEW m \in Messages, ReadComponent(r, m) PROVE SpareInv'
    <2> DEFINE q == [op |-> "component", at |-> "insert", id |-> NoInteraction,
                     message |-> m, app |-> messages[m].app,
                     channel |-> messages[m].channel, answers |-> FALSE]
    <2>1. Harmless(q)
      BY DEF Harmless, Rewrites
    <2> QED
      BY <1>1, <1>2, <2>1 DEF ReadComponent
  <1>3. ASSUME NEW i \in Interactions, NEW op, NEW at, NEW m, Begin(r, op, at, i, m),
               ~(op \in {"callback", "followup"} /\ at = "mark"),
               op \in Rewrites => at = "lookup" /\ rows[i].response # m
        PROVE  SpareInv'
    <2> DEFINE q == [op |-> op, at |-> at, id |-> i, message |-> m, app |-> rows[i].app,
                     channel |-> rows[i].channel,
                     answers |-> op = "followup" /\ AnswersDeferred(i)]
    <2>1. Harmless(q)
      BY <1>3 DEF Harmless
    <2> QED
      BY <1>1, <1>3, <2>1 DEF Begin
  <1>4. ASSUME NEW i \in Interactions, ReadCallback(r, i) PROVE SpareInv'
    BY <1>3, <1>4 DEF ReadCallback, Rewrites
  <1>5. ASSUME NEW i \in Interactions, NEW a \in Apps, ReadFollowup(r, i, a) PROVE SpareInv'
    BY <1>3, <1>5 DEF ReadFollowup, Rewrites
  <1>6. ASSUME NEW i \in Interactions, NEW a \in Apps, NEW op \in Writes,
               ReadOriginal(r, op, i, a)
        PROVE  SpareInv'
    BY <1>3, <1>6 DEF ReadOriginal, Rewrites
  <1>7. ASSUME NEW i \in Interactions, NEW a \in Apps, NEW op \in Writes, NEW m \in Messages,
               ReadForFollowupWrite(r, op, i, a, m)
        PROVE  SpareInv'
    BY <1>3, <1>7 DEF ReadForFollowupWrite, Rewrites
  <1> QED
    BY <1>2, <1>4, <1>5, <1>6, <1>7 DEF Reads

\* A callback's message is new: no follow-up, and found by nobody.
LEMMA SparePost ==
  ASSUME IInv, SpareInv, NEW r \in Requests, NEW m \in Messages, Post(r, m)
  PROVE  SpareInv'
  <1>1. /\ request[r].op \in {"callback", "followup"}
        /\ \A p \in Requests \ {r} : request'[p] = request[p]
        /\ request'[r].op = request[r].op /\ request'[r].message = m
        /\ request'[r].at = IF request[r].op = "callback" THEN "mark" ELSE "record"
        /\ rows' = rows /\ followups' = followups /\ messages[m].state = "none"
    BY DEF IInv, TypeOK, Request, Control, Writes, Post
  <1>2. \A f \in followups : f[2] # m
    BY <1>1 DEF IInv, FollowupInv
  <1>3. \A p \in Requests : request[p].op \in Rewrites /\ request[p].at # "lookup" =>
          request[p].message # m
    BY <1>1 DEF IInv, Control, WriteInv, Rewrites, Writes
  <1>4. MarkersAnswer'
    BY <1>1 DEF SpareInv, MarkersAnswer, At
  <1>5. CallbacksApart'
    BY <1>1, <1>2 DEF SpareInv, CallbacksApart, At
  <1>6. FoundNoCallback'
    BY <1>1, <1>3 DEF SpareInv, FoundNoCallback, At, Rewrites
  <1>7. Misses'
    BY <1>1 DEF SpareInv, Misses, Rewrites
  <1> QED
    BY <1>4, <1>5, <1>6, <1>7 DEF SpareInv

\* A recorded follow-up was posted by its own request, and is no response yet.
LEMMA SpareRecord ==
  ASSUME IInv, SpareInv, NEW r \in Requests, RecordFollowup(r)
  PROVE  SpareInv'
  <1> DEFINE i == request[r].id
             m == request[r].message
  <1>1. /\ Posted(r) /\ request[r].op = "followup" /\ request[r].at = "record"
        /\ rows' = rows /\ followups' = followups \cup {<<i, m>>}
    BY DEF RecordFollowup, At, Posted, Succeeds
  <1>2. /\ \A p \in Requests \ {r} : request'[p] = request[p]
        /\ \/ request'[r] = Idle
           \/ /\ request[r].answers /\ request'[r].answers
              /\ request'[r].op = "followup"
    BY <1>1 DEF IInv, TypeOK, Request, RecordFollowup, Succeeds, Ends, Goes
  <1>3. /\ request'[r].op \in {"none", "followup"}
        /\ request'[r].op = "followup" => request'[r].answers
    BY <1>2 DEF Idle
  <1>4. \A j \in Interactions : rows[j].response # m
    BY <1>1 DEF IInv, PostedInv
  <1>5. \A p \in Requests : At(p, "callback", "mark") => request[p].message # m
    BY <1>1 DEF IInv, PostedInv, Posted, At
  <1>6. MarkersAnswer'
    BY <1>2, <1>3 DEF SpareInv, MarkersAnswer, At
  <1>7. CallbacksApart'
    BY <1>1, <1>2, <1>3, <1>5 DEF SpareInv, CallbacksApart, At
  <1>8. FoundNoCallback'
    BY <1>2, <1>3 DEF SpareInv, FoundNoCallback, At, Rewrites
  <1>9. Misses'
    <2> SUFFICES ASSUME NEW p \in Requests, request'[p].op \in Rewrites
                 PROVE  \/ rows'[request'[p].id].response # request'[p].message
                        \/ /\ request'[p].at = "lookup"
                           /\ <<request'[p].id, request'[p].message>> \notin followups'
      BY DEF Misses
    <2>1. request'[p] = request[p] /\ request[p].id \in Interactions
      BY <1>2, <1>3 DEF IInv, Control, Rewrites, Writes
    <2>2. CASE request[p].message = m
      BY <1>1, <1>4, <2>1, <2>2
    <2>3. CASE request[p].message # m
      <3>1. <<request[p].id, request[p].message>> # <<i, m>>
        BY <2>3
      <3> QED
        BY <1>1, <2>1, <3>1 DEF SpareInv, Misses
    <2> QED
      BY <2>2, <2>3
  <1> QED
    BY <1>6, <1>7, <1>8, <1>9 DEF SpareInv

\* The answer of a follow-up meets no write; that of a callback only writes
\* whose lookup will not find it.
LEMMA SpareRespond ==
  ASSUME IInv, SpareInv, AnswersApart, NEW r \in Requests, MarkResponded(r)
  PROVE  SpareInv'
  <1> DEFINE i == request[r].id
             m == request[r].message
  <1>1. /\ At(r, "callback", "mark") \/ At(r, "followup", "mark")
        /\ followups' = followups
        /\ request'[r] = Idle
        /\ \A p \in Requests \ {r} : request'[p] = request[p]
    BY DEF IInv, TypeOK, MarkResponded, Succeeds, Ends
  <1>2. /\ i \in Interactions
        /\ rows'[i].response = m
        /\ \A j \in Interactions \ {i} : rows'[j] = rows[j]
    BY <1>1 DEF IInv, TypeOK, Row, Control, MarkResponded, At
  <1>3. Idle.op = "none"
    BY DEF Idle
  <1>4. \A p \in Requests : request'[p].op \in Rewrites =>
          /\ request'[p] = request[p]
          /\ request[p].id \in Interactions
          /\ request[p].id = i /\ request[p].message = m =>
               request[p].at = "lookup" /\ <<i, m>> \notin followups
    <2> SUFFICES ASSUME NEW p \in Requests, request'[p].op \in Rewrites
                 PROVE  /\ request'[p] = request[p]
                        /\ request[p].id \in Interactions
                        /\ request[p].id = i /\ request[p].message = m =>
                             request[p].at = "lookup" /\ <<i, m>> \notin followups
      OBVIOUS
    <2>1. request'[p] = request[p] /\ request[p].id \in Interactions
      BY <1>1, <1>3 DEF IInv, Control, Rewrites, Writes
    <2>2. CASE At(r, "followup", "mark")
      BY <2>1, <2>2 DEF AnswersApart, SpareInv, MarkersAnswer, At
    <2>3. CASE At(r, "callback", "mark")
      <3>1. \A f \in followups : f[2] # m
        BY <2>3 DEF SpareInv, CallbacksApart
      <3>2. <<i, m>> \notin followups
        BY <3>1
      <3>3. request[p].message = m => request[p].at = "lookup"
        BY <2>1, <2>3 DEF SpareInv, FoundNoCallback
      <3> QED
        BY <2>1, <3>2, <3>3
    <2> QED
      BY <1>1, <2>2, <2>3
  <1>5. Misses'
    <2> SUFFICES ASSUME NEW p \in Requests, request'[p].op \in Rewrites
                 PROVE  \/ rows'[request'[p].id].response # request'[p].message
                        \/ /\ request'[p].at = "lookup"
                           /\ <<request'[p].id, request'[p].message>> \notin followups'
      BY DEF Misses
    <2>1. CASE request[p].id = i
      BY <1>1, <1>2, <1>4, <2>1
    <2>2. CASE request[p].id # i
      BY <1>1, <1>2, <1>4, <2>2 DEF SpareInv, Misses
    <2> QED
      BY <2>1, <2>2
  <1>6. MarkersAnswer'
    BY <1>1, <1>3 DEF SpareInv, MarkersAnswer, At
  <1>7. CallbacksApart'
    BY <1>1, <1>3 DEF SpareInv, CallbacksApart, At
  <1>8. FoundNoCallback'
    BY <1>1, <1>3, <1>4 DEF SpareInv, FoundNoCallback, At
  <1> QED
    BY <1>5, <1>6, <1>7, <1>8 DEF SpareInv

\* A write that finds its follow-up, or its message, stays harmless.
LEMMA SpareFinds ==
  ASSUME IInv, IInv', SpareInv, NEW r \in Requests, LookupFollowup(r) \/ GetMessage(r)
  PROVE  SpareInv'
  <1>1. PICK at \in {"get", "write"} :
          /\ request' = [request EXCEPT ![r].at = at]
          /\ UNCHANGED <<tables, history>>
          /\ request[r].at = "lookup" => HasFollowup(request[r].id, request[r].message)
    BY DEF LookupFollowup, GetMessage, Goes
  <1>2. request[r] \in Request /\ request[r].at \in {"lookup", "get"}
    BY DEF IInv, TypeOK, LookupFollowup, GetMessage
  <1>3. PICK q : q = [request[r] EXCEPT !.at = at]
    OBVIOUS
  <1>4. /\ q.op = request[r].op /\ q.at = at /\ q.id = request[r].id
        /\ q.message = request[r].message /\ q.answers = request[r].answers
        /\ request' = [request EXCEPT ![r] = q]
    BY <1>1, <1>2, <1>3 DEF Request
  <1>5. q.op \in Rewrites => rows[q.id].response # q.message
    BY <1>1, <1>4 DEF SpareInv, Misses, HasFollowup
  <1>6. ASSUME q.op \in Rewrites, NEW p \in Requests, At(p, "callback", "mark")
        PROVE  request[p].message # q.message
    <2>1. CASE request[r].at = "lookup"
      <3>1. <<q.id, q.message>> \in followups
        BY <1>1, <1>4, <2>1 DEF HasFollowup
      <3>2. \A f \in followups : f[2] # request[p].message
        BY <1>6 DEF SpareInv, CallbacksApart
      <3> QED
        BY <3>1, <3>2
    <2>2. CASE request[r].at # "lookup"
      BY <1>4, <1>6, <2>2 DEF SpareInv, FoundNoCallback
    <2> QED
      BY <2>1, <2>2
  <1>7. Harmless(q)
    BY <1>4, <1>5, <1>6 DEF Harmless
  <1> QED
    BY <1>1, <1>4, <1>7, SpareMoves DEF tables

\* Every step among requests that keep apart keeps SpareInv.
LEMMA NextSpare ==
  ASSUME IInv, IInv', SpareInv, AnswersApart, [Next]_vars
  PROVE  SpareInv'
  <1>0. rows \in [Interactions -> Row] /\ NoRow.response = NoMessage
    BY DEF IInv, TypeOK, NoRow
  <1>1. CASE Creates
    <2>1. \A i \in Interactions : rows'[i].response \in {rows[i].response, NoMessage}
      <3>1. CASE rows' = rows
        BY <3>1
      <3>2. ASSUME NEW j \in Interactions, NEW a \in Apps, NEW c \in Channels,
                   rows' = [rows EXCEPT ![j] = Pending(a, c, NoMessage)]
            PROVE  \A i \in Interactions : rows'[i].response \in {rows[i].response, NoMessage}
        BY <1>0, <3>2 DEF Pending
      <3> QED
        BY <1>1, <3>1, <3>2 DEF Creates, CreateCommand, CreateInteraction
    <2>2. request' = request /\ followups' = followups
      BY <1>1 DEF Creates, CreateCommand, CreateInteraction
    <2> QED
      BY <2>1, <2>2, SpareRests
  <1>2. ASSUME NEW r \in Requests, Reads(r) PROVE SpareInv'
    BY <1>2, SpareReads
  <1>3. ASSUME NEW r \in Requests, NEW i \in Interactions, InsertComponent(r, i)
        PROVE  SpareInv'
    <2>1. \A j \in Interactions : rows'[j].response \in {rows[j].response, NoMessage}
      BY <1>0, <1>3 DEF InsertComponent, Pending
    <2> QED
      BY <1>3, <2>1, SpareEnds DEF InsertComponent
  <1>4. ASSUME NEW r \in Requests, MarkDeferred(r) PROVE SpareInv'
    <2>1. \A j \in Interactions : rows'[j].response \in {rows[j].response, NoMessage}
      BY <1>0, <1>4 DEF MarkDeferred, Row
    <2> QED
      BY <1>4, <2>1, SpareEnds DEF MarkDeferred
  <1>5. ASSUME NEW r \in Requests, WriteMessage(r) \/ Abandon(r) PROVE SpareInv'
    BY <1>5, SpareEnds DEF WriteMessage, Abandon, tables
  <1>6. ASSUME NEW r \in Requests, Continues(r) PROVE SpareInv'
    BY <1>3, <1>4, <1>5, <1>6, SparePost, SpareRecord, SpareRespond, SpareFinds
       DEF Continues
  <1>7. CASE Others
    <2>1. ASSUME NEW S \in SUBSET Messages, Purge(S) PROVE SpareInv'
      <3>1. /\ request' = request /\ followups' \subseteq followups
            /\ rows' = [i \in Interactions |->
                          IF i \in {j \in Interactions : rows[j].source \in S}
                            THEN [NoRow EXCEPT !.status = "gone"]
                          ELSE IF rows[i].response \in S
                                 THEN [rows[i] EXCEPT !.response = NoMessage]
                          ELSE rows[i]]
        BY <2>1 DEF Purge
      <3>2. [NoRow EXCEPT !.status = "gone"].response = NoMessage
        BY DEF NoRow
      <3>3. \A i \in Interactions : rows'[i].response \in {rows[i].response, NoMessage}
        BY <1>0, <3>1, <3>2 DEF Row
      <3> QED
        BY <3>1, <3>3, SpareRests
    <2>2. ASSUME request' = request, rows' = rows, followups' = followups PROVE SpareInv'
      BY <2>2, SpareRests
    <2> QED
      BY <1>7, <2>1, <2>2 DEF Others, PostComponents, DeleteMessage
  <1>8. CASE UNCHANGED vars
    BY <1>8, SpareRests DEF vars
  <1> QED
    BY <1>1, <1>2, <1>6, <1>7, <1>8 DEF Next

\* That is the only way to the original response: while no write of the
\* follow-up route runs beside the follow-up that answers its interaction,
\* none reaches the stored response, although the route compares with a row
\* read earlier (interaction_followup_message).
THEOREM OriginalSpared == Spec => ([]AnswersApart => OriginalExcluded)
  <1>1. Init => SpareInv
    BY DEF Init, SpareInv, MarkersAnswer, CallbacksApart, FoundNoCallback, Misses, At,
           Idle, Rewrites
  <1>2. IInv /\ IInv' /\ SpareInv /\ AnswersApart /\ [Next]_vars => SpareInv'
    BY NextSpare
  <1>3. SpareInv /\ [Next]_vars =>
          [\A r \in Requests :
             WriteMessage(r) /\ request[r].op \in {"editFollowup", "deleteFollowup"}
               => rows[request[r].id].response # request[r].message]_vars
    BY DEF SpareInv, Misses, WriteMessage, Rewrites
  <1> QED
    BY <1>1, <1>2, <1>3, Invariant, PTL DEF Spec, OriginalExcluded
=============================================================================
