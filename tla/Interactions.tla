---------------------------- MODULE Interactions ----------------------------
(***************************************************************************)
(* Application commands and interactions: a user invokes a command or      *)
(* presses a component, the bot answers with the interaction's token.      *)
(* controllers/command_controller.rs over domain/command.rs and the tables *)
(* of repositories/command_postgres.rs; the messages are those of          *)
(* domain/message.rs.                                                      *)
(*                                                                         *)
(* A handler reads the interaction once and works with that copy: every    *)
(* later statement may find other rows.  `at' names the statement a        *)
(* request waits for, and each step makes one access to the database.  A   *)
(* request that fails a check, meets a store error or whose client goes    *)
(* away ends without a further effect (Abandon).  The realtime events the  *)
(* handlers publish change no table and are left to CompatGateway.         *)
(***************************************************************************)
EXTENDS Naturals, FiniteSets

CONSTANTS
  Interactions, Messages,      \* ids
  Requests,                    \* requests in progress at one time
  Apps,                        \* bot applications of the organization
  Channels, SpaceOf,           \* channels, and the space of each
  NoInteraction, NoMessage, Global

Scopes == {SpaceOf[c] : c \in Channels} \cup {Global}

ASSUME NamesAssumption ==
  /\ NoInteraction \notin Interactions
  /\ NoMessage \notin Messages
  /\ \A c \in Channels : SpaceOf[c] # Global
  /\ Apps # {}
  /\ Channels # {}

VARIABLES
  commands,    \* application_commands: application and scope
  rows,        \* command_interactions
  messages,    \* messages
  followups,   \* interaction_followup_messages
  request,     \* a handler between two statements
  accepted,    \* history: callbacks and follow-ups answered with success
  deletes      \* history: successful deletes of each message

vars == <<commands, rows, messages, followups, request, accepted, deletes>>

Statuses == {"none", "pending", "deferred", "responded", "gone"}
Writes   == {"editOriginal", "deleteOriginal", "editFollowup", "deleteFollowup"}
Row      == [status : Statuses, app : Apps, channel : Channels,
             source : Messages \cup {NoMessage}, response : Messages \cup {NoMessage}]
Message  == [state : {"none", "live", "deleted", "purged"}, app : Apps,
             channel : Channels, made : Interactions \cup {NoInteraction}]
Request  == [op : {"none", "component", "defer", "callback", "followup"} \cup Writes,
             at : {"idle", "insert", "mark", "post", "record", "lookup", "get", "write"},
             id : Interactions \cup {NoInteraction},
             message : Messages \cup {NoMessage},
             app : Apps, channel : Channels, answers : BOOLEAN]

\* One type per table and task.
TypeOK ==
  /\ commands \subseteq Apps \X Scopes
  /\ rows \in [Interactions -> Row]
  /\ messages \in [Messages -> Message]
  /\ followups \subseteq Interactions \X Messages
  /\ request \in [Requests -> Request]
  /\ accepted \subseteq [op : {"callback", "followup"}, id : Interactions,
                         message : Messages]
  /\ deletes \in [Messages -> Nat]

AnyApp     == CHOOSE a \in Apps : TRUE
AnyChannel == CHOOSE c \in Channels : TRUE

NoRow  == [status |-> "none", app |-> AnyApp, channel |-> AnyChannel,
           source |-> NoMessage, response |-> NoMessage]
Unused == [state |-> "none", app |-> AnyApp, channel |-> AnyChannel,
           made |-> NoInteraction]
Idle   == [op |-> "none", at |-> "idle", id |-> NoInteraction, message |-> NoMessage,
           app |-> AnyApp, channel |-> AnyChannel, answers |-> FALSE]

Init ==
  /\ commands = {}
  /\ rows = [i \in Interactions |-> NoRow]
  /\ messages = [m \in Messages |-> Unused]
  /\ followups = {}
  /\ request = [r \in Requests |-> Idle]
  /\ accepted = {}
  /\ deletes = [m \in Messages |-> 0]

tables  == <<commands, rows, messages, followups>>
history == <<accepted, deletes>>

(***************************************************************************)
(* A request ends: with an answer of success, or without a further effect. *)
(***************************************************************************)
At(r, op, at) == request[r].op = op /\ request[r].at = at

Goes(r, at) == request' = [request EXCEPT ![r].at = at]

Ends(r) == request' = [request EXCEPT ![r] = Idle]

Succeeds(r) ==
  /\ accepted' = accepted \cup {[op |-> request[r].op, id |-> request[r].id,
                                 message |-> request[r].message]}
  /\ Ends(r)

Abandon(r) ==
  /\ request[r].at # "idle"
  /\ Ends(r)
  /\ UNCHANGED <<tables, history>>

(***************************************************************************)
(* Commands and the creation of interactions.  That the user and the bot   *)
(* see the channel is decided by other rows; a refusal changes nothing.    *)
(***************************************************************************)
\* The row both create functions insert.
Pending(a, c, source) ==
  [status |-> "pending", app |-> a, channel |-> c, source |-> source,
   response |-> NoMessage]

\* create_compat_space_command, create_compat_global_command; the unique
\* indexes refuse a second active command of one name.
CreateCommand(a, scope) ==
  /\ <<a, scope>> \notin commands
  /\ commands' = commands \cup {<<a, scope>>}
  /\ UNCHANGED <<rows, messages, followups, request, history>>

\* create_channel_interaction: the command is global or of the channel's space.
CreateInteraction(i, a, scope, c) ==
  /\ rows[i].status = "none"
  /\ <<a, scope>> \in commands
  /\ scope \in {Global, SpaceOf[c]}
  /\ rows' = [rows EXCEPT ![i] = Pending(a, c, NoMessage)]
  /\ UNCHANGED <<commands, messages, followups, request, history>>

\* create_component_interaction reads the message the component is on: any of
\* a bot's, since the compat edit route adds components to an existing one.
ReadComponent(r, m) ==
  /\ request[r].at = "idle"
  /\ messages[m].state = "live"
  /\ request' = [request EXCEPT ![r] =
       [op |-> "component", at |-> "insert", id |-> NoInteraction, message |-> m,
        app |-> messages[m].app, channel |-> messages[m].channel, answers |-> FALSE]]
  /\ UNCHANGED <<tables, history>>

\* ... and inserts the interaction, whose message_id must still exist.
InsertComponent(r, i) ==
  /\ At(r, "component", "insert")
  /\ rows[i].status = "none"
  /\ messages[request[r].message].state # "purged"
  /\ rows' = [rows EXCEPT ![i] = Pending(request[r].app, request[r].channel,
                                         request[r].message)]
  /\ Ends(r)
  /\ UNCHANGED <<commands, messages, followups, history>>

(***************************************************************************)
(* The statements of the stores.                                           *)
(***************************************************************************)
\* interaction_for_callback
ForCallback(i) == rows[i].status = "pending"

\* Mutant: an interaction need not be acknowledged before a follow-up.
ForFollowup_Any(i, a) == rows[i].app = a /\ rows[i].status \notin {"none", "gone"}

\* interaction_for_followup
ForFollowup(i, a) == rows[i].app = a /\ rows[i].status \in {"deferred", "responded"}

\* interaction_for_original_response
ForOriginal(i, a) ==
  rows[i].app = a /\ rows[i].status = "responded" /\ rows[i].response # NoMessage

\* Mutant: mark_interaction_deferred updates whatever the status is.
CanDefer_Any(i) == rows[i].status \notin {"none", "gone"}

\* mark_interaction_deferred: WHERE status = 'pending'
CanDefer(i) == rows[i].status = "pending"

\* Mutant: mark_interaction_responded updates whatever the status is.
CanRespond_Any(i, m) ==
  /\ rows[i].status \notin {"none", "gone"}
  /\ messages[m].state # "purged"

\* mark_interaction_responded: WHERE status IN ('pending', 'deferred'), and
\* response_message_id REFERENCES messages.
CanRespond(i, m) ==
  /\ rows[i].status \in {"pending", "deferred"}
  /\ messages[m].state # "purged"

\* Mutant: the follow-up table is asked for the message alone.
HasFollowup_AnyInteraction(i, m) == \E j \in Interactions : <<j, m>> \in followups

\* interaction_has_followup_message
HasFollowup(i, m) == <<i, m>> \in followups

\* Mutant: delete_message and update_message do not look at deleted_at.
StillLive_Any(m) == messages[m].state \in {"live", "deleted"}

\* update_message, delete_message: WHERE deleted_at IS NULL
StillLive(m) == messages[m].state = "live"

(***************************************************************************)
(* create_interaction_callback and create_interaction_followup.            *)
(***************************************************************************)
\* The first follow-up of a deferred interaction becomes its response; the
\* handler decides with the row it read at the start.
AnswersDeferred(i) == rows[i].status = "deferred" /\ rows[i].response = NoMessage

\* What a handler keeps of the row it read.
Begin(r, op, at, i, m) ==
  /\ request[r].at = "idle"
  /\ request' = [request EXCEPT ![r] =
       [op |-> op, at |-> at, id |-> i, message |-> m, app |-> rows[i].app,
        channel |-> rows[i].channel, answers |-> op = "followup" /\ AnswersDeferred(i)]]
  /\ UNCHANGED <<tables, history>>

ReadCallback(r, i) ==
  /\ ForCallback(i)
  /\ \/ Begin(r, "defer", "mark", i, NoMessage)      \* type 5
     \/ Begin(r, "callback", "post", i, NoMessage)   \* type 4

ReadFollowup(r, i, a) ==
  /\ ForFollowup(i, a)
  /\ Begin(r, "followup", "post", i, NoMessage)

MarkDeferred(r) ==
  LET i == request[r].id
  IN  /\ At(r, "defer", "mark")
      /\ CanDefer(i)
      /\ rows' = [rows EXCEPT ![i].status = "deferred"]
      /\ Ends(r)
      /\ UNCHANGED <<commands, messages, followups, history>>

\* messages.create as the application's bot user, in the interaction's channel.
Post(r, m) ==
  /\ request[r].at = "post"
  /\ messages[m].state = "none"
  /\ messages' = [messages EXCEPT ![m] =
       [state |-> "live", app |-> request[r].app, channel |-> request[r].channel,
        made |-> request[r].id]]
  /\ request' = [request EXCEPT
       ![r].message = m,
       ![r].at = IF request[r].op = "callback" THEN "mark" ELSE "record"]
  /\ UNCHANGED <<commands, rows, followups, history>>

\* record_interaction_followup_message; both columns are foreign keys.
RecordFollowup(r) ==
  LET i == request[r].id  m == request[r].message
  IN  /\ At(r, "followup", "record")
      /\ rows[i].status # "gone"
      /\ messages[m].state # "purged"
      /\ followups' = followups \cup {<<i, m>>}
      /\ IF request[r].answers
           THEN Goes(r, "mark") /\ UNCHANGED accepted
           ELSE Succeeds(r)
      /\ UNCHANGED <<commands, rows, messages, deletes>>

MarkResponded(r) ==
  LET i == request[r].id  m == request[r].message
  IN  /\ At(r, "callback", "mark") \/ At(r, "followup", "mark")
      /\ CanRespond(i, m)
      /\ rows' = [rows EXCEPT ![i].status = "responded", ![i].response = m]
      /\ Succeeds(r)
      /\ UNCHANGED <<commands, messages, followups, deletes>>

(***************************************************************************)
(* Editing and deleting the original response and the other follow-ups.    *)
(***************************************************************************)
ReadOriginal(r, op, i, a) ==
  /\ op \in {"editOriginal", "deleteOriginal"}
  /\ ForOriginal(i, a)
  /\ Begin(r, op, "get", i, rows[i].response)

\* interaction_followup_message refuses the response of the row it was given.
ReadForFollowupWrite(r, op, i, a, m) ==
  /\ op \in {"editFollowup", "deleteFollowup"}
  /\ ForFollowup(i, a)
  /\ rows[i].response # m
  /\ Begin(r, op, "lookup", i, m)

LookupFollowup(r) ==
  /\ request[r].at = "lookup"
  /\ HasFollowup(request[r].id, request[r].message)
  /\ Goes(r, "get")
  /\ UNCHANGED <<tables, history>>

GetMessage(r) ==
  LET message == messages[request[r].message]
  IN  /\ request[r].at = "get"
      /\ message.state = "live"
      /\ message.app = request[r].app
      /\ message.channel = request[r].channel
      /\ Goes(r, "write")
      /\ UNCHANGED <<tables, history>>

\* messages.update or messages.delete
WriteMessage(r) ==
  LET m == request[r].message
  IN  /\ request[r].at = "write"
      /\ StillLive(m)
      /\ IF request[r].op \in {"deleteOriginal", "deleteFollowup"}
           THEN /\ messages' = [messages EXCEPT ![m].state = "deleted"]
                /\ deletes' = [deletes EXCEPT ![m] = @ + 1]
           ELSE UNCHANGED <<messages, deletes>>
      /\ Ends(r)
      /\ UNCHANGED <<commands, rows, followups, accepted>>

(***************************************************************************)
(* Other writers of the same messages.                                     *)
(***************************************************************************)
\* create_message of the compat REST API: a bot's message with components.
PostComponents(m, a, c) ==
  /\ messages[m].state = "none"
  /\ messages' = [messages EXCEPT ![m] =
       [state |-> "live", app |-> a, channel |-> c, made |-> NoInteraction]]
  /\ UNCHANGED <<commands, rows, followups, request, history>>

\* The delete routes of the native and the compat REST API.
DeleteMessage(m) ==
  /\ StillLive(m)
  /\ messages' = [messages EXCEPT ![m].state = "deleted"]
  /\ deletes' = [deletes EXCEPT ![m] = @ + 1]
  /\ UNCHANGED <<commands, rows, followups, request, accepted>>

\* purge_for_retention deletes the rows its cutoffs select, any of those there
\* are: ON DELETE SET NULL of responses, ON DELETE CASCADE of follow-ups and
\* of the interactions the messages' components made.
Purge(S) ==
  LET lost == {i \in Interactions : rows[i].source \in S}
  IN  /\ \A m \in S : messages[m].state \in {"live", "deleted"}
      /\ messages' = [m \in Messages |->
                        IF m \in S THEN [messages[m] EXCEPT !.state = "purged"]
                        ELSE messages[m]]
      /\ rows' = [i \in Interactions |->
                    IF i \in lost THEN [NoRow EXCEPT !.status = "gone"]
                    ELSE IF rows[i].response \in S
                           THEN [rows[i] EXCEPT !.response = NoMessage]
                    ELSE rows[i]]
      /\ followups' = {f \in followups : f[1] \notin lost /\ f[2] \notin S}
      /\ UNCHANGED <<commands, request, history>>

-----------------------------------------------------------------------------
Creates ==
  \/ \E a \in Apps, scope \in Scopes : CreateCommand(a, scope)
  \/ \E i \in Interactions, a \in Apps, scope \in Scopes, c \in Channels :
       CreateInteraction(i, a, scope, c)

Reads(r) ==
  \/ \E m \in Messages : ReadComponent(r, m)
  \/ \E i \in Interactions : ReadCallback(r, i)
  \/ \E i \in Interactions, a \in Apps : ReadFollowup(r, i, a)
  \/ \E i \in Interactions, a \in Apps, op \in Writes : ReadOriginal(r, op, i, a)
  \/ \E i \in Interactions, a \in Apps, op \in Writes, m \in Messages :
       ReadForFollowupWrite(r, op, i, a, m)

Continues(r) ==
  \/ \E i \in Interactions : InsertComponent(r, i)
  \/ \E m \in Messages : Post(r, m)
  \/ MarkDeferred(r) \/ RecordFollowup(r) \/ MarkResponded(r)
  \/ LookupFollowup(r) \/ GetMessage(r) \/ WriteMessage(r)
  \/ Abandon(r)

Others ==
  \/ \E m \in Messages, a \in Apps, c \in Channels : PostComponents(m, a, c)
  \/ \E m \in Messages : DeleteMessage(m)
  \/ \E S \in (SUBSET Messages) \ {{}} : Purge(S)

Next ==
  \/ Creates
  \/ \E r \in Requests : Reads(r) \/ Continues(r)
  \/ Others

Spec == Init /\ [][Next]_vars
-----------------------------------------------------------------------------
\* A success answer keeps its word.  A callback of type 4 answered 204 has its
\* message as the interaction's response for as long as both rows exist, and
\* a follow-up answered 200 leaves no deferred interaction behind, however
\* many callbacks and follow-ups raced (mark_interaction_responded decides).
AcceptedIsStored ==
  \A a \in accepted :
    /\ a.op = "callback" =>
         \/ rows[a.id].response = a.message
         \/ rows[a.id].status = "gone"
         \/ messages[a.message].state = "purged"
    /\ a.op = "followup" => rows[a.id].status \in {"responded", "gone"}

\* A token edits and deletes only messages made with that token, whatever
\* message ids its holder names and whatever else the same bot posted there.
OwnMessagesOnly ==
  [][\A r \in Requests :
       WriteMessage(r) => messages[request[r].message].made = request[r].id]_vars

\* Nothing is recorded for an interaction before it was acknowledged: neither
\* a response nor a follow-up ("previously acknowledged with callback type 4
\* or 5").
AcknowledgedFirst ==
  \A i \in Interactions :
    rows[i].status \in {"none", "pending"} =>
      /\ rows[i].response = NoMessage
      /\ \A m \in Messages : <<i, m>> \notin followups

\* Of all requests that delete one message, by any route, at most one is told
\* that it did, although they all may have read it alive.
DeletedOnce == \A m \in Messages : deletes[m] <= 1

\* The routes implement the life of an interaction as InteractionLife has it.
Life == INSTANCE InteractionLife WITH
          status   <- [i \in Interactions |-> rows[i].status],
          response <- [i \in Interactions |-> rows[i].response]
LifeSpec == Life!Spec

\* "The original response is intentionally excluded from this route": no write
\* of the follow-up route reaches the message that is stored as the response.
OriginalExcluded ==
  [][\A r \in Requests :
       WriteMessage(r) /\ request[r].op \in {"editFollowup", "deleteFollowup"}
         => rows[request[r].id].response # request[r].message]_vars
=============================================================================
