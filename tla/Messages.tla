------------------------------ MODULE Messages ------------------------------
(***************************************************************************)
(* Messages and their attachments: the native routes                       *)
(* (controllers/message_controller.rs, attachment_controller.rs), the      *)
(* compatible ones bots use (compat_controller.rs), and incoming webhooks  *)
(* (webhook_controller.rs), over the tables messages and attachments.      *)
(*                                                                         *)
(* Every request is a sequence of single SQL statements, without a         *)
(* transaction around them.  Whether the caller may do it, and whether a   *)
(* token is valid, are subjects of AccessControl and Accounts: here each   *)
(* check may pass or fail, and a request may also end anywhere because a   *)
(* statement failed or the client went away (RequestEnds).                 *)
(***************************************************************************)
EXTENDS Payloads, Functions

CONSTANTS
  MessageIds,   \* positive integers
  AttachmentIds, \* positive integers
  Channels, NoChannel,
  Requests,     \* requests running at the same time
  Users,        \* who uses the native routes
  Bot, Hook,    \* the users behind a bot and a webhook
  Bodies,       \* contents a client sends
  EmbedLists,   \* embeds a client sends
  Policies,     \* allowed_mentions a bot sends
  FileLists,    \* attachment_ids a client sends
  MaxFiles,     \* MAX_ATTACHMENTS_PER_MESSAGE
  MaxComponents, \* 5
  MaxRequests,  \* bound: requests in one behaviour
  MaxPurges     \* bound: rows the retention worker takes away

ASSUME MessagesAssumption ==
  /\ MessageIds \cup AttachmentIds \subseteq Nat \ {0}
  /\ NoChannel \notin Channels
  /\ Bot \notin Users /\ Hook \notin Users /\ Bot # Hook
  /\ FileLists \subseteq Seq(AttachmentIds)
  /\ Policies \subseteq AllowedMentions
  /\ {MaxFiles, MaxComponents, MaxRequests, MaxPurges} \subseteq Nat
  /\ Bodies \subseteq [len : Nat, pad : Nat, mentions : SUBSET Targets]
  /\ <<>> \in EmbedLists /\ \A es \in EmbedLists : ParsedEmbeds(es)

VARIABLES
  messages,     \* table messages
  attachments,  \* table attachments
  request,      \* what each running request holds
  started,      \* requests so far
  purges,       \* rows purged so far
  created       \* history: the message.created published and the files they list

vars == <<messages, attachments, request, started, purges, created>>

Authors == Users \cup {Bot, Hook}
NoMessage == 0
Blank == [len |-> 0, pad |-> 0, mentions |-> {}]

\* What normalize_embeds makes of the lists it does not refuse.
AcceptedEmbeds == {NormalizeEmbeds(es) : es \in {es \in EmbedLists : ValidEmbeds(es)}}

\* What a bot's request can mention with a content: the policy is the bot's, and
\* which targets the space knows is AccessControl's.
Resolved(body) ==
  {ResolveMentions(body, p, known) : p \in Policies, known \in SUBSET Targets}

\* A row of messages; "none" is an id that was not used yet.  Components are
\* the number of action rows.
Message ==
  [state : {"none", "live", "deleted", "purged"}, channel : Channels \cup {NoChannel},
   author : Authors, content : Content,
   mentions : SUBSET Targets, embeds : AcceptedEmbeds, components : 0..MaxComponents,
   reply : MessageIds \cup {NoMessage}]

\* A row of attachments; stored says whether it has content.
Attachment ==
  [status : {"none", "pending", "uploaded", "linked", "purged"},
   channel : Channels \cup {NoChannel}, uploader : Authors,
   message : MessageIds \cup {NoMessage}, stored : BOOLEAN]

Ops == {"idle", "create", "bot_create", "upload", "edit"}
Steps == {"idle", "validate", "files", "fill", "store", "link", "write", "announce"}

\* next indexes files; components are those of the row an edit has read.
Request ==
  [op : Ops, at : Steps, user : Authors, channel : Channels \cup {NoChannel},
   message : MessageIds \cup {NoMessage}, files : Seq(AttachmentIds), next : Nat,
   components : 0..MaxComponents, reply : MessageIds \cup {NoMessage}]

\* One type per table and task.
TypeOK ==
  /\ messages \in [MessageIds -> Message]
  /\ attachments \in [AttachmentIds -> Attachment]
  /\ \A q \in Requests : request[q] \in Request
  /\ started \in 0..MaxRequests
  /\ purges \in 0..MaxPurges
  /\ created \subseteq [message : MessageIds, files : SUBSET AttachmentIds]

NoRow ==
  [state |-> "none", channel |-> NoChannel, author |-> Hook, content |-> Blank, mentions |-> {},
   embeds |-> <<>>, components |-> 0, reply |-> NoMessage]
NoFile ==
  [status |-> "none", channel |-> NoChannel, uploader |-> Hook, message |-> NoMessage, stored |-> FALSE]
Idle ==
  [op |-> "idle", at |-> "idle", user |-> Hook,
   channel |-> NoChannel, message |-> NoMessage, files |-> <<>>,
   next |-> 1, components |-> 0, reply |-> NoMessage]

Init ==
  /\ messages = [m \in MessageIds |-> NoRow]
  /\ attachments = [a \in AttachmentIds |-> NoFile]
  /\ request = [q \in Requests |-> Idle]
  /\ started = 0
  /\ purges = 0
  /\ created = {}

Stored(m) == messages[m].state \in {"live", "deleted"}
Exists(a) == attachments[a].status \in {"pending", "uploaded", "linked"}

(***************************************************************************)
(* Statements on the tables.                                               *)
(***************************************************************************)

\* get_message: a deleted row is not found.
GetMessage(m) == messages[m].state = "live"

\* INSERT INTO messages; the foreign key of reply_to_message_id must hold.
InsertMessage(m, row) ==
  /\ messages[m].state = "none"
  /\ row.reply # NoMessage => Stored(row.reply)
  /\ messages' = [messages EXCEPT ![m] = row]

\* UPDATE ... WHERE deleted_at IS NULL writes three columns together.
UpdateMessage(m, content, mentions, components) ==
  /\ messages[m].state = "live"
  /\ messages' = [messages EXCEPT ![m].content = content, ![m].mentions = mentions,
                                  ![m].components = components]

DeleteMessage(m) ==
  /\ messages[m].state = "live"
  /\ messages' = [messages EXCEPT ![m].state = "deleted"]

\* new_uuid_v7 gives ids in order.
UnusedFiles == {a \in AttachmentIds : attachments[a].status = "none"}
FreshFile == Min(UnusedFiles)

InsertAttachment(channel, user) ==
  /\ UnusedFiles # {}
  /\ attachments' = [attachments EXCEPT ![FreshFile] =
                       [NoFile EXCEPT !.status = "pending", !.channel = channel,
                                      !.uploader = user]]

\* Mutant: the statement trusts the status the service has looked at.
Uploadable_Any(a, user) == Exists(a) /\ attachments[a].uploader = user

\* The WHERE clause of upload_content.
Uploadable(a, user) ==
  /\ Exists(a)
  /\ attachments[a].uploader = user
  /\ attachments[a].message = NoMessage

UploadContent(a, user) ==
  /\ Uploadable(a, user)
  /\ attachments' = [attachments EXCEPT ![a].status = "uploaded",
                                        ![a].stored = TRUE]

\* One UPDATE of link_attachments_to_message; the foreign key must hold.
LinkAttachment(a, m) ==
  /\ attachments[a].status = "uploaded"
  /\ attachments[a].message = NoMessage
  /\ Stored(m)
  /\ attachments' = [attachments EXCEPT ![a].status = "linked", ![a].message = m]

\* purge_for_retention, one row: files of a purged message lose their link and
\* stay 'linked', replies lose their reference (ON DELETE SET NULL).
PurgeMessage(m) ==
  /\ Stored(m)
  /\ messages' = [x \in MessageIds |->
                    IF x = m THEN [NoRow EXCEPT !.state = "purged"]
                    ELSE [messages[x] EXCEPT !.reply = IF @ = m THEN NoMessage ELSE @]]
  /\ attachments' = [a \in AttachmentIds |->
                       [attachments[a] EXCEPT !.message = IF @ = m THEN NoMessage ELSE @]]

PurgeAttachment(a) ==
  /\ Exists(a)
  /\ attachments' = [attachments EXCEPT ![a] = [NoFile EXCEPT !.status = "purged"]]
  /\ UNCHANGED messages

\* The retention worker; which rows are due is Retention's subject.
Purge ==
  /\ purges < MaxPurges
  /\ purges' = purges + 1
  /\ \/ \E m \in MessageIds : PurgeMessage(m)
     \/ \E a \in AttachmentIds : PurgeAttachment(a)
  /\ UNCHANGED <<request, started, created>>

(***************************************************************************)
(* Requests.                                                               *)
(***************************************************************************)
Counted == started < MaxRequests /\ started' = started + 1

Goes(q, r) == request' = [request EXCEPT ![q] = r]

Begin(q, r) ==
  /\ request[q] = Idle
  /\ Counted
  /\ Goes(q, r)
  /\ UNCHANGED <<messages, attachments, purges, created>>

\* A check, a validator or a statement fails, or the client goes away.
RequestEnds(q) ==
  /\ request[q] # Idle
  /\ Goes(q, Idle)
  /\ UNCHANGED <<messages, attachments, started, purges, created>>

\* POST /attachments/presign
Presign(user, channel) ==
  /\ InsertAttachment(channel, user)
  /\ UNCHANGED <<messages, request, started, purges, created>>

\* PUT /attachments/{id}/content: the row is read, and a linked one refused;
\* size and content type must be those of the presign request.
UploadBegin(q, user, a) ==
  /\ attachments[a].status \in {"pending", "uploaded"}
  /\ attachments[a].uploader = user
  /\ Begin(q, [Idle EXCEPT !.op = "upload", !.at = "write", !.user = user, !.files = <<a>>])

UploadWrite(q) ==
  /\ request[q].op = "upload" /\ request[q].at = "write"
  /\ UploadContent(request[q].files[1], request[q].user)
  /\ Goes(q, Idle)
  /\ UNCHANGED <<messages, started, purges, created>>

\* Mutant: any uploaded file of the channel will do.
UsableFile_AnyUploader(a, user, channel) ==
  /\ attachments[a].status = "uploaded"
  /\ attachments[a].message = NoMessage
  /\ attachments[a].channel = channel

\* The checks of validate_for_message on one attachment.
UsableFile(a, user, channel) ==
  /\ attachments[a].status = "uploaded"
  /\ attachments[a].message = NoMessage
  /\ attachments[a].uploader = user
  /\ attachments[a].channel = channel

\* POST /channels/{id}/messages with files
CreateBegin(q, user, channel, files) ==
  /\ files # <<>>
  /\ Len(files) <= MaxFiles
  /\ Begin(q, [Idle EXCEPT !.op = "create", !.at = "validate", !.user = user,
                          !.channel = channel, !.files = files])

\* The rows are read one by one, an id named twice is refused.
ValidateFile(q) ==
  LET r == request[q]
      a == r.files[r.next]
  IN  /\ r.at = "validate"
      /\ \A i \in 1..(r.next - 1) : r.files[i] # a
      /\ UsableFile(a, r.user, r.channel)
      /\ Goes(q, IF r.next < Len(r.files) THEN [r EXCEPT !.next = @ + 1]
                 ELSE [r EXCEPT !.next = 1, !.at = "store"])
      /\ UNCHANGED <<messages, attachments, started, purges, created>>

Unused == {m \in MessageIds : messages[m].state = "none"}
Fresh == Min(Unused)

\* The message is stored and its files are linked next, if it has any.
Store(q, r, row) ==
  /\ Unused # {}
  /\ InsertMessage(Fresh, [row EXCEPT !.channel = r.channel])
  /\ Goes(q, [r EXCEPT !.message = Fresh,
                       !.at = IF r.files = <<>> THEN "announce" ELSE "link"])
  /\ UNCHANGED <<attachments, purges, created>>

Row(author, body) ==
  [NoRow EXCEPT !.state = "live", !.author = author, !.content = NormalizeContent(body)]

\* MessageService::create: no embeds, no mentions, no reply.
CreateStore(q, body) ==
  LET r == request[q]
  IN  /\ r.op = "create" /\ r.at = "store"
      /\ ValidContent(body, TRUE)
      /\ Store(q, r, Row(r.user, body))
      /\ UNCHANGED started

\* The same route without files: nothing of these tables is read before.
CreatePlain(q, user, channel, body) ==
  /\ request[q] = Idle
  /\ Counted
  /\ ValidContent(body, FALSE)
  /\ Store(q, [Idle EXCEPT !.op = "create", !.user = user, !.channel = channel],
           Row(user, body))

LinkFile(q) ==
  LET r == request[q]
  IN  /\ r.at = "link"
      /\ LinkAttachment(r.files[r.next], r.message)
      /\ Goes(q, IF r.next < Len(r.files) THEN [r EXCEPT !.next = @ + 1]
                 ELSE [r EXCEPT !.at = "announce"])
      /\ UNCHANGED <<messages, started, purges, created>>

\* message.created lists the files that were linked.
Announce(q) ==
  /\ request[q].at = "announce"
  /\ created' = created \cup
       {[message |-> request[q].message, files |-> Range(request[q].files)]}
  /\ Goes(q, Idle)
  /\ UNCHANGED <<messages, attachments, started, purges>>

(***************************************************************************)
(* The compatible routes.  The files of a multipart request are stored     *)
(* before anything else of the request is looked at.                       *)
(***************************************************************************)
BotCreateBegin(q, channel) ==
  Begin(q, [Idle EXCEPT !.op = "bot_create", !.at = "files", !.user = Bot,
                        !.channel = channel])

\* create_pending for the next file of the request.
BotFileBegin(q) ==
  LET r == request[q]
  IN  /\ r.at = "files"
      /\ Len(r.files) < MaxFiles
      /\ InsertAttachment(r.channel, Bot)
      /\ Goes(q, [r EXCEPT !.at = "fill", !.files = Append(@, FreshFile)])
      /\ UNCHANGED <<messages, started, purges, created>>

BotFileWrite(q) ==
  LET r == request[q]
  IN  /\ r.at = "fill"
      /\ UploadContent(r.files[Len(r.files)], Bot)
      /\ Goes(q, [r EXCEPT !.at = "files"])
      /\ UNCHANGED <<messages, started, purges, created>>

\* message_in_channel
InChannel(m, channel) == GetMessage(m) /\ messages[m].channel = channel

\* validate_message_reference
BotReply(q, m) ==
  /\ request[q].at = "files"
  /\ m # NoMessage => InChannel(m, request[q].channel)
  /\ Goes(q, [request[q] EXCEPT !.reply = m, !.at = "store"])
  /\ UNCHANGED <<messages, attachments, started, purges, created>>

\* normalize_components: what the rows hold is not looked at.
ValidComponents(n) == n <= MaxComponents

\* create_with_embeds for a bot.
BotCreateStore(q, body, embeds, mentions, components) ==
  LET r == request[q]
  IN  /\ r.op = "bot_create" /\ r.at = "store"
      /\ ValidContent(body, embeds # <<>> \/ components > 0 \/ r.files # <<>>)
      /\ ValidComponents(components)
      /\ Store(q, r, [Row(Bot, body) EXCEPT !.embeds = embeds, !.mentions = mentions,
                                            !.components = components, !.reply = r.reply])
      /\ UNCHANGED started

(***************************************************************************)
(* PATCH and DELETE, native and compatible.                                *)
(***************************************************************************)

\* The handler reads the row, for its checks and for its components.
EditBegin(q, user, m) ==
  /\ GetMessage(m)
  /\ Begin(q, [Idle EXCEPT !.op = "edit", !.at = "write", !.user = user, !.message = m,
                           !.components = messages[m].components])

EditStore(q, body, mentions, components) ==
  /\ ValidContent(body, FALSE)
  /\ UpdateMessage(request[q].message, NormalizeContent(body), mentions, components)
  /\ Goes(q, Idle)
  /\ UNCHANGED <<attachments, started, purges, created>>

\* MessageService::update clears the mentions and writes back what it has read of
\* the components.
Update(q, body) ==
  /\ request[q].op = "edit" /\ request[q].user \in Users
  /\ EditStore(q, body, {}, request[q].components)

\* update_with_mentions; without components in the request those it has read.
BotUpdate(q, body, mentions, components) ==
  /\ request[q].op = "edit" /\ request[q].user = Bot
  /\ ValidComponents(components)
  /\ EditStore(q, body, mentions, components)

\* The handler reads the row first, for its checks; the statement looks again
\* whether the row is live and takes nothing from the read, so one step stands
\* for both.
Delete(m) ==
  /\ Counted
  /\ DeleteMessage(m)
  /\ UNCHANGED <<attachments, request, purges, created>>

\* delete_message of the compatible routes names the channel too.
BotDelete(m, channel) ==
  /\ InChannel(m, channel)
  /\ Delete(m)

(***************************************************************************)
(* Incoming webhooks.                                                      *)
(***************************************************************************)

\* Nothing of these tables is read before the message is stored; the webhook may
\* have been disabled since verify.
Execute(q, channel, body, embeds) ==
  /\ request[q] = Idle
  /\ Counted
  /\ ValidContent(body, embeds # <<>>)
  /\ Store(q, [Idle EXCEPT !.channel = channel, !.op = "create"],
           [Row(Hook, body) EXCEPT !.embeds = embeds])

(***************************************************************************)
(* The specification.                                                      *)
(***************************************************************************)
Native(q) ==
  \/ \E u \in Users, a \in AttachmentIds : UploadBegin(q, u, a)
  \/ UploadWrite(q)
  \/ \E u \in Users, c \in Channels, fs \in FileLists : CreateBegin(q, u, c, fs)
  \/ ValidateFile(q)
  \/ \E u \in Users, c \in Channels, b \in Bodies : CreatePlain(q, u, c, b)
  \/ \E b \in Bodies : CreateStore(q, b)
  \/ LinkFile(q)
  \/ Announce(q)
  \/ \E u \in Users, m \in MessageIds : EditBegin(q, u, m)
  \/ \E b \in Bodies : Update(q, b)
  \/ RequestEnds(q)

Compat(q) ==
  \/ \E c \in Channels : BotCreateBegin(q, c)
  \/ BotFileBegin(q)
  \/ BotFileWrite(q)
  \/ \E m \in MessageIds \cup {NoMessage} : BotReply(q, m)
  \/ \E b \in Bodies, es \in AcceptedEmbeds :
       \E ms \in Resolved(b), n \in 0..(MaxComponents + 1) :
         BotCreateStore(q, b, es, ms, n)
  \/ \E m \in MessageIds : EditBegin(q, Bot, m)
  \/ \E b \in Bodies :
       \E ms \in Resolved(b), n \in {request[q].components} \cup 0..(MaxComponents + 1) :
         BotUpdate(q, b, ms, n)

Webhooks(q) ==
  \E c \in Channels, b \in Bodies, es \in AcceptedEmbeds : Execute(q, c, b, es)

Next ==
  \/ \E q \in Requests : Native(q) \/ Compat(q) \/ Webhooks(q)
  \/ \E u \in Users, c \in Channels : Presign(u, c)
  \/ \E m \in MessageIds : Delete(m) \/ \E c \in Channels : BotDelete(m, c)
  \/ Purge

Spec == Init /\ [][Next]_vars

(***************************************************************************)
(* Properties.                                                             *)
(***************************************************************************)

\* The files of a message were uploaded by its author in its channel, although
\* link_attachments_to_message checks neither and validate_for_message ran
\* before the message existed; a reply refers to a stored message of its own
\* channel, also after purges.
ReferencesHold ==
  /\ \A a \in AttachmentIds :
       LET m == attachments[a].message
       IN  m # NoMessage =>
             /\ Stored(m)
             /\ attachments[a].uploader = messages[m].author
             /\ attachments[a].channel = messages[m].channel
  /\ \A m \in MessageIds :
       messages[m].reply # NoMessage =>
         /\ Stored(messages[m].reply)
         /\ messages[messages[m].reply].channel = messages[m].channel

\* What message.created tells clients stays true: a listed file has content and
\* belongs to that message until one of the two is purged, and the message says
\* something (normalize_content lets it be empty only with files, embeds or components).
AnnouncedWhole ==
  \A e \in created :
    Stored(e.message) =>
      /\ \A a \in e.files :
           Exists(a) => attachments[a].message = e.message /\ attachments[a].stored
      /\ \/ messages[e.message].content.len > 0
         \/ messages[e.message].embeds # <<>> \/ messages[e.message].components > 0
         \/ e.files # {}

\* Once a file belongs to a stored message its content and its message stay,
\* whatever uploads and creations were under way when it was linked.
LinkedFrozen ==
  [][\A a \in AttachmentIds :
       LET m == attachments[a].message
       IN  m # NoMessage /\ messages'[m].state # "purged" /\ attachments'[a].status # "purged"
             => attachments'[a] = attachments[a]]_vars

\* For the property below: an embed with a time RFC 3339 can write.
Retimed(e) == IF ValidTimestamp(e) THEN e ELSE [e EXCEPT !["timestamp"] = Json("time", 24)]

\* The columns of a stored message agree: it mentions nobody its content does
\* not mention, whichever route wrote it last, and its embeds are within every
\* limit and would be stored as they are if they were sent again, but for a
\* timestamp that has left the years of RFC 3339 on its way to UTC.
RowsConsistent ==
  \A m \in MessageIds :
    Stored(m) =>
      /\ messages[m].mentions \subseteq messages[m].content.mentions
      /\ Len(messages[m].embeds) <= MaxEmbeds
      /\ \A i \in 1..Len(messages[m].embeds) :
           LET e == Retimed(messages[m].embeds[i])
           IN  ValidEmbed(e) /\ NormalizeEmbed(e) = e
=============================================================================
