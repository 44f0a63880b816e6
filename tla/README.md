# A verification project for opencord-server

opencord-server is a self-hosted team chat server in Rust: a REST API over
PostgreSQL, a native websocket, a Discord-compatible REST API and gateway, and
a worker process. This directory holds TLA+ models of its parts, TLC
configurations that check them on small instances, and proofs that TLAPS checks
for every instance. Paths below are relative to the repository.

    tlc -workers 2 -config gateway_sessions.cfg MCCompatGateway
    tlapm CompatGatewayProofs.tla

`PROJECT.json` lists the components, runs, mutants, findings, hazards and
theorems, and maps every definition to the lines it models.

## Inventory

| part | state | operations | hard behaviour |
|---|---|---|---|
| compat gateway (`controllers/compat_gateway_controller.rs`, `repositories/compat_gateway_*.rs`) | per socket: bot, session, intents, sequence, hub receiver; tables of sessions and replay rows | IDENTIFY, RESUME with replay, heartbeat, event dispatch | handlers suspend between reading and writing a session; two sockets on one session; expiry; ignored store errors; crashes between store, send, count |
| realtime hub (`domain/realtime.rs`) | broadcast channel of 1024 | publish, subscribe | receivers that lag lose events silently |
| native websocket (`controllers/realtime_controller.rs`) | hub receiver per socket | filter and forward events, typing | permission read at delivery time |
| meetings (`domain/meeting.rs`, `controllers/meeting_controller.rs`, `repositories/meeting_*.rs`) | meetings, attendees, reminders | create, PATCH, cancel, ICS, join, calendar sync | read, check, write of whole rows without a version |
| reminder worker (`domain/reminder.rs`, `bin/worker.rs`) | the batch of one run | list due, deliver, mark | several workers, crash between deliver and mark, aborted batches |
| retention worker (`domain/retention.rs`, `bin/worker.rs`) | policies, runs | set a policy; list policies, purge messages, files and audit events, record the run | one statement of four fails; policies and rows change during a run |
| messages, attachments (`domain/message.rs`, `domain/attachment.rs`, their controllers and `compat_controller.rs`) | messages with components, embeds, mentions; attachment rows | create, edit, delete, page; presign, upload, attach | a file checked before and linked after the message is stored; edits that write back a row read earlier; purges in between |
| organizations, spaces, channels, permissions | memberships, invites, roles, overwrites | REST CRUD; `can_in_channel` | checks on rows read earlier; precedence of overwrites |
| authentication, OIDC, SCIM (`domain/auth.rs`, `domain/scim.rs`) | users, sessions, identities, directory users and tokens | register, login, OIDC login, logout, provision, deactivate | several tables written one after the other; three ways to one address; single sign-on required or not while a request runs |
| bots and commands (`domain/command.rs`, `controllers/command_controller.rs`, `repositories/command_*.rs`), webhooks, compat REST | applications, tokens, commands, interactions, follow-ups, webhooks | create command and interaction, callback, deferral, follow-ups, edit and delete by token; execute webhook | callbacks and follow-ups racing on one interaction, decisions on a row read earlier, messages purged under it |
| rate limiting (`domain/rate_limit.rs`) | bucket start and count | check, clear | window edges, rounding, a clock read before the mutex |
| billing (`domain/billing.rs`) | plan of the organization, billing row | provider event | two rows written one after the other |
| calendar sync (`domain/calendar_sync.rs`) | connected accounts, links from meetings to provider events | connect, sync | a made-up event whose link is not stored; two syncs of one meeting; an account connected anew under another external id |
| media and voice (`domain/media.rs`, `controllers/voice_controller.rs`) | none: signed tokens | three routes that hand out tokens | level, roles and overrides read apart for one right after the other; a token outlives them |
| jobs and queue (`jobs/mod.rs`, `queue/`, `events/`) | claimed keys, dead letters, offsets | claim, handle, decide, next | no caller outside the tests |
| push, audit, usage, export, presence, plumbing | records | CRUD, reads | little of their own |

Parts interact through PostgreSQL rows, through the hub (REST handlers publish,
sockets receive), and through permission questions the sockets ask when an
event arrives. There is no lock across two statements anywhere except the
transactions that create a meeting, a space and an organization and that rotate a bot
token: every handler is a sequence of steps other
requests interleave with. That decides how the modules are written: **one step
of a module makes at most one access to shared state.**

## Plan

1. `CompatGateway`, its abstract specification `SessionLog` and its proofs: the
   only part with a protocol of its own, persistent sessions and recovery. Done;
   all its safety properties and the refinement are proved.
2. `MeetingReminders` and its proofs: races of requests and workers. Done;
   all its safety properties are proved.
3. `Interactions`, its abstract specification `InteractionLife` and its proofs:
   commands, interactions and their messages. Done; its safety properties and
   the refinement are proved.
4. `AccessControl` and its proofs: members, roles, overrides and channels of a
   space, permission checks made of several reads, the native websocket. Done;
   all its properties are proved.
5. `Payloads`, `Messages`: bodies of messages, messages and attachments of all
   routes, and `MessagesProofs`. Done; all their properties are proved.
6. `Retention` and its proofs: policies and the worker. Done; its safety
   properties are proved.
7. `Organizations`, `Accounts`: organizations, registration, login, OIDC, SCIM,
   bots, webhooks, billing, and `AccountsProofs`. Done; all their properties are
   proved.
8. `Calendars`, `RateLimits`, `Media`, together with `Accounts` in `SideServices`,
   and `ServicesProofs`. Done; all their properties are proved.
9. For each disagreement of code and documentation, a theorem that says what it
   takes: under which condition the property that a run refutes does hold. Done.

No module with proofs declares a RECURSIVE operator.

## Modules

### CompatGateway and SessionLog

`SessionLog` is what the gateway promises the connections of a session, without
sockets, tasks, tables and failures: a session is a numbered log that only grows at
its end; a connection receives its entries in order, none left out between two
frames; READY and RESUMED are frames of their own under numbers that no entry has.

`CompatGateway` is how `compat_gateway_controller.rs` does it. State. `hub` is the sequence of published event types; `sessions` and `replay`
are the two tables; the variables indexed by socket are the locals of
`handle_gateway_socket` and, in `resuming` and `batch`, of `resume_bot`. `pc`
says before which await a task is suspended. `recv` (frames that reached the
client) and `granted` (which bot passed the checks for which event) are history.

Actions. `Connect`, `SocketEnds`; the client frames `IdentifyRefused`,
`IdentifyFails`, `Identify`, `ResumeRefused`, `ResumeFindsSession`; the rest of
`resume_bot` as `ResumeLists`, `ReplayOne`, `ResumeCompletes`; the event branch
as `SkipLagged`, `TakeEvent`; `send_session_dispatch` as `AppendReplay`,
`SendDispatch`, `UpdateSequence`; and a failing variant wherever a store call or
a send may fail. The environment publishes, lets a session expire, drops a link
(frames sent afterwards vanish, or the send fails) and crashes a task anywhere.

Abstractions. An event is its type, a payload its position in the hub, an intent
mask a set. `can_bot_receive_event` and the payload builders are one free
Boolean: the rows they read change at any time. The two rate limiters are free
too. A session's 24 hours are the action `Expire`. A bot is the triple
(application, organization, bot user) that `resume_session` compares.

The refinement maps `log` to the journal `replay`, `home` to the session a socket is
bound to or resuming, `inbox` to `recv`. It holds for `ApartSpec`, in
which clients send only frames that keep `NoOverlap` (one live connection per session)
and `ResumesFit` (no RESUME lies further behind than one page); every other step is
`Next`'s and is proved to keep both. Without either the log is broken, as `gateway_replay_limit` and the paragraph on
`NumbersNeverReused` below show.

### MeetingReminders

State: the tables `meetings` and `reminders`, `request` (a handler between its
read and its write, with the row it read), `worker` (a worker between the steps
of `run_once`), the clock; `attempts` and `outcomes` are history and `faults`
counts what the environment did.

Actions: `Create`; `ReadMeeting`, then `Update`, `Cancel` or `RequestEnds`;
`List`, `Deliver`, `Mark`; `WorkerFails` (a crash, or a store error while
marking); `Tick`. Requests name instants that are `SubSecond` times finer than a
second. `validate_schedule` compares instants, `format_time` cuts them to
seconds, and the table's own `CHECK (ends_at > starts_at)` has the last word: a
row it refuses is an error and changes nothing.

### Interactions and InteractionLife

`InteractionLife` is what the command routes promise about one interaction,
without requests and tables: created, perhaps deferred, answered at most once
with a message that answers no other interaction, the answer never replaced;
only the retention purge takes an answer, or the interaction, away.

`Interactions` is how `command_controller.rs` does it. State: the tables
`commands`, `rows` (command_interactions), `messages` and `followups`, and
`request`, a handler between two statements with what it kept of the row it read
at the start. `accepted` (answers of success) and `deletes` (successful deletes)
are history, as is the field `made` of a message, the interaction it was posted
for.

Actions: `CreateCommand`, `CreateInteraction`; `ReadComponent` and
`InsertComponent`; `ReadCallback` (type 4 or 5), `MarkDeferred`, `Post`,
`MarkResponded`; `ReadFollowup`, `Post`, `RecordFollowup`, `MarkResponded` if the
row that was read was deferred; the edits and deletes by token as `ReadOriginal`
or `ReadForFollowupWrite` and `LookupFollowup`, then `GetMessage` and
`WriteMessage`. `Abandon` ends a request at any statement: a failed check, a
store error, a client that went away. Other writers: `PostComponents` and
`DeleteMessage` of the REST routes, and `Purge`, the retention worker's DELETE
with what the foreign keys do (a response becomes NULL, follow-ups and the
interactions of the message's components go).

Abstractions. A token is the interaction it belongs to; a wrong token or
application ends the request. Permissions of users and bots, the channel's
existence and the rate limit decide only whether a request is refused, and a
refusal changes nothing. Contents, options and components of messages are left
out. Any set of existing messages may be purged, where the code takes those
older than a cutoff.

The refinement maps `status` and `response` to the columns of `rows`.

### AccessControl

One space. State: the tables `space`, `member`, `orgMembers`, `role`, `assigned`,
`override`, `channel` and `audit`, the hub's `events`, and for every process,
a request in progress or a websocket, the statement it waits for (`pc`), what it
was asked (`request`) and what its earlier statements returned (`read`).
`cursor`, `sent` and `dropped` belong to the websockets. `seen` (the caller was
an active member at some moment of the request) and `barred` (the caller's own
deny has stood since the request began) are history.

Actions. A handler starts (`Begin`) and authorizes its caller: `ReadChannel`,
`ReadSpace`, `ReadRoles`, `ReadOverrides`, as many of them as `require_space` or
`require_channel` makes for this caller, then `Answered` with 403 or the handler's
own statements: `JoinOrganization`, `AddMember`, `RereadMember`; `ReadTarget`,
`RemoveMember`; `CreateRole`; `ReadTarget`, `ReadRole`, `AssignRole`;
`SetOverride`; `CreateChannel`, `UpdateChannel`, `ArchiveChannel`; `UpdateSpace`;
`ReadMembers`, `ArchiveSpace`; then `Audit` where the handler records one, and
`Publish`. A row that is missing ends the request (`Refuses`); `Abandon` ends it
at any statement, for a store error, an invalid field or a client that went away.
A websocket connects, closes, lags behind the hub, sends `typing`, and takes an
event, authorizes it by the same four reads and forwards it or holds it back.

Abstractions. A bitset is a set of permissions, an id of a role or a user says
which kind of override target it is. A slug stands for a channel's name; kind,
topic and position, role names and colours are left out. A PATCH writes back
every column of the row it read, as the code does. Uniqueness of role names and
of space slugs is left to `Abandon`. The tables at the start are parameters;
`StartAssumption` asks of them what `create_space` leaves: one active owner.

### Payloads and Messages

`Payloads` is what the server makes of a body before it stores it: `NormalizeContent`
trims and limits the content, `ValidEmbeds` and `NormalizeEmbeds` are
`normalize_embeds` part by part (unknown keys refused, blank parts dropped, limits
on each part, on the number of fields and on the total), `ResolveMentions` the
allowed mentions of the compat routes. A text is its length and the white space
around it; a JSON value is its kind with what the code looks at. One length stands for
the bytes that the code measures in some places and the characters it measures in
others: no property tells them apart. The limits are constants. A timestamp is
converted to UTC (`ToUtc`), which is its own normal form except at the edge of the
years: `9999-12-31T23:59:59-01:00` is accepted and stored as a text that begins with
`+10000-`, which the server would refuse if it were sent again (kind `edge`).

`Messages` has the tables `messages` and `attachments` and a `request` per handler
between two statements. The native `create` is `CreateBegin`, one `ValidateFile`
per file, `CreateStore`, one `LinkFile` per file, `Announce`; the compat one has
`BotFileBegin` and `BotFileWrite` for the files of a multipart request (stored
before the message is) and `BotReply` for a reference. Edits read the row
(`EditBegin`) and write it back (`EditStore`); `Delete` and `BotDelete` are one
conditional UPDATE; `Presign`, `UploadBegin` and `UploadWrite` make a file;
`Execute` is a webhook's message; `Purge` is what the retention worker deletes,
with the foreign keys. `created` is the history of message.created events.
Permissions and tokens are answered freely here.

### Retention

State: the clock `today`, the table `policies`, the `rows` of messages, attachments
and audit events with their ages, and for each worker what its run holds:
the policies it listed (in the order of `list_policies`), the time it read, the
table it is at. A run begins
(`RunBegins`), takes one statement per table and organization (`PurgeStep`) and
records itself (`RecordRun`); `StepFails` ends it at any statement. A dry run counts
and deletes nothing. Rows are inserted and deleted and policies set at any time.

### Organizations and Accounts

`Organizations` has the tables of organizations, members and custom domains, the
forms that what people write takes before it is stored, and one operator per SQL
statement. `Accounts` adds users, sessions, identities, SCIM, bot applications and
webhooks, and puts the statements together into requests: `Register` and `Login`
(`CheckSso`, `RegisterFind`, `RegisterCreate` or `LoginFind`, `OpenSession`), the
OIDC callback in its seven statements, SCIM provisioning and patch, `ConfigureProvider`,
custom domains (`DomainBegin` reads the membership, then `CreateCustomDomain` or
`VerifyCustomDomain`), billing events (`BillPlan`, `BillRow`), the creation of applications, rotations,
invitations, webhooks and their execution. A hash or token is the id of what it
stands for, and a subject belongs to one issuer (`IssuerOf`): a provider configured for
another issuer gives its users a second identity. The rotation of a bot token is a transaction under READ COMMITTED, so its
UPDATE and its INSERT are two steps that other rotations get between. `history`
holds what the properties look back on.

### Calendars, RateLimits, Media, SideServices

`Calendars`: `ConnectAccount` upserts an account, one per user and provider; a second
connection, also of another external account, overwrites the row and keeps its id,
so its links go on naming the events of the previous one. A sync is `SyncMeeting`,
`SyncAccount`, `SyncExisting`, `SyncProvider`, `SyncStore`, and `SyncEnds` cuts it
off. The adapters that are wired in (`state.rs`) make up an event id and call nobody.
`events` (what each id was made up for), `told` (what syncs answered) and
`overlapped` (two syncs missed one link at a time) are history.

`RateLimits`: one limiter. A call reads the clock (`Arrive`) and is counted when it
gets the mutex (`Check`), so times reach a bucket out of order; `MaxDelay` is the
longest it waits. `Clear` and the clock; `granted`, when the calls of each caller were
admitted, and `refused` are history. Ticks are half seconds, because the answer names
whole seconds.

`Media`: `JoinVoice`, `CreateRoomToken` and `CreateMeetingToken` start a request and
say what it has to establish, in order (`todo`). `ReadMember` reads the level;
for each right `can_in_channel` passes an administrator (`AdminPasses`) or reads the
roles (`ReadRoles`) and then the overrides (`ReadOverrides`); `CheckStatus` looks at the
status a meeting had when it was read; `Issue` signs the token and announces a join. A
meeting may be held in a channel, in a space without a channel (membership is all
that is asked) or in the organization (nothing more is). Meanwhile members, roles
and overrides change and meetings are cancelled (who may do that is
`AccessControl`'s). `seen` of a request and of its token is history: what the user had,
what was offered and what was barred, at the moments of the request.

`SideServices` is the conjunction of these three and `Accounts`, which share no
variable.

## Runs

| run | checks | instance |
|---|---|---|
| `gateway_sessions` | `ConnectionOrder`, `OnlyGranted`, `WriteAhead`, `SessionMonotone` | 2 sockets, 2 bots, 1 session, 1 event of 2 types, hub of 1 |
| `gateway_resume` | `NumbersNeverReused`, `StreamIsWhole`, `LogSpec`, `HandlersFinish`, `QueueDrains` | 2 sockets that do not overlap, the client of one of them reads, 1 bot, 1 session, 3 events, hub of 1, replay limit 2, fair |
| `gateway_replay_limit` | finds `ResumeReplaysAll` violated | 2 sockets, 2 events, replay limit 1 |
| `workers` | `MarkedAfterDelivery`, `DuplicatesBounded`, `SettledIsFinal`, `DueIsSettled` (MeetingReminders); `PolicyApplied`, `ExpiredIsPurged` (Retention) | reminders: 2 meetings with one each, 1 request, 2 workers, batch of 1, 1 fault, fair; retention: 2 organizations with a row each, 1 worker, dry or not, 3 policies, 3 days, 1 fault, fair |
| `meeting_cancel_race` | finds `CancelledStaysCancelled` violated | 1 meeting, 2 requests |
| `interactions` | `AcceptedIsStored`, `AcknowledgedFirst`, `DeletedOnce`, `OwnMessagesOnly`, `LifeSpec` | 2 interactions, 2 messages, 2 requests at a time, 1 application, 1 channel |
| `interactions_original` | finds `OriginalExcluded` violated | 1 interaction, 1 message, 2 requests at a time |
| `access` | `OwnerKept`, `OwnerNeverForbidden`, `MembersOnly`, `MemberDenyWins`, `ArchivedFrozen`, `DecidesByPrecedence` | 3 users, 2 roles, 2 channels, 2 requests at a time, 3 in all, 1 websocket |
| `access_native_deletion` | finds `DeletionReachesOwner` violated | 1 request, the owner's websocket |
| `messages` | `ReferencesHold`, `AnnouncedWhole`, `RowsConsistent`, `LinkedFrozen` | a user, a bot, a webhook, 2 channels, 2 message ids, 1 file, 2 requests at a time, 3 in all, 1 purge |
| `services` | `TypesOK`; `OneAccount`, `SsoHolds`, `RotatedOut`, `PlanAsBilled`, `OverridesHold` (Accounts); `SyncedOnce` (Calendars); `LimitHolds` (RateLimits); `TokensHold` (Media) | see below |
| `calendar_idempotent` | finds `SyncIdempotent` violated | the calendars of `services` |

The types of the gateway, the meetings, the interactions, of access control, messages
and retention are proved for every instance and not checked again here, nor are three
properties of `AccessControl`: `AssignedAreMembers`, `DeletedOnce` and
`OwnerHearsTheRest`, which needs a websocket of the owner beside the member's. The run
`services` checks types too, because there a type says that what people send is
stored in its normal form.

`services` checks four components that share no variable, and `workers` the two loops of
the worker process; `side`, or `loop`, chooses one of them at the start, which is
enough, because a step of one neither enables nor disturbs a step of another.
Accounts: a founded organization and a name for a second, two addresses (one in two
spellings, and an invalid one), two issuers, three subjects, four requests, two at a
time. Calendars: two people who manage one meeting of two, two services, two external
accounts, four calls, two syncs at a time. Limits: limit 2, a window of two seconds, two
spellings of one caller, two calls at the mutex for half a second at most, a little
more than two windows. Media: a voice channel, a role, a meeting in the channel, one in
the space and one in the organization, every start of levels, roles and overrides, one
request, two changes at any moment of it, tokens that expire after one of two ticks.

Why these bounds. What can go wrong between connections needs two of them on one
session, overlapping or one after the other. Two bots are
enough for one to reach for the other's session. Three events overfill a hub of one,
so receivers lag, and give a replay of two rows in order and one that the limit of
two would cut. `MaxSeq` covers
every number a server sends in these behaviours, so clients ask to resume from
numbers behind, at and ahead of the stored one. Two workers give a stale batch,
one fault a crash at every step; the clock stops at 1, which leaves
reminders that are due at once, due later and never due. Interactions race in pairs:
two requests at a time, any number one after the other, on two interactions of
one application in one channel, so that nothing but the tables keeps their
messages apart; two messages are two answers that compete, or an answer and a
component's message. In `access` two requests
race, and a third is the one that prepared the ground (a role assigned, an
override set, a member removed) or a second rival; an owner, a member and a user
without a membership row are the three kinds of callers and targets, and the
role at hand grants the permission that the overrides deny. Requests of the menu
are those whose effects meet: every kind of request is in it. In `messages` three
requests are enough for two creations that compete for one file while a third
uploads it again, or for an edit between the read and the write of another; the
bodies and embeds are each a boundary of one limit. In the retention half of `workers` a fault in the
first organization delays the second, and three days are on both sides of every
limit. In `services` a third request is the administrator who changes the rules under the other
two and a fourth the one that set them up; one request for a token is enough,
since requests for tokens never meet, and two changes are what it takes to mix the
moments of one check (a role with a deny given, a deny of the member's own lifted).
A window and the next one are all that calls around an edge can fall into. Connecting
an account, two syncs and one more call are a race and what comes after it. Sockets, sessions,
bots, workers, requests, interactions and messages are symmetric; symmetry is not used where liveness is checked.
`CHECK_DEADLOCK FALSE`: when every socket is closed and the event budget is
spent, every reminder is settled and the clock is at its bound, every
interaction and message id is used up, or the requests are done, the instance has nothing left to do.

`NumbersNeverReused` and `StreamIsWhole` are stated for behaviours in which the
connections of a session do not overlap (`NoOverlap`): nothing in the code ties a
session to one socket, and two live connections of one session do hand out the same
number twice. They also ask that no RESUME lies further behind the journal than one
page of `ReplayLimit` rows (`ResumesFit`). Without that TLC finds a reuse with two
connections, two events and a page of one row: after lost updates the page hides the
journal's last row, and RESUMED takes the number that row has. `gateway_resume` runs
`ApartSpec`, which has exactly the behaviours of `Spec` that meet both hypotheses;
three events and a page of two rows leave resumes that the second one cuts off.

## Fairness

`FairApartSpec` of the gateway. The steps of a handler that wait for a statement
(`Stores`) are weakly fair for every socket: tokio polls a woken task, and a database
call returns with a result or an error. A send is another matter. `socket.send` has no
timeout and no heartbeat is enforced, so a client that stops reading may hold its
handler in a send for ever. Sends are weakly fair only for the sockets in
`Readers`, whose clients read on or are gone. For them `Receive` is strongly fair, since
`tokio::select!` picks at random between ready branches, so client frames cannot
starve the event branch for ever. Nothing else is assumed of clients, publishers,
links or expiry. What `HandlersFinish` and `QueueDrains` then say is that a client
that has stopped reading holds up its own connection and no other.

`MCSpec` of the workers. Each worker's `RunOnce` is weakly fair, since
`run_reminder_loop` ticks for ever, swallows errors and its awaits return; requests and
the clock are free. Each retention worker's `Work` is weakly fair for the same reason;
nothing is assumed of requests, rows or the clock.

## Proofs

A leaf that needs more than about a second names its backend and allows it a minute
(`SMTT(60)`, `ZenonT(60)`): mostly that a large request record with one field changed is
still of its type. The other leaves keep the defaults and are proved at once.

`CompatGatewayProofs`, from `LimitsAssumption` and `NamesAssumption`:

* `TypeInvariant`, `TypeCorrect`. `TypeOK` alone is not inductive: what a
  handler's next step reads depends on where it is suspended. `Control` adds
  which locals are set at which label of `pc` (a resuming task has a session, a
  task about to store has a pending event and is bound), and the two together
  are.
* `OrderInvariant`, `ConnectionOrdered`. That the numbers a connection received
  increase says nothing about the next one. `OrderInv` adds `JournalKey` (a
  journal has one row per number, the table's primary key) and, for every
  socket, that what was received lies below whatever it will send next: its
  sequence, the rows left in the batch, or the number after the replay,
  according to its control state. One step per action shows it is kept, and
  `ConnectionOrder` follows.
* `SessionsMonotone`: `SessionMonotone`, from the types alone, action by action.
* `SeesInvariant`, `OnlyGrantedSent`, `WrittenAhead`. An event reaches a client
  through a check made by one connection, a journal row, and perhaps the replay of
  another connection much later. `SeesInv` follows it: every row is of a granted
  event and an intent of its session (`JournalGranted`), and so is what each
  socket is bound to, is dispatching, has left in its batch and has received
  (`SocketSees`). The shared tables only grow (`KnowledgeKept`), so a step of one
  socket takes nothing from what another one holds.
* `NumbersInvariant`, `NumbersUnique`: `NumbersNeverReused`, under its two hypotheses
  `NoOverlap` and `ResumesFit`. Frames of closed connections have to agree with
  frames a later one will send, and a READY or RESUMED frame leaves no row: the next
  connection knows of it only by a stored sequence whose update may be lost.
  `FramesHold` says that a dispatch a client holds is its row in the journal for
  ever, and that READY and RESUMED have numbers that no row has and that lie at most
  one above everything stored (`AtMostNext`). `TaskNumbers` says what a connection
  relies on: what it found (`Found`), that it continues after everything stored and
  from no further (`Listed`, where `ResumesFit` is used), and that rows and frames of
  its session stay below the number it is about to store (`Numbered`, kept while
  others move because of `NoOverlap`).
* `StreamInvariant`, `StreamsWhole`: `StreamIsWhole`, under the same hypotheses. A hole
  could open between the replay and the first live dispatch, so the invariant follows
  the rows a client lacks: while it replays, each is in the batch or received
  (`Replayed`; here `ResumesFit` says the page was whole); afterwards each is received
  or about to be sent (`CaughtUp`). What was received has no hole (`Whole`), and no new
  row falls into one because it is numbered above every frame of its session
  (`RowsAbove`, from `NumbersInv`).
* `RefinesLog`: `ApartSpec => LogSpec`. `NextApart` shows that only a client's frame
  could end `NoOverlap` or `ResumesFit`: a row stored while another socket lists would
  be of the same session, which `NoOverlap` excludes. Storing a row is `Grow`, each frame a client
  receives is `Receive`, binding and resuming are `Bind`, everything else stutters. A
  behaviour of `ApartSpec` is one of `Spec` with both hypotheses, so the invariants
  above hold of it: `OrderInv` gives the order, `SeesInv` and `NumbersInv` that a
  frame is a row or has a number of its own, `StreamInv` that nothing is left out.

`MeetingRemindersProofs`, from `MeetingsAssumption`:

* `TypeCorrect`: `TypeOK` is inductive here. The work is in the arithmetic of
  `FormatTime` and `ParseTime`.
* `LifeInvariant`: a reminder exists only with its meeting (`Created`), a request
  holds a meeting that exists (`HoldsMeeting`), a worker about to mark has an
  outcome to report (`HasOutcome`). From it follow `Marked`
  (`MarkedAfterDelivery`) and `Final` (`SettledIsFinal`: without `Created` a
  `Create` could reset a settled reminder).
* `PaidInvariant`, `Duplicates`. `DuplicatesBounded` counts deliveries over the
  life of a reminder, so the invariant counts who may still deliver. While a
  reminder is pending, its deliveries are at most the workers about to mark it
  plus the faults (`PaidPending`); once it is settled, its deliveries and the
  workers that still hold it in a stale batch are together at most all workers
  plus the faults (`PaidSettled`). Marking moves from the first to the second
  because no worker both marks and holds a reminder (`Apart`), so the two sets
  together are no more than `Workers` (`MarkersAndHolders`).
* `NoLostUpdate`, `CancelledForGood`: the converse of `meeting_cancel_race`. While two
  requests on one meeting never overlap (`RequestsApart`), the row a handler holds is
  the row that is stored (`RowsCurrent`: nobody else writes it, and `Life` says that
  `Create` does not), so a PATCH writes the cancellation back as it is, and
  `CancelledStaysCancelled` holds.

`InteractionsProofs`, from `NamesAssumption` (the null ids are not ids, there is an
application and a channel):

* `Invariant`. The races are about messages between two statements, so `IInv` says
  what a request holds there: `Control` (which statement each kind of request
  waits for), `PostedInv` (a posted message was made for the request's
  interaction, is held by no other request and is nobody's response yet),
  `AckInv` (a follow-up that will not answer the interaction holds an answered
  one), `WriteInv` (a write past its lookup holds a message made for its
  interaction). `ResponseInv`, `FollowupInv` and `DeleteInv` say the same of the
  tables. Steps that only move a request are settled by one lemma (`Moves`),
  steps that end a request and change a table by another (`RequestsKept`).
* `TypeCorrect`, `Accepted`, `Acknowledged`, `Deleted` and `OwnMessages` follow: all
  other properties of the run `interactions`, for every number of interactions,
  messages and requests.
* `Refines`: `Spec => LifeSpec`. The inserts are `Create`, the two conditional updates
  `Defer` and `Respond` (that no other interaction has the response is
  `PostedInv`), the purge is `Purge`, every other step stutters.
* `OriginalSpared`: the converse of `interactions_original`. While no edit or delete
  of a follow-up runs beside the follow-up that answers its deferred interaction
  (`AnswersApart`), `OriginalExcluded` holds. A callback may still store its message
  as the response after the writer compared with a row that had none; `SpareInv` says
  why that is harmless: what a callback has posted is in no follow-up row
  (`CallbacksApart`) and was found by no lookup (`FoundNoCallback`), so a writer that
  named it is refused by the lookup to come (`Misses`).

`AccessControlProofs`, from `IdsAssumption`, `MenuAssumption` and `StartAssumption`:

* `Inductive`: the invariant `IInv`. What the properties say of a process at one
  stage depends on what it found at earlier ones, so `Good` says, stage by stage,
  what a request promises: `Shape` (which requests reach the stage; that a caller
  who had to be looked up is not the owner, and a member about to be removed is
  not), `Checked` (a caller past the check was seen to be a member; a bar that
  still stands in the history stands in the table, and ends at the check; the
  base that was read is that of the level and the roles), `Witnessed` (the
  history has noticed a caller who is a member now), `Assigning` (target and role
  of an assignment exist). `TablesGood` says of the tables what these rely on, and
  `OneAnnouncer` that one process at most is about to announce a channel deleted.
  Steps that move one process are settled by `Moves`; steps that write a table by
  `Writes`, which asks that the write is `Steady`: it takes no row and no role
  away, does not revive a channel, and keeps the history's promises.
* All properties of the run `access`, type correctness, `AssignedAreMembers` and
  `DeletedOnce` follow, for any number of users, roles,
  channels, requests and websockets. `PrecedenceDecides` needs no step of another
  process: it is the algebra of `apply_channel_overrides` (`EffectiveFacts`) put
  together with `Checked`.
* `OwnerHears`: while the space stands, the owner's websocket holds back events of
  archived channels and nothing else (`OwnerHearsTheRest`), the converse of
  `access_native_deletion`. `HearInv` adds to `IInv` that nothing is announced of a
  channel that was never made (`KnownChannels`, `EventChannels`), and that a socket
  looks up the channel of the event it took (`Receivers`); rows are made and archived,
  never unmade (`RowsAge`). A refusal at the lookup then means an archived channel, one
  at the membership an archived space (`OwnerKept`), and there is no third
  (`OwnerNeverForbidden`).

`MessagesProofs`, from the assumptions of `Payloads` and `Messages` (limits are
numbers, what is sent has the parts the routes read):

* `MessagesInvariant`. A creation checks its files, stores the message and links the
  files later, while uploads, other creations and purges go on. `MessagesInv` says
  of the tables how messages, files and mentions fit together (`FilesHold`,
  `MentionsHold`), of a request what it still knows of the rows it read
  (`RequestHolds`: a checked file is its author's and of its channel as long as it is
  there, the row to be written back was stored once), and of an announced event
  that it was true and stays so until a purge (`EventHolds`). How any action ages a
  row is stated once, and requests that do not move keep their part by it.
* `MessagesTyped`, `ReferencesSound`, `AnnouncedTrue` and `LinksFrozen` follow.
* `RowsAgree`. That stored embeds are fixed points of `normalize_embeds` is a fact
  about the operators of `Payloads`: lemmas from `TrimScalar` up to
  `NormalizedEmbeds` show, part by part, that the normal form is valid and is its
  own normal form. A timestamp at the edge of the years is the exception; `RetimedEmbed`
  says that nothing else of such an embed is. The total of the lengths is a fold the provers cannot unfold; all
  that is used of it is that equal lengths have equal totals.

`RetentionProofs`, from `RetentionAssumption`: `RetentionInv` adds to the types what a
run has already done: it has an organization to work on, its time has come, and a
real run has left nothing due in the tables it is through with (`Running`, `Through`).
A row inserted meanwhile is too young to be due at the time the run read.
`RetentionTyped` and `PoliciesApplied` follow, for any number of workers.

`AccountsProofs`, from `OrganizationsAssumption` and `AccountsAssumption`:

* `AccountsInvariant`. `AccountsInv` has the types and five parts. `AccountsHold` and
  `SessionHolds`: the unique columns, and that a session's account has the password
  or the identity it was opened with. `TokensInv`: a token is in one row of one table
  (`TokenApart`), so that retiring one row's token locks out all it opened.
  `RequestHolds` says what each request relies on between two statements: a password
  request past `CheckSso` was free at some moment, one about to open a session has
  its proof, a rotation's old tokens are seen or inactive, an execution past the
  policy was allowed to override. `BillingInv`: a billing event between its statements
  is alone with its organization and has set the plan, or the organization counts as
  torn.
* Steps are put together from what they do to each table (`Whole`): tables age
  (`TablesAge`: accounts, identities and issued tokens stay), requests that do not
  move keep what they rely on (`RequestKept`), and one that moves comes to hold it.
  The steps that change what others wait to be told, `ConfigureProvider` and
  `UpsertWebhookPolicy`, go through `RulesMove`; the four of billing have their own.
* `AccountsUnique`, `SsoKept`, `RetiredLockedOut`, `PlansBilled` and `OverridesAllowed`
  follow, for any number of requests at a time.

`ServicesProofs`, from the assumptions of `Calendars`, `RateLimits` and `Media`:

* `MediaInvariant`, `TokensGranted`. Level, roles and overrides are read at different
  moments, so that a right was granted does not mean that it was held. `JoinNow` says
  how what a request has read compares with the tables now: the rights of its level
  were offered, its roles are still assigned (none is ever taken back), and level and
  roles are those of the tables while the history is `steady`. `JoinDone` says that every check it is past is `Sound`: some
  source gave the right, no deny of the user's own stood all along, and it was held at
  some moment if level and roles stayed. `Sound` is kept as the history grows, whatever
  changes, and a token has no check left to pass.
* `LimitInvariant`, `LimitKept`. The calls of the running window are the last ones of
  the history, at most `Limit`; the window's start lies at most `MaxDelay` before the
  first of them was admitted, and all calls `Limit` or more before that one came by
  `MaxDelay` after a window before that start (`WindowHolds`). A call counted late, with a time before the window's
  start, does not renew it. Of 2 * Limit calls the first and the last are then at
  least `Window - MaxDelay` apart; with a mutex that never waits that is the window.
  `RefusalHolds` is the arithmetic of the rounded wait.
* `CalendarInvariant`, `CopiedOnce`. A link names an event that was answered, and what
  was answered was made up for that meeting, user and provider (`SyncHolds` says the
  same of what a sync is about to store). As long as no two syncs have missed the
  link at a time, one that missed it is alone and nothing was answered before; once
  something was, the link is there and holds it (`OneEvent`). A new connection keeps
  the account's id and so all of that.
* `TypesHold`: `TypesOK` of the four services together, from the invariants of each
  (`AccountsInv` of `AccountsProofs` among them), each extended by the types it needs.

Liveness (`HandlersFinish`, `QueueDrains`, `DueIsSettled`, `ExpiredIsPurged`) stays
with TLC: it is out of the prover's reach, as is ENABLED. Every other property that a
passing run checks is proved, and `CopiedOnce` is the converse of the run
`calendar_idempotent`. The theorems `CancelledForGood`, `OriginalSpared` and
`OwnerHears` are proved and not among the runs: the first two have the form
`[]P => [][A]_v`, which TLC does not take as a property.

## Findings

* `gateway_replay_limit`: RESUME replays at most 100 rows
  (`GATEWAY_REPLAY_LIMIT`, `compat_gateway_controller.rs:692`) and then sends
  RESUMED with a number behind the whole journal. `openapi/openapi.yaml:721`
  promises the stored dispatches with larger numbers, without a limit. `StreamsWhole`
  shows that nothing but that limit, or a second live connection, loses a row.
* `meeting_cancel_race`: a PATCH that read a meeting before it was cancelled
  writes `status = 'scheduled'` back (`domain/meeting.rs:269`,
  `update_meeting`), and the worker delivers its reminders again. `CancelledForGood`
  shows that it takes two requests on one meeting at a time.
* `interactions_original`: the follow-up route refuses the original response by the
  row it read first (`command_controller.rs:528`). The first follow-up of a
  deferred interaction is recorded as a follow-up and then stored as the
  response, so an edit or delete that read the row in between reaches the
  original response. `openapi/openapi.yaml:634` says it is "intentionally
  excluded from this route". `OriginalSpared` shows that this is the only way.
* `access_native_deletion`: `can_receive_event` (`realtime_controller.rs:169`) looks
  the channel of an event up, and an archived channel is not found, so no native
  websocket forwards `channel.deleted`. `openapi/openapi.yaml:2477` says that
  archived channels "emit a realtime channel deletion event for connected
  clients". `OwnerHears` shows that the owner's websocket holds nothing else back.
* `calendar_idempotent`: `sync_provider_meeting` (`domain/calendar_sync.rs:388`) looks
  for the link of a meeting, makes up an event when there is none and stores the link
  after it. Two syncs that both look before either has stored answer two different
  events. `openapi/openapi.yaml:2074` (and 2105, 2136) says that the operation "is
  idempotent for the current user, meeting, and provider account". `CopiedOnce` shows
  that it takes two syncs that look at a time.

## Not modelled

* Job primitives (`jobs/mod.rs`), event queue (`queue/`, `events/`), presence store
  (`scylla/`), `InMemoryRealtimeReplayStore`: library code that only tests call.
* Push tokens: one upsert of one row that nothing reads. Usage, data export, lists,
  pagination and audit exports: reads without a state of their own.
* ICS files, attendees and join links of meetings, texts, colours, positions and
  kinds that no other part depends on; the compat routes that only convert what
  other parts return.
* Password hashing, token signing, object storage and the protocols of calendar
  services: pure conversion or third-party code, taken to tell values apart.
* The in-memory repositories, which are the same operations under one lock and
  serve tests and local runs; configuration, CORS, metrics, seed data, migrations
  beyond the constraints the models use.

Some behaviours are in the models and no property forbids them, because nothing
in the repository promises otherwise:

* an edit of a message writes back components read earlier;
* a login through the identity provider, or an invitation of a bot, makes a member
  active again whom SCIM had deactivated;
* a member is added and then the audit row cannot be stored;
* a schedule whose two instants fall into one second passes `validate_schedule` and
  is refused by the table's `CHECK`;
* a media token may grant a right that its holder had at no single moment: a
  member's own deny stands while the roles are read, then a role with a deny is
  given, the member's deny is lifted, and the overrides are read for the roles
  that were there before. `TokensHold` says what is left of the promise;
* of a rate limiter's calls, 2 * Limit may be admitted a little less than a window
  apart, by what one of them waited for the mutex;
* an embed's timestamp is stored outside the four-digit years;
* links of a meeting go on naming the events of an external calendar account that
  another one has replaced.
