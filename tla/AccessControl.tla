---------------------------- MODULE AccessControl ---------------------------
(***************************************************************************)
(* Members, roles, channel overrides and channels of one space, and who    *)
(* may change or see them: controllers/permission_controller.rs,           *)
(* space_controller.rs, channel_controller.rs and the native websocket of  *)
(* realtime_controller.rs, over domain/permission.rs, space.rs, channel.rs *)
(* and their Postgres tables.                                              *)
(*                                                                         *)
(* A handler authorizes its caller with up to four SELECTs (channel,       *)
(* membership, assigned roles, overrides) and then works with what it      *)
(* read; only the create-space transaction groups statements.  `pc' names  *)
(* the statement a request waits for and each step makes one access to the *)
(* database, so requests interleave between any two of them.  A websocket  *)
(* is a process too: it authorizes every event it forwards the same way.   *)
(*                                                                         *)
(* The tables of the space when observation starts are parameters; a space *)
(* is created together with its owner's membership.                        *)
(***************************************************************************)
EXTENDS Naturals, Sequences

CONSTANTS
  Users, Owner,          \* users, and the one who created the space
  RoleIds, Channels,     \* ids, used or not yet used
  Names,                 \* slugs of channels and of the space
  Workers,               \* requests in progress at one time
  Sockets, SocketUser,   \* native websockets, and the user of each
  Menu,                  \* requests that clients send
  StartMember, StartRole, StartChannel,
  MaxRequests,           \* bound: requests sent in one behaviour
  NoName, NoChannel

Permissions ==
  {"VIEW_CHANNEL", "SEND_MESSAGES", "MANAGE_MESSAGES", "MANAGE_CHANNELS",
   "MANAGE_ROLES", "INVITE_MEMBERS", "MANAGE_SPACE", "CONNECT_VOICE", "SPEAK",
   "SHARE_SCREEN", "USE_VIDEO"}

Procs   == Workers \cup Sockets
Targets == Users \cup RoleIds
Levels  == {"none", "owner", "admin", "member", "guest"}

SpaceOps   == {"addMember", "removeMember", "createRole", "assignRole",
               "createChannel", "updateSpace", "deleteSpace"}
ChannelOps == {"setOverride", "updateChannel", "deleteChannel", "typing", "receive"}
SocketOps  == {"typing", "receive"}
Ops        == SpaceOps \cup ChannelOps

Member  == [level : Levels, active : BOOLEAN]
Role    == [made : BOOLEAN, grants : SUBSET Permissions]
Channel == [state : {"absent", "live", "archived"}, name : Names \cup {NoName},
            privacy : {"public", "private"}]

\* One request: the caller, and of the other fields those its kind needs.
\* A PATCH leaves out a field by NoName or "keep".
Request == [op : Ops, user : Users, channel : Channels, target : Targets,
            role : RoleIds, level : {"member", "guest"},
            allow : SUBSET Permissions, deny : SUBSET Permissions,
            name : Names \cup {NoName}, privacy : {"public", "private", "keep"}]

EventTypes ==
  {"space.member.added", "space.member.removed", "space.updated", "space.deleted",
   "media.permission_revoked", "channel.created", "channel.updated", "channel.deleted",
   "typing.started"}

Event == [type : EventTypes, channel : Channels \cup {NoChannel}, members : SUBSET Users]

ASSUME IdsAssumption ==
  /\ Owner \in Users
  /\ Users \cap RoleIds = {} /\ Workers \cap Sockets = {}
  /\ SocketUser \in [Sockets -> Users]
  /\ NoName \notin Names /\ NoChannel \notin Channels
  /\ Names # {} /\ Channels # {} /\ RoleIds # {}
  /\ MaxRequests \in Nat

ASSUME MenuAssumption ==
  \A q \in Menu : /\ q \in Request
                  /\ q.op # "receive"
                  /\ q.op \in {"addMember", "removeMember", "assignRole"}
                       => q.target \in Users
                  /\ q.op = "createChannel" => q.name # NoName

ASSUME StartAssumption ==
  /\ StartMember \in [Users -> Member]
  /\ \A u \in Users : StartMember[u].level \in {"owner", "admin"} <=> u = Owner
  /\ StartMember[Owner] = [level |-> "owner", active |-> TRUE]
  /\ \A u \in Users : StartMember[u].active => StartMember[u].level # "none"
  /\ StartRole \in [RoleIds -> Role]
  /\ StartChannel \in [Channels -> Channel]

VARIABLES
  space,       \* spaces: the row of this space
  member,      \* space_members
  orgMembers,  \* organization_members that are active
  role,        \* roles
  assigned,    \* role_assignments
  override,    \* channel_permission_overrides; no row is an empty row
  channel,     \* channels
  audit,       \* audit_events: the requests recorded
  events,      \* the hub's broadcast channel
  pc, request, \* per process: the statement it waits for, what it was asked
  read,        \* per process: what its earlier statements returned
  cursor,      \* per socket: events taken from the hub
  sent,        \* per socket: the events forwarded to the client
  dropped,     \* per socket: the events held back for what the tables say
  begun,       \* requests sent
  seen,        \* history: caller was an active member during the request
  barred       \* history: a member deny stood since the request began

tables  == <<space, member, orgMembers, role, assigned, override, channel, audit>>
tasks   == <<pc, request, read>>
sockets == <<cursor, sent, dropped>>
history == <<seen, barred>>
vars    == <<tables, events, tasks, sockets, begun, history>>

Stages == {"closed", "idle", "channel", "space", "roles", "overrides", "forbidden",
           "organization", "target", "role", "members", "write", "reread", "audit",
           "publish", "forward"}

AnyChannel == CHOOSE c \in Channels : TRUE
AnyRole    == CHOOSE r \in RoleIds : TRUE
AnyName    == CHOOSE n \in Names : TRUE

NoRequest == [op |-> "receive", user |-> Owner, channel |-> AnyChannel,
              target |-> Owner, role |-> AnyRole, level |-> "member",
              allow |-> {}, deny |-> {}, name |-> NoName, privacy |-> "keep"]
Nothing   == [row |-> [state |-> "absent", name |-> NoName, privacy |-> "public"],
              level |-> "none", name |-> NoName, roles |-> {}, base |-> {},
              members |-> {}]
Empty     == [allow |-> {}, deny |-> {}]

TypeOK ==
  /\ space \in [archived : BOOLEAN, name : Names]
  /\ member \in [Users -> Member]
  /\ orgMembers \subseteq Users
  /\ role \in [RoleIds -> Role]
  /\ assigned \in [Users -> SUBSET RoleIds]
  /\ override \in [Channels \X Targets ->
                     [allow : SUBSET Permissions, deny : SUBSET Permissions]]
  /\ channel \in [Channels -> Channel]
  /\ audit \subseteq Request
  /\ events \in Seq(Event)
  /\ pc \in [Procs -> Stages]
  /\ request \in [Procs -> Request]
  /\ read \in [Procs -> [row : Channel, level : Levels, name : Names \cup {NoName},
                         roles : SUBSET RoleIds, base : SUBSET Permissions,
                         members : SUBSET Users]]
  /\ cursor \in [Sockets -> Nat]
  /\ sent \in [Sockets -> SUBSET Nat]
  /\ dropped \in [Sockets -> SUBSET Nat]
  /\ begun \in 0 .. MaxRequests
  /\ seen \in [Procs -> BOOLEAN]
  /\ barred \in [Procs -> BOOLEAN]

Init ==
  /\ space = [archived |-> FALSE, name |-> AnyName]
  /\ member = StartMember
  /\ orgMembers = {u \in Users : StartMember[u].level # "none"}
  /\ role = StartRole
  /\ assigned = [u \in Users |-> {}]
  /\ override = [x \in Channels \X Targets |-> Empty]
  /\ channel = StartChannel
  /\ audit = {}
  /\ events = <<>>
  /\ pc = [p \in Procs |-> IF p \in Sockets THEN "closed" ELSE "idle"]
  /\ request = [p \in Procs |-> NoRequest]
  /\ read = [p \in Procs |-> Nothing]
  /\ cursor = [s \in Sockets |-> 0]
  /\ sent = [s \in Sockets |-> {}]
  /\ dropped = [s \in Sockets |-> {}]
  /\ begun = 0
  /\ seen = [p \in Procs |-> FALSE]
  /\ barred = [p \in Procs |-> FALSE]

(***************************************************************************)
(* What a permission check computes.                                       *)
(***************************************************************************)
\* Mutant: an owner is checked like everyone else.
NobodyIsAdmin(level) == FALSE

IsAdmin(level) == level \in {"owner", "admin"}

Builtin(level) ==
  CASE level \in {"owner", "admin"} -> Permissions
    [] level = "member"             -> {"VIEW_CHANNEL", "SEND_MESSAGES"}
    [] level = "guest"              -> {"VIEW_CHANNEL"}
    [] OTHER                        -> {}

\* Mutant: the level's own permissions are left out.
RolesOnly(level, roles) == UNION {role[r].grants : r \in roles}

\* Base permissions of a level and a set of roles, before overrides.
Base(level, roles) == Builtin(level) \cup UNION {role[r].grants : r \in roles}

Allows(c, ts) == UNION {override[c, t].allow : t \in ts}
Denies(c, ts) == UNION {override[c, t].deny : t \in ts}

Apply(effective, allow, deny) == (effective \ deny) \cup (allow \ deny)

\* Mutant: the member's own deny is left out.
NoMemberDeny(base, c, u, roles) ==
  Apply(Apply(base, Allows(c, roles), Denies(c, roles)), override[c, u].allow, {})

\* Overrides of the roles first, then the member's own.
Effective(base, c, u, roles) ==
  Apply(Apply(base, Allows(c, roles), Denies(c, roles)),
        override[c, u].allow, override[c, u].deny)

Needs(op) ==
  CASE op = "addMember"                                          -> "INVITE_MEMBERS"
    [] op \in {"removeMember", "updateSpace", "deleteSpace"}     -> "MANAGE_SPACE"
    [] op \in {"createRole", "assignRole"}                       -> "MANAGE_ROLES"
    [] op \in {"createChannel", "setOverride", "updateChannel",
               "deleteChannel"}                                  -> "MANAGE_CHANNELS"
    [] op = "typing"                                             -> "SEND_MESSAGES"
    [] op = "receive"                                            -> "VIEW_CHANNEL"

\* Mutant: the membership's status is not looked at.
AnyMember(u) == ~space.archived /\ member[u].level # "none"

Visible(u) == ~space.archived /\ member[u].active

(***************************************************************************)
(* How a request begins and ends.                                          *)
(***************************************************************************)
Goes(p, stage) == pc' = [pc EXCEPT ![p] = stage]

Ends(p) ==
  /\ Goes(p, "idle")
  /\ request' = [request EXCEPT ![p] = NoRequest]
  /\ read' = [read EXCEPT ![p] = Nothing]

Accepts(p, q) ==
  /\ Goes(p, IF q.op \in ChannelOps THEN "channel" ELSE "space")
  /\ request' = [request EXCEPT ![p] = q]
  /\ read' = [read EXCEPT ![p] = Nothing]
  /\ seen' = [seen EXCEPT ![p] = ~space.archived /\ member[q.user].active]
  /\ barred' = [barred EXCEPT ![p] = Needs(q.op) \in override[q.channel, q.user].deny]

Begin(p, q) ==
  /\ pc[p] = "idle" /\ begun < MaxRequests
  /\ IF p \in Sockets THEN q.op = "typing" /\ q.user = SocketUser[p]
                      ELSE q.op \notin SocketOps
  /\ Accepts(p, q)
  /\ begun' = begun + 1
  /\ UNCHANGED <<tables, events, sockets>>

HoldsBack(p) ==
  IF request[p].op = "receive"
  THEN dropped' = [dropped EXCEPT ![p] = @ \cup {cursor[p]}] /\ UNCHANGED <<cursor, sent>>
  ELSE UNCHANGED sockets

\* A row is missing, or the caller lacks the permission: no further effect.
\* A socket holds the event back.
Refuses(p) ==
  /\ Ends(p)
  /\ HoldsBack(p)
  /\ UNCHANGED <<tables, events, begun, history>>

\* A store error at any statement, or a client that goes away.
Abandon(p) ==
  /\ pc[p] \notin {"closed", "idle"}
  /\ Ends(p)
  /\ UNCHANGED <<tables, events, sockets, begun, history>>

Answered(p) == pc[p] = "forbidden" /\ Refuses(p)

(***************************************************************************)
(* Authorization: one SELECT per step.                                     *)
(***************************************************************************)
FirstStage(op) ==
  CASE op = "addMember"                      -> "organization"
    [] op \in {"removeMember", "assignRole"} -> "target"
    [] op = "deleteSpace"                    -> "members"
    [] op = "typing"                         -> "publish"
    [] op = "receive"                        -> "forward"
    [] OTHER                                 -> "write"

Decide(p, granted) ==
  Goes(p, IF granted THEN FirstStage(request[p].op) ELSE "forbidden")

ReadChannel(p) ==
  /\ pc[p] = "channel"
  /\ LET row == channel[request[p].channel] IN
       IF row.state = "live"
       THEN /\ read' = [read EXCEPT ![p].row = row]
            /\ Goes(p, "space")
            /\ UNCHANGED <<tables, events, request, sockets, begun, history>>
       ELSE Refuses(p)

ReadSpace(p) ==
  /\ pc[p] = "space"
  /\ IF Visible(request[p].user)
     THEN /\ read' = [read EXCEPT ![p].level = member[request[p].user].level,
                                 ![p].name = space.name]
          /\ IF IsAdmin(member[request[p].user].level)
             THEN Decide(p, TRUE) ELSE Goes(p, "roles")
          /\ UNCHANGED <<tables, events, request, sockets, begun, history>>
     ELSE Refuses(p)

ReadRoles(p) ==
  /\ pc[p] = "roles"
  /\ LET u == request[p].user
         base == Base(read[p].level, assigned[u])
     IN /\ read' = [read EXCEPT ![p].roles = assigned[u], ![p].base = base]
        /\ IF request[p].op \in ChannelOps THEN Goes(p, "overrides")
           ELSE Decide(p, Needs(request[p].op) \in base)
  /\ UNCHANGED <<tables, events, request, sockets, begun, history>>

ReadOverrides(p) ==
  /\ pc[p] = "overrides"
  /\ Decide(p, Needs(request[p].op) \in
                 Effective(read[p].base, request[p].channel, request[p].user,
                           read[p].roles))
  /\ UNCHANGED <<tables, events, request, read, sockets, begun, history>>

(***************************************************************************)
(* Members.                                                                *)
(***************************************************************************)
JoinOrganization(p) ==
  /\ pc[p] = "organization"
  /\ orgMembers' = orgMembers \cup {request[p].target}
  /\ Goes(p, "write")
  /\ UNCHANGED <<space, member, role, assigned, override, channel, audit, events,
                 request, read, sockets, begun, history>>

\* Mutant: the upsert writes the requested role over the owner's.
UpsertBlind(row, level) == [level |-> level, active |-> TRUE]

\* The upsert: it reactivates a row and never takes the owner's role.
Upsert(row, level) ==
  [level |-> IF row.level = "owner" THEN row.level ELSE level, active |-> TRUE]

AddMember(p) ==
  /\ pc[p] = "write" /\ request[p].op = "addMember"
  /\ LET t == request[p].target IN
       /\ member' = [member EXCEPT ![t] = Upsert(@, request[p].level)]
       /\ seen' = [x \in Procs |->
                     seen[x] \/ (request[x].user = t /\ ~space.archived)]
  /\ Goes(p, "reread")
  /\ UNCHANGED <<space, orgMembers, role, assigned, override, channel, audit, events,
                 request, read, sockets, begun, barred>>

\* add_member answers with the row it reads back.
RereadMember(p) ==
  /\ pc[p] = "reread"
  /\ IF Visible(request[p].target)
     THEN /\ Goes(p, "audit")
          /\ UNCHANGED <<tables, events, request, read, sockets, begun, history>>
     ELSE Refuses(p)

\* The target's row is read before a removal and before an assignment.
TargetPasses(p) ==
  /\ Visible(request[p].target)
  /\ request[p].op = "removeMember" => member[request[p].target].level # "owner"

ReadTarget(p) ==
  /\ pc[p] = "target"
  /\ IF TargetPasses(p)
     THEN /\ Goes(p, IF request[p].op = "assignRole" THEN "role" ELSE "write")
          /\ UNCHANGED <<tables, events, request, read, sockets, begun, history>>
     ELSE Refuses(p)

RemoveMember(p) ==
  /\ pc[p] = "write" /\ request[p].op = "removeMember"
  /\ LET t == request[p].target IN
       IF member[t].active
       THEN /\ member' = [member EXCEPT ![t].active = FALSE]
            /\ Goes(p, "audit")
            /\ UNCHANGED <<space, orgMembers, role, assigned, override, channel, audit,
                           events, request, read, sockets, begun, history>>
       ELSE Refuses(p)

(***************************************************************************)
(* Roles and overrides.                                                    *)
(***************************************************************************)
CreateRole(p) ==
  /\ pc[p] = "write" /\ request[p].op = "createRole"
  /\ LET r == request[p].role IN
       IF ~role[r].made
       THEN /\ role' = [role EXCEPT ![r] = [made |-> TRUE, grants |-> request[p].allow]]
            /\ Goes(p, "audit")
            /\ UNCHANGED <<space, member, orgMembers, assigned, override, channel, audit,
                           events, request, read, sockets, begun, history>>
       ELSE Refuses(p)

ReadRole(p) ==
  /\ pc[p] = "role"
  /\ IF role[request[p].role].made
     THEN /\ Goes(p, "write")
          /\ UNCHANGED <<tables, events, request, read, sockets, begun, history>>
     ELSE Refuses(p)

AssignRole(p) ==
  /\ pc[p] = "write" /\ request[p].op = "assignRole"
  /\ assigned' = [assigned EXCEPT ![request[p].target] = @ \cup {request[p].role}]
  /\ Goes(p, "audit")
  /\ UNCHANGED <<space, member, orgMembers, role, override, channel, audit, events,
                 request, read, sockets, begun, history>>

SetOverride(p) ==
  /\ pc[p] = "write" /\ request[p].op = "setOverride"
  /\ override' = [override EXCEPT ![<<request[p].channel, request[p].target>>] =
                    [allow |-> request[p].allow, deny |-> request[p].deny]]
  /\ barred' = [x \in Procs |-> barred[x] /\ Needs(request[x].op)
                  \in override'[request[x].channel, request[x].user].deny]
  /\ Goes(p, "audit")
  /\ UNCHANGED <<space, member, orgMembers, role, assigned, channel, audit, events,
                 request, read, sockets, begun, seen>>

(***************************************************************************)
(* Channels and the space.  A PATCH writes back every column of the row it *)
(* read, changed where the patch names a value.                            *)
(***************************************************************************)
SlugFree(c, name) == \A d \in Channels \ {c} :
                       channel[d].state # "absent" => channel[d].name # name

CreateChannel(p) ==
  /\ pc[p] = "write" /\ request[p].op = "createChannel"
  /\ LET q == request[p] IN
       IF channel[q.channel].state = "absent" /\ SlugFree(q.channel, q.name)
       THEN /\ channel' = [channel EXCEPT ![q.channel] =
                  [state |-> "live", name |-> q.name,
                   privacy |-> IF q.privacy = "keep" THEN "public" ELSE q.privacy]]
            /\ Goes(p, "publish")
            /\ UNCHANGED <<space, member, orgMembers, role, assigned, override, audit,
                           events, request, read, sockets, begun, history>>
       ELSE Refuses(p)

Patched(row, q) ==
  [row EXCEPT !.name = IF q.name = NoName THEN @ ELSE q.name,
              !.privacy = IF q.privacy = "keep" THEN @ ELSE q.privacy]

\* Mutant: the UPDATEs lack "archived_at IS NULL".
EvenArchived(row) == row.state # "absent"

Writable(row) == row.state = "live"

UpdateChannel(p) ==
  /\ pc[p] = "write" /\ request[p].op = "updateChannel"
  /\ LET c == request[p].channel
         row == Patched(read[p].row, request[p])
     IN IF Writable(channel[c]) /\ SlugFree(c, row.name)
        THEN /\ channel' = [channel EXCEPT ![c].name = row.name,
                                           ![c].privacy = row.privacy]
             /\ Goes(p, "publish")
             /\ UNCHANGED <<space, member, orgMembers, role, assigned, override, audit,
                            events, request, read, sockets, begun, history>>
        ELSE Refuses(p)

ArchiveChannel(p) ==
  /\ pc[p] = "write" /\ request[p].op = "deleteChannel"
  /\ LET c == request[p].channel IN
       IF Writable(channel[c])
       THEN /\ channel' = [channel EXCEPT ![c].state = "archived"]
            /\ Goes(p, "publish")
            /\ UNCHANGED <<space, member, orgMembers, role, assigned, override, audit,
                           events, request, read, sockets, begun, history>>
       ELSE Refuses(p)

UpdateSpace(p) ==
  /\ pc[p] = "write" /\ request[p].op = "updateSpace"
  /\ IF ~space.archived
     THEN /\ space' = [space EXCEPT !.name = IF request[p].name = NoName
                                             THEN read[p].name ELSE request[p].name]
          /\ Goes(p, "publish")
          /\ UNCHANGED <<member, orgMembers, role, assigned, override, channel, audit,
                         events, request, read, sockets, begun, history>>
     ELSE Refuses(p)

\* Who hears of the deletion is read before the space is archived.
ReadMembers(p) ==
  /\ pc[p] = "members"
  /\ read' = [read EXCEPT ![p].members = {u \in Users : Visible(u)}]
  /\ Goes(p, "write")
  /\ UNCHANGED <<tables, events, request, sockets, begun, history>>

ArchiveSpace(p) ==
  /\ pc[p] = "write" /\ request[p].op = "deleteSpace"
  /\ IF ~space.archived
     THEN /\ space' = [space EXCEPT !.archived = TRUE]
          /\ Goes(p, "publish")
          /\ UNCHANGED <<member, orgMembers, role, assigned, override, channel, audit,
                         events, request, read, sockets, begun, history>>
     ELSE Refuses(p)

(***************************************************************************)
(* The audit row, then the event.                                          *)
(***************************************************************************)
Media == {"VIEW_CHANNEL", "CONNECT_VOICE", "SPEAK", "SHARE_SCREEN"}

Publishes(q) ==
  CASE q.op \in {"createRole", "assignRole"} -> FALSE
    [] q.op = "setOverride"                  -> q.deny \cap Media # {}
    [] OTHER                                 -> TRUE

Audit(p) ==
  /\ pc[p] = "audit"
  /\ audit' = audit \cup {request[p]}
  /\ IF Publishes(request[p])
     THEN Goes(p, "publish") /\ UNCHANGED <<request, read>>
     ELSE Ends(p)
  /\ UNCHANGED <<space, member, orgMembers, role, assigned, override, channel, events,
                 sockets, begun, history>>

EventType(op) ==
  CASE op = "addMember"     -> "space.member.added"
    [] op = "removeMember"  -> "space.member.removed"
    [] op = "updateSpace"   -> "space.updated"
    [] op = "deleteSpace"   -> "space.deleted"
    [] op = "setOverride"   -> "media.permission_revoked"
    [] op = "createChannel" -> "channel.created"
    [] op = "updateChannel" -> "channel.updated"
    [] op = "deleteChannel" -> "channel.deleted"
    [] OTHER                -> "typing.started"

EventOf(q, members) ==
  [type |-> EventType(q.op), members |-> members,
   channel |-> IF q.op \in ChannelOps \cup {"createChannel"} THEN q.channel
               ELSE NoChannel]

Publish(p) ==
  /\ pc[p] = "publish"
  /\ events' = Append(events, EventOf(request[p], read[p].members))
  /\ Ends(p)
  /\ UNCHANGED <<tables, sockets, begun, history>>

(***************************************************************************)
(* Native websockets: subscribe, take the next event, authorize, forward.  *)
(***************************************************************************)
Connect(s) ==
  /\ pc[s] = "closed"
  /\ Goes(s, "idle")
  /\ cursor' = [cursor EXCEPT ![s] = Len(events)]
  /\ sent' = [sent EXCEPT ![s] = {}]
  /\ dropped' = [dropped EXCEPT ![s] = {}]
  /\ UNCHANGED <<tables, events, request, read, begun, history>>

Close(s) ==
  /\ pc[s] # "closed"
  /\ Goes(s, "closed")
  /\ request' = [request EXCEPT ![s] = NoRequest]
  /\ read' = [read EXCEPT ![s] = Nothing]
  /\ UNCHANGED <<tables, events, sockets, begun, history>>

\* The receiver fell behind the hub's capacity: the oldest events are gone.
Lag(s) ==
  /\ pc[s] = "idle"
  /\ \E i \in cursor[s] + 1 .. Len(events) : cursor' = [cursor EXCEPT ![s] = i]
  /\ UNCHANGED <<tables, events, tasks, sent, dropped, begun, history>>

\* An event without a channel is forwarded unseen.
TakeEvent(s) ==
  /\ pc[s] = "idle" /\ cursor[s] < Len(events)
  /\ cursor' = [cursor EXCEPT ![s] = @ + 1]
  /\ LET e == events[cursor[s] + 1] IN
       IF e.channel = NoChannel
       THEN /\ sent' = [sent EXCEPT ![s] = @ \cup {cursor[s] + 1}]
            /\ UNCHANGED <<tasks, history>>
       ELSE /\ Accepts(s, [NoRequest EXCEPT !.user = SocketUser[s],
                                            !.channel = e.channel])
            /\ UNCHANGED sent
  /\ UNCHANGED <<tables, events, dropped, begun>>

Forward(s) ==
  /\ pc[s] = "forward"
  /\ sent' = [sent EXCEPT ![s] = @ \cup {cursor[s]}]
  /\ Ends(s)
  /\ UNCHANGED <<tables, events, cursor, dropped, begun, history>>

Authorize(p) == ReadChannel(p) \/ ReadSpace(p) \/ ReadRoles(p) \/ ReadOverrides(p)

Act(p) ==
  \/ JoinOrganization(p) \/ AddMember(p) \/ RereadMember(p)
  \/ ReadTarget(p) \/ RemoveMember(p)
  \/ CreateRole(p) \/ ReadRole(p) \/ AssignRole(p) \/ SetOverride(p)
  \/ CreateChannel(p) \/ UpdateChannel(p) \/ ArchiveChannel(p)
  \/ UpdateSpace(p) \/ ReadMembers(p) \/ ArchiveSpace(p)
  \/ Audit(p) \/ Publish(p)

Next ==
  \/ \E p \in Procs, q \in Menu : Begin(p, q)
  \/ \E p \in Procs : Abandon(p) \/ Answered(p) \/ Authorize(p) \/ Act(p)
  \/ \E s \in Sockets : Connect(s) \/ Close(s) \/ Lag(s) \/ TakeEvent(s) \/ Forward(s)

Spec == Init /\ [][Next]_vars

(***************************************************************************)
(* Properties.                                                             *)
(***************************************************************************)
\* Stages a request reaches only when its caller was found to be entitled.
Entitled(p) == pc[p] \notin {"closed", "idle", "channel", "space", "roles",
                             "overrides", "forbidden"}

\* The space keeps exactly one owner, active, whatever additions and removals
\* race: the upsert of add_member never lowers the owner's row, and
\* remove_member, whose UPDATE does not look at the role, only follows a read
\* that found another one ("The space owner cannot be removed",
\* openapi.yaml:2316).
OwnerKept ==
  /\ member[Owner] = [level |-> "owner", active |-> TRUE]
  /\ \A u \in Users \ {Owner} : ~IsAdmin(member[u].level)

\* No override and no role can lock the owner out: the owner's requests are
\* never answered 403, as can_in_space and can_in_channel grant an owner
\* before they look at roles or overrides.
OwnerNeverForbidden == \A p \in Procs : pc[p] = "forbidden" => request[p].user # Owner

\* A request that was let through had a caller who was an active member of the
\* live space at some moment of that very request: a write that lands after a
\* removal or an archive belongs to a request that began before it
\* ("hidden from ... membership-backed access paths", openapi.yaml:2258).
MembersOnly == \A p \in Procs : Entitled(p) => seen[p]

\* A member's own deny that stood on the channel for the whole of a request
\* beats whatever levels, roles and overrides change around it: only the owner
\* gets past it.  can_in_channel reads level, roles and overrides in three
\* statements that need not agree.
MemberDenyWins ==
  \A p \in Procs :
    Entitled(p) /\ request[p].op \in ChannelOps /\ request[p].user # Owner
      => ~barred[p]

\* Roles are only ever held by users with a membership row, though assign_role
\* inserts the assignment two statements after it has read the membership.
AssignedAreMembers ==
  \A u \in Users : assigned[u] # {} => member[u].level # "none"

\* Two racing DELETEs archive a channel once and announce it once, and nothing
\* announces a channel deleted that is still there.
DeletedOnce ==
  \A i, j \in 1 .. Len(events) :
    events[i].type = "channel.deleted" =>
      /\ channel[events[i].channel].state = "archived"
      /\ events[j].type = "channel.deleted" /\ events[j].channel = events[i].channel
           => i = j

\* An archived row never changes again: a PATCH that read the row before a
\* racing DELETE neither revives nor renames it.
ArchivedFrozen ==
  [][/\ space.archived => space' = space
     /\ \A c \in Channels :
          channel[c].state = "archived" => channel'[c] = channel[c]]_vars

\* Reference: who may use permission x on channel c, by precedence.
MayUse(u, c, x) ==
  \/ IsAdmin(member[u].level)
  \/ /\ x \notin override[c, u].deny
     /\ \/ x \in override[c, u].allow
        \/ /\ \A r \in assigned[u] : x \notin override[c, r].deny
           /\ \/ \E r \in assigned[u] : x \in override[c, r].allow
              \/ x \in Builtin(member[u].level)
              \/ \E r \in assigned[u] : x \in role[r].grants

\* The level and the roles a check has read are those of the tables.
Fresh(p) == /\ read[p].level = member[request[p].user].level
            /\ read[p].roles = assigned[request[p].user]

\* A check whose earlier reads still hold when it reads the overrides decides
\* exactly by precedence: member deny, member allow, role deny, role allow,
\* level and roles.
DecidesByPrecedence ==
  [][\A p \in Procs :
       ReadOverrides(p) /\ Fresh(p) =>
         (Entitled(p)' <=> MayUse(request[p].user, request[p].channel,
                                  Needs(request[p].op)))]_vars

\* What openapi.yaml:2478 says of channel deletion: it is announced to connected
\* clients.  The owner sees every channel, so the owner's socket should hold no
\* deletion back.
DeletionReachesOwner ==
  \A s \in Sockets : SocketUser[s] = Owner /\ ~space.archived =>
    \A i \in dropped[s] : events[i].type # "channel.deleted"

\* Events of archived channels are all that the owner's socket holds back: for
\* the others can_receive_event finds the channel, the space and the owner's
\* row, whatever roles, overrides and racing requests do.
OwnerHearsTheRest ==
  \A s \in Sockets : SocketUser[s] = Owner /\ ~space.archived =>
    \A i \in dropped[s] : channel[events[i].channel].state = "archived"
=============================================================================
