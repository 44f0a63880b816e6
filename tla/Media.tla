--------------------------------- MODULE Media ---------------------------------
(***************************************************************************)
(* Tokens for channels and meeting rooms (domain/media.rs,                 *)
(* controllers/voice_controller.rs, controllers/media_controller.rs and    *)
(* the media route of controllers/meeting_controller.rs).                  *)
(*                                                                         *)
(* A token is signed and never looked up again: what it grants holds until *)
(* it expires.  Before it is signed the caller's membership is read once,  *)
(* or twice for a meeting, and then, for one permission after the other,   *)
(* the assigned roles and the channel's overrides (can_in_channel), each   *)
(* in a statement of its own while others change them.                     *)
(***************************************************************************)
EXTENDS Integers, Sequences

CONSTANTS
  Speakers,      \* users of one organization
  VoiceRoles,    \* roles of its space
  RoleRights,    \* what each role grants; a role never changes
  Channels,      \* channels of the space
  VoiceKind,     \* those of kind voice
  Gatherings,    \* meetings of the organization
  Place,         \* where each meeting is held
  Settings,      \* the overrides that are ever set
  Wishes,        \* the grants that clients ask for
  Joins,         \* requests for a token running at the same time
  Ttl,           \* token_ttl_seconds
  MaxClock,      \* bound: time in one behaviour
  MaxJoins,      \* bound: requests in one behaviour
  MaxChanges     \* bound: changes of members, roles and overrides, and cancellations

Sources == {"audio", "video", "screen"}
Grants == Sources \cup {"subscribe"}
Rights == {"view", "connect", "speak", "video", "screen"}
Override == [allow : SUBSET Rights, deny : SUBSET Rights]

ASSUME MediaAssumption ==
  /\ Speakers # {} /\ Channels # {}
  /\ Speakers \cap VoiceRoles = {} /\ Channels \cap Gatherings = {}
  /\ Channels \cap {"space", "organization"} = {}
  /\ RoleRights \in [VoiceRoles -> SUBSET Rights]
  /\ VoiceKind \subseteq Channels
  /\ Place \in [Gatherings -> Channels \cup {"space", "organization"}]
  /\ Settings \subseteq Override
  /\ Wishes \subseteq SUBSET Grants
  /\ Ttl \in Nat \ {0} /\ MaxClock \in Nat /\ MaxJoins \in Nat /\ MaxChanges \in Nat

Rooms == Channels \cup Gatherings

\* What a request may have to establish, besides a right: that the caller is a
\* member of the space, and that the meeting is not cancelled.
Checks == Rights \cup {"member", "status"}

\* The permission a grant needs; subscribing needs none beyond the room's.
RightFor == [g \in Sources |-> CASE g = "audio" -> "speak" [] g = "video" -> "video"
                                 [] g = "screen" -> "screen"]

VARIABLES
  clock,
  standing,   \* space_members: everybody's level, "none" without an active row
  given,      \* role_assignments; roles are never taken back
  ruled,      \* channel_permission_overrides of channels, by role or member
  cancelled,  \* meetings that are cancelled
  tokens,     \* the tokens that were handed out
  announced,  \* voice.participant_joined events that were published
  join,       \* what each running request holds
  joins,      \* requests so far
  changes     \* changes so far

mediaVars ==
  <<clock, standing, given, ruled, cancelled, tokens, announced, join, joins, changes>>

MemberLevels == {"none", "guest", "member", "owner"}

\* History, of the moments of a request up to now: what the user had at one of
\* them (held), what some source gave (offered: the level, a role, an override),
\* what an override for the user denied at all of them (barred), and whether level
\* and roles stayed as they were (steady).
Witness == [held : SUBSET Checks, offered : SUBSET Checks, barred : SUBSET Checks,
            steady : BOOLEAN]

Token ==
  [user : Speakers, room : Rooms, grants : SUBSET Grants, expires : Nat, seen : Witness,
   open : BOOLEAN]

\* What the channel learns of a join: everything but the token.
Announcement == [user : Speakers, room : Rooms, grants : SUBSET Grants]

\* todo: checks still to be made, in order; asked: grants still asked for, all of
\* them in a request for a token, those the rights allow in a request to join;
\* level, roles: as they were read; at: what is read next for a right; open:
\* whether the meeting was scheduled when it was read.
Join ==
  [route : {"none", "voice", "room", "meeting"}, user : Speakers, room : Rooms,
   todo : Seq(Checks), asked : SUBSET Grants, level : MemberLevels, roles : SUBSET VoiceRoles,
   at : {"roles", "overrides"}, open : BOOLEAN, seen : Witness]
NoWitness == [held |-> {}, offered |-> {}, barred |-> {}, steady |-> TRUE]
NoJoin ==
  [route |-> "none", user |-> CHOOSE u \in Speakers : TRUE, room |-> CHOOSE r \in Channels : TRUE,
   todo |-> <<>>, asked |-> {}, level |-> "none", roles |-> {}, at |-> "roles", open |-> TRUE,
   seen |-> NoWitness]

MediaTypeOK ==
  /\ clock \in 0..MaxClock
  /\ standing \in [Speakers -> MemberLevels]
  /\ given \in [Speakers -> SUBSET VoiceRoles]
  /\ ruled \in [Channels \X (Speakers \cup VoiceRoles) -> Override]
  /\ cancelled \subseteq Gatherings
  /\ tokens \subseteq Token
  /\ announced \subseteq Announcement
  /\ \A q \in Joins : join[q] \in Join
  /\ joins \in 0..MaxJoins /\ changes \in 0..MaxChanges

\* Levels, roles and overrides are whatever earlier requests made them.
MediaInit ==
  /\ clock = 0
  /\ standing \in [Speakers -> MemberLevels]
  /\ given \in [Speakers -> SUBSET VoiceRoles]
  /\ ruled \in [Channels \X (Speakers \cup VoiceRoles) -> Settings]
  /\ cancelled = {}
  /\ tokens = {}
  /\ announced = {}
  /\ join = [q \in Joins |-> NoJoin]
  /\ joins = 0 /\ changes = 0

(***************************************************************************)
(* What the permissions of a user come to.                                 *)
(***************************************************************************)

\* is_admin_role: passes every check before anything else is read.
IsSpaceAdmin(level) == level = "owner"

\* builtin_permissions_for_role
BuiltinRights(level) ==
  CASE level = "owner" -> Rights [] level \in {"member", "guest"} -> {"view"} [] OTHER -> {}

GrantedBy(roles) == UNION {RoleRights[r] : r \in roles}
Allowed(rules, c, targets) == UNION {rules[<<c, t>>].allow : t \in targets}
Denied(rules, c, targets) == UNION {rules[<<c, t>>].deny : t \in targets}

\* apply_channel_overrides: the roles' first, then the member's own.
RightsWith(level, roles, rules, c, u) ==
  LET base == BuiltinRights(level) \cup GrantedBy(roles)
      byRole == (base \cup Allowed(rules, c, roles)) \ Denied(rules, c, roles)
  IN  (byRole \cup rules[<<c, u>>].allow) \ rules[<<c, u>>].deny

\* Where a room's rights are looked up: a channel, or only the space, or nowhere.
PlaceOf(r) == IF r \in Channels THEN r ELSE Place[r]

\* What a request of u for room r witnesses at one moment.
HeldNow(level, roles, rules, r, u) ==
  {c \in {"member"} : level # "none"}
    \cup IF IsSpaceAdmin(level) THEN Rights
         ELSE IF PlaceOf(r) \in Channels THEN RightsWith(level, roles, rules, PlaceOf(r), u) ELSE {}

OfferedNow(level, roles, rules, r, u) ==
  {c \in {"member"} : level # "none"} \cup BuiltinRights(level) \cup GrantedBy(roles)
    \cup IF PlaceOf(r) \in Channels THEN Allowed(rules, PlaceOf(r), roles \cup {u}) ELSE {}

BarredNow(level, rules, r, u) ==
  IF ~IsSpaceAdmin(level) /\ PlaceOf(r) \in Channels THEN rules[<<PlaceOf(r), u>>].deny ELSE {}

(***************************************************************************)
(* The three routes.                                                       *)
(***************************************************************************)
JoinGoes(q, j) == join' = [join EXCEPT ![q] = j]

\* validate: a token that grants nothing is refused.
ValidGrants(grants) == grants # {}

\* A right is asked for when a grant needs it.
RightOf(g, grants) == IF g \in grants THEN <<RightFor[g]>> ELSE <<>>

\* Mutant: nothing is read for the camera.
Needed_NoVideo(grants) ==
  <<"view", "connect">> \o RightOf("audio", grants) \o RightOf("screen", grants)

\* The rights a request for a token has to have, by the grants it asks for.
Needed(grants) ==
  <<"view", "connect">> \o RightOf("audio", grants) \o RightOf("video", grants)
    \o RightOf("screen", grants)

\* A meeting is read here, its status with it.
Asks(q, route, u, r, todo, grants) ==
  /\ join[q] = NoJoin
  /\ joins < MaxJoins /\ joins' = joins + 1
  /\ ValidGrants(grants)
  /\ JoinGoes(q, [NoJoin EXCEPT
       !.route = route, !.user = u, !.room = r, !.todo = todo, !.asked = grants,
       !.open = r \notin cancelled,
       !.seen = [held |-> HeldNow(standing[u], given[u], ruled, r, u),
                 offered |-> OfferedNow(standing[u], given[u], ruled, r, u),
                 barred |-> BarredNow(standing[u], ruled, r, u), steady |-> TRUE]])
  /\ UNCHANGED <<clock, standing, given, ruled, cancelled, tokens, announced, changes>>

\* join: voice channels only; audio unless the caller is muted, screen, never
\* video; what the rights do not allow is left out.
JoinVoice(q, u, r, mute) ==
  /\ r \in VoiceKind
  /\ Asks(q, "voice", u, r, <<"member", "view", "connect", "speak", "screen">>,
          {"subscribe", "screen"} \cup IF mute THEN {} ELSE {"audio"})

\* create_room_token: a channel of any kind.
CreateRoomToken(q, u, r, grants) ==
  r \in Channels /\ Asks(q, "room", u, r, <<"member">> \o Needed(grants), grants)

\* require_read_meeting, the status check, enforce_meeting_media_permissions:
\* outside a space every grant is to be had, in a space without a channel by any
\* member.
MeetingChecks(r, grants) ==
  CASE Place[r] = "organization" -> <<"status">>
    [] Place[r] = "space"        -> <<"member", "status", "member">>
    [] OTHER                     -> <<"member", "view", "status", "member">> \o Needed(grants)

\* create_media_token
CreateMeetingToken(q, u, r, grants) ==
  r \in Gatherings /\ Asks(q, "meeting", u, r, MeetingChecks(r, grants), grants)

\* The optional rights of a request to join are asked for with can_in_channel.
Optional(j) == IF j.route = "voice" THEN {"speak", "screen"} ELSE {}

\* The next check was made: j goes on, without what is not held and optional.
Passes(q, j, held) ==
  LET p == Head(j.todo)
  IN  /\ held \/ p \in Optional(j)
      /\ JoinGoes(q, [j EXCEPT !.todo = Tail(@), !.at = "roles",
                               !.asked = IF held THEN @
                                         ELSE {g \in @ : g \in Sources => RightFor[g] # p}])
      /\ UNCHANGED <<clock, standing, given, ruled, cancelled, tokens, announced, joins, changes>>

Awaits(q, checks) == join[q].todo # <<>> /\ Head(join[q].todo) \in checks

\* get_for_user: the level all rights are then decided with.
ReadMember(q) ==
  LET level == standing[join[q].user]
  IN  /\ Awaits(q, {"member"})
      /\ Passes(q, [join[q] EXCEPT !.level = level], level # "none")

CheckStatus(q) == Awaits(q, {"status"}) /\ Passes(q, join[q], join[q].open)

AdminPasses(q) ==
  Awaits(q, Rights) /\ IsSpaceAdmin(join[q].level) /\ Passes(q, join[q], TRUE)

\* assigned_roles_for_user
ReadRoles(q) ==
  /\ Awaits(q, Rights) /\ ~IsSpaceAdmin(join[q].level)
  /\ join[q].at = "roles"
  /\ JoinGoes(q, [join[q] EXCEPT !.roles = given[join[q].user], !.at = "overrides"])
  /\ UNCHANGED <<clock, standing, given, ruled, cancelled, tokens, announced, joins, changes>>

\* channel_overrides_for_user, of the roles that were read.
ReadOverrides(q) ==
  LET j == join[q]
  IN  /\ Awaits(q, Rights) /\ j.at = "overrides"
      /\ Passes(q, j, Head(j.todo) \in RightsWith(j.level, j.roles, ruled, PlaceOf(j.room), j.user))

\* The event of a join; the other two routes publish none.
Announces(j) ==
  IF j.route = "voice" THEN {[user |-> j.user, room |-> j.room, grants |-> j.asked]} ELSE {}

\* issue_room_token; the route announces the join and answers with the token.
Issue(q) ==
  LET j == join[q]
  IN  /\ j # NoJoin /\ j.todo = <<>>
      /\ ValidGrants(j.asked)
      /\ tokens' = tokens \cup {[user |-> j.user, room |-> j.room, grants |-> j.asked,
                                 expires |-> clock + Ttl, seen |-> j.seen, open |-> j.open]}
      /\ announced' = announced \cup Announces(j)
      /\ JoinGoes(q, NoJoin)
      /\ UNCHANGED <<clock, standing, given, ruled, cancelled, joins, changes>>

\* A check fails, a statement fails or the client goes away.
JoinEnds(q) ==
  /\ join[q] # NoJoin
  /\ JoinGoes(q, NoJoin)
  /\ UNCHANGED <<clock, standing, given, ruled, cancelled, tokens, announced, joins, changes>>

(***************************************************************************)
(* What others do meanwhile.                                               *)
(***************************************************************************)

\* The history of j after standing, given and ruled have changed.
Witnesses(j, levels, roles, rules) ==
  [j EXCEPT !.seen =
     [held |-> @.held \cup HeldNow(levels[j.user], roles[j.user], rules, j.room, j.user),
      offered |-> @.offered \cup OfferedNow(levels[j.user], roles[j.user], rules, j.room, j.user),
      barred |-> @.barred \cap BarredNow(levels[j.user], rules, j.room, j.user),
      steady |-> @.steady /\ levels[j.user] = standing[j.user] /\ roles[j.user] = given[j.user]]]

PermissionsBecome(levels, roles, rules) ==
  /\ changes < MaxChanges /\ changes' = changes + 1
  /\ standing' = levels /\ given' = roles /\ ruled' = rules
  /\ join' = [q \in Joins |-> IF join[q] = NoJoin THEN NoJoin
                              ELSE Witnesses(join[q], levels, roles, rules)]
  /\ UNCHANGED <<clock, cancelled, tokens, announced, joins>>

\* A member is added, removed or added again at another level; an owner is not.
ChangeMember(u, level) ==
  /\ ~IsSpaceAdmin(standing[u]) /\ ~IsSpaceAdmin(level)
  /\ PermissionsBecome([standing EXCEPT ![u] = level], given, ruled)

GiveRole(u, r) ==
  PermissionsBecome(standing, [given EXCEPT ![u] = @ \cup {r}], ruled)

SetOverride(c, t, setting) ==
  PermissionsBecome(standing, given, [ruled EXCEPT ![<<c, t>>] = setting])

CancelMeeting(r) ==
  /\ changes < MaxChanges /\ changes' = changes + 1
  /\ r \in Gatherings \ cancelled
  /\ cancelled' = cancelled \cup {r}
  /\ UNCHANGED <<clock, standing, given, ruled, tokens, announced, join, joins>>

\* A token is forgotten when it has expired.
ClockTick ==
  /\ clock < MaxClock /\ clock' = clock + 1
  /\ tokens' = {t \in tokens : clock' < t.expires}
  /\ UNCHANGED <<standing, given, ruled, cancelled, announced, join, joins, changes>>

MediaNext ==
  \/ \E q \in Joins :
       \/ \E u \in Speakers, r \in Rooms :
            \/ \E mute \in BOOLEAN : JoinVoice(q, u, r, mute)
            \/ \E g \in Wishes : CreateRoomToken(q, u, r, g) \/ CreateMeetingToken(q, u, r, g)
       \/ ReadMember(q) \/ CheckStatus(q) \/ AdminPasses(q) \/ ReadRoles(q) \/ ReadOverrides(q)
       \/ Issue(q) \/ JoinEnds(q)
  \/ \E u \in Speakers : \/ \E level \in MemberLevels : ChangeMember(u, level)
                         \/ \E r \in VoiceRoles : GiveRole(u, r)
  \/ \E c \in Channels, t \in Speakers \cup VoiceRoles, s \in Settings : SetOverride(c, t, s)
  \/ \E r \in Gatherings : CancelMeeting(r)
  \/ ClockTick

MediaSpec == MediaInit /\ [][MediaNext]_mediaVars

(***************************************************************************)
(* Properties.                                                             *)
(***************************************************************************)

\* What has to be established for the grants of a token of room r.
Demands(r, grants) ==
  CASE PlaceOf(r) = "organization" -> {}
    [] PlaceOf(r) = "space"        -> {"member"}
    [] OTHER -> {"member", "view", "connect"} \cup {RightFor[g] : g \in grants \cap Sources}

\* Roles and overrides are read apart, for each right anew, so a token may grant
\* what its holder had at no moment.  But every right behind a token that has not
\* expired was given by the holder's level, by a role or by an override at some
\* moment of the request that made it; none was denied to the holder by an
\* override of his or her own throughout that request; and if only overrides
\* changed meanwhile, the holder did have each of them at some moment of it.  A
\* token of a meeting room was asked for while the meeting stood; and none is good
\* for longer than token_ttl_seconds: that is how long a revocation may take.
TokensHold ==
  \A t \in tokens :
    LET demands == Demands(t.room, t.grants)
    IN  /\ demands \subseteq t.seen.offered
        /\ demands \cap t.seen.barred = {}
        /\ t.seen.steady => demands \subseteq t.seen.held
        /\ t.open
        /\ t.expires <= clock + Ttl
=============================================================================
