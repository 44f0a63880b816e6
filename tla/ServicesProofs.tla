---------------------------- MODULE ServicesProofs ----------------------------
(***************************************************************************)
(* Theorems about RateLimits, Calendars and Media, and about the four side *)
(* services together, for every value of their constants.                  *)
(***************************************************************************)
EXTENDS AccountsProofs, SideServices

(***************************************************************************)
(* Tokens.  What a running request still has to establish is in todo; what *)
(* it has established is Sound: some source gave it, no deny of the user   *)
(* stood all along and, if level and roles stayed, the user had it.  That  *)
(* stays so as the history grows.  What the history holds of this moment,  *)
(* and how far level and roles as read agree with the tables, is JoinNow.  *)
(***************************************************************************)
Sound(w, d) == d \in w.offered /\ d \notin w.barred /\ (w.steady => d \in w.held)

Has(todo, d) == \E i \in 1..Len(todo) : todo[i] = d

JoinNow(j) ==
  LET level == standing[j.user]
      roles == given[j.user]
  IN  /\ HeldNow(level, roles, ruled, j.room, j.user) \subseteq j.seen.held
      /\ OfferedNow(level, roles, ruled, j.room, j.user) \subseteq j.seen.offered
      /\ j.seen.barred \subseteq BarredNow(level, ruled, j.room, j.user)
      /\ BuiltinRights(j.level) \subseteq j.seen.offered
      /\ IsSpaceAdmin(j.level) => IsSpaceAdmin(level)
      /\ j.seen.steady => j.level \in {"none", level}
      /\ j.roles \subseteq roles
      /\ j.at = "overrides" /\ j.seen.steady => j.roles = roles

JoinDone(j) ==
  /\ \A d \in Demands(j.room, j.asked) : Sound(j.seen, d) \/ Has(j.todo, d)
  /\ j.open \/ Has(j.todo, "status")

JoinHolds(q) == join[q] # NoJoin => JoinNow(join[q]) /\ JoinDone(join[q])

MediaInv ==
  /\ MediaTypeOK
  /\ join \in [Joins -> Join]
  /\ \A q \in Joins : JoinHolds(q)
  /\ TokensHold

\* An idle handler is typed like a running one.
LEMMA NoJoinType == NoJoin \in Join
<1>1. NoWitness \in Witness
  BY DEF NoWitness, Witness
<1>2. (CHOOSE u \in Speakers : TRUE) \in Speakers /\ (CHOOSE r \in Channels : TRUE) \in Rooms
  BY MediaAssumption DEF Rooms
<1>3. <<>> \in Seq(Checks)
  OBVIOUS
<1> QED BY <1>1, <1>2, <1>3 DEF NoJoin, Join, MemberLevels

\* A room's rights are looked up in one of its space's channels, or not at all.
LEMMA PlaceType ==
  ASSUME NEW r \in Rooms
  PROVE  /\ PlaceOf(r) \in Channels \cup {"space", "organization"}
         /\ PlaceOf(r) \in Channels => PlaceOf(r) # "space" /\ PlaceOf(r) # "organization"
  BY MediaAssumption DEF PlaceOf, Rooms

\* What a moment shows is typed.
LEMMA NowTypes ==
  ASSUME NEW level \in MemberLevels, NEW roles \in SUBSET VoiceRoles,
         NEW rules \in [Channels \X (Speakers \cup VoiceRoles) -> Override],
         NEW r \in Rooms, NEW u \in Speakers
  PROVE  /\ HeldNow(level, roles, rules, r, u) \in SUBSET Checks
         /\ OfferedNow(level, roles, rules, r, u) \in SUBSET Checks
         /\ BarredNow(level, rules, r, u) \in SUBSET Checks
<1>1. BuiltinRights(level) \subseteq Rights
  BY DEF BuiltinRights, Rights
<1>2. GrantedBy(roles) \subseteq Rights
  BY MediaAssumption DEF GrantedBy
<1>3. \A c \in Channels, t \in Speakers \cup VoiceRoles :
        rules[<<c, t>>].allow \subseteq Rights /\ rules[<<c, t>>].deny \subseteq Rights
  BY DEF Override
<1>4. \A c \in Channels :
        Allowed(rules, c, roles) \subseteq Rights /\ Allowed(rules, c, roles \cup {u}) \subseteq Rights
  BY <1>3 DEF Allowed
<1>5. \A c \in Channels : RightsWith(level, roles, rules, c, u) \subseteq Rights
  BY <1>1, <1>2, <1>3, <1>4 DEF RightsWith
<1>6. Rights \subseteq Checks /\ "member" \in Checks
  BY DEF Checks
<1>7. HeldNow(level, roles, rules, r, u) \subseteq Checks
  BY <1>5, <1>6 DEF HeldNow
<1>8. OfferedNow(level, roles, rules, r, u) \subseteq Checks
  BY <1>1, <1>2, <1>4, <1>6 DEF OfferedNow
<1>9. BarredNow(level, rules, r, u) \subseteq Checks
  BY <1>3, <1>6 DEF BarredNow
<1> QED BY <1>7, <1>8, <1>9

\* Putting two lists of checks together loses none of them.
LEMMA HasAppend ==
  ASSUME NEW s \in Seq(Checks), NEW t \in Seq(Checks)
  PROVE  /\ s \o t \in Seq(Checks)
         /\ \A p : Has(s, p) => Has(s \o t, p)
         /\ \A p : Has(t, p) => Has(s \o t, p)
<1>1. /\ s \o t \in Seq(Checks) /\ Len(s \o t) = Len(s) + Len(t)
      /\ Len(s) \in Nat /\ Len(t) \in Nat
      /\ \A i \in 1..Len(s) : (s \o t)[i] = s[i]
      /\ \A i \in 1..Len(t) : (s \o t)[Len(s) + i] = t[i]
  OBVIOUS
<1>2. ASSUME NEW p, NEW i \in 1..Len(s), s[i] = p
      PROVE \E n \in 1..Len(s \o t) : (s \o t)[n] = p
  <2>1. i \in 1..Len(s \o t)
    BY <1>1
  <2> QED BY <1>1, <1>2, <2>1
<1>3. ASSUME NEW p, NEW i \in 1..Len(t), t[i] = p
      PROVE \E n \in 1..Len(s \o t) : (s \o t)[n] = p
  <2>1. Len(s) + i \in 1..Len(s \o t)
    BY <1>1
  <2> QED BY <1>1, <1>3, <2>1
<1> QED BY <1>1, <1>2, <1>3 DEF Has

\* The list a request for a token reads holds every right its grants need.
LEMMA NeededCovers ==
  ASSUME NEW grants \in SUBSET Grants
  PROVE  /\ Needed(grants) \in Seq(Checks)
         /\ Has(Needed(grants), "view") /\ Has(Needed(grants), "connect")
         /\ \A g \in grants \cap Sources : Has(Needed(grants), RightFor[g])
<1>1. /\ RightFor["audio"] = "speak" /\ RightFor["video"] = "video"
      /\ RightFor["screen"] = "screen"
  BY DEF RightFor, Sources
<1>2. \A g \in Sources : /\ RightOf(g, grants) \in Seq(Checks)
                         /\ g \in grants => Has(RightOf(g, grants), RightFor[g])
  <2> TAKE g \in Sources
  <2>1. RightFor[g] \in Checks
    BY <1>1 DEF Sources, Rights, Checks
  <2>2. CASE g \in grants
    <3>1. RightOf(g, grants) = <<RightFor[g]>>
      BY <2>2 DEF RightOf
    <3>2. <<RightFor[g]>> \in Seq(Checks) /\ Len(<<RightFor[g]>>) = 1
          /\ <<RightFor[g]>>[1] = RightFor[g]
      BY <2>1
    <3> QED BY <3>1, <3>2 DEF Has
  <2>3. CASE g \notin grants
    BY <2>3 DEF RightOf
  <2> QED BY <2>2, <2>3
<1> DEFINE a == <<"view", "connect">>
           b == a \o RightOf("audio", grants)
           c == b \o RightOf("video", grants)
           d == c \o RightOf("screen", grants)
<1>3. a \in Seq(Checks) /\ Has(a, "view") /\ Has(a, "connect")
  <2>1. a[1] = "view" /\ a[2] = "connect" /\ Len(a) = 2
    OBVIOUS
  <2> QED BY <2>1 DEF Rights, Checks, Has
<1>4. {"audio", "video", "screen"} = Sources
  BY DEF Sources
<1>5. b \in Seq(Checks) /\ Has(b, "view") /\ Has(b, "connect")
      /\ ("audio" \in grants => Has(b, "speak"))
  <2> HIDE DEF a
  <2> QED BY <1>1, <1>2, <1>3, <1>4, HasAppend
<1>6. c \in Seq(Checks) /\ Has(c, "view") /\ Has(c, "connect")
      /\ ("audio" \in grants => Has(c, "speak"))
      /\ ("video" \in grants => Has(c, "video"))
  <2> HIDE DEF b
  <2> QED BY <1>1, <1>2, <1>4, <1>5, HasAppend
<1>7. d \in Seq(Checks) /\ Has(d, "view") /\ Has(d, "connect")
      /\ ("audio" \in grants => Has(d, "speak"))
      /\ ("video" \in grants => Has(d, "video"))
      /\ ("screen" \in grants => Has(d, "screen"))
  <2> HIDE DEF c
  <2> QED BY <1>1, <1>2, <1>4, <1>6, HasAppend
<1>8. d = Needed(grants)
  BY DEF Needed
<1>9. \A g \in grants \cap Sources : Has(d, RightFor[g])
  <2> HIDE DEF d
  <2> QED BY <1>1, <1>4, <1>7
<1> HIDE DEF d
<1> QED BY <1>7, <1>8, <1>9

\* A request begins with a list that covers its grants and with what its first
\* moment shows.
LEMMA AsksHolds ==
  ASSUME MediaInv, NEW q \in Joins, NEW u \in Speakers, NEW r \in Rooms,
         NEW route \in {"voice", "room", "meeting"}, NEW todo \in Seq(Checks),
         NEW grants \in SUBSET Grants,
         Asks(q, route, u, r, todo, grants),
         \A d \in Demands(r, grants) : Has(todo, d),
         r \in cancelled => Has(todo, "status")
  PROVE  MediaInv'
<1> DEFINE w == [held |-> HeldNow(standing[u], given[u], ruled, r, u),
                 offered |-> OfferedNow(standing[u], given[u], ruled, r, u),
                 barred |-> BarredNow(standing[u], ruled, r, u), steady |-> TRUE]
           j == [NoJoin EXCEPT !.route = route, !.user = u, !.room = r, !.todo = todo,
                               !.asked = grants, !.open = r \notin cancelled, !.seen = w]
<1>1. /\ standing[u] \in MemberLevels /\ given[u] \in SUBSET VoiceRoles
      /\ ruled \in [Channels \X (Speakers \cup VoiceRoles) -> Override]
  BY DEF MediaInv, MediaTypeOK
<1>2. w \in Witness
  BY <1>1, NowTypes DEF Witness
<1>3. /\ w.held = HeldNow(standing[u], given[u], ruled, r, u)
      /\ w.offered = OfferedNow(standing[u], given[u], ruled, r, u)
      /\ w.barred = BarredNow(standing[u], ruled, r, u) /\ w.steady = TRUE
  OBVIOUS
<1>4. join' = [join EXCEPT ![q] = j]
  BY DEF Asks, JoinGoes
<1> HIDE DEF w
<1>5. /\ j \in Join /\ j.user = u /\ j.room = r /\ j.seen = w /\ j.todo = todo
      /\ j.asked = grants /\ j.open = (r \notin cancelled) /\ j.level = "none"
      /\ j.roles = {} /\ j.at = "roles"
  <2>1. NoJoin \in Join /\ NoJoin.level = "none" /\ NoJoin.roles = {} /\ NoJoin.at = "roles"
    BY NoJoinType DEF NoJoin
  <2> QED BY <1>2, <2>1 DEF Join
<1> HIDE DEF j
<1>6. join' \in [Joins -> Join] /\ join'[q] = j /\ \A x \in Joins \ {q} : join'[x] = join[x]
  BY <1>4, <1>5 DEF MediaInv
<1>7. joins' \in 0..MaxJoins
  BY MediaAssumption DEF Asks, MediaInv, MediaTypeOK
<1>8. UNCHANGED <<clock, standing, given, ruled, cancelled, tokens, announced, changes>>
  BY DEF Asks
<1>9. MediaTypeOK' /\ TokensHold'
  BY <1>6, <1>7, <1>8 DEF MediaInv, MediaTypeOK, TokensHold
<1>10. JoinNow(j)
  BY <1>3, <1>5 DEF JoinNow, BuiltinRights, IsSpaceAdmin
<1>11. JoinDone(j)
  BY <1>5 DEF JoinDone
<1>12. ASSUME NEW x \in Joins PROVE JoinHolds(x)'
  <2>1. CASE x = q
    BY <1>6, <1>8, <1>10, <1>11, <2>1 DEF JoinHolds, JoinNow, JoinDone
  <2>2. CASE x # q
    BY <1>6, <1>8, <2>2 DEF MediaInv, JoinHolds, JoinNow, JoinDone
  <2> QED BY <2>1, <2>2
<1> QED BY <1>6, <1>9, <1>12 DEF MediaInv

\* A handler that becomes idle promises nothing.
LEMMA IdleJoinHolds ==
  ASSUME MediaInv, NEW q \in Joins, JoinGoes(q, NoJoin), UNCHANGED <<standing, given, ruled>>
  PROVE  join' \in [Joins -> Join] /\ \A x \in Joins : JoinHolds(x)'
<1>1. join' \in [Joins -> Join]
  BY NoJoinType DEF MediaInv, JoinGoes
<1>2. ASSUME NEW x \in Joins PROVE JoinHolds(x)'
  <2>1. join'[x] = NoJoin \/ join'[x] = join[x]
    BY DEF JoinGoes, MediaInv
  <2> QED BY <2>1 DEF MediaInv, JoinHolds, JoinNow, JoinDone
<1> QED BY <1>1, <1>2

\* The next check is made: it is sound, or what needs it is no longer asked for.
LEMMA PassesHolds ==
  ASSUME MediaInv, NEW q \in Joins, NEW j \in Join, JoinNow(j), JoinDone(j), j.todo # <<>>,
         NEW held \in BOOLEAN, Passes(q, j, held),
         held /\ Head(j.todo) \in Demands(j.room, j.asked) => Sound(j.seen, Head(j.todo)),
         held /\ Head(j.todo) = "status" => j.open
  PROVE  MediaInv'
<1> DEFINE p == Head(j.todo)
           left == IF held THEN j.asked
                   ELSE {g \in j.asked : g \in Sources => RightFor[g] # p}
           new == [j EXCEPT !.todo = Tail(@), !.at = "roles", !.asked = left]
<1>1. /\ j.todo \in Seq(Checks) /\ Tail(j.todo) \in Seq(Checks) /\ left \in SUBSET Grants
      /\ left \subseteq j.asked /\ j.room \in Rooms
  BY DEF Join
<1>2. held \/ p \in {"speak", "screen"}
  BY DEF Passes, Optional
<1>3. join' = [join EXCEPT ![q] = new]
  BY DEF Passes, JoinGoes
<1>4. /\ new \in Join /\ new.todo = Tail(j.todo) /\ new.asked = left /\ new.at = "roles"
      /\ new.user = j.user /\ new.room = j.room /\ new.open = j.open /\ new.seen = j.seen
      /\ new.level = j.level /\ new.roles = j.roles
  BY <1>1 DEF Join
<1>5. \A g \in left : g \in j.asked /\ (~held => (g \in Sources => RightFor[g] # p))
  OBVIOUS
<1>6. \A d : Has(j.todo, d) => d = p \/ Has(Tail(j.todo), d)
  <2>1. ASSUME NEW d, NEW i \in 1..Len(j.todo), j.todo[i] = d, d # p
        PROVE  Has(Tail(j.todo), d)
    <3>1. i # 1
      BY <1>1, <2>1
    <3>2. i - 1 \in 1..Len(Tail(j.todo)) /\ Tail(j.todo)[i - 1] = d
      BY <1>1, <2>1, <3>1
    <3> QED BY <3>2 DEF Has
  <2> QED BY <2>1 DEF Has
<1> HIDE DEF new, left, p
<1>7. join' \in [Joins -> Join] /\ join'[q] = new /\ \A x \in Joins \ {q} : join'[x] = join[x]
  BY <1>3, <1>4 DEF MediaInv
<1>8. UNCHANGED <<clock, standing, given, ruled, cancelled, tokens, announced, joins, changes>>
  BY DEF Passes
<1>9. MediaTypeOK' /\ TokensHold'
  BY <1>7, <1>8 DEF MediaInv, MediaTypeOK, TokensHold
<1>10. JoinNow(new)
  BY <1>4 DEF JoinNow
<1>11. \A d \in Demands(j.room, left) : d \in Demands(j.room, j.asked) /\ (~held => d # p)
  BY <1>2, <1>5 DEF Demands
<1>12. JoinDone(new)
  <2>1. ASSUME NEW d \in Demands(j.room, left) PROVE Sound(j.seen, d) \/ Has(Tail(j.todo), d)
    <3>1. Sound(j.seen, d) \/ Has(j.todo, d)
      BY <1>11 DEF JoinDone
    <3>2. ASSUME d = p PROVE Sound(j.seen, d)
      BY <1>11, <3>2 DEF p
    <3> QED BY <1>6, <3>1, <3>2
  <2>2. j.open \/ Has(Tail(j.todo), "status")
    <3>1. "status" = p => j.open
      BY <1>2 DEF p
    <3> QED BY <1>6, <3>1 DEF JoinDone
  <2> QED BY <1>4, <2>1, <2>2 DEF JoinDone
<1>13. ASSUME NEW x \in Joins PROVE JoinHolds(x)'
  <2>1. CASE x = q
    BY <1>7, <1>8, <1>10, <1>12, <2>1 DEF JoinHolds, JoinNow, JoinDone
  <2>2. CASE x # q
    BY <1>7, <1>8, <2>2 DEF MediaInv, JoinHolds, JoinNow, JoinDone
  <2> QED BY <2>1, <2>2
<1> QED BY <1>7, <1>9, <1>13 DEF MediaInv

\* A request that waits for a check is running and typed.
LEMMA AwaitsFacts ==
  ASSUME MediaInv, NEW q \in Joins, NEW checks, Awaits(q, checks)
  PROVE  /\ join[q] \in Join /\ join[q].todo # <<>> /\ Head(join[q].todo) \in checks
         /\ JoinNow(join[q]) /\ JoinDone(join[q])
         /\ join[q].user \in Speakers /\ join[q].room \in Rooms
         /\ standing[join[q].user] \in MemberLevels /\ given[join[q].user] \in SUBSET VoiceRoles
<1>1. join[q] \in Join /\ JoinHolds(q) /\ join[q].todo # <<>> /\ Head(join[q].todo) \in checks
  BY DEF MediaInv, Awaits
<1>2. join[q] # NoJoin
  BY <1>1 DEF NoJoin
<1> QED BY <1>1, <1>2 DEF JoinHolds, Join, MediaInv, MediaTypeOK

\* A right that is demanded is demanded of a channel.
LEMMA DemandedRight ==
  ASSUME NEW r \in Rooms, NEW grants, NEW p \in Rights, p \in Demands(r, grants)
  PROVE  PlaceOf(r) \in Channels
  BY PlaceType DEF Demands, Rights

\* The membership is read: a member, at the level of this moment.
LEMMA ReadMemberHolds ==
  ASSUME MediaInv, NEW q \in Joins, ReadMember(q)
  PROVE  MediaInv'
<1> DEFINE level == standing[join[q].user]
           j == [join[q] EXCEPT !.level = level]
           held == level # "none"
<1>1. /\ join[q] \in Join /\ join[q].todo # <<>> /\ Head(join[q].todo) = "member"
      /\ JoinNow(join[q]) /\ JoinDone(join[q])
      /\ level \in MemberLevels
  BY AwaitsFacts DEF ReadMember
<1>2. Passes(q, j, held) /\ held \in BOOLEAN
  BY DEF ReadMember
<1>3. /\ j \in Join /\ j.todo = join[q].todo /\ j.level = level /\ j.seen = join[q].seen
      /\ j.room = join[q].room /\ j.user = join[q].user /\ j.asked = join[q].asked
      /\ j.open = join[q].open /\ j.roles = join[q].roles /\ j.at = join[q].at
  BY <1>1 DEF Join
<1> HIDE DEF j
<1>4. JoinDone(j)
  BY <1>1, <1>3 DEF JoinDone
<1>5. BuiltinRights(level) \subseteq j.seen.offered
  BY <1>1, <1>3 DEF JoinNow, OfferedNow
<1>6. JoinNow(j)
  BY <1>1, <1>3, <1>5 DEF JoinNow
<1>7. held => Sound(j.seen, "member")
  <2>1. ASSUME held PROVE "member" \in j.seen.held /\ "member" \in j.seen.offered
    BY <1>1, <1>3, <2>1 DEF JoinNow, HeldNow, OfferedNow
  <2>2. "member" \notin j.seen.barred
    <3>1. "member" \notin BarredNow(level, ruled, j.room, j.user)
      <4>1. ASSUME PlaceOf(j.room) \in Channels
            PROVE  "member" \notin ruled[<<PlaceOf(j.room), j.user>>].deny
        <5>1. ruled[<<PlaceOf(j.room), j.user>>] \in Override
          BY <1>3, <4>1 DEF MediaInv, MediaTypeOK, Join
        <5> QED BY <5>1 DEF Override, Rights
      <4> QED BY <4>1 DEF BarredNow
    <3> QED BY <1>3, <1>6, <3>1 DEF JoinNow
  <2> QED BY <2>1, <2>2 DEF Sound
<1>8. j.todo # <<>> /\ Head(j.todo) = "member"
  BY <1>1, <1>3
<1> HIDE DEF held, level
<1> QED BY <1>2, <1>3, <1>4, <1>6, <1>7, <1>8, PassesHolds

\* The status that was read with the meeting is looked at.
LEMMA CheckStatusHolds ==
  ASSUME MediaInv, NEW q \in Joins, CheckStatus(q)
  PROVE  MediaInv'
<1>1. /\ join[q] \in Join /\ join[q].todo # <<>> /\ Head(join[q].todo) = "status"
      /\ JoinNow(join[q]) /\ JoinDone(join[q]) /\ Passes(q, join[q], join[q].open)
  BY AwaitsFacts DEF CheckStatus
<1>2. join[q].open \in BOOLEAN /\ join[q].room \in Rooms
  BY <1>1 DEF Join
<1>3. "status" \notin Demands(join[q].room, join[q].asked)
  BY DEF Demands, RightFor, Sources
<1> QED BY <1>1, <1>2, <1>3, PassesHolds

\* An owner has every right, at every moment.
LEMMA AdminHolds ==
  ASSUME MediaInv, NEW q \in Joins, AdminPasses(q)
  PROVE  MediaInv'
<1> DEFINE j == join[q]
<1>1. /\ j \in Join /\ j.todo # <<>> /\ Head(j.todo) \in Rights
      /\ JoinNow(j) /\ JoinDone(j) /\ Passes(q, j, TRUE) /\ IsSpaceAdmin(j.level)
  BY AwaitsFacts DEF AdminPasses
<1> HIDE DEF j
<1>2. Sound(j.seen, Head(j.todo))
  BY <1>1 DEF JoinNow, HeldNow, OfferedNow, BarredNow, BuiltinRights, IsSpaceAdmin, Sound
<1>3. Head(j.todo) # "status"
  BY <1>1 DEF Rights
<1> QED BY <1>1, <1>2, <1>3, PassesHolds

\* The roles are read: those of this moment.
LEMMA ReadRolesHolds ==
  ASSUME MediaInv, NEW q \in Joins, ReadRoles(q)
  PROVE  MediaInv'
<1> DEFINE j == join[q]
           new == [j EXCEPT !.roles = given[j.user], !.at = "overrides"]
<1>1. /\ j \in Join /\ JoinNow(j) /\ JoinDone(j) /\ given[j.user] \in SUBSET VoiceRoles
      /\ join' = [join EXCEPT ![q] = new]
      /\ UNCHANGED <<clock, standing, given, ruled, cancelled, tokens, announced, joins, changes>>
  BY AwaitsFacts DEF ReadRoles, JoinGoes
<1>2. /\ new \in Join /\ new.todo = j.todo /\ new.asked = j.asked /\ new.at = "overrides"
      /\ new.user = j.user /\ new.room = j.room /\ new.open = j.open /\ new.seen = j.seen
      /\ new.level = j.level /\ new.roles = given[j.user]
  BY <1>1 DEF Join
<1> HIDE DEF j, new
<1>3. JoinNow(new) /\ JoinDone(new)
  BY <1>1, <1>2 DEF JoinNow, JoinDone
<1>4. join' \in [Joins -> Join] /\ join'[q] = new /\ \A x \in Joins \ {q} : join'[x] = join[x]
  BY <1>1, <1>2 DEF MediaInv
<1>5. MediaTypeOK' /\ TokensHold'
  BY <1>1, <1>4 DEF MediaInv, MediaTypeOK, TokensHold
<1>6. ASSUME NEW x \in Joins PROVE JoinHolds(x)'
  <2>1. CASE x = q
    BY <1>1, <1>3, <1>4, <2>1 DEF JoinHolds, JoinNow, JoinDone
  <2>2. CASE x # q
    BY <1>1, <1>4, <2>2 DEF MediaInv, JoinHolds, JoinNow, JoinDone
  <2> QED BY <2>1, <2>2
<1> QED BY <1>4, <1>5, <1>6 DEF MediaInv

\* The overrides are read: a right that they leave has a source, is not denied to
\* the user now and, if level and roles are still those that were read, is one the
\* user has now.
LEMMA ReadOverridesHolds ==
  ASSUME MediaInv, NEW q \in Joins, ReadOverrides(q)
  PROVE  MediaInv'
<1> DEFINE j == join[q]
           p == Head(j.todo)
           c == PlaceOf(j.room)
           has == RightsWith(j.level, j.roles, ruled, c, j.user)
           level == standing[j.user]
           roles == given[j.user]
           held == p \in has
<1>1. /\ j \in Join /\ j.todo # <<>> /\ p \in Rights
      /\ JoinNow(j) /\ JoinDone(j) /\ Passes(q, j, held) /\ j.at = "overrides"
      /\ j.user \in Speakers /\ j.room \in Rooms
      /\ level \in MemberLevels /\ roles \in SUBSET VoiceRoles
  BY AwaitsFacts DEF ReadOverrides
<1> HIDE DEF j, p
<1>2. ASSUME held, p \in Demands(j.room, j.asked) PROVE Sound(j.seen, p)
  <2>1. c \in Channels
    BY <1>1, <1>2, DemandedRight
  <2>2. /\ p \in BuiltinRights(j.level) \cup GrantedBy(j.roles) \cup Allowed(ruled, c, j.roles)
                  \cup ruled[<<c, j.user>>].allow
        /\ p \notin ruled[<<c, j.user>>].deny
    BY <1>2 DEF RightsWith
  <2>3. j.roles \subseteq roles /\ BuiltinRights(j.level) \subseteq j.seen.offered
        /\ OfferedNow(level, roles, ruled, j.room, j.user) \subseteq j.seen.offered
    BY <1>1 DEF JoinNow
  <2>4. /\ GrantedBy(j.roles) \subseteq GrantedBy(roles)
        /\ Allowed(ruled, c, j.roles) \subseteq Allowed(ruled, c, roles \cup {j.user})
        /\ ruled[<<c, j.user>>].allow \subseteq Allowed(ruled, c, roles \cup {j.user})
    BY <2>3 DEF GrantedBy, Allowed
  <2>5. p \in j.seen.offered
    BY <2>1, <2>2, <2>3, <2>4 DEF OfferedNow
  <2>6. p \notin j.seen.barred
    BY <1>1, <2>1, <2>2 DEF JoinNow, BarredNow
  <2>7. ASSUME j.seen.steady PROVE p \in j.seen.held
    <3>1. j.roles = roles /\ j.level \in {"none", level}
      BY <1>1, <2>7 DEF JoinNow
    <3>2. BuiltinRights(j.level) \subseteq BuiltinRights(level)
      BY <3>1 DEF BuiltinRights
    <3>3. p \in RightsWith(level, roles, ruled, c, j.user)
      BY <1>2, <3>1, <3>2 DEF RightsWith
    <3>4. p \in HeldNow(level, roles, ruled, j.room, j.user)
      BY <1>1, <2>1, <3>3 DEF HeldNow
    <3> QED BY <1>1, <3>4 DEF JoinNow
  <2> QED BY <2>5, <2>6, <2>7 DEF Sound
<1>3. p # "status"
  BY <1>1 DEF Rights
<1>4. held \in BOOLEAN
  OBVIOUS
<1> HIDE DEF held
<1> QED BY <1>1, <1>2, <1>3, <1>4, PassesHolds DEF p

\* Signing a token: everything it needs was established.
LEMMA IssueHolds ==
  ASSUME MediaInv, NEW q \in Joins, Issue(q)
  PROVE  MediaInv'
<1> DEFINE j == join[q]
           t == [user |-> j.user, room |-> j.room, grants |-> j.asked,
                 expires |-> clock + Ttl, seen |-> j.seen, open |-> j.open]
<1>0. /\ j \in Join /\ j # NoJoin /\ j.todo = <<>> /\ JoinHolds(q)
      /\ tokens' = tokens \cup {t}
      /\ announced' = announced \cup Announces(j)
      /\ JoinGoes(q, NoJoin)
      /\ UNCHANGED <<clock, standing, given, ruled, cancelled, joins, changes>>
  BY DEF MediaInv, Issue
<1>1. join' \in [Joins -> Join] /\ \A x \in Joins : JoinHolds(x)'
  BY <1>0, IdleJoinHolds
<1>2. clock \in Nat /\ clock + Ttl \in Nat
  BY MediaAssumption DEF MediaInv, MediaTypeOK
<1>3. t \in Token
  BY <1>0, <1>2 DEF Token, Join
<1>4. Announces(j) \subseteq Announcement
  BY <1>0 DEF Announces, Announcement, Join
<1>5. MediaTypeOK'
  BY <1>0, <1>1, <1>3, <1>4 DEF MediaInv, MediaTypeOK
<1>6. ~Has(j.todo, "status") /\ \A d : ~Has(j.todo, d)
  BY <1>0 DEF Has
<1>7. j.open /\ \A d \in Demands(j.room, j.asked) : Sound(j.seen, d)
  BY <1>0, <1>6 DEF JoinHolds, JoinDone
<1>8. /\ t.room = j.room /\ t.grants = j.asked /\ t.seen = j.seen /\ t.open = j.open
      /\ t.expires = clock + Ttl
  OBVIOUS
<1> HIDE DEF t, j
<1>9. /\ Demands(t.room, t.grants) \subseteq t.seen.offered
      /\ Demands(t.room, t.grants) \cap t.seen.barred = {}
      /\ t.seen.steady => Demands(t.room, t.grants) \subseteq t.seen.held
      /\ t.open /\ t.expires <= clock + Ttl
  BY <1>2, <1>7, <1>8 DEF Sound
<1>10. TokensHold'
  BY <1>0, <1>9 DEF TokensHold, MediaInv
<1> QED BY <1>1, <1>5, <1>10 DEF MediaInv

\* Levels, roles and overrides change: the history takes the moment in, and what
\* was sound stays so.
LEMMA ChangeHolds ==
  ASSUME MediaInv, NEW levels \in [Speakers -> MemberLevels],
         NEW roles \in [Speakers -> SUBSET VoiceRoles],
         NEW rules \in [Channels \X (Speakers \cup VoiceRoles) -> Override],
         \A u \in Speakers : IsSpaceAdmin(standing[u]) => levels[u] = standing[u],
         \A u \in Speakers : given[u] \subseteq roles[u],
         PermissionsBecome(levels, roles, rules)
  PROVE  MediaInv'
<1>0. /\ standing' = levels /\ given' = roles /\ ruled' = rules
      /\ join' = [q \in Joins |-> IF join[q] = NoJoin THEN NoJoin
                                  ELSE Witnesses(join[q], levels, roles, rules)]
      /\ changes < MaxChanges /\ changes' = changes + 1
      /\ UNCHANGED <<clock, cancelled, tokens, announced, joins>>
  BY DEF PermissionsBecome
<1>1. ASSUME NEW q \in Joins
      PROVE  join'[q] \in Join /\ JoinHolds(q)'
  <2> DEFINE j == join[q]
             u == j.user
             h == HeldNow(levels[u], roles[u], rules, j.room, u)
             o == OfferedNow(levels[u], roles[u], rules, j.room, u)
             b == BarredNow(levels[u], rules, j.room, u)
             s == (j.seen.steady /\ levels[u] = standing[u] /\ roles[u] = given[u])
             w == [held |-> j.seen.held \cup h, offered |-> j.seen.offered \cup o,
                   barred |-> j.seen.barred \cap b, steady |-> s]
             new == [j EXCEPT !.seen = w]
  <2>1. CASE j = NoJoin
    <3>1. join'[q] = NoJoin
      BY <1>0, <2>1
    <3> QED BY <3>1, NoJoinType DEF JoinHolds
  <2>2. CASE j # NoJoin
    <3>1. join'[q] = new
      BY <1>0, <2>2 DEF Witnesses
    <3>2. j \in Join /\ JoinNow(j) /\ JoinDone(j)
      BY <2>2 DEF MediaInv, JoinHolds
    <3>3. /\ u \in Speakers /\ j.room \in Rooms /\ j.seen \in Witness
          /\ levels[u] \in MemberLevels /\ roles[u] \in SUBSET VoiceRoles
      BY <3>2 DEF Join
    <3>4. h \in SUBSET Checks /\ o \in SUBSET Checks /\ b \in SUBSET Checks
      BY <3>3, NowTypes
    <3>5. s \in BOOLEAN
      OBVIOUS
    <3>6. s => j.seen.steady /\ levels[u] = standing[u] /\ roles[u] = given[u]
      OBVIOUS
    <3> HIDE DEF h, o, b, s
    <3>7. w \in Witness /\ w.held = j.seen.held \cup h /\ w.offered = j.seen.offered \cup o
          /\ w.barred = j.seen.barred \cap b /\ w.steady = s
      BY <3>3, <3>4, <3>5 DEF Witness
    <3> HIDE DEF w
    <3>8. /\ new \in Join /\ new.todo = j.todo /\ new.asked = j.asked /\ new.at = j.at
          /\ new.user = u /\ new.room = j.room /\ new.open = j.open /\ new.seen = w
          /\ new.level = j.level /\ new.roles = j.roles
      BY <3>2, <3>7 DEF Join
    <3> HIDE DEF new, j
    <3>9. /\ BuiltinRights(new.level) \subseteq new.seen.offered
          /\ IsSpaceAdmin(new.level) => IsSpaceAdmin(levels[u])
          /\ new.seen.steady => new.level \in {"none", levels[u]}
          /\ new.roles \subseteq roles[u]
          /\ new.at = "overrides" /\ new.seen.steady => new.roles = roles[u]
      BY <3>2, <3>3, <3>6, <3>7, <3>8 DEF JoinNow
    <3>10. /\ HeldNow(levels[u], roles[u], rules, new.room, u) \subseteq new.seen.held
           /\ OfferedNow(levels[u], roles[u], rules, new.room, u) \subseteq new.seen.offered
           /\ new.seen.barred \subseteq BarredNow(levels[u], rules, new.room, u)
      BY <3>7, <3>8 DEF h, o, b
    <3>11. JoinNow(join[q])'
      BY <1>0, <3>1, <3>8, <3>9, <3>10 DEF JoinNow
    <3>12. \A d : Sound(j.seen, d) => Sound(w, d)
      BY <3>6, <3>7 DEF Sound
    <3>13. JoinDone(join[q])'
      <4>1. JoinDone(new)
        BY <3>2, <3>8, <3>12 DEF JoinDone
      <4> QED BY <3>1, <4>1 DEF JoinDone
    <3> QED BY <3>1, <3>8, <3>11, <3>13 DEF JoinHolds
  <2> QED BY <2>1, <2>2
<1>2. join' \in [Joins -> Join]
  BY <1>0, <1>1
<1>3. changes' \in 0..MaxChanges
  BY <1>0, MediaAssumption DEF MediaInv, MediaTypeOK
<1>4. MediaTypeOK' /\ TokensHold'
  BY <1>0, <1>1, <1>3 DEF MediaInv, MediaTypeOK, TokensHold
<1> QED BY <1>1, <1>2, <1>4 DEF MediaInv

\* MediaInv holds at the start and every step keeps it.
THEOREM MediaInvariant == MediaSpec => []MediaInv
<1> USE MediaAssumption
<1>1. MediaInit => MediaInv
  <2> SUFFICES ASSUME MediaInit PROVE MediaInv
    OBVIOUS
  <2>1. join \in [Joins -> Join] /\ \A q \in Joins : join[q] = NoJoin
    BY NoJoinType DEF MediaInit
  <2>2. ruled \in [Channels \X (Speakers \cup VoiceRoles) -> Override]
    BY DEF MediaInit
  <2>3. MediaTypeOK /\ TokensHold
    BY <2>1, <2>2 DEF MediaInit, MediaTypeOK, TokensHold
  <2> QED BY <2>1, <2>3 DEF MediaInv, JoinHolds
<1>2. MediaInv /\ [MediaNext]_mediaVars => MediaInv'
  <2> SUFFICES ASSUME MediaInv, [MediaNext]_mediaVars PROVE MediaInv'
    OBVIOUS
  <2>0. /\ standing \in [Speakers -> MemberLevels] /\ given \in [Speakers -> SUBSET VoiceRoles]
        /\ ruled \in [Channels \X (Speakers \cup VoiceRoles) -> Override]
        /\ cancelled \subseteq Gatherings
    BY DEF MediaInv, MediaTypeOK
  <2>1. CASE UNCHANGED mediaVars
    BY <2>1 DEF mediaVars, MediaInv, MediaTypeOK, JoinHolds, JoinNow, JoinDone, TokensHold
  <2>2. ASSUME NEW q \in Joins, NEW u \in Speakers, NEW r \in Rooms, NEW mute \in BOOLEAN,
               JoinVoice(q, u, r, mute)
        PROVE MediaInv'
    <3> DEFINE todo == <<"member", "view", "connect", "speak", "screen">>
               grants == {"subscribe", "screen"} \cup IF mute THEN {} ELSE {"audio"}
    <3>1. r \notin cancelled
      BY <2>0, <2>2 DEF JoinVoice
    <3>2. todo \in Seq(Checks) /\ grants \in SUBSET Grants
      BY DEF Checks, Rights, Grants, Sources
    <3>3. Demands(r, grants) \subseteq {"member", "view", "connect", "speak", "screen"}
      BY DEF Demands, RightFor, Sources
    <3>4. /\ Len(todo) = 5 /\ todo[1] = "member" /\ todo[2] = "view" /\ todo[3] = "connect"
          /\ todo[4] = "speak" /\ todo[5] = "screen"
      OBVIOUS
    <3>5. \A d \in Demands(r, grants) : Has(todo, d)
      <4> HIDE DEF todo, grants
      <4> QED BY <3>3, <3>4 DEF Has
    <3>6. Asks(q, "voice", u, r, todo, grants)
      BY <2>2 DEF JoinVoice
    <3> HIDE DEF todo, grants
    <3> QED BY <3>1, <3>2, <3>5, <3>6, AsksHolds
  <2>3. ASSUME NEW q \in Joins, NEW u \in Speakers, NEW r \in Rooms, NEW g \in Wishes,
               CreateRoomToken(q, u, r, g)
        PROVE MediaInv'
    <3> DEFINE first == <<"member">>
               todo == first \o Needed(g)
    <3>1. r \notin cancelled /\ Asks(q, "room", u, r, todo, g) /\ g \in SUBSET Grants
      BY <2>0, <2>3 DEF CreateRoomToken
    <3>2. first \in Seq(Checks) /\ Has(first, "member")
      <4>1. Len(first) = 1 /\ first[1] = "member"
        OBVIOUS
      <4> QED BY <4>1 DEF Checks, Has
    <3> HIDE DEF first
    <3>3. todo \in Seq(Checks) /\ \A d \in Demands(r, g) : Has(todo, d)
      BY <3>1, <3>2, HasAppend, NeededCovers DEF Demands
    <3> HIDE DEF todo
    <3> QED BY <3>1, <3>3, AsksHolds
  <2>4. ASSUME NEW q \in Joins, NEW u \in Speakers, NEW r \in Rooms, NEW g \in Wishes,
               CreateMeetingToken(q, u, r, g)
        PROVE MediaInv'
    <3> DEFINE todo == MeetingChecks(r, g)
    <3>1. r \in Gatherings /\ Asks(q, "meeting", u, r, todo, g) /\ g \in SUBSET Grants
      BY <2>4 DEF CreateMeetingToken
    <3>2. PlaceOf(r) = Place[r]
      BY <3>1 DEF PlaceOf
    <3>3. todo \in Seq(Checks) /\ Has(todo, "status") /\ \A d \in Demands(r, g) : Has(todo, d)
      <4>1. CASE Place[r] = "organization"
        <5>1. todo = <<"status">>
          BY <4>1 DEF MeetingChecks
        <5>2. todo \in Seq(Checks) /\ Len(todo) = 1 /\ todo[1] = "status"
          BY <5>1 DEF Checks
        <5> QED BY <3>2, <4>1, <5>2 DEF Demands, Has
      <4>2. CASE Place[r] = "space"
        <5>1. todo = <<"member", "status", "member">>
          BY <4>2 DEF MeetingChecks
        <5>2. todo \in Seq(Checks) /\ Len(todo) = 3 /\ todo[1] = "member" /\ todo[2] = "status"
          BY <5>1 DEF Checks
        <5>3. Demands(r, g) = {"member"}
          BY <3>2, <4>2 DEF Demands
        <5> HIDE DEF todo
        <5> QED BY <5>2, <5>3 DEF Has
      <4>3. CASE Place[r] # "organization" /\ Place[r] # "space"
        <5> DEFINE first == <<"member", "view", "status", "member">>
        <5>1. todo = first \o Needed(g)
          BY <4>3 DEF MeetingChecks
        <5>2. first \in Seq(Checks) /\ Len(first) = 4 /\ first[1] = "member" /\ first[3] = "status"
          BY DEF Checks, Rights
        <5> HIDE DEF first, todo
        <5>3. Has(first, "member") /\ Has(first, "status")
          BY <5>2 DEF Has
        <5>4. Demands(r, g) = {"member", "view", "connect"} \cup {RightFor[x] : x \in g \cap Sources}
          BY <3>2, <4>3 DEF Demands
        <5> QED BY <3>1, <5>1, <5>2, <5>3, <5>4, HasAppend, NeededCovers
      <4> QED BY <4>1, <4>2, <4>3
    <3> HIDE DEF todo
    <3> QED BY <3>1, <3>3, AsksHolds
  <2>5. ASSUME NEW q \in Joins, JoinEnds(q) PROVE MediaInv'
    <3>1. join' \in [Joins -> Join] /\ \A x \in Joins : JoinHolds(x)'
      BY <2>5, IdleJoinHolds DEF JoinEnds
    <3>2. MediaTypeOK' /\ TokensHold'
      BY <2>5, <3>1 DEF JoinEnds, MediaInv, MediaTypeOK, TokensHold
    <3> QED BY <3>1, <3>2 DEF MediaInv
  <2>6. ASSUME NEW r \in Gatherings, CancelMeeting(r) PROVE MediaInv'
    <3>1. changes' \in 0..MaxChanges /\ cancelled' \subseteq Gatherings
      BY <2>6 DEF CancelMeeting, MediaInv, MediaTypeOK
    <3>2. MediaTypeOK' /\ TokensHold'
      BY <2>6, <3>1 DEF CancelMeeting, MediaInv, MediaTypeOK, TokensHold
    <3>3. UNCHANGED <<join, standing, given, ruled>>
      BY <2>6 DEF CancelMeeting
    <3> QED BY <3>2, <3>3 DEF MediaInv, JoinHolds, JoinNow, JoinDone
  <2>7. CASE ClockTick
    <3>1. clock \in Nat /\ clock' = clock + 1 /\ clock' \in 0..MaxClock
      BY <2>7 DEF ClockTick, MediaInv, MediaTypeOK
    <3>2. \A t \in tokens : t.expires \in Nat
      BY DEF MediaInv, MediaTypeOK, Token
    <3>3. tokens' \subseteq tokens
      BY <2>7 DEF ClockTick
    <3>4. TokensHold'
      BY <3>1, <3>2, <3>3 DEF TokensHold, MediaInv
    <3>5. MediaTypeOK' /\ UNCHANGED <<join, standing, given, ruled>>
      BY <2>7, <3>1, <3>3 DEF ClockTick, MediaInv, MediaTypeOK
    <3> QED BY <3>4, <3>5 DEF MediaInv, JoinHolds, JoinNow, JoinDone
  <2>8. ASSUME NEW u \in Speakers, NEW level \in MemberLevels, ChangeMember(u, level)
        PROVE MediaInv'
    <3> DEFINE levels == [standing EXCEPT ![u] = level]
    <3>1. levels \in [Speakers -> MemberLevels]
          /\ \A x \in Speakers : IsSpaceAdmin(standing[x]) => levels[x] = standing[x]
      BY <2>0, <2>8 DEF ChangeMember
    <3>2. PermissionsBecome(levels, given, ruled)
      BY <2>8 DEF ChangeMember
    <3> HIDE DEF levels
    <3> QED BY <2>0, <3>1, <3>2, ChangeHolds
  <2>9. ASSUME NEW u \in Speakers, NEW r \in VoiceRoles, GiveRole(u, r) PROVE MediaInv'
    <3> DEFINE roles == [given EXCEPT ![u] = @ \cup {r}]
    <3>1. roles \in [Speakers -> SUBSET VoiceRoles]
          /\ \A x \in Speakers : given[x] \subseteq roles[x]
      BY <2>0
    <3>2. PermissionsBecome(standing, roles, ruled)
      BY <2>9 DEF GiveRole
    <3> HIDE DEF roles
    <3> QED BY <2>0, <3>1, <3>2, ChangeHolds
  <2>10. ASSUME NEW c \in Channels, NEW t \in Speakers \cup VoiceRoles, NEW s \in Settings,
                SetOverride(c, t, s)
         PROVE MediaInv'
    <3> DEFINE rules == [ruled EXCEPT ![<<c, t>>] = s]
    <3>1. rules \in [Channels \X (Speakers \cup VoiceRoles) -> Override]
      BY <2>0
    <3>2. PermissionsBecome(standing, given, rules)
      BY <2>10 DEF SetOverride
    <3> HIDE DEF rules
    <3> QED BY <2>0, <3>1, <3>2, ChangeHolds
  <2> QED BY <2>1, <2>2, <2>3, <2>4, <2>5, <2>6, <2>7, <2>8, <2>9, <2>10, ReadMemberHolds,
             CheckStatusHolds, AdminHolds, ReadRolesHolds, ReadOverridesHolds, IssueHolds
          DEF MediaNext
<1> QED BY <1>1, <1>2, PTL DEF MediaSpec

\* Every right behind a valid token was given, was not denied to its holder all
\* along and, if only overrides changed, was held at a moment of the request that
\* made the token, for every number of users, roles, rooms and requests.
THEOREM TokensGranted == MediaSpec => []TokensHold
<1>1. MediaInv => TokensHold
  BY DEF MediaInv
<1> QED BY <1>1, MediaInvariant, PTL

(***************************************************************************)
(* Rate limits.  The calls of the running window are the last ones of the  *)
(* history, from index First on; at most Limit of them.  The first of them *)
(* and all before it were admitted by MaxDelay after the window's start;   *)
(* what lies Limit or more calls before it, a window earlier than that.    *)
(***************************************************************************)
First(b, s) == Len(s) - b.count + 1

Apart(s) ==
  \A i, j \in 1..Len(s) : j - i >= 2 * Limit - 1 => s[j] - s[i] >= Window - MaxDelay

\* With the next call the k-th of a window that started at st, every call that
\* lies 2 * Limit - 1 or more before it came a window before st, or almost.
Behind(s, st, k) ==
  \A i \in 1..Len(s) : i <= Len(s) + 2 - k - Limit => s[i] + Window <= st + MaxDelay

\* Bucket b after the calls s, by the clock v.
WindowHolds(b, s, v) ==
  /\ ~b.known => s = <<>>
  /\ b.known =>
       /\ b.started <= v
       /\ b.count >= 1 /\ b.count <= Len(s)
       /\ \A i \in 1..Len(s) : i <= First(b, s) => s[i] <= b.started + MaxDelay
       /\ \A i \in 1..Len(s) :
            i <= First(b, s) - Limit => s[i] + Window <= b.started + MaxDelay
  /\ Apart(s)
  /\ \A i \in 1..Len(s) : s[i] <= v

RefusalHolds(r) == r # NoRefusal => r.at + (r.wait + 1) * TicksPerSecond >= r.ends

\* A call has read the clock, at most MaxDelay ago.
CallHolds(k, v) == k.waits => k.read <= v /\ v <= k.read + MaxDelay

LimitInv ==
  /\ LimitTypeOK
  /\ \A k \in Calls : CallHolds(waiting[k], now)
  /\ refused \in [Callers -> Refusal]
  /\ \A c \in Callers : WindowHolds(buckets[c], granted[c], now) /\ RefusalHolds(refused[c])

\* A call at time v is added to calls whose running window, with this call the
\* k-th, started at st: the calls stay far enough apart.
LEMMA AppendApart ==
  ASSUME NEW s \in Seq(Nat), NEW v \in Nat, NEW st \in Nat, NEW k \in Nat,
         NEW t, t = Append(s, v),
         1 <= k, k <= Limit, st <= v, Apart(s), Behind(s, st, k)
  PROVE  Apart(t)
<1>0. Limit \in Nat /\ Limit >= 1 /\ Window \in Nat /\ MaxDelay \in Nat
  BY RateLimitsAssumption
<1> DEFINE n == Len(s)
<1>1. /\ n \in Nat /\ Len(t) = n + 1 /\ t[n + 1] = v
      /\ \A i \in 1..n : t[i] = s[i] /\ s[i] \in Nat
  OBVIOUS
<1>2. \A i \in 1..(n + 1) : i \in 1..n \/ i = n + 1
  BY <1>1
<1> HIDE DEF n
<1>3. \A i \in 1..n : i <= n + 2 - k - Limit => s[i] + Window <= st + MaxDelay
  BY DEF n, Behind
<1>6. ASSUME NEW i \in 1..(n + 1), NEW j \in 1..(n + 1), j - i >= 2 * Limit - 1
      PROVE  t[j] - t[i] >= Window - MaxDelay
  <2>1. i \in 1..n
    BY <1>0, <1>1, <1>6
  <2>2. CASE j = n + 1
    <3>1. i <= n + 2 - k - Limit
      BY <1>0, <1>1, <1>6, <2>1, <2>2
    <3>2. s[i] + Window <= st + MaxDelay
      BY <1>3, <2>1, <3>1
    <3> QED BY <1>0, <1>1, <2>1, <2>2, <3>2
  <2>3. CASE j \in 1..n
    <3>1. s[j] - s[i] >= Window - MaxDelay
      BY <1>6, <2>1, <2>3 DEF Apart, n
    <3> QED BY <1>1, <2>1, <2>3, <3>1
  <2> QED BY <1>2, <2>2, <2>3
<1> QED BY <1>1, <1>6 DEF Apart, n

\* What is known of a bucket and its calls, in numbers.
LEMMA WindowNumbers ==
  ASSUME NEW b \in Bucket, NEW s \in Seq(0..MaxTime), NEW v \in 0..MaxTime,
         WindowHolds(b, s, v)
  PROVE  /\ Limit \in Nat /\ Limit >= 1 /\ Window \in Nat /\ Window >= 1
         /\ MaxDelay \in Nat
         /\ MaxTime \in Nat /\ v \in Nat /\ Len(s) \in Nat /\ s \in Seq(Nat)
         /\ b.known \in BOOLEAN /\ b.started \in Nat /\ b.started <= MaxTime
         /\ b.count \in Nat /\ b.count <= Limit
         /\ \A i \in 1..Len(s) : s[i] \in Nat /\ s[i] <= v
         /\ First(b, s) = Len(s) - b.count + 1
         /\ b.known => First(b, s) \in 1..Len(s)
<1>1. /\ Limit \in Nat /\ Limit >= 1 /\ Window \in Nat /\ Window >= 1
      /\ MaxDelay \in Nat /\ MaxTime \in Nat
  BY RateLimitsAssumption
<1>2. v \in Nat /\ Len(s) \in Nat /\ \A i \in 1..Len(s) : s[i] \in Nat
  BY <1>1
<1>3. s \in Seq(Nat)
  <2>1. s \in [1..Len(s) -> Nat]
    BY <1>2
  <2> QED BY <1>2, <2>1
<1>4. /\ b.known \in BOOLEAN /\ b.started \in Nat /\ b.started <= MaxTime
      /\ b.count \in Nat /\ b.count <= Limit
  BY <1>1 DEF Bucket
<1>5. /\ \A i \in 1..Len(s) : s[i] <= v
      /\ b.known => b.count >= 1 /\ b.count <= Len(s)
  BY DEF WindowHolds
<1>6. First(b, s) = Len(s) - b.count + 1
  BY DEF First
<1>7. b.known => First(b, s) \in 1..Len(s)
  BY <1>2, <1>4, <1>5, <1>6
<1> QED BY <1>1, <1>2, <1>3, <1>4, <1>5, <1>6, <1>7

\* Admitting a call that has read r and opens a window, a whole window after the
\* start of the last.
LEMMA OpensHolds ==
  ASSUME NEW b \in Bucket, NEW s \in Seq(0..MaxTime), NEW v \in 0..MaxTime,
         NEW r \in 0..MaxTime, r <= v, v <= r + MaxDelay,
         WindowHolds(b, s, v), b.known => r - b.started >= Window,
         NEW d \in Bucket, d.known, d.started = r, d.count = 1,
         NEW t, t = Append(s, v)
  PROVE  t \in Seq(0..MaxTime) /\ WindowHolds(d, t, v)
<1>0. /\ Limit \in Nat /\ Limit >= 1 /\ Window \in Nat /\ MaxDelay \in Nat
      /\ v \in Nat /\ r \in Nat /\ Len(s) \in Nat /\ s \in Seq(Nat)
      /\ b.started \in Nat /\ b.count \in Nat /\ b.count <= Limit
      /\ \A i \in 1..Len(s) : s[i] \in Nat /\ s[i] <= v
      /\ First(b, s) = Len(s) - b.count + 1
  BY WindowNumbers
<1>2. t \in Seq(0..MaxTime) /\ Len(t) = Len(s) + 1 /\ t[Len(s) + 1] = v
      /\ \A i \in 1..Len(s) : t[i] = s[i]
  OBVIOUS
<1>3. First(d, t) = Len(s) + 1
  BY <1>0, <1>2 DEF First
<1>4. ASSUME NEW i \in 1..Len(s), i <= Len(s) + 1 - Limit
      PROVE  s[i] + Window <= r + MaxDelay
  <2>1. b.known
    <3>1. s # <<>>
      BY <1>4
    <3> QED BY <3>1 DEF WindowHolds
  <2>2. i <= First(b, s)
    BY <1>0, <1>4
  <2>3. s[i] <= b.started + MaxDelay
    BY <2>1, <2>2 DEF WindowHolds
  <2>4. /\ r - b.started >= Window /\ s[i] \in Nat /\ r \in Nat /\ b.started \in Nat
        /\ Window \in Nat /\ MaxDelay \in Nat
    BY <1>0, <2>1
  <2> QED BY <2>3, <2>4
<1>5. Apart(t)
  <2>1. Behind(s, r, 1)
    BY <1>0, <1>4 DEF Behind
  <2>2. Apart(s) /\ 1 \in Nat /\ 1 <= 1 /\ 1 <= Limit
    BY <1>0 DEF WindowHolds
  <2> QED BY <1>0, <2>1, <2>2, AppendApart, Zenon
<1>6. ASSUME NEW i \in 1..Len(t) PROVE t[i] <= v /\ t[i] <= d.started + MaxDelay
  <2>0. Len(s) \in Nat /\ Len(t) = Len(s) + 1
    BY <1>0, <1>2
  <2>1. i \in 1..Len(s) \/ i = Len(s) + 1
    BY <2>0
  <2>2. t[i] \in Nat /\ t[i] <= v
    BY <1>0, <1>2, <2>1
  <2> QED BY <1>0, <2>2
<1>7. ASSUME NEW i \in 1..Len(t), i <= First(d, t) - Limit
      PROVE  t[i] + Window <= d.started + MaxDelay
  <2>1. i \in 1..Len(s) /\ i <= Len(s) + 1 - Limit
    BY <1>0, <1>2, <1>3, <1>7
  <2> QED BY <1>2, <1>4, <2>1
<1>8. d.started <= v /\ d.count >= 1 /\ d.count <= Len(t)
  BY <1>0, <1>2
<1> QED BY <1>2, <1>5, <1>6, <1>7, <1>8 DEF WindowHolds

\* Admitting a call of the running window, one of at most Limit.
LEMMA FillsHolds ==
  ASSUME NEW b \in Bucket, NEW s \in Seq(0..MaxTime), NEW v \in 0..MaxTime,
         WindowHolds(b, s, v), b.known, b.count < Limit,
         NEW d \in Bucket, d.known, d.started = b.started, d.count = b.count + 1,
         NEW t, t = Append(s, v)
  PROVE  t \in Seq(0..MaxTime) /\ WindowHolds(d, t, v)
<1>0. /\ Limit \in Nat /\ Limit >= 1 /\ Window \in Nat /\ v \in Nat /\ Len(s) \in Nat
      /\ s \in Seq(Nat)
      /\ b.started \in Nat /\ b.count \in Nat /\ b.count <= Limit
      /\ \A i \in 1..Len(s) : s[i] \in Nat /\ s[i] <= v
      /\ First(b, s) = Len(s) - b.count + 1
      /\ First(b, s) \in 1..Len(s)
  BY WindowNumbers
<1>2. t \in Seq(0..MaxTime) /\ Len(t) = Len(s) + 1 /\ t[Len(s) + 1] = v
      /\ \A i \in 1..Len(s) : t[i] = s[i]
  OBVIOUS
<1>3. First(d, t) = First(b, s)
  <2>1. First(d, t) = Len(t) - d.count + 1
    BY DEF First
  <2> QED BY <1>0, <1>2, <2>1
<1>4. /\ b.started <= v /\ Apart(s) /\ b.count >= 1 /\ b.count <= Len(s)
      /\ \A i \in 1..Len(s) : i <= First(b, s) => s[i] <= b.started + MaxDelay
      /\ \A i \in 1..Len(s) :
           i <= First(b, s) - Limit => s[i] + Window <= b.started + MaxDelay
  BY DEF WindowHolds
<1>5. Apart(t)
  <2> DEFINE k == d.count
             st == b.started
  <2>1. k \in Nat /\ 1 <= k /\ k <= Limit
    BY <1>0, SMTT(60)
  <2>2. Len(s) + 2 - k - Limit = First(b, s) - Limit
    BY <1>0
  <2>3. Behind(s, st, k)
    BY <1>4, <2>2 DEF Behind
  <2>4. st \in Nat /\ st <= v
    BY <1>0, <1>4
  <2> HIDE DEF k, st
  <2> QED BY <1>0, <1>4, <2>1, <2>3, <2>4, AppendApart, Zenon
<1>6. \A i \in 1..Len(t) : t[i] <= v
  BY <1>0, <1>2
<1>7. ASSUME NEW i \in 1..Len(t), i <= First(d, t)
      PROVE  /\ t[i] <= d.started + MaxDelay
             /\ i <= First(d, t) - Limit => t[i] + Window <= d.started + MaxDelay
  <2>1. i \in 1..Len(s)
    BY <1>0, <1>2, <1>3, <1>7
  <2> QED BY <1>2, <1>3, <1>4, <1>7, <2>1
<1>8. ASSUME NEW i \in 1..Len(t), i <= First(d, t) - Limit PROVE i <= First(d, t)
  BY <1>0, <1>3, <1>8
<1>9. d.started <= v /\ d.count >= 1 /\ d.count <= Len(t)
  BY <1>0, <1>2, <1>4, SMTT(60)
<1> QED BY <1>2, <1>5, <1>6, <1>7, <1>8, <1>9 DEF WindowHolds

\* The seconds told to whoever is refused, with one more, reach the window's end.
LEMMA ResetReaches ==
  ASSUME NEW x \in Int
  PROVE  /\ Max({1, x \div 2}) \in Nat
         /\ (Max({1, x \div 2}) + 1) * 2 >= x
<1> DEFINE y == x \div 2
           m == Max({1, y})
<1>1. y \in Int /\ 2 * y + 2 >= x
  OBVIOUS
<1> HIDE DEF y
<1>2. \E e \in {1, y} : \A z \in {1, y} : e >= z
  BY <1>1
<1>3. m \in {1, y} /\ \A z \in {1, y} : m >= z
  BY <1>2 DEF Max
<1> HIDE DEF m
<1>4. m \in Nat /\ m >= y
  BY <1>1, <1>3
<1>5. m \in Nat /\ (m + 1) * 2 >= x
  BY <1>1, <1>4
<1> QED BY <1>5 DEF m, y

\* A refusal in a running window, reckoned from an instant r before the answer.
LEMMA RefusalTold ==
  ASSUME LimitInv, NEW b \in Bucket, b.started <= now, NEW r \in 0..MaxTime, r <= now,
         NEW f, f = [at |-> now, wait |-> ResetAfter(b, r), ends |-> b.started + Window]
  PROVE  f \in Refusal /\ RefusalHolds(f)
<1>1. /\ now \in Nat /\ now \in 0..MaxTime /\ b.started \in Nat /\ Window \in Nat
      /\ r \in Nat
  BY RateLimitsAssumption DEF LimitInv, LimitTypeOK, Bucket
<1> DEFINE g == Since(r, b.started)
           x == Window - g
           w == ResetAfter(b, r)
<1>2. g \in Nat /\ g <= now - b.started
  BY <1>1 DEF Since
<1>3. w = Max({1, x \div 2})
  BY DEF ResetAfter, TicksPerSecond
<1> HIDE DEF g
<1>4. x \in Int
  BY <1>1, <1>2
<1> HIDE DEF x
<1>5. w \in Nat /\ (w + 1) * 2 >= x
  BY <1>3, <1>4, ResetReaches
<1> HIDE DEF w
<1>6. f.at = now /\ f.wait = w /\ f.ends = b.started + Window /\ f \in Refusal
  <2>1. b.started + Window \in Nat
    BY <1>1
  <2> QED BY <1>1, <1>5, <2>1 DEF Refusal, w
<1>7. f.at + (f.wait + 1) * TicksPerSecond >= f.ends
  <2>1. now + (w + 1) * 2 >= b.started + Window
    BY <1>1, <1>2, <1>5 DEF x
  <2> QED BY <1>6, <2>1 DEF TicksPerSecond
<1> QED BY <1>6, <1>7 DEF RefusalHolds

\* A call of one caller, admitted or refused, leaves the others' buckets alone.
LEMMA CheckHolds ==
  ASSUME LimitInv, NEW k \in Calls, Check(k)
  PROVE  LimitInv'
<1> DEFINE c == waiting[k].by
           r == waiting[k].read
           b == buckets[c]
           e == Renewed(b, r)
<1>0. /\ Limit \in Nat /\ Limit >= 1 /\ Window \in Nat /\ Window >= 1
      /\ MaxDelay \in Nat /\ MaxTime \in Nat /\ c \in Callers /\ r \in 0..MaxTime
  BY RateLimitsAssumption DEF LimitInv, LimitTypeOK, Call
<1>1. /\ now \in 0..MaxTime /\ b \in Bucket /\ granted[c] \in Seq(0..MaxTime)
      /\ WindowHolds(b, granted[c], now) /\ RefusalHolds(refused[c])
      /\ r <= now /\ now <= r + MaxDelay
  BY <1>0 DEF LimitInv, LimitTypeOK, Check, CallHolds
<1>2. /\ now' = now /\ waiting' = [waiting EXCEPT ![k] = NoCall]
      /\ waiting \in [Calls -> Call]
      /\ buckets \in [Callers -> Bucket] /\ granted \in [Callers -> Seq(0..MaxTime)]
      /\ refused \in [Callers -> Refusal]
      /\ \A o \in Callers : WindowHolds(buckets[o], granted[o], now) /\ RefusalHolds(refused[o])
      /\ \A o \in Calls : CallHolds(waiting[o], now)
  BY DEF LimitInv, LimitTypeOK, Check
<1>c. waiting' \in [Calls -> Call] /\ \A o \in Calls : CallHolds(waiting'[o], now)
  BY <1>0, <1>2, RateLimitsAssumption DEF NoCall, Call, CallHolds
<1>3. CASE e.count >= Limit
  <2>1. /\ buckets' = [buckets EXCEPT ![c] = e]
        /\ refused' = [refused EXCEPT ![c] =
                         [at |-> now, wait |-> ResetAfter(e, r), ends |-> e.started + Window]]
        /\ granted' = granted
    <3> HIDE DEF e
    <3>1. e.count < Limit \/ e.count >= Limit
      BY <1>3
    <3>2. ~(e.count < Limit)
      <4>1. e.count \in Nat
        BY <1>0, <1>1 DEF e, Renewed, Bucket
      <4> QED BY <1>0, <1>3, <4>1
    <3> QED BY <1>3, <3>2 DEF Check, e
  <2>2. e = b
    BY <1>0, <1>3 DEF Renewed
  <2>b. b.started <= now
    <3>1. b.known
      BY <1>0, <1>3 DEF Renewed
    <3> QED BY <1>1, <3>1 DEF WindowHolds
  <2> HIDE DEF e, b, c, r
  <2>3. buckets' = buckets
    BY <1>0, <1>2, <2>1, <2>2 DEF b
  <2> DEFINE f == [at |-> now, wait |-> ResetAfter(e, r), ends |-> e.started + Window]
  <2>4. f \in Refusal /\ RefusalHolds(f)
    BY <1>0, <1>1, <2>2, <2>b, RefusalTold
  <2> HIDE DEF f
  <2>5. refused' = [refused EXCEPT ![c] = f]
    BY <2>1 DEF f
  <2>6. refused' \in [Callers -> Refusal] /\ \A o \in Callers : RefusalHolds(refused'[o])
    BY <1>0, <1>2, <2>4, <2>5
  <2>7. now' \in 0..MaxTime /\ \A o \in Callers : refused'[o] \in Refusal
    BY <1>1, <1>2, <2>6
  <2> QED BY <1>2, <1>c, <2>1, <2>3, <2>6, <2>7 DEF LimitInv, LimitTypeOK
<1>4. CASE ~(e.count >= Limit)
  <2>1. /\ buckets' = [buckets EXCEPT ![c] = [e EXCEPT !.count = @ + 1]]
        /\ granted' = [granted EXCEPT ![c] = Append(@, now)]
        /\ refused' = refused
    BY <1>4 DEF Check
  <2> DEFINE d == [e EXCEPT !.count = @ + 1]
             t == Append(granted[c], now)
  <2>2. ASSUME b.known => r - b.started >= Window
        PROVE  d \in Bucket /\ t \in Seq(0..MaxTime) /\ WindowHolds(d, t, now)
    <3>1. e = [known |-> TRUE, started |-> r, count |-> 0]
      <4>1. b.known \in BOOLEAN /\ b.started \in Nat /\ r \in Nat
        BY <1>0, <1>1 DEF Bucket
      <4>2. b.known => Since(r, b.started) >= Window
        BY <1>0, <2>2, <4>1 DEF Since
      <4> QED BY <4>1, <4>2 DEF Renewed
    <3> HIDE DEF e, r
    <3>2. e \in Bucket /\ e.count = 0 /\ 1 \in 0..Limit /\ e.known /\ e.started = r
      BY <1>0, <1>1, <3>1 DEF Bucket
    <3>3. d \in Bucket /\ d.known /\ d.started = r /\ d.count = 1
      BY <3>2 DEF Bucket
    <3> DEFINE s == granted[c]
    <3>4. /\ b \in Bucket /\ s \in Seq(0..MaxTime) /\ WindowHolds(b, s, now)
          /\ b.known => r - b.started >= Window
          /\ t = Append(s, now)
      BY <1>1, <2>2
    <3> HIDE DEF d, t, b, s
    <3> QED BY <1>0, <1>1, <3>3, <3>4, OpensHolds
  <2>3. ASSUME ~(b.known => r - b.started >= Window)
        PROVE  d \in Bucket /\ t \in Seq(0..MaxTime) /\ WindowHolds(d, t, now)
    <3>1. e = b
      <4>1. b.known /\ b.started \in Nat /\ r \in Nat
        BY <1>0, <1>1, <2>3 DEF Bucket
      <4>2. ~(Since(r, b.started) >= Window)
        BY <1>0, <2>3, <4>1 DEF Since
      <4> QED BY <4>1, <4>2 DEF Renewed
    <3> HIDE DEF e
    <3>2. b.known /\ b.count < Limit /\ b.count + 1 \in 0..Limit
      <4>1. b.known /\ b.count \in 0..Limit
        BY <1>1, <2>3 DEF Bucket
      <4> HIDE DEF b
      <4> QED BY <1>0, <1>4, <3>1, <4>1
    <3>3. d \in Bucket /\ d.known /\ d.started = b.started /\ d.count = b.count + 1
      BY <1>1, <3>1, <3>2 DEF Bucket
    <3> DEFINE s == granted[c]
    <3>4. /\ b \in Bucket /\ s \in Seq(0..MaxTime) /\ WindowHolds(b, s, now)
          /\ t = Append(s, now)
      BY <1>1
    <3> HIDE DEF d, t, b, s
    <3> QED BY <1>1, <3>2, <3>3, <3>4, FillsHolds
  <2>4. d \in Bucket /\ t \in Seq(0..MaxTime) /\ WindowHolds(d, t, now)
    <3> HIDE DEF d, t
    <3> QED BY <2>2, <2>3
  <2>5. buckets' = [buckets EXCEPT ![c] = d] /\ granted' = [granted EXCEPT ![c] = t]
    BY <2>1
  <2> HIDE DEF d, t, e, b, c
  <2>6. /\ buckets' \in [Callers -> Bucket] /\ granted' \in [Callers -> Seq(0..MaxTime)]
    BY <1>0, <1>2, <2>4, <2>5
  <2>7. ASSUME NEW o \in Callers PROVE WindowHolds(buckets'[o], granted'[o], now)
    <3>1. CASE o = c
      <4>1. buckets'[o] = d /\ granted'[o] = t
        BY <1>0, <1>2, <2>5, <3>1
      <4> QED BY <2>4, <4>1
    <3>2. CASE o # c
      <4>1. buckets'[o] = buckets[o] /\ granted'[o] = granted[o]
        BY <1>2, <2>5, <3>2
      <4> QED BY <1>2, <4>1
    <3> QED BY <3>1, <3>2
  <2>8. now' \in 0..MaxTime /\ \A o \in Callers : refused'[o] \in Refusal
    BY <1>1, <1>2, <2>1
  <2> QED BY <1>2, <1>c, <2>1, <2>6, <2>7, <2>8 DEF LimitInv, LimitTypeOK
<1> QED BY <1>3, <1>4

\* The rate limiter's inductive invariant: where each window began, which of the
\* admitted calls are its own, and how long ago each waiting call read the clock.
THEOREM LimitInvariant == LimitSpec => []LimitInv
<1>0. /\ Limit \in Nat /\ Limit >= 1 /\ Window \in Nat /\ MaxTime \in Nat
      /\ MaxDelay \in Nat
  BY RateLimitsAssumption
<1>c. NoCall \in Call /\ ~NoCall.waits
  BY <1>0, RateLimitsAssumption DEF NoCall, Call
<1>1. ASSUME NEW v \in 0..MaxTime
      PROVE  NoBucket \in Bucket /\ NoRefusal \in Refusal /\ <<>> \in Seq(0..MaxTime)
             /\ WindowHolds(NoBucket, <<>>, v) /\ RefusalHolds(NoRefusal)
  BY <1>0 DEF NoBucket, NoRefusal, Bucket, Refusal, WindowHolds, Apart, RefusalHolds
<1>2. LimitInit => LimitInv
  <2> SUFFICES ASSUME LimitInit PROVE LimitInv
    OBVIOUS
  <2>1. now \in 0..MaxTime
    BY <1>0 DEF LimitInit
  <2>2. \A c \in Callers : buckets[c] = NoBucket /\ granted[c] = <<>> /\ refused[c] = NoRefusal
    BY DEF LimitInit
  <2>3. /\ buckets \in [Callers -> Bucket] /\ granted \in [Callers -> Seq(0..MaxTime)]
        /\ refused \in [Callers -> Refusal]
    BY <1>1, <2>1 DEF LimitInit
  <2>4. \A c \in Callers : WindowHolds(buckets[c], granted[c], now) /\ RefusalHolds(refused[c])
    BY <1>1, <2>1, <2>2
  <2>5. waiting \in [Calls -> Call] /\ \A k \in Calls : CallHolds(waiting[k], now)
    BY <1>c DEF LimitInit, CallHolds
  <2> QED BY <2>1, <2>3, <2>4, <2>5 DEF LimitInv, LimitTypeOK
<1>3. LimitInv /\ [LimitNext]_limitVars => LimitInv'
  <2> SUFFICES ASSUME LimitInv, [LimitNext]_limitVars PROVE LimitInv'
    OBVIOUS
  <2>0. ASSUME NEW k \in Calls, NEW s \in Spellings, Arrive(k, s) PROVE LimitInv'
    <3>1. /\ now' = now /\ buckets' = buckets /\ granted' = granted /\ refused' = refused
          /\ now \in 0..MaxTime /\ waiting \in [Calls -> Call]
          /\ \A o \in Calls : CallHolds(waiting[o], now)
      BY <2>0 DEF Arrive, LimitInv, LimitTypeOK
    <3> DEFINE f == [waits |-> TRUE, by |-> BucketOf(s), read |-> now]
    <3>2. f \in Call
      BY <3>1, RateLimitsAssumption DEF Call, BucketOf
    <3>3. CallHolds(f, now)
      BY <1>0, <3>1 DEF CallHolds
    <3>4. waiting' = [waiting EXCEPT ![k] = f]
      BY <2>0 DEF Arrive
    <3> HIDE DEF f
    <3>5. waiting' \in [Calls -> Call] /\ \A o \in Calls : CallHolds(waiting'[o], now)
      BY <3>1, <3>2, <3>3, <3>4
    <3> QED BY <3>1, <3>5 DEF LimitInv, LimitTypeOK
  <2>1. CASE \E k \in Calls : Check(k)
    BY <2>1, CheckHolds
  <2>2. CASE Clear
    <3>1. now' = now /\ now \in 0..MaxTime /\ waiting' = waiting
      BY <2>2 DEF Clear, LimitInv, LimitTypeOK
    <3>2. \A c \in Callers : buckets'[c] = NoBucket /\ granted'[c] = <<>> /\ refused'[c] = NoRefusal
      BY <2>2 DEF Clear
    <3>3. /\ buckets' \in [Callers -> Bucket] /\ granted' \in [Callers -> Seq(0..MaxTime)]
          /\ refused' \in [Callers -> Refusal]
      BY <1>1, <2>2, <3>1 DEF Clear
    <3>4. \A c \in Callers : WindowHolds(buckets'[c], granted'[c], now') /\ RefusalHolds(refused'[c])
      BY <1>1, <3>1, <3>2
    <3> QED BY <3>1, <3>3, <3>4 DEF LimitInv, LimitTypeOK
  <2>3. CASE LimitTick
    <3>1. now \in Nat /\ now' \in 0..MaxTime /\ now' \in Nat /\ now <= now'
          /\ buckets' = buckets /\ granted' = granted /\ refused' = refused
          /\ waiting' = waiting
      BY <1>0, <2>3 DEF LimitTick, LimitInv, LimitTypeOK
    <3>2. ASSUME NEW c \in Callers PROVE WindowHolds(buckets[c], granted[c], now')
      <4> DEFINE b == buckets[c]
                 s == granted[c]
      <4>1. WindowHolds(b, s, now) /\ b \in Bucket /\ s \in Seq(0..MaxTime) /\ now \in 0..MaxTime
        BY DEF LimitInv, LimitTypeOK
      <4> HIDE DEF b, s
      <4>2. b.started \in Nat /\ \A i \in 1..Len(s) : s[i] \in Nat /\ s[i] <= now
        BY <4>1, WindowNumbers
      <4>3. (b.known => b.started <= now') /\ \A i \in 1..Len(s) : s[i] <= now'
        BY <3>1, <4>1, <4>2 DEF WindowHolds
      <4>4. WindowHolds(b, s, now')
        BY <4>1, <4>3 DEF WindowHolds
      <4> QED BY <4>4 DEF b, s
    <3>3. ASSUME NEW k \in Calls PROVE CallHolds(waiting[k], now')
      <4>1. waiting[k].read \in Nat /\ CallHolds(waiting[k], now) /\ now' = now + 1
        BY <1>0, <2>3 DEF LimitTick, LimitInv, LimitTypeOK, Call
      <4>2. CASE waiting[k].waits
        <5>1. now < waiting[k].read + MaxDelay /\ waiting[k].read <= now
          BY <2>3, <4>1, <4>2 DEF LimitTick, CallHolds
        <5>2. waiting[k].read <= now' /\ now' <= waiting[k].read + MaxDelay
          BY <1>0, <3>1, <4>1, <5>1
        <5> QED BY <5>2 DEF CallHolds
      <4> QED BY <4>2 DEF CallHolds
    <3> QED BY <3>1, <3>2, <3>3 DEF LimitInv, LimitTypeOK
  <2>4. CASE UNCHANGED limitVars
    BY <2>4 DEF limitVars, LimitInv, LimitTypeOK
  <2> QED BY <2>0, <2>1, <2>2, <2>3, <2>4 DEF LimitNext
<1> QED BY <1>2, <1>3, PTL DEF LimitSpec

\* However a caller's calls fall around the ends of windows and in whatever order
\* they get the mutex, 2 * Limit of them span a window less the longest wait for
\* it, and the wait a refusal tells is enough, for every limit, window, number of
\* callers and of waiting calls and way of spelling them.
THEOREM LimitKept == LimitSpec => []LimitHolds
<1>1. LimitInv => LimitHolds
  BY DEF LimitInv, WindowHolds, Apart, RefusalHolds, LimitHolds
<1> QED BY <1>1, LimitInvariant, PTL

(***************************************************************************)
(* Calendars.  A link names an event that syncs of its meeting and key     *)
(* have answered, and whatever they answered was made up for both.  While  *)
(* no two syncs have missed the link of a meeting and key at a time, a     *)
(* sync that missed it is the only one, and nothing was answered before;   *)
(* once something was, the link is there and holds it.                     *)
(***************************************************************************)
IsLinked(m, k) == accounts[k].id # Nothing /\ links[<<m, accounts[k].id>>] # NoLink

\* Sync q found no link and makes up, or has made up, an event.
Creating(q, m, k) ==
  /\ sync[q].at \in {"provider", "store"} /\ sync[q].existing = Nothing
  /\ sync[q].meeting = m /\ sync[q].key = k

IdsUnique ==
  \A k, o \in Keys : accounts[k].id # Nothing /\ accounts[k].id = accounts[o].id => k = o

AccountsWhole == \A k \in Keys : accounts[k].id = Nothing => accounts[k] = NoAccount

LinksHold ==
  \A m \in Meetings, a \in AccountIds :
    links[<<m, a>>] # NoLink =>
      \E k \in Keys : accounts[k].id = a /\ links[<<m, a>>].event \in told[<<m, k>>]

ToldHold == \A m \in Meetings, k \in Keys : \A v \in told[<<m, k>>] : MadeFor(v, m, k)

SyncHolds(s) ==
  /\ s.at # "idle" => s.meeting \in Meetings /\ s.key \in Keys
  /\ s.at \in {"existing", "provider", "store"} =>
       s.account.id # Nothing /\ s.account.id = accounts[s.key].id
  /\ s.at = "provider" /\ s.existing # Nothing => s.existing \in told[<<s.meeting, s.key>>]
  /\ s.at = "store" => s.event \in EventIds /\ MadeFor(s.event, s.meeting, s.key)
  /\ s.at = "store" /\ s.existing # Nothing => s.event \in told[<<s.meeting, s.key>>]

OneEvent(m, k) ==
  /\ \A v, w \in told[<<m, k>>] : v = w
  /\ told[<<m, k>>] # {} => IsLinked(m, k)
  /\ \A q \in Syncs : Creating(q, m, k) => told[<<m, k>>] = {}
  /\ \A q, w \in Syncs : Creating(q, m, k) /\ Creating(w, m, k) => q = w

CalendarInv ==
  /\ CalendarTypeOK /\ sync \in [Syncs -> Sync]
  /\ IdsUnique /\ AccountsWhole /\ LinksHold /\ ToldHold
  /\ \A q \in Syncs : SyncHolds(sync[q])
  /\ \A m \in Meetings, k \in Keys : <<m, k>> \notin overlapped => OneEvent(m, k)

\* What the invariant says of the tables and of a running sync, unfolded.
LEMMA CalendarFacts ==
  ASSUME CalendarInv
  PROVE  /\ accounts \in [Keys -> Account] /\ links \in [Meetings \X AccountIds -> Link]
         /\ events \in [EventIds -> Event] /\ sync \in [Syncs -> Sync]
         /\ told \in [Meetings \X Keys -> SUBSET EventIds]
         /\ calls \in 0..MaxCalls /\ MaxCalls \in Nat /\ overlapped \subseteq Meetings \X Keys
         /\ AccountIds \subseteq Nat /\ EventIds \subseteq Nat
         /\ Nothing \notin AccountIds /\ Nothing \notin EventIds
         /\ \A k \in Keys : accounts[k].id \in AccountIds \cup {Nothing}
         /\ \A q \in Syncs : sync[q] \in Sync /\ SyncHolds(sync[q])
BY CalendarsAssumption DEF CalendarInv, CalendarTypeOK, Account, Nothing

\* The steps of sync q that store nothing: it may miss the link only as the first,
\* and what events were made up for stays.
LEMMA QuietStep ==
  ASSUME CalendarInv, UNCHANGED <<accounts, links, told>>, calls' \in 0..MaxCalls,
         events' \in [EventIds -> Event],
         \A v \in EventIds, m \in Meetings, k \in Keys : MadeFor(v, m, k) => MadeFor(v, m, k)',
         overlapped \subseteq overlapped', overlapped' \subseteq Meetings \X Keys,
         NEW q \in Syncs, NEW s \in Sync, SyncGoes(q, s), SyncHolds(s)',
         \A m \in Meetings, k \in Keys :
           /\ <<m, k>> \notin overlapped'
           /\ s.at \in {"provider", "store"} /\ s.existing = Nothing /\ s.meeting = m /\ s.key = k
           => \/ Creating(q, m, k)
              \/ told[<<m, k>>] = {} /\ \A w \in Syncs \ {q} : ~Creating(w, m, k)
  PROVE  CalendarInv'
<1>1. /\ sync' \in [Syncs -> Sync] /\ sync'[q] = s
      /\ \A w \in Syncs : w # q => sync'[w] = sync[w]
  BY DEF SyncGoes, CalendarInv
<1>2. IdsUnique' /\ AccountsWhole' /\ LinksHold'
  BY DEF CalendarInv, IdsUnique, AccountsWhole, LinksHold
<1>3. ToldHold'
  BY CalendarFacts DEF CalendarInv, ToldHold
<1>4. ASSUME NEW w \in Syncs PROVE SyncHolds(sync[w])'
  <2>1. CASE w = q
    BY <1>1, <2>1 DEF SyncHolds, MadeFor
  <2>2. CASE w # q
    <3>1. sync'[w] = sync[w] /\ SyncHolds(sync[w])
      BY <1>1, <2>2, CalendarFacts
    <3>2. sync[w].at = "store" => MadeFor(sync[w].event, sync[w].meeting, sync[w].key)'
      <4> SUFFICES ASSUME sync[w].at = "store"
                   PROVE  MadeFor(sync[w].event, sync[w].meeting, sync[w].key)'
        OBVIOUS
      <4>1. /\ sync[w].event \in EventIds /\ sync[w].meeting \in Meetings /\ sync[w].key \in Keys
            /\ MadeFor(sync[w].event, sync[w].meeting, sync[w].key)
        BY <3>1 DEF SyncHolds
      <4>2. PICK v \in EventIds, m \in Meetings, k \in Keys :
              v = sync[w].event /\ m = sync[w].meeting /\ k = sync[w].key
        BY <4>1
      <4>3. MadeFor(v, m, k)'
        BY <4>1, <4>2
      <4> QED BY <3>1, <4>2, <4>3 DEF MadeFor
    <3> QED BY <3>1, <3>2 DEF SyncHolds, MadeFor
  <2> QED BY <2>1, <2>2
<1>5. ASSUME NEW m \in Meetings, NEW k \in Keys, <<m, k>> \notin overlapped'
      PROVE  OneEvent(m, k)'
  <2>1. OneEvent(m, k)
    BY <1>5 DEF CalendarInv
  <2>2. IsLinked(m, k)' <=> IsLinked(m, k)
    BY DEF IsLinked
  <2>3. \A w \in Syncs : w # q => (Creating(w, m, k)' <=> Creating(w, m, k))
    BY <1>1 DEF Creating
  <2>4. Creating(q, m, k)' => \/ Creating(q, m, k)
                              \/ told[<<m, k>>] = {} /\ \A w \in Syncs \ {q} : ~Creating(w, m, k)
    BY <1>1, <1>5 DEF Creating
  <2>5. \A w \in Syncs : Creating(w, m, k)' => told[<<m, k>>] = {}
    BY <2>1, <2>3, <2>4 DEF OneEvent
  <2>6. \A w, z \in Syncs : Creating(w, m, k)' /\ Creating(z, m, k)' => w = z
    BY <2>1, <2>3, <2>4 DEF OneEvent
  <2> QED BY <2>1, <2>2, <2>5, <2>6 DEF OneEvent
<1>6. CalendarTypeOK'
  BY <1>1, CalendarFacts DEF CalendarTypeOK
<1> QED BY <1>1, <1>2, <1>3, <1>4, <1>5, <1>6 DEF CalendarInv

\* A request to sync.
LEMMA BeginsHolds ==
  ASSUME CalendarInv, NEW q \in Syncs, NEW k \in Keys, NEW m \in Meetings, SyncMeeting(q, k, m)
  PROVE  CalendarInv'
<1> DEFINE s == [NoSync EXCEPT !.at = "account", !.meeting = m, !.key = k]
<1>1. s \in Sync /\ s.at = "account" /\ s.meeting = m /\ s.key = k
  BY DEF Sync, NoSync, NoAccount, Account
<1>2. SyncGoes(q, s) /\ UNCHANGED <<accounts, links, events, told, overlapped>>
  BY DEF SyncMeeting
<1>3. calls' \in 0..MaxCalls
  BY CalendarFacts DEF SyncMeeting, Called
<1> HIDE DEF s
<1>4. PICK t \in Sync : t = s
  BY <1>1
<1>5. SyncHolds(t)'
  BY <1>1, <1>4 DEF SyncHolds
<1>6. \A v \in EventIds, n \in Meetings, o \in Keys : MadeFor(v, n, o) => MadeFor(v, n, o)'
  BY <1>2 DEF MadeFor
<1> QED BY <1>1, <1>2, <1>3, <1>4, <1>5, <1>6, CalendarFacts, QuietStep

\* The account is read: it has an id, which no connection changes.
LEMMA AccountReadHolds ==
  ASSUME CalendarInv, NEW q \in Syncs, SyncAccount(q)
  PROVE  CalendarInv'
<1> DEFINE o == sync[q]
           a == accounts[o.key]
           s == [o EXCEPT !.account = a, !.at = "existing"]
<1>1. /\ o \in Sync /\ o.at = "account" /\ o.meeting \in Meetings /\ o.key \in Keys
  BY CalendarFacts DEF SyncAccount, SyncHolds
<1>2. a \in Account /\ a # NoAccount
  BY <1>1, CalendarFacts DEF SyncAccount, ConnectedAccount
<1>3. s \in Sync /\ s.at = "existing" /\ s.meeting = o.meeting /\ s.key = o.key /\ s.account = a
  BY <1>1, <1>2 DEF Sync
<1>4. /\ SyncGoes(q, s) /\ UNCHANGED <<accounts, links, events, calls, told, overlapped>>
  BY DEF SyncAccount, ConnectedAccount
<1>5. a.id # Nothing
  BY <1>1, <1>2 DEF CalendarInv, AccountsWhole
<1>6. PICK t \in Sync : t = s
  BY <1>3
<1>7. SyncHolds(t)'
  <2>1. /\ t.at = "existing" /\ t.meeting \in Meetings /\ t.key \in Keys
        /\ t.account.id # Nothing /\ t.account.id = accounts[t.key].id
    BY <1>1, <1>3, <1>5, <1>6
  <2> QED BY <1>4, <2>1 DEF SyncHolds
<1>8. t.at = "existing"
  BY <1>3, <1>6
<1> HIDE DEF s
<1>9. \A v \in EventIds, n \in Meetings, k \in Keys : MadeFor(v, n, k) => MadeFor(v, n, k)'
  BY <1>4 DEF MadeFor
<1> QED BY <1>4, <1>6, <1>7, <1>8, <1>9, CalendarFacts, QuietStep

\* Looking for the link.  Whoever finds one has an event that was answered; who
\* finds none is the first, or the meeting and key are overlapped from now on.
LEMMA ExistingReadHolds ==
  ASSUME CalendarInv, NEW q \in Syncs, SyncExisting(q)
  PROVE  CalendarInv'
<1> DEFINE o == sync[q]
           l == links[<<o.meeting, o.account.id>>]
           s == [o EXCEPT !.existing = l.event, !.at = "provider"]
<1>1. /\ o \in Sync /\ o.at = "existing" /\ o.meeting \in Meetings /\ o.key \in Keys
      /\ o.account.id # Nothing /\ o.account.id = accounts[o.key].id
  BY CalendarFacts DEF SyncExisting, SyncHolds
<1>2. o.account.id \in AccountIds
  BY <1>1, CalendarFacts
<1>3. l \in Link
  BY <1>1, <1>2, CalendarFacts
<1>4. /\ s \in Sync /\ s.at = "provider" /\ s.meeting = o.meeting /\ s.key = o.key
      /\ s.account = o.account /\ s.existing = l.event
  BY <1>1, <1>3 DEF Sync, Link
<1>5. /\ SyncGoes(q, s) /\ UNCHANGED <<accounts, links, events, calls, told>>
      /\ overlapped' = IF l = NoLink /\ AlsoMissed(q) # {}
                       THEN overlapped \cup {<<o.meeting, o.key>>} ELSE overlapped
  BY DEF SyncExisting, ExistingLink
<1>6. l # NoLink => l.event \in told[<<o.meeting, o.key>>] /\ l.event # Nothing
  <2> SUFFICES ASSUME l # NoLink
               PROVE  l.event \in told[<<o.meeting, o.key>>] /\ l.event # Nothing
    OBVIOUS
  <2>1. PICK k \in Keys : accounts[k].id = o.account.id /\ l.event \in told[<<o.meeting, k>>]
    BY <1>1, <1>2 DEF CalendarInv, LinksHold
  <2>2. k = o.key
    BY <1>1, <2>1 DEF CalendarInv, IdsUnique
  <2>3. l.event \in EventIds
    BY <1>1, <2>1, CalendarFacts
  <2> QED BY <2>1, <2>2, <2>3, CalendarFacts
<1>7. l.event # Nothing => l # NoLink
  BY DEF NoLink
<1>8. PICK t \in Sync : t = s
  BY <1>4
<1> HIDE DEF s, l, o
<1>9. SyncHolds(t)'
  <2>1. /\ t.at = "provider" /\ t.meeting \in Meetings /\ t.key \in Keys
        /\ t.account.id # Nothing /\ t.account.id = accounts[t.key].id
        /\ t.existing # Nothing => t.existing \in told[<<t.meeting, t.key>>]
    BY <1>1, <1>4, <1>6, <1>7, <1>8
  <2> QED BY <1>5, <2>1 DEF SyncHolds
<1>10. \A v \in EventIds, n \in Meetings, k \in Keys : MadeFor(v, n, k) => MadeFor(v, n, k)'
  BY <1>5 DEF MadeFor
<1>11. overlapped \subseteq overlapped' /\ overlapped' \subseteq Meetings \X Keys
  BY <1>1, <1>5, CalendarFacts
<1>12. ASSUME NEW m \in Meetings, NEW k \in Keys, <<m, k>> \notin overlapped',
              t.existing = Nothing, t.meeting = m, t.key = k
       PROVE  told[<<m, k>>] = {} /\ \A w \in Syncs \ {q} : ~Creating(w, m, k)
  <2>1. l = NoLink /\ o.meeting = m /\ o.key = k
    BY <1>4, <1>6, <1>8, <1>12
  <2>2. AlsoMissed(q) = {}
    BY <1>5, <1>12, <2>1
  <2>3. \A w \in Syncs \ {q} : ~Creating(w, m, k)
    BY <2>1, <2>2 DEF AlsoMissed, Creating, o
  <2>4. ~IsLinked(m, k)
    BY <1>1, <2>1 DEF IsLinked, l
  <2>5. OneEvent(m, k)
    BY <1>11, <1>12 DEF CalendarInv
  <2> QED BY <2>3, <2>4, <2>5 DEF OneEvent
<1> QED BY <1>5, <1>8, <1>9, <1>10, <1>11, <1>12, CalendarFacts, QuietStep

\* The adapter answers with the event of the link, or makes up one for the
\* meeting and key, with an id that stands for nothing else.
LEMMA ProviderHolds ==
  ASSUME CalendarInv, NEW q \in Syncs, SyncProvider(q)
  PROVE  CalendarInv'
<1> DEFINE o == sync[q]
<1>1. /\ o \in Sync /\ o.at = "provider" /\ o.meeting \in Meetings /\ o.key \in Keys
      /\ o.account.id # Nothing /\ o.account.id = accounts[o.key].id
      /\ o.existing # Nothing => o.existing \in told[<<o.meeting, o.key>>]
  BY CalendarFacts DEF SyncProvider, SyncHolds
<1>2. PICK event \in EventIds :
        /\ UpsertEvent(event, o)
        /\ SyncGoes(q, [o EXCEPT !.event = event, !.at = "store"])
  BY DEF SyncProvider
<1> DEFINE s == [o EXCEPT !.event = event, !.at = "store"]
<1>3. UNCHANGED <<accounts, links, calls, told, overlapped>>
  BY DEF SyncProvider
<1>4. /\ s \in Sync /\ s.at = "store" /\ s.meeting = o.meeting /\ s.key = o.key
      /\ s.account = o.account /\ s.existing = o.existing /\ s.event = event
  BY <1>1 DEF Sync
<1>5. PICK t \in Sync : t = s
  BY <1>4
<1>6. SyncGoes(q, t)
  BY <1>2, <1>5
<1> HIDE DEF s
<1>7. /\ events' \in [EventIds -> Event]
      /\ events'[event].meeting = o.meeting /\ events'[event].key = o.key
      /\ o.existing # Nothing => event = o.existing
      /\ \A v \in EventIds, n \in Meetings, k \in Keys : MadeFor(v, n, k) => MadeFor(v, n, k)'
  <2>1. CASE o.existing # Nothing
    <3>1. event = o.existing /\ events' = events
      BY <1>2, <2>1 DEF UpsertEvent
    <3>2. MadeFor(event, o.meeting, o.key)
      BY <1>1, <2>1, <3>1 DEF CalendarInv, ToldHold
    <3> HIDE DEF o
    <3>3. events'[event].meeting = o.meeting /\ events'[event].key = o.key
      BY <3>1, <3>2 DEF MadeFor
    <3>4. \A v \in EventIds, n \in Meetings, k \in Keys : MadeFor(v, n, k) => MadeFor(v, n, k)'
      BY <3>1 DEF MadeFor
    <3> QED BY <3>1, <3>3, <3>4, CalendarFacts
  <2>2. CASE o.existing = Nothing
    <3> DEFINE made == [meeting |-> o.meeting, key |-> o.key, external |-> o.account.external]
    <3>1. /\ UnusedEvents # {} /\ event = Min(UnusedEvents)
          /\ events' = [events EXCEPT ![event] = made]
      BY <1>2, <2>2 DEF UpsertEvent
    <3>2. event \in UnusedEvents
      <4>1. UnusedEvents \subseteq Nat
        BY CalendarFacts DEF UnusedEvents
      <4> QED BY <3>1, <4>1, NatMin
    <3>3. made \in Event /\ made.meeting = o.meeting /\ made.key = o.key
      BY <1>1 DEF Event, Sync, Account
    <3> HIDE DEF o, made
    <3>4. events' \in [EventIds -> Event] /\ events'[event] = made
          /\ \A v \in EventIds : v # event => events'[v] = events[v]
      BY <3>1, <3>3, CalendarFacts
    <3>5. \A n \in Meetings, k \in Keys : ~MadeFor(event, n, k)
      <4>1. events[event] = NoEvent
        BY <3>2 DEF UnusedEvents
      <4>2. \A k \in Keys : k # NoKey
        BY DEF Keys, NoKey
      <4> QED BY <4>1, <4>2 DEF MadeFor, NoEvent
    <3>6. \A v \in EventIds, n \in Meetings, k \in Keys : MadeFor(v, n, k) => MadeFor(v, n, k)'
      BY <3>4, <3>5 DEF MadeFor
    <3> QED BY <2>2, <3>3, <3>4, <3>6
  <2> QED BY <2>1, <2>2
<1>8. SyncHolds(t)'
  <2>1. /\ t.at = "store" /\ t.meeting \in Meetings /\ t.key \in Keys /\ t.event \in EventIds
        /\ t.account.id # Nothing /\ t.account.id = accounts[t.key].id
        /\ t.existing # Nothing => t.event \in told[<<t.meeting, t.key>>]
        /\ t.event = event /\ t.meeting = o.meeting /\ t.key = o.key
    BY <1>1, <1>4, <1>5, <1>7
  <2>2. events'[t.event].meeting = t.meeting /\ events'[t.event].key = t.key
    BY <1>7, <2>1
  <2> QED BY <1>3, <2>1, <2>2 DEF SyncHolds, MadeFor
<1>9. \A m \in Meetings, k \in Keys :
        t.existing = Nothing /\ t.meeting = m /\ t.key = k => Creating(q, m, k)
  BY <1>1, <1>4, <1>5 DEF Creating
<1> HIDE DEF o
<1> QED BY <1>3, <1>6, <1>7, <1>8, <1>9, CalendarFacts, QuietStep

\* A sync that is cut off has stored nothing.
LEMMA EndsHolds ==
  ASSUME CalendarInv, NEW q \in Syncs, SyncEnds(q)
  PROVE  CalendarInv'
<1>1. NoSync \in Sync /\ NoSync.at = "idle"
  BY DEF Sync, NoSync, NoAccount, Account
<1>2. SyncGoes(q, NoSync) /\ UNCHANGED <<accounts, links, calls, events, told, overlapped>>
  BY DEF SyncEnds
<1>3. SyncHolds(NoSync)'
  BY <1>1 DEF SyncHolds
<1>4. \A v \in EventIds, n \in Meetings, k \in Keys : MadeFor(v, n, k) => MadeFor(v, n, k)'
  BY <1>2 DEF MadeFor
<1> QED BY <1>1, <1>2, <1>3, <1>4, CalendarFacts, QuietStep

\* The link is stored and its event answered: the one answered before, or the
\* first.
LEMMA StoredHolds ==
  ASSUME CalendarInv, NEW q \in Syncs, SyncStore(q)
  PROVE  CalendarInv'
<1> DEFINE o == sync[q]
           a == o.account.id
           l == [event |-> o.event, calendar |-> o.account.calendar]
<1>1. /\ o \in Sync /\ o.at = "store" /\ o.meeting \in Meetings /\ o.key \in Keys
      /\ a # Nothing /\ a = accounts[o.key].id
      /\ o.event \in EventIds /\ MadeFor(o.event, o.meeting, o.key)
      /\ o.existing # Nothing => o.event \in told[<<o.meeting, o.key>>]
  BY CalendarFacts DEF SyncStore, SyncHolds
<1>2. a \in AccountIds
  BY <1>1, CalendarFacts
<1>3. l \in Link /\ l.event = o.event /\ l # NoLink
  BY <1>1, CalendarFacts DEF Link, NoLink, Sync, Account
<1>4. /\ links' = [links EXCEPT ![<<o.meeting, a>>] = l]
      /\ told' = [told EXCEPT ![<<o.meeting, o.key>>] = @ \cup {o.event}]
      /\ SyncGoes(q, NoSync) /\ UNCHANGED <<accounts, events, calls, overlapped>>
  BY DEF SyncStore, UpsertLink
<1>5. PICK m \in Meetings, k \in Keys : m = o.meeting /\ k = o.key
  BY <1>1
<1> HIDE DEF o, a, l
<1>6. NoSync \in Sync /\ NoSync.at = "idle"
  BY DEF Sync, NoSync, NoAccount, Account
<1>7. /\ sync' \in [Syncs -> Sync] /\ sync'[q] = NoSync
      /\ \A w \in Syncs : w # q => sync'[w] = sync[w]
  BY <1>4, <1>6 DEF SyncGoes, CalendarInv
<1>8. /\ links' \in [Meetings \X AccountIds -> Link] /\ links'[<<m, a>>] = l
      /\ \A n \in Meetings, b \in AccountIds : <<n, b>> # <<m, a>> => links'[<<n, b>>] = links[<<n, b>>]
  BY <1>2, <1>3, <1>4, <1>5, CalendarFacts
<1>9. /\ told' \in [Meetings \X Keys -> SUBSET EventIds]
      /\ told'[<<m, k>>] = told[<<m, k>>] \cup {o.event}
      /\ \A n \in Meetings, x \in Keys : <<n, x>> # <<m, k>> => told'[<<n, x>>] = told[<<n, x>>]
  BY <1>1, <1>4, <1>5, CalendarFacts
<1>10. \A n \in Meetings, x \in Keys : told[<<n, x>>] \subseteq told'[<<n, x>>]
  BY <1>9
<1>11. IdsUnique' /\ AccountsWhole'
  BY <1>4 DEF CalendarInv, IdsUnique, AccountsWhole
<1>12. LinksHold'
  <2> SUFFICES ASSUME NEW n \in Meetings, NEW b \in AccountIds, links'[<<n, b>>] # NoLink
               PROVE  \E x \in Keys : accounts'[x].id = b /\ links'[<<n, b>>].event \in told'[<<n, x>>]
    BY DEF LinksHold
  <2>1. CASE n = m /\ b = a
    BY <1>1, <1>3, <1>4, <1>5, <1>8, <1>9, <2>1
  <2>2. CASE ~(n = m /\ b = a)
    <3>1. links'[<<n, b>>] = links[<<n, b>>]
      BY <1>8, <2>2
    <3>2. PICK x \in Keys : accounts[x].id = b /\ links[<<n, b>>].event \in told[<<n, x>>]
      BY <3>1 DEF CalendarInv, LinksHold
    <3> QED BY <1>4, <1>10, <3>1, <3>2
  <2> QED BY <2>1, <2>2
<1>13. ToldHold'
  <2> SUFFICES ASSUME NEW n \in Meetings, NEW x \in Keys, NEW v \in told'[<<n, x>>]
               PROVE  MadeFor(v, n, x)
    BY <1>4 DEF ToldHold, MadeFor
  <2>1. CASE v \in told[<<n, x>>]
    BY <2>1 DEF CalendarInv, ToldHold
  <2>2. CASE v \notin told[<<n, x>>]
    <3>1. <<n, x>> = <<m, k>> /\ v = o.event
      BY <1>9, <2>2
    <3> QED BY <1>1, <1>5, <3>1
  <2> QED BY <2>1, <2>2
<1>14. ASSUME NEW w \in Syncs PROVE SyncHolds(sync[w])'
  <2>1. CASE w = q
    BY <1>6, <1>7, <2>1 DEF SyncHolds
  <2>2. CASE w # q
    <3>1. sync'[w] = sync[w] /\ SyncHolds(sync[w])
      BY <1>7, <2>2, CalendarFacts
    <3>2. sync[w].at # "idle" =>
            told[<<sync[w].meeting, sync[w].key>>] \subseteq told'[<<sync[w].meeting, sync[w].key>>]
      BY <1>10, <3>1 DEF SyncHolds
    <3> QED BY <1>4, <3>1, <3>2 DEF SyncHolds, MadeFor
  <2> QED BY <2>1, <2>2
<1>15. ASSUME NEW n \in Meetings, NEW x \in Keys, <<n, x>> \notin overlapped' PROVE OneEvent(n, x)'
  <2>1. OneEvent(n, x)
    BY <1>4, <1>15 DEF CalendarInv
  <2>2. IsLinked(n, x) => IsLinked(n, x)'
    <3> SUFFICES ASSUME IsLinked(n, x) PROVE IsLinked(n, x)'
      OBVIOUS
    <3>1. /\ accounts[x].id \in AccountIds /\ accounts[x].id # Nothing
          /\ links[<<n, accounts[x].id>>] # NoLink
      BY CalendarFacts DEF IsLinked
    <3>2. links'[<<n, accounts[x].id>>] # NoLink
      BY <1>3, <1>8, <3>1
    <3> QED BY <1>4, <3>1, <3>2 DEF IsLinked
  <2>3. IsLinked(m, k)'
    BY <1>1, <1>3, <1>4, <1>5, <1>8 DEF IsLinked
  <2>4. \A w \in Syncs : Creating(w, n, x)' => w # q /\ Creating(w, n, x)
    BY <1>6, <1>7 DEF Creating
  <2>5. \A w, z \in Syncs : Creating(w, n, x)' /\ Creating(z, n, x)' => w = z
    BY <2>1, <2>4 DEF OneEvent
  <2>6. CASE <<n, x>> # <<m, k>>
    <3>1. told'[<<n, x>>] = told[<<n, x>>]
      BY <1>9, <2>6
    <3> QED BY <2>1, <2>2, <2>4, <2>5, <3>1 DEF OneEvent
  <2>7. CASE <<n, x>> = <<m, k>> /\ o.existing # Nothing
    <3>1. told'[<<n, x>>] = told[<<n, x>>]
      BY <1>1, <1>5, <1>9, <2>7
    <3> QED BY <2>1, <2>2, <2>4, <2>5, <3>1 DEF OneEvent
  <2>8. CASE <<n, x>> = <<m, k>> /\ o.existing = Nothing
    <3>1. Creating(q, n, x)
      BY <1>1, <1>5, <2>8 DEF Creating, o
    <3>2. told[<<n, x>>] = {} /\ \A w \in Syncs : ~Creating(w, n, x)'
      BY <2>1, <2>4, <3>1 DEF OneEvent
    <3>3. told'[<<n, x>>] = {o.event}
      BY <1>9, <2>8, <3>2
    <3>4. IsLinked(n, x)'
      BY <2>3, <2>8
    <3> QED BY <3>2, <3>3, <3>4 DEF OneEvent
  <2> QED BY <2>6, <2>7, <2>8
<1>16. CalendarTypeOK'
  BY <1>4, <1>7, <1>8, <1>9, CalendarFacts DEF CalendarTypeOK
<1> QED BY <1>7, <1>11, <1>12, <1>13, <1>14, <1>15, <1>16 DEF CalendarInv

\* Connecting gives a key an id no key has, or keeps the one it has.
LEMMA UpsertFacts ==
  ASSUME CalendarInv, NEW k \in Keys, NEW e \in External, NEW c \in {"primary", "team"},
         UpsertAccount(k, e, c)
  PROVE  /\ accounts' \in [Keys -> Account]
         /\ accounts'[k].id \in AccountIds
         /\ accounts[k].id # Nothing => accounts'[k].id = accounts[k].id
         /\ accounts[k].id = Nothing => \A o \in Keys : accounts[o].id # accounts'[k].id
         /\ \A o \in Keys : o # k => accounts'[o] = accounts[o]
<1> DEFINE id == IF accounts[k].id = Nothing THEN Min(UnusedAccounts) ELSE accounts[k].id
<1>1. accounts' = [accounts EXCEPT ![k] = [id |-> id, external |-> e, calendar |-> c]]
  BY DEF UpsertAccount
<1>2. CASE accounts[k].id = Nothing
  <2>1. UnusedAccounts \subseteq Nat /\ UnusedAccounts # {}
    BY <1>2, CalendarFacts DEF UnusedAccounts, UpsertAccount
  <2>2. id \in UnusedAccounts
    BY <1>2, <2>1, NatMin
  <2>3. id \in AccountIds /\ \A o \in Keys : accounts[o].id # id
    BY <2>2 DEF UnusedAccounts
  <2> HIDE DEF id
  <2>4. [id |-> id, external |-> e, calendar |-> c] \in Account
    BY <2>3 DEF Account
  <2> QED BY <1>1, <1>2, <2>3, <2>4, CalendarFacts
<1>3. CASE accounts[k].id # Nothing
  <2>1. id = accounts[k].id /\ id \in AccountIds
    BY <1>3, CalendarFacts
  <2> HIDE DEF id
  <2>2. [id |-> id, external |-> e, calendar |-> c] \in Account
    BY <2>1 DEF Account
  <2> QED BY <1>1, <1>3, <2>1, <2>2, CalendarFacts
<1> QED BY <1>2, <1>3

\* Connecting an account, the first or another one, keeps the ids that links name.
LEMMA ConnectHolds ==
  ASSUME CalendarInv, NEW k \in Keys, NEW i \in Inputs, ConnectAccount(k, i)
  PROVE  CalendarInv'
<1> DEFINE input == ConnectInput(k[2], i)
           c == NormalizeCalendarId(input.calendar)
           e == input.external
<1>0. Required(e) /\ Required(c)
  BY DEF ConnectAccount, ValidConnection
<1>1. c \in {"primary", "team"} /\ e \in External
  <2>1. /\ i.calendar \in {"absent", "  ", " team ", "team", "primary", "too long"}
        /\ i.external \in {"mine", "ours", "  ", "", "too long"}
    BY CalendarsAssumption
  <2>2. /\ input.calendar = IF i.calendar = "absent" THEN "primary" ELSE i.calendar
        /\ e = IF k[2] = "caldav" THEN "name@server" ELSE i.external
    BY DEF ConnectInput
  <2>3. c \in {"primary", "team"}
    BY <1>0, <2>1, <2>2 DEF Required, NormalizeCalendarId
  <2>4. e \in External
    BY <1>0, <2>1, <2>2 DEF Required, External
  <2> QED BY <2>3, <2>4
<1>2. UpsertAccount(k, e, c) /\ UNCHANGED <<links, sync, events, told, overlapped>>
  BY DEF ConnectAccount
<1>3. calls' \in 0..MaxCalls
  BY CalendarFacts DEF ConnectAccount, Called
<1> HIDE DEF c, e, input
<1>4. /\ accounts' \in [Keys -> Account]
      /\ accounts'[k].id \in AccountIds
      /\ accounts[k].id # Nothing => accounts'[k].id = accounts[k].id
      /\ accounts[k].id = Nothing => \A o \in Keys : accounts[o].id # accounts'[k].id
      /\ \A o \in Keys : o # k => accounts'[o] = accounts[o]
  BY <1>1, <1>2, UpsertFacts
<1>5. \A o \in Keys : accounts[o].id # Nothing => accounts'[o].id = accounts[o].id
  BY <1>4
<1>6. Nothing \notin AccountIds
  BY CalendarFacts
<1>7. IdsUnique'
  <2> SUFFICES ASSUME NEW x \in Keys, NEW y \in Keys,
                      accounts'[x].id # Nothing, accounts'[x].id = accounts'[y].id
               PROVE  x = y
    BY DEF IdsUnique
  <2>1. IdsUnique
    BY DEF CalendarInv
  <2> QED BY <1>4, <1>6, <2>1 DEF IdsUnique
<1>8. AccountsWhole'
  BY <1>4, <1>6 DEF CalendarInv, AccountsWhole
<1>9. LinksHold'
  <2> SUFFICES ASSUME NEW n \in Meetings, NEW a \in AccountIds, links[<<n, a>>] # NoLink
               PROVE  \E l \in Keys : accounts'[l].id = a /\ links[<<n, a>>].event \in told[<<n, l>>]
    BY <1>2 DEF LinksHold
  <2>1. PICK l \in Keys : accounts[l].id = a /\ links[<<n, a>>].event \in told[<<n, l>>]
    BY DEF CalendarInv, LinksHold
  <2>2. accounts'[l].id = a
    BY <1>5, <1>6, <2>1
  <2> QED BY <2>1, <2>2
<1>10. ToldHold'
  BY <1>2 DEF CalendarInv, ToldHold, MadeFor
<1>11. ASSUME NEW w \in Syncs PROVE SyncHolds(sync[w])'
  <2>1. SyncHolds(sync[w])
    BY CalendarFacts
  <2> QED BY <1>2, <1>5, <2>1 DEF SyncHolds, MadeFor
<1>12. ASSUME NEW n \in Meetings, NEW o \in Keys, <<n, o>> \notin overlapped' PROVE OneEvent(n, o)'
  <2>1. OneEvent(n, o)
    BY <1>2, <1>12 DEF CalendarInv
  <2>2. IsLinked(n, o) => IsLinked(n, o)'
    BY <1>2, <1>5 DEF IsLinked
  <2>3. \A w \in Syncs : Creating(w, n, o)' <=> Creating(w, n, o)
    BY <1>2 DEF Creating
  <2>4. told' = told
    BY <1>2
  <2> QED BY <2>1, <2>2, <2>3, <2>4 DEF OneEvent
<1>13. CalendarTypeOK' /\ sync' \in [Syncs -> Sync]
  BY <1>2, <1>3, <1>4, CalendarFacts DEF CalendarTypeOK
<1> QED BY <1>7, <1>8, <1>9, <1>10, <1>11, <1>12, <1>13 DEF CalendarInv

\* The calendars' inductive invariant: what links, running syncs and answers know
\* of the events.
THEOREM CalendarInvariant == CalendarSpec => []CalendarInv
<1>1. CalendarInit => CalendarInv
  <2> SUFFICES ASSUME CalendarInit PROVE CalendarInv
    OBVIOUS
  <2>1. NoAccount \in Account /\ NoLink \in Link /\ NoEvent \in Event /\ NoSync \in Sync
    BY DEF NoAccount, Account, NoLink, Link, NoEvent, Event, NoSync, Sync
  <2>2. MaxCalls \in Nat
    BY CalendarsAssumption
  <2>3. CalendarTypeOK /\ sync \in [Syncs -> Sync]
    BY <2>1, <2>2 DEF CalendarInit, CalendarTypeOK
  <2>4. IdsUnique /\ AccountsWhole /\ LinksHold /\ ToldHold
    BY DEF CalendarInit, IdsUnique, AccountsWhole, LinksHold, ToldHold, NoAccount
  <2>5. \A q \in Syncs : sync[q].at = "idle" /\ SyncHolds(sync[q])
    BY DEF CalendarInit, SyncHolds, NoSync
  <2>6. ASSUME NEW m \in Meetings, NEW k \in Keys PROVE OneEvent(m, k)
    <3>1. told[<<m, k>>] = {}
      BY DEF CalendarInit
    <3> QED BY <2>5, <3>1 DEF OneEvent, Creating
  <2> QED BY <2>3, <2>4, <2>5, <2>6 DEF CalendarInv
<1>2. CalendarInv /\ [CalendarNext]_calendarVars => CalendarInv'
  <2> SUFFICES ASSUME CalendarInv, [CalendarNext]_calendarVars PROVE CalendarInv'
    OBVIOUS
  <2>1. CASE \E k \in Keys, i \in Inputs : ConnectAccount(k, i)
    BY <2>1, ConnectHolds
  <2>2. CASE \E q \in Syncs : \/ \E k \in Keys, m \in Meetings : SyncMeeting(q, k, m)
                              \/ SyncAccount(q) \/ SyncExisting(q) \/ SyncProvider(q)
                              \/ SyncStore(q) \/ SyncEnds(q)
    BY <2>2, BeginsHolds, AccountReadHolds, ExistingReadHolds, ProviderHolds, StoredHolds, EndsHolds
  <2>3. CASE UNCHANGED calendarVars
    <3>1. /\ accounts' = accounts /\ links' = links /\ events' = events /\ sync' = sync
          /\ calls' = calls /\ told' = told /\ overlapped' = overlapped
      BY <2>3 DEF calendarVars
    <3>2. CalendarTypeOK' /\ sync' \in [Syncs -> Sync]
      BY <3>1 DEF CalendarInv, CalendarTypeOK
    <3>3. IdsUnique' /\ AccountsWhole' /\ LinksHold' /\ ToldHold'
      <4>1. IdsUnique' /\ AccountsWhole'
        BY <3>1 DEF CalendarInv, IdsUnique, AccountsWhole
      <4>2. LinksHold'
        BY <3>1 DEF CalendarInv, LinksHold
      <4>3. ToldHold'
        BY <3>1 DEF CalendarInv, ToldHold, MadeFor
      <4> QED BY <4>1, <4>2, <4>3
    <3>4. \A q \in Syncs : SyncHolds(sync[q])'
      BY <3>1 DEF CalendarInv, SyncHolds, MadeFor
    <3>5. ASSUME NEW m \in Meetings, NEW k \in Keys, <<m, k>> \notin overlapped'
          PROVE  OneEvent(m, k)'
      <4>1. OneEvent(m, k)
        BY <3>1, <3>5 DEF CalendarInv
      <4>2. /\ IsLinked(m, k)' <=> IsLinked(m, k)
            /\ \A q \in Syncs : Creating(q, m, k)' <=> Creating(q, m, k)
        BY <3>1 DEF IsLinked, Creating
      <4> QED BY <3>1, <4>1, <4>2 DEF OneEvent
    <3> QED BY <3>2, <3>3, <3>4, <3>5 DEF CalendarInv
  <2> QED BY <2>1, <2>2, <2>3 DEF CalendarNext
<1> QED BY <1>1, <1>2, PTL DEF CalendarSpec

\* Unless two syncs of a meeting and key missed its link at a time, syncs go on
\* naming one event, the link's, across cut-offs and reconnections; and never one
\* made up for another meeting, user or provider; for every number of users,
\* providers, meetings and overlapping syncs.
THEOREM CopiedOnce == CalendarSpec => []SyncedOnce
<1>1. CalendarInv => SyncedOnce
  <2> SUFFICES ASSUME CalendarInv, NEW m \in Meetings, NEW k \in Keys
               PROVE  /\ <<m, k>> \notin overlapped => \A v, w \in told[<<m, k>>] : v = w
                      /\ \A v \in told[<<m, k>>] : MadeFor(v, m, k)
                      /\ accounts[k].id # Nothing =>
                           (links[<<m, accounts[k].id>>] # NoLink =>
                              links[<<m, accounts[k].id>>].event \in told[<<m, k>>])
    BY DEF SyncedOnce
  <2>1. ASSUME <<m, k>> \notin overlapped PROVE \A v, w \in told[<<m, k>>] : v = w
    BY <2>1 DEF CalendarInv, OneEvent
  <2>2. \A v \in told[<<m, k>>] : MadeFor(v, m, k)
    BY DEF CalendarInv, ToldHold
  <2>3. ASSUME accounts[k].id # Nothing, links[<<m, accounts[k].id>>] # NoLink
        PROVE  links[<<m, accounts[k].id>>].event \in told[<<m, k>>]
    <3> DEFINE a == accounts[k].id
    <3>1. a \in AccountIds
      BY <2>3, CalendarFacts
    <3>2. PICK l \in Keys : accounts[l].id = a /\ links[<<m, a>>].event \in told[<<m, l>>]
      BY <2>3, <3>1 DEF CalendarInv, LinksHold
    <3>3. l = k
      BY <2>3, <3>2 DEF CalendarInv, IdsUnique
    <3> QED BY <3>2, <3>3
  <2> QED BY <2>1, <2>2, <2>3
<1> QED BY <1>1, CalendarInvariant, PTL

(***************************************************************************)
(* The four together.                                                      *)
(***************************************************************************)

\* Whatever the side services are asked, each table keeps rows in their normal
\* form: addresses, slugs, hosts, plans and roles as the database stores them,
\* one bucket per caller, grants a token may carry.
THEOREM TypesHold == SideSpec => []TypesOK
<1>1. AccountsInv /\ CalendarInv /\ LimitInv /\ MediaInv => TypesOK
  BY DEF AccountsInv, CalendarInv, LimitInv, MediaInv, TypesOK
<1> QED BY <1>1, AccountsInvariant, CalendarInvariant, LimitInvariant, MediaInvariant, PTL
        DEF SideSpec
=============================================================================
