------------------------ MODULE AccessControlProofs ------------------------
(***************************************************************************)
(* Proofs about AccessControl, for any users, roles, channels, requests,   *)
(* websockets and tables to start from.                                    *)
(***************************************************************************)
EXTENDS AccessControl, TLAPS

(***************************************************************************)
(* The inductive invariant.  Good says of one process what its stage       *)
(* promises about its request, what it has read and the tables.            *)
(***************************************************************************)
Reading == [row : Channel, level : Levels, name : Names \cup {NoName},
            roles : SUBSET RoleIds, base : SUBSET Permissions, members : SUBSET Users]

Rest   == {"closed", "idle"}
Early  == Rest \cup {"channel", "space"}
Unsure == Early \cup {"roles", "overrides", "forbidden"}

\* What the stage says of the request alone.
Shape(stage, q) ==
  /\ q.op \in {"addMember", "removeMember", "assignRole"} => q.target \in Users
  /\ stage \in {"organization", "reread"} => q.op = "addMember"
  /\ stage = "target" => q.op \in {"removeMember", "assignRole"}
  /\ stage = "role" => q.op = "assignRole"
  /\ stage = "members" => q.op = "deleteSpace"
  /\ stage = "audit" => q.op # "deleteChannel"
  /\ stage \in {"roles", "overrides", "forbidden"} => q.user # Owner
  /\ stage = "write" /\ q.op = "removeMember" => q.target # Owner

\* What a check has established by that stage.
Checked(stage, q, rd, sn, br) ==
  /\ stage \notin Early => sn /\ rd.name \in Names
  /\ stage \notin Rest /\ br => Needs(q.op) \in override[q.channel, q.user].deny
  /\ stage \notin Unsure /\ q.op \in ChannelOps /\ q.user # Owner => ~br
  /\ stage = "overrides" =>
       /\ \A r \in rd.roles : role[r].made
       /\ \A x \in Permissions :
            x \in rd.base <=> \/ x \in Builtin(rd.level)
                              \/ \E r \in rd.roles : x \in role[r].grants

\* The history has noticed a caller who is a member now.
Witnessed(stage, q, sn) ==
  stage \notin Rest /\ ~space.archived /\ member[q.user].active => sn

\* What an assignment relies on.
Assigning(stage, q) ==
  /\ stage \in {"role", "write"} /\ q.op = "assignRole" => member[q.target].level # "none"
  /\ stage = "write" /\ q.op = "assignRole" => role[q.role].made

Announces(stage, q) == stage = "publish" /\ q.op = "deleteChannel"

Unannounced(c) == \A i \in 1 .. Len(events) :
                    ~(events[i].type = "channel.deleted" /\ events[i].channel = c)

Good(stage, q, rd, sn, br) ==
  /\ Shape(stage, q) /\ Checked(stage, q, rd, sn, br) /\ Assigning(stage, q)
  /\ Witnessed(stage, q, sn)
  /\ Announces(stage, q) => channel[q.channel].state = "archived" /\ Unannounced(q.channel)

TasksGood == \A p \in Procs : Good(pc[p], request[p], read[p], seen[p], barred[p])

ActiveRows == \A u \in Users : member[u].active => member[u].level # "none"

RolesMade == \A u \in Users : \A r \in assigned[u] : role[r].made

\* DeletedOnce, and the channel of a deletion is one.
Deletions ==
  \A i, j \in 1 .. Len(events) :
    events[i].type = "channel.deleted" =>
      /\ events[i].channel \in Channels
      /\ channel[events[i].channel].state = "archived"
      /\ events[j].type = "channel.deleted" /\ events[j].channel = events[i].channel
           => i = j

OneAnnouncer ==
  \A p, o \in Procs :
    Announces(pc[p], request[p]) /\ Announces(pc[o], request[o])
      /\ request[p].channel = request[o].channel => p = o

TypeTables ==
  /\ space \in [archived : BOOLEAN, name : Names]
  /\ member \in [Users -> Member]
  /\ orgMembers \subseteq Users
  /\ role \in [RoleIds -> Role]
  /\ assigned \in [Users -> SUBSET RoleIds]
  /\ override \in [Channels \X Targets ->
                     [allow : SUBSET Permissions, deny : SUBSET Permissions]]
  /\ channel \in [Channels -> Channel]
  /\ audit \subseteq Request
  /\ events \in Seq(Event)

TypeTasks ==
  /\ pc \in [Procs -> Stages]
  /\ request \in [Procs -> Request]
  /\ read \in [Procs -> Reading]
  /\ seen \in [Procs -> BOOLEAN]
  /\ barred \in [Procs -> BOOLEAN]

TypeSides ==
  /\ cursor \in [Sockets -> Nat]
  /\ sent \in [Sockets -> SUBSET Nat]
  /\ dropped \in [Sockets -> SUBSET Nat]
  /\ begun \in 0 .. MaxRequests

TablesGood == OwnerKept /\ ActiveRows /\ AssignedAreMembers /\ RolesMade /\ Deletions

IInv == TypeTables /\ TypeTasks /\ TypeSides /\ TasksGood /\ TablesGood /\ OneAnnouncer

-----------------------------------------------------------------------------
LEMMA Fillers == AnyChannel \in Channels /\ AnyRole \in RoleIds /\ AnyName \in Names
  BY IdsAssumption DEF AnyChannel, AnyRole, AnyName

LEMMA Blanks == NoRequest \in Request /\ Nothing \in Reading
  BY Fillers, IdsAssumption
  DEF NoRequest, Nothing, Request, Reading, Ops, ChannelOps, Targets, Channel, Levels

LEMMA TypeParts == TypeOK <=> TypeTables /\ TypeTasks /\ TypeSides
  BY DEF TypeOK, TypeTables, TypeTasks, TypeSides, Reading

LEMMA InitIInv == Init => IInv
  <1> SUFFICES ASSUME Init PROVE IInv
    OBVIOUS
  <1>1. TypeTables
    BY Fillers, StartAssumption DEF Init, TypeTables, Empty
  <1>2. TypeTasks
    BY Blanks DEF Init, TypeTasks, Stages
  <1>3. TypeSides
    BY IdsAssumption DEF Init, TypeSides
  <1>4. TasksGood
    BY DEF Init, TasksGood, Good, Shape, Checked, Witnessed, Assigning, Announces, NoRequest,
           Early, Unsure, Rest
  <1>5. TablesGood
    BY StartAssumption, IdsAssumption
    DEF Init, TablesGood, OwnerKept, IsAdmin, ActiveRows, AssignedAreMembers, RolesMade,
        Deletions
  <1>6. OneAnnouncer
    BY DEF Init, OneAnnouncer, Announces
  <1> QED
    BY <1>1, <1>2, <1>3, <1>4, <1>5, <1>6 DEF IInv

(***************************************************************************)
(* Steps that only move one process.                                       *)
(***************************************************************************)
LEMMA Moves ==
  ASSUME IInv, NEW p \in Procs, NEW stage \in Stages, NEW q \in Request,
         NEW rd \in Reading, NEW sn \in BOOLEAN, NEW br \in BOOLEAN,
         Good(stage, q, rd, sn, br), ~Announces(stage, q),
         pc' = [pc EXCEPT ![p] = stage], request' = [request EXCEPT ![p] = q],
         read' = [read EXCEPT ![p] = rd], seen' = [seen EXCEPT ![p] = sn],
         barred' = [barred EXCEPT ![p] = br],
         TypeSides', UNCHANGED <<tables, events>>
  PROVE  IInv'
  <1>0. TypeTasks
    BY DEF IInv
  <1>1. TypeTasks'
    BY <1>0 DEF TypeTasks
  <1>a. \A o \in Procs :
          /\ pc'[o] = IF o = p THEN stage ELSE pc[o]
          /\ request'[o] = IF o = p THEN q ELSE request[o]
          /\ read'[o] = IF o = p THEN rd ELSE read[o]
    BY <1>0 DEF TypeTasks
  <1>a2. \A o \in Procs : o # p => seen'[o] = seen[o] /\ barred'[o] = barred[o]
    BY <1>0 DEF TypeTasks
  <1>a3. seen'[p] = sn /\ barred'[p] = br
    BY <1>0 DEF TypeTasks
  <1>b. /\ space' = space /\ member' = member /\ role' = role /\ assigned' = assigned
        /\ override' = override /\ channel' = channel /\ events' = events
        /\ orgMembers' = orgMembers /\ audit' = audit
    BY DEF tables
  <1>2. TypeTables'
    BY <1>b DEF IInv, TypeTables
  <1>3. TasksGood'
    <2> SUFFICES ASSUME NEW o \in Procs
                 PROVE  Good(pc[o], request[o], read[o], seen[o], barred[o])'
      BY DEF TasksGood
    <2>1. CASE o = p
      <3>1. /\ pc'[o] = stage /\ request'[o] = q /\ read'[o] = rd
            /\ seen'[o] = sn /\ barred'[o] = br
        BY <2>1, <1>a, <1>a3
      <3>2. Shape(pc[o], request[o])' /\ Assigning(pc[o], request[o])'
        BY <3>1, <1>b DEF Good, Shape, Assigning
      <3>3. Checked(pc[o], request[o], read[o], seen[o], barred[o])'
        BY <3>1, <1>b, Zenon DEF Good, Checked
      <3>4. ~Announces(pc[o], request[o])'
        BY <3>1 DEF Announces
      <3>5. Witnessed(pc[o], request[o], seen[o])'
        BY <3>1, <1>b, Zenon DEF Good, Witnessed
      <3> QED
        BY <3>2, <3>3, <3>4, <3>5 DEF Good
    <2>2. CASE o # p
      <3>1. Good(pc[o], request[o], read[o], seen[o], barred[o])
        BY DEF IInv, TasksGood
      <3>2. /\ pc'[o] = pc[o] /\ request'[o] = request[o] /\ read'[o] = read[o]
            /\ seen'[o] = seen[o] /\ barred'[o] = barred[o]
        BY <2>2, <1>a, <1>a2
      <3>3. Shape(pc[o], request[o])' /\ Assigning(pc[o], request[o])'
        BY <3>1, <3>2, <1>b DEF Good, Shape, Assigning
      <3>4. Checked(pc[o], request[o], read[o], seen[o], barred[o])'
        BY <3>1, <3>2, <1>b, Zenon DEF Good, Checked
      <3>5. Announces(pc[o], request[o])' =>
              /\ channel'[request'[o].channel].state = "archived"
              /\ Unannounced(request[o].channel)'
        BY <3>1, <3>2, <1>b DEF Good, Announces, Unannounced
      <3>6. Witnessed(pc[o], request[o], seen[o])'
        BY <3>1, <3>2, <1>b, Zenon DEF Good, Witnessed
      <3> QED
        BY <3>3, <3>4, <3>5, <3>6 DEF Good
    <2> QED
      BY <2>1, <2>2
  <1>4. TablesGood'
    BY <1>b DEF IInv, TablesGood, OwnerKept, ActiveRows, AssignedAreMembers, RolesMade,
                Deletions
  <1>5. OneAnnouncer'
    BY <1>a DEF IInv, OneAnnouncer, Announces
  <1> QED
    BY <1>1, <1>2, <1>3, <1>4, <1>5 DEF IInv

\* A process that does not move stays good as long as rows and roles stay, an
\* archived channel stays archived, and its history only loses a bar.
Steady ==
  /\ \A u \in Users : member[u].level # "none" => member'[u].level # "none"
  /\ \A r \in RoleIds : role[r].made => role'[r] = role[r]
  /\ \A c \in Channels : channel[c].state = "archived" => channel'[c].state = "archived"
  /\ \A o \in Procs :
       /\ seen[o] => seen'[o]
       /\ barred'[o] => barred[o]
       /\ pc[o] \notin Rest /\ barred'[o] =>
            Needs(request[o].op) \in override'[request[o].channel, request[o].user].deny
       /\ pc[o] \notin Rest /\ ~space'.archived /\ member'[request[o].user].active =>
            seen'[o]

LEMMA Kept ==
  ASSUME IInv, Steady, NEW o \in Procs, events' = events,
         pc'[o] = pc[o], request'[o] = request[o], read'[o] = read[o]
  PROVE  Good(pc[o], request[o], read[o], seen[o], barred[o])'
  <1>0. Good(pc[o], request[o], read[o], seen[o], barred[o])
    BY DEF IInv, TasksGood
  <1>1. request[o] \in Request /\ read[o] \in Reading
    BY DEF IInv, TypeTasks
  <1>2. Shape(pc[o], request[o])'
    BY <1>0 DEF Good, Shape
  <1>3. Assigning(pc[o], request[o])'
    BY <1>0, <1>1 DEF Good, Shape, Assigning, Steady, Request
  <1>4. Checked(pc[o], request[o], read[o], seen[o], barred[o])'
    <2>1. pc[o] \notin Early => seen'[o] /\ read[o].name \in Names
      BY <1>0 DEF Good, Checked, Steady
    <2>2. pc[o] \notin Unsure /\ request[o].op \in ChannelOps /\ request[o].user # Owner
            => ~barred'[o]
      BY <1>0 DEF Good, Checked, Steady
    <2>3. pc[o] \notin Rest /\ barred'[o] =>
            Needs(request[o].op) \in override'[request[o].channel, request[o].user].deny
      BY DEF Steady
    <2>4. pc[o] = "overrides" =>
            /\ \A r \in read[o].roles : role'[r].made
            /\ \A x \in Permissions :
                 x \in read[o].base <=> \/ x \in Builtin(read[o].level)
                                        \/ \E r \in read[o].roles : x \in role'[r].grants
      <3> SUFFICES ASSUME pc[o] = "overrides"
                   PROVE  /\ \A r \in read[o].roles : role'[r].made
                          /\ \A x \in Permissions : x \in read[o].base <=>
                               \/ x \in Builtin(read[o].level)
                               \/ \E r \in read[o].roles : x \in role'[r].grants
        OBVIOUS
      <3>1. \A r \in read[o].roles : role[r].made /\ role'[r] = role[r]
        BY <1>0, <1>1 DEF Good, Checked, Steady, Reading
      <3> QED
        BY <1>0, <3>1 DEF Good, Checked
    <2> QED
      BY <2>1, <2>2, <2>3, <2>4, Zenon DEF Checked
  <1>5. Announces(pc[o], request[o])' =>
          /\ channel'[request'[o].channel].state = "archived"
          /\ Unannounced(request[o].channel)'
    BY <1>0, <1>1 DEF Good, Announces, Unannounced, Steady, Request
  <1>6. Witnessed(pc[o], request[o], seen[o])'
    <2>1. pc[o] \notin Rest /\ ~space'.archived /\ member'[request[o].user].active =>
            seen'[o]
      BY DEF Steady
    <2> QED
      BY <2>1, Zenon DEF Witnessed
  <1> QED
    BY <1>2, <1>3, <1>4, <1>5, <1>6 DEF Good

LEMMA Unmoved ==
  ASSUME IInv, TypeSides', UNCHANGED <<tables, events, tasks, history>>
  PROVE  IInv'
  <1>1. UNCHANGED <<space, member, orgMembers, role, assigned, override, channel, audit,
                    events, pc, request, read, seen, barred>>
    BY DEF tables, tasks, history
  <1>2. TypeTables' /\ TypeTasks'
    BY <1>1 DEF IInv, TypeTables, TypeTasks
  <1>3. TasksGood'
    <2>1. \A o \in Procs : Good(pc[o], request[o], read[o], seen[o], barred[o])
      BY DEF IInv, TasksGood
    <2>2. Steady
      BY <1>1, <2>1, Zenon DEF Steady, Good, Checked, Witnessed
    <2> QED
      BY <1>1, <2>2, Kept DEF TasksGood
  <1>4. TablesGood'
    BY <1>1 DEF IInv, TablesGood, OwnerKept, ActiveRows, AssignedAreMembers,
                RolesMade, Deletions
  <1>5. OneAnnouncer'
    BY <1>1 DEF IInv, OneAnnouncer, Announces
  <1> QED
    BY <1>2, <1>3, <1>4, <1>5 DEF IInv

\* A process writes a table and moves on with the same request.
LEMMA Changes ==
  ASSUME IInv, Steady, NEW p \in Procs, NEW stage \in Stages,
         pc' = [pc EXCEPT ![p] = stage],
         Good(pc[p], request[p], read[p], seen[p], barred[p])',
         Announces(stage, request[p]) =>
           \A o \in Procs \ {p} : Announces(pc[o], request[o]) =>
                                    request[o].channel # request[p].channel,
         TypeTables', TablesGood',
         seen' \in [Procs -> BOOLEAN], barred' \in [Procs -> BOOLEAN],
         UNCHANGED <<events, request, read, sockets, begun>>
  PROVE  IInv'
  <1>0. TypeTasks
    BY DEF IInv
  <1>1. TypeTasks'
    BY <1>0 DEF TypeTasks
  <1>2. TypeSides'
    BY DEF IInv, TypeSides, sockets
  <1>3. pc'[p] = stage /\ \A o \in Procs : o # p => pc'[o] = pc[o]
    BY <1>0 DEF TypeTasks
  <1>4. TasksGood'
    <2> SUFFICES ASSUME NEW o \in Procs
                 PROVE  Good(pc[o], request[o], read[o], seen[o], barred[o])'
      BY DEF TasksGood
    <2>1. CASE o = p
      BY <2>1
    <2>2. CASE o # p
      BY <2>2, <1>3, Kept
    <2> QED
      BY <2>1, <2>2
  <1>5. OneAnnouncer'
    BY <1>3 DEF IInv, OneAnnouncer, Announces
  <1> QED
    BY <1>1, <1>2, <1>4, <1>5 DEF IInv

\* A process that moves on with the same request and history.
LEMMA Steps ==
  ASSUME IInv, NEW p \in Procs, NEW stage \in Stages, NEW rd \in Reading,
         Good(stage, request[p], rd, seen[p], barred[p]),
         ~Announces(stage, request[p]),
         pc' = [pc EXCEPT ![p] = stage], read' = [read EXCEPT ![p] = rd],
         UNCHANGED <<tables, events, request, sockets, begun, history>>
  PROVE  IInv'
  <1>0. TypeTasks /\ TypeSides
    BY DEF IInv
  <1>1. request[p] \in Request /\ seen[p] \in BOOLEAN /\ barred[p] \in BOOLEAN
    BY <1>0 DEF TypeTasks
  <1>2. request' = [request EXCEPT ![p] = request[p]]
    BY <1>0 DEF TypeTasks
  <1>3. seen' = [seen EXCEPT ![p] = seen[p]] /\ barred' = [barred EXCEPT ![p] = barred[p]]
    BY <1>0 DEF TypeTasks, history
  <1>4. TypeSides'
    BY <1>0 DEF TypeSides, sockets
  <1> QED
    BY <1>1, <1>2, <1>3, <1>4, Moves

LEMMA IdleGood ==
  ASSUME NEW stage \in Rest, NEW sn, NEW br
  PROVE  Good(stage, NoRequest, Nothing, sn, br) /\ ~Announces(stage, NoRequest)
  BY DEF Rest, Good, Shape, Checked, Witnessed, Assigning, Announces, NoRequest, Early, Unsure

LEMMA IdleNext ==
  ASSUME NEW p, pc'[p] = "idle", request'[p] = NoRequest
  PROVE  Good(pc[p], request[p], read[p], seen[p], barred[p])'
  <1>1. pc'[p] \in Rest /\ pc'[p] \in Early /\ pc'[p] \in Unsure
    BY DEF Rest, Early, Unsure
  <1>2. Shape(pc[p], request[p])' /\ Assigning(pc[p], request[p])'
    BY DEF Shape, Assigning, NoRequest
  <1>3. Checked(pc[p], request[p], read[p], seen[p], barred[p])'
    <2>1. pc'[p] # "overrides"
      OBVIOUS
    <2> QED
      BY <1>1, <2>1, Zenon DEF Checked
  <1>4. Witnessed(pc[p], request[p], seen[p])'
    BY <1>1, Zenon DEF Witnessed
  <1>5. ~Announces(pc[p], request[p])'
    BY DEF Announces
  <1> QED
    BY <1>2, <1>3, <1>4, <1>5 DEF Good

LEMMA Ended ==
  ASSUME IInv, NEW p \in Procs, NEW stage \in Rest,
         pc' = [pc EXCEPT ![p] = stage],
         request' = [request EXCEPT ![p] = NoRequest],
         read' = [read EXCEPT ![p] = Nothing],
         TypeSides', UNCHANGED <<tables, events, history>>
  PROVE  IInv'
  <1>0. TypeTasks
    BY DEF IInv
  <1>1. stage \in Stages /\ seen[p] \in BOOLEAN /\ barred[p] \in BOOLEAN
    BY <1>0 DEF TypeTasks, Rest, Stages
  <1>3. seen' = [seen EXCEPT ![p] = seen[p]] /\ barred' = [barred EXCEPT ![p] = barred[p]]
    BY <1>0 DEF TypeTasks, history
  <1> QED
    BY <1>1, <1>3, Blanks, IdleGood, Moves

LEMMA Refused == ASSUME IInv, NEW p \in Procs, Refuses(p) PROVE IInv'
  <1>0. TypeSides
    BY DEF IInv
  <1>1. TypeSides'
    <2>1. CASE request[p].op = "receive"
      <3>1. dropped' = [dropped EXCEPT ![p] = dropped[p] \cup {cursor[p]}]
        BY <2>1 DEF Refuses, HoldsBack
      <3>2. cursor' = cursor /\ sent' = sent /\ begun' = begun
        BY <2>1 DEF Refuses, HoldsBack
      <3> QED
        BY <1>0, <3>1, <3>2, ZenonT(60) DEF TypeSides
    <2>2. CASE request[p].op # "receive"
      BY <1>0, <2>2 DEF TypeSides, Refuses, HoldsBack, sockets
    <2> QED
      BY <2>1, <2>2
  <1>2. "idle" \in Rest
    BY DEF Rest
  <1> QED
    BY <1>1, <1>2, Ended DEF Refuses, Ends, Goes

LEMMA AbandonInv == ASSUME IInv, NEW p \in Procs, Abandon(p) PROVE IInv'
  <1>1. TypeSides'
    BY DEF IInv, TypeSides, Abandon, sockets
  <1>2. "idle" \in Rest
    BY DEF Rest
  <1> QED
    BY <1>1, <1>2, Ended DEF Abandon, Ends, Goes

LEMMA CloseInv == ASSUME IInv, NEW p \in Procs, Close(p) PROVE IInv'
  <1>1. TypeSides'
    BY DEF IInv, TypeSides, Close, sockets
  <1>2. "closed" \in Rest
    BY DEF Rest
  <1> QED
    BY <1>1, <1>2, Ended DEF Close, Goes

(***************************************************************************)
(* A request is accepted.                                                  *)
(***************************************************************************)
LEMMA Accepted ==
  ASSUME IInv, NEW p \in Procs, NEW q \in Request, Accepts(p, q),
         q.op \in {"addMember", "removeMember", "assignRole"} => q.target \in Users,
         TypeSides', UNCHANGED <<tables, events>>
  PROVE  IInv'
  <1> DEFINE stage == IF q.op \in ChannelOps THEN "channel" ELSE "space"
             sn == ~space.archived /\ member[q.user].active
             br == Needs(q.op) \in override[q.channel, q.user].deny
  <1>1. stage \in Stages /\ stage \in {"channel", "space"}
    BY DEF Stages
  <1>2. sn \in BOOLEAN /\ br \in BOOLEAN
    OBVIOUS
  <1>3. Good(stage, q, Nothing, sn, br) /\ ~Announces(stage, q)
    BY <1>1 DEF Good, Shape, Checked, Witnessed, Assigning, Announces, Early, Rest,
             Unsure
  <1>4. /\ pc' = [pc EXCEPT ![p] = stage] /\ request' = [request EXCEPT ![p] = q]
        /\ read' = [read EXCEPT ![p] = Nothing] /\ seen' = [seen EXCEPT ![p] = sn]
        /\ barred' = [barred EXCEPT ![p] = br]
    BY DEF Accepts, Goes
  <1> HIDE DEF stage, sn, br
  <1> QED
    BY <1>1, <1>2, <1>3, <1>4, Blanks, Moves

LEMMA BeginInv == ASSUME IInv, NEW p \in Procs, NEW q \in Menu, Begin(p, q) PROVE IInv'
  <1>1. TypeSides'
    BY IdsAssumption DEF IInv, TypeSides, Begin, sockets
  <1>2. q \in Request /\
        (q.op \in {"addMember", "removeMember", "assignRole"} => q.target \in Users)
    BY MenuAssumption
  <1> QED
    BY <1>1, <1>2, Accepted DEF Begin

LEMMA TakeEventInv == ASSUME IInv, NEW s \in Sockets, TakeEvent(s) PROVE IInv'
  <1> DEFINE e == events[cursor[s] + 1]
             q == [NoRequest EXCEPT !.user = SocketUser[s], !.channel = e.channel]
  <1>0. TypeSides /\ TypeTables /\ TypeTasks /\ s \in Procs
    BY DEF IInv, Procs
  <1>1. cursor[s] \in Nat /\ cursor[s] < Len(events) /\ events \in Seq(Event)
    BY <1>0 DEF TypeSides, TypeTables, TakeEvent
  <1>2. e \in Event
    BY <1>1
  <1>3. TypeSides'
    <2>1. cursor' = [cursor EXCEPT ![s] = cursor[s] + 1] /\ dropped' = dropped
          /\ begun' = begun
      BY DEF TakeEvent
    <2>2. sent' = sent \/ sent' = [sent EXCEPT ![s] = sent[s] \cup {cursor[s] + 1}]
      BY DEF TakeEvent
    <2>3. cursor' \in [Sockets -> Nat]
      BY <1>0, <1>1, <2>1 DEF TypeSides
    <2>4. sent' \in [Sockets -> SUBSET Nat]
      <3>1. sent[s] \cup {cursor[s] + 1} \in SUBSET Nat
        BY <1>0, <1>1 DEF TypeSides
      <3> HIDE DEF e, q
      <3> QED
        BY <1>0, <2>2, <3>1 DEF TypeSides
    <2> QED
      BY <1>0, <2>1, <2>3, <2>4 DEF TypeSides
  <1>4. UNCHANGED <<tables, events>>
    BY DEF TakeEvent
  <1>5. CASE e.channel = NoChannel
    <2>1. UNCHANGED <<tasks, history>>
      BY <1>5 DEF TakeEvent
    <2> QED
      BY <1>3, <1>4, <2>1, Unmoved
  <1>6. CASE e.channel # NoChannel
    <2>1. Accepts(s, q)
      BY <1>6 DEF TakeEvent
    <2>2. e.channel \in Channels
      BY <1>2, <1>6 DEF Event
    <2>3. q \in Request /\ q.op = "receive"
      BY <2>2, Blanks, IdsAssumption DEF Request, NoRequest
    <2> QED
      BY <1>0, <1>3, <1>4, <2>1, <2>3, Accepted
  <1> QED
    BY <1>5, <1>6

LEMMA ConnectInv == ASSUME IInv, NEW s \in Sockets, Connect(s) PROVE IInv'
  <1>0. TypeTasks /\ TypeSides /\ s \in Procs /\ Len(events) \in Nat
    BY DEF IInv, Procs, TypeTables
  <1>1. TypeSides'
    BY <1>0 DEF TypeSides, Connect
  <1>2. /\ request[s] \in Request /\ read[s] \in Reading /\ seen[s] \in BOOLEAN
        /\ barred[s] \in BOOLEAN /\ "idle" \in Stages
    BY <1>0 DEF TypeTasks, Stages
  <1>3. /\ request' = [request EXCEPT ![s] = request[s]]
        /\ read' = [read EXCEPT ![s] = read[s]]
    BY <1>0 DEF TypeTasks, Connect
  <1>4. seen' = [seen EXCEPT ![s] = seen[s]] /\ barred' = [barred EXCEPT ![s] = barred[s]]
    BY <1>0 DEF TypeTasks, Connect, history
  <1>5. Good("idle", request[s], read[s], seen[s], barred[s])
    <2>1. Shape(pc[s], request[s])
      BY <1>0 DEF IInv, TasksGood, Good
    <2> QED
      BY <2>1 DEF Good, Shape, Checked, Witnessed, Assigning, Announces, Early, Rest,
             Unsure
  <1>6. ~Announces("idle", request[s])
    BY DEF Announces
  <1>7. pc' = [pc EXCEPT ![s] = "idle"] /\ UNCHANGED <<tables, events>>
    BY DEF Connect, Goes
  <1> QED
    BY <1>0, <1>1, <1>2, <1>3, <1>4, <1>5, <1>6, <1>7, Moves

LEMMA LagInv == ASSUME IInv, NEW s \in Sockets, Lag(s) PROVE IInv'
  <1>0. TypeSides
    BY DEF IInv
  <1>1. PICK i \in cursor[s] + 1 .. Len(events) : cursor' = [cursor EXCEPT ![s] = i]
    BY DEF Lag
  <1>2. i \in Nat
    BY <1>0, <1>1 DEF TypeSides
  <1>3. TypeSides'
    BY <1>0, <1>1, <1>2 DEF TypeSides, Lag
  <1> QED
    BY <1>3, Unmoved DEF Lag

LEMMA ForwardInv == ASSUME IInv, NEW s \in Sockets, Forward(s) PROVE IInv'
  <1>0. TypeSides /\ s \in Procs
    BY DEF IInv, Procs
  <1>1. TypeSides'
    BY <1>0 DEF TypeSides, Forward
  <1>2. "idle" \in Rest
    BY DEF Rest
  <1> QED
    BY <1>0, <1>1, <1>2, Ended DEF Forward, Ends, Goes

(***************************************************************************)
(* Authorization.                                                          *)
(***************************************************************************)
LEMMA TaskFacts ==
  ASSUME IInv, NEW p \in Procs
  PROVE  /\ pc[p] \in Stages /\ request[p] \in Request /\ read[p] \in Reading
         /\ Good(pc[p], request[p], read[p], seen[p], barred[p])
         /\ request[p].user \in Users /\ request[p].channel \in Channels
         /\ request[p].role \in RoleIds /\ request[p].op \in Ops
         /\ request[p].target \in Targets
  BY DEF IInv, TypeTasks, TasksGood, Request

LEMMA ReadChannelInv == ASSUME IInv, NEW p \in Procs, ReadChannel(p) PROVE IInv'
  <1> DEFINE row == channel[request[p].channel]
             rd == [read[p] EXCEPT !.row = row]
  <1>0. /\ read[p] \in Reading /\ row \in Channel /\ read \in [Procs -> Reading]
        /\ Good("channel", request[p], read[p], seen[p], barred[p])
    BY TaskFacts DEF IInv, TypeTables, TypeTasks, ReadChannel
  <1>1. CASE row.state = "live"
    <2>1. rd \in Reading
      BY <1>0 DEF Reading
    <2>2. Good("space", request[p], rd, seen[p], barred[p])
      BY <1>0 DEF Good, Shape, Checked, Witnessed, Assigning, Announces, Early, Rest,
             Unsure
    <2>3. "space" \in Stages /\ ~Announces("space", request[p])
      BY DEF Stages, Announces
    <2>4. pc' = [pc EXCEPT ![p] = "space"] /\ read' = [read EXCEPT ![p] = rd]
      BY <1>0, <1>1 DEF ReadChannel, Goes
    <2>5. UNCHANGED <<tables, events, request, sockets, begun, history>>
      BY <1>1 DEF ReadChannel
    <2> HIDE DEF rd
    <2> QED
      BY <2>1, <2>2, <2>3, <2>4, <2>5, Steps
  <1>2. CASE row.state # "live"
    BY <1>2, Refused DEF ReadChannel
  <1> QED
    BY <1>1, <1>2

\* The first stage after a check is none of those before it.
LEMMA FirstStages ==
  ASSUME NEW op \in Ops
  PROVE  /\ FirstStage(op) \in {"organization", "target", "members", "publish", "forward",
                                "write"}
         /\ FirstStage(op) = "organization" => op = "addMember"
         /\ FirstStage(op) = "target" => op \in {"removeMember", "assignRole"}
         /\ FirstStage(op) = "publish" => op = "typing"
         /\ FirstStage(op) = "members" => op = "deleteSpace"
         /\ FirstStage(op) = "write" => op \notin {"addMember", "removeMember", "assignRole"}
  BY DEF FirstStage, Ops, SpaceOps, ChannelOps

\* A process whose check ends with a grant.
LEMMA Granted ==
  ASSUME IInv, NEW p \in Procs, NEW rd \in Reading, seen[p], rd.name \in Names,
         pc[p] \in {"space", "roles", "overrides"},
         request[p].op \in ChannelOps /\ request[p].user # Owner => ~barred[p]
  PROVE  /\ Good(FirstStage(request[p].op), request[p], rd, seen[p], barred[p])
         /\ ~Announces(FirstStage(request[p].op), request[p])
         /\ FirstStage(request[p].op) \in Stages
  <1>1. /\ Shape(pc[p], request[p]) /\ request[p].op \in Ops
        /\ barred[p] => Needs(request[p].op) \in override[request[p].channel, request[p].user].deny
    BY TaskFacts DEF Good, Checked, Rest
  <1>2. FirstStage(request[p].op) \in Stages
    BY <1>1, FirstStages DEF Stages
  <1>3. ~Announces(FirstStage(request[p].op), request[p])
    BY <1>1, FirstStages DEF Announces
  <1>4. Shape(FirstStage(request[p].op), request[p])
    BY <1>1, FirstStages DEF Shape
  <1>5. Checked(FirstStage(request[p].op), request[p], rd, seen[p], barred[p])
    BY <1>1, FirstStages DEF Checked
  <1>6. Assigning(FirstStage(request[p].op), request[p])
    BY <1>1, FirstStages DEF Assigning
  <1>7. Witnessed(FirstStage(request[p].op), request[p], seen[p])
    BY DEF Witnessed
  <1> QED
    BY <1>2, <1>3, <1>4, <1>5, <1>6, <1>7 DEF Good

\* What the two rounds of overrides come to.
LEMMA EffectiveFacts ==
  ASSUME NEW base, NEW c, NEW u, NEW roles, NEW x
  PROVE  x \in Effective(base, c, u, roles) <=>
           /\ x \notin override[c, u].deny
           /\ \/ x \in override[c, u].allow
              \/ /\ \A r \in roles : x \notin override[c, r].deny
                 /\ \/ \E r \in roles : x \in override[c, r].allow
                    \/ x \in base
  <1>1. x \in Allows(c, roles) <=> \E r \in roles : x \in override[c, r].allow
    BY DEF Allows
  <1>2. x \in Denies(c, roles) <=> \E r \in roles : x \in override[c, r].deny
    BY DEF Denies
  <1> QED
    BY <1>1, <1>2 DEF Effective, Apply

LEMMA ReadSpaceInv == ASSUME IInv, NEW p \in Procs, ReadSpace(p) PROVE IInv'
  <1> DEFINE u == request[p].user
             rd == [read[p] EXCEPT !.level = member[u].level, !.name = space.name]
             stage == IF IsAdmin(member[u].level) THEN FirstStage(request[p].op) ELSE "roles"
  <1>0. /\ read[p] \in Reading /\ u \in Users /\ read \in [Procs -> Reading]
        /\ member[u] \in Member /\ space.name \in Names /\ pc[p] = "space"
        /\ Good("space", request[p], read[p], seen[p], barred[p])
    BY TaskFacts DEF IInv, TypeTables, TypeTasks, ReadSpace
  <1>1. CASE Visible(u)
    <2>1. rd \in Reading /\ rd.name \in Names
      BY <1>0 DEF Reading, Member
    <2>2. seen[p]
      BY <1>0, <1>1 DEF Good, Witnessed, Visible, Rest
    <2>3. Good(stage, request[p], rd, seen[p], barred[p]) /\ ~Announces(stage, request[p])
          /\ stage \in Stages
      <3>1. CASE IsAdmin(member[u].level)
        <4>1. u = Owner
          BY <1>0, <3>1 DEF IInv, TablesGood, OwnerKept
        <4> HIDE DEF rd
        <4> QED
          BY <1>0, <2>1, <2>2, <3>1, <4>1, Granted
      <3>2. CASE ~IsAdmin(member[u].level)
        <4>1. u # Owner
          BY <3>2 DEF IInv, TablesGood, OwnerKept, IsAdmin
        <4>2. Shape("roles", request[p]) /\ ~Announces("roles", request[p])
              /\ "roles" \in Stages /\ Assigning("roles", request[p])
          BY <1>0, <4>1 DEF Good, Shape, Announces, Stages, Assigning
        <4>3. Checked("roles", request[p], rd, seen[p], barred[p])
          BY <1>0, <2>1, <2>2 DEF Good, Checked, Early, Rest, Unsure
        <4>4. Witnessed("roles", request[p], seen[p])
          BY <2>2 DEF Witnessed
        <4> QED
          BY <3>2, <4>2, <4>3, <4>4 DEF Good
      <3> QED
        BY <3>1, <3>2
    <2>4. pc' = [pc EXCEPT ![p] = stage] /\ read' = [read EXCEPT ![p] = rd]
      BY <1>0, <1>1 DEF ReadSpace, Goes, Decide
    <2>5. UNCHANGED <<tables, events, request, sockets, begun, history>>
      BY <1>1 DEF ReadSpace
    <2> HIDE DEF rd, stage
    <2> QED
      BY <2>1, <2>3, <2>4, <2>5, Steps
  <1>2. CASE ~Visible(u)
    BY <1>2, Refused DEF ReadSpace
  <1> QED
    BY <1>1, <1>2

\* A check that ends without a grant.
LEMMA Denied ==
  ASSUME IInv, NEW p \in Procs, NEW rd \in Reading, rd.name \in Names,
         pc[p] \in {"roles", "overrides"}
  PROVE  /\ Good("forbidden", request[p], rd, seen[p], barred[p])
         /\ ~Announces("forbidden", request[p]) /\ "forbidden" \in Stages
  <1>1. Good(pc[p], request[p], read[p], seen[p], barred[p])
    BY TaskFacts
  <1>2. seen[p]
    BY <1>1 DEF Good, Checked, Early, Rest
  <1>3. Shape("forbidden", request[p]) /\ ~Announces("forbidden", request[p])
        /\ "forbidden" \in Stages /\ Assigning("forbidden", request[p])
    BY <1>1 DEF Good, Shape, Announces, Stages, Assigning
  <1>4. Checked("forbidden", request[p], rd, seen[p], barred[p])
    BY <1>1, <1>2 DEF Good, Checked, Early, Rest, Unsure
  <1>5. Witnessed("forbidden", request[p], seen[p])
    BY <1>2 DEF Witnessed
  <1> QED
    BY <1>3, <1>4, <1>5 DEF Good

LEMMA ReadRolesInv == ASSUME IInv, NEW p \in Procs, ReadRoles(p) PROVE IInv'
  <1> DEFINE u == request[p].user
             base == Base(read[p].level, assigned[u])
             rd == [read[p] EXCEPT !.roles = assigned[u], !.base = base]
             granted == Needs(request[p].op) \in base
             stage == IF request[p].op \in ChannelOps THEN "overrides"
                      ELSE IF granted THEN FirstStage(request[p].op) ELSE "forbidden"
  <1>0. /\ read[p] \in Reading /\ u \in Users /\ read \in [Procs -> Reading]
        /\ assigned[u] \in SUBSET RoleIds /\ pc[p] = "roles" /\ role \in [RoleIds -> Role]
        /\ Good("roles", request[p], read[p], seen[p], barred[p])
    BY TaskFacts DEF IInv, TypeTables, TypeTasks, ReadRoles
  <1>1. \A x : x \in base <=> \/ x \in Builtin(read[p].level)
                              \/ \E r \in assigned[u] : x \in role[r].grants
    BY DEF Base
  <1>2. base \subseteq Permissions
    <2>1. Builtin(read[p].level) \subseteq Permissions
      BY DEF Builtin, Permissions
    <2>2. \A r \in assigned[u] : role[r].grants \subseteq Permissions
      BY <1>0 DEF Role
    <2> HIDE DEF base
    <2> QED
      BY <1>1, <2>1, <2>2
  <1>3. seen[p] /\ read[p].name \in Names
    BY <1>0 DEF Good, Checked, Early, Rest
  <1> HIDE DEF base
  <1>4. rd \in Reading /\ rd.name \in Names /\ rd.roles = assigned[u] /\ rd.base = base
        /\ rd.level = read[p].level
    BY <1>0, <1>2, <1>3 DEF Reading
  <1>5. Good(stage, request[p], rd, seen[p], barred[p]) /\ ~Announces(stage, request[p])
        /\ stage \in Stages
    <2>1. CASE request[p].op \in ChannelOps
      <3>1. Shape("overrides", request[p]) /\ ~Announces("overrides", request[p])
            /\ "overrides" \in Stages /\ Assigning("overrides", request[p])
        BY <1>0 DEF Good, Shape, Announces, Stages, Assigning
      <3>2. \A r \in assigned[u] : role[r].made
        BY <1>0 DEF IInv, TablesGood, RolesMade
      <3>3. Checked("overrides", request[p], rd, seen[p], barred[p])
        <4> HIDE DEF rd
        <4> QED
          BY <1>0, <1>1, <1>3, <1>4, <3>2 DEF Good, Checked, Early, Rest, Unsure
      <3>4. Witnessed("overrides", request[p], seen[p])
        BY <1>3 DEF Witnessed
      <3> QED
        BY <2>1, <3>1, <3>3, <3>4 DEF Good
    <2>2. CASE request[p].op \notin ChannelOps /\ granted
      <3> HIDE DEF rd
      <3> QED
        BY <1>0, <1>3, <1>4, <2>2, Granted
    <2>3. CASE request[p].op \notin ChannelOps /\ ~granted
      <3> HIDE DEF rd
      <3> QED
        BY <1>0, <1>4, <2>3, Denied
    <2> QED
      BY <2>1, <2>2, <2>3
  <1>6. pc' = [pc EXCEPT ![p] = stage] /\ read' = [read EXCEPT ![p] = rd]
    BY <1>0 DEF ReadRoles, Goes, Decide, base
  <1>7. UNCHANGED <<tables, events, request, sockets, begun, history>>
    BY DEF ReadRoles
  <1> HIDE DEF rd, stage
  <1> QED
    BY <1>4, <1>5, <1>6, <1>7, Steps

LEMMA ReadOverridesInv == ASSUME IInv, NEW p \in Procs, ReadOverrides(p) PROVE IInv'
  <1> DEFINE q == request[p]
             granted == Needs(q.op) \in Effective(read[p].base, q.channel, q.user, read[p].roles)
             stage == IF granted THEN FirstStage(q.op) ELSE "forbidden"
  <1>0. /\ read[p] \in Reading /\ read \in [Procs -> Reading] /\ pc[p] = "overrides"
        /\ Good("overrides", q, read[p], seen[p], barred[p])
    BY TaskFacts DEF IInv, TypeTasks, ReadOverrides
  <1>1. seen[p] /\ read[p].name \in Names
    BY <1>0 DEF Good, Checked, Early, Rest
  <1>2. granted => ~barred[p]
    <2>1. barred[p] => Needs(q.op) \in override[q.channel, q.user].deny
      <3>1. Checked("overrides", q, read[p], seen[p], barred[p]) /\ "overrides" \notin Rest
        BY <1>0 DEF Good, Rest
      <3> QED
        BY <3>1, Zenon DEF Checked
    <2>2. granted => Needs(q.op) \notin override[q.channel, q.user].deny
      BY DEF Effective, Apply
    <2> QED
      BY <2>1, <2>2
  <1>3. Good(stage, q, read[p], seen[p], barred[p]) /\ ~Announces(stage, q)
        /\ stage \in Stages
    <2>1. CASE granted
      BY <1>0, <1>1, <1>2, <2>1, Granted
    <2>2. CASE ~granted
      BY <1>0, <1>1, <2>2, Denied
    <2> QED
      BY <2>1, <2>2
  <1>4. pc' = [pc EXCEPT ![p] = stage]
    BY DEF ReadOverrides, Decide, Goes
  <1>5. read' = [read EXCEPT ![p] = read[p]]
    BY <1>0 DEF ReadOverrides
  <1>6. UNCHANGED <<tables, events, request, sockets, begun, history>>
    BY DEF ReadOverrides
  <1> HIDE DEF stage
  <1> QED
    BY <1>0, <1>3, <1>4, <1>5, <1>6, Steps

(***************************************************************************)
(* A request that was let through moves on.                                *)
(***************************************************************************)
LEMMA Onward ==
  ASSUME IInv, NEW p \in Procs, pc[p] \notin Unsure, NEW stage \in Stages \ Unsure,
         NEW rd \in Reading, rd.name = read[p].name,
         Shape(stage, request[p]), Assigning(stage, request[p]),
         ~Announces(stage, request[p])
  PROVE  Good(stage, request[p], rd, seen[p], barred[p])
  <1>1. Good(pc[p], request[p], read[p], seen[p], barred[p])
    BY TaskFacts
  <1>2. seen[p] /\ read[p].name \in Names
    BY <1>1 DEF Good, Checked, Unsure
  <1>3. Checked(stage, request[p], rd, seen[p], barred[p])
    BY <1>1, <1>2 DEF Good, Checked, Unsure, Early, Rest
  <1>4. Witnessed(stage, request[p], seen[p])
    BY <1>2 DEF Witnessed
  <1> QED
    BY <1>3, <1>4 DEF Good

LEMMA ReadMoves ==
  ASSUME IInv, NEW p \in Procs, pc[p] \notin Unsure, NEW stage \in Stages \ Unsure,
         Shape(stage, request[p]), Assigning(stage, request[p]),
         ~Announces(stage, request[p]), Goes(p, stage),
         UNCHANGED <<tables, events, request, read, sockets, begun, history>>
  PROVE  IInv'
  <1>0. read[p] \in Reading /\ read \in [Procs -> Reading]
    BY DEF IInv, TypeTasks
  <1>1. read' = [read EXCEPT ![p] = read[p]]
    BY <1>0
  <1>2. Good(stage, request[p], read[p], seen[p], barred[p])
    BY <1>0, Onward
  <1> QED
    BY <1>0, <1>1, <1>2, Steps DEF Goes

LEMMA RereadMemberInv == ASSUME IInv, NEW p \in Procs, RereadMember(p) PROVE IInv'
  <1>1. CASE Visible(request[p].target)
    <2>1. pc[p] = "reread" /\ Shape(pc[p], request[p])
      BY TaskFacts DEF RereadMember, Good
    <2>2. pc[p] \notin Unsure /\ "audit" \in Stages \ Unsure
      BY <2>1 DEF Unsure, Early, Rest, Stages
    <2>3. Shape("audit", request[p]) /\ Assigning("audit", request[p])
          /\ ~Announces("audit", request[p])
      BY <2>1 DEF Shape, Assigning, Announces
    <2>4. Goes(p, "audit")
          /\ UNCHANGED <<tables, events, request, read, sockets, begun, history>>
      BY <1>1 DEF RereadMember
    <2> QED
      BY <2>2, <2>3, <2>4, ReadMoves
  <1>2. CASE ~Visible(request[p].target)
    BY <1>2, Refused DEF RereadMember
  <1> QED
    BY <1>1, <1>2

LEMMA ReadTargetInv == ASSUME IInv, NEW p \in Procs, ReadTarget(p) PROVE IInv'
  <1> DEFINE stage == IF request[p].op = "assignRole" THEN "role" ELSE "write"
             t == request[p].target
  <1>1. CASE TargetPasses(p)
    <2>1. pc[p] = "target" /\ Shape(pc[p], request[p])
      BY TaskFacts DEF ReadTarget, Good
    <2>2. request[p].op \in {"removeMember", "assignRole"} /\ t \in Users
      BY <2>1 DEF Shape
    <2>3. pc[p] \notin Unsure /\ stage \in Stages \ Unsure
      BY <2>1 DEF Unsure, Early, Rest, Stages
    <2>4. request[p].op = "removeMember" => t # Owner
      BY <1>1 DEF TargetPasses, IInv, TablesGood, OwnerKept
    <2>5. member[t].level # "none"
      BY <1>1, <2>2 DEF TargetPasses, Visible, IInv, TablesGood, ActiveRows
    <2>6. Shape(stage, request[p]) /\ Assigning(stage, request[p])
          /\ ~Announces(stage, request[p])
      BY <2>2, <2>4, <2>5 DEF Shape, Assigning, Announces
    <2>7. Goes(p, stage)
          /\ UNCHANGED <<tables, events, request, read, sockets, begun, history>>
      BY <1>1 DEF ReadTarget
    <2> HIDE DEF stage
    <2> QED
      BY <2>3, <2>6, <2>7, ReadMoves
  <1>2. CASE ~TargetPasses(p)
    BY <1>2, Refused DEF ReadTarget
  <1> QED
    BY <1>1, <1>2

LEMMA ReadRoleInv == ASSUME IInv, NEW p \in Procs, ReadRole(p) PROVE IInv'
  <1>1. CASE role[request[p].role].made
    <2>1. /\ pc[p] = "role" /\ Shape(pc[p], request[p]) /\ Assigning(pc[p], request[p])
      BY TaskFacts DEF ReadRole, Good
    <2>2. request[p].op = "assignRole"
      BY <2>1 DEF Shape
    <2>3. pc[p] \notin Unsure /\ "write" \in Stages \ Unsure
      BY <2>1 DEF Unsure, Early, Rest, Stages
    <2>4. Shape("write", request[p]) /\ Assigning("write", request[p])
          /\ ~Announces("write", request[p])
      BY <1>1, <2>1, <2>2 DEF Shape, Assigning, Announces
    <2>5. Goes(p, "write")
          /\ UNCHANGED <<tables, events, request, read, sockets, begun, history>>
      BY <1>1 DEF ReadRole
    <2> QED
      BY <2>3, <2>4, <2>5, ReadMoves
  <1>2. CASE ~role[request[p].role].made
    BY <1>2, Refused DEF ReadRole
  <1> QED
    BY <1>1, <1>2

LEMMA ReadMembersInv == ASSUME IInv, NEW p \in Procs, ReadMembers(p) PROVE IInv'
  <1> DEFINE rd == [read[p] EXCEPT !.members = {u \in Users : Visible(u)}]
  <1>0. /\ read[p] \in Reading /\ read \in [Procs -> Reading] /\ pc[p] = "members"
        /\ Shape(pc[p], request[p]) /\ Assigning(pc[p], request[p])
    BY TaskFacts DEF IInv, TypeTasks, ReadMembers, Good
  <1>1. rd \in Reading /\ rd.name = read[p].name
    BY <1>0 DEF Reading
  <1>2. pc[p] \notin Unsure /\ "write" \in Stages \ Unsure
    BY <1>0 DEF Unsure, Early, Rest, Stages
  <1>3. request[p].op = "deleteSpace"
    BY <1>0 DEF Shape
  <1>4. Shape("write", request[p]) /\ Assigning("write", request[p])
        /\ ~Announces("write", request[p])
    BY <1>3 DEF Shape, Assigning, Announces
  <1>5. read' = [read EXCEPT ![p] = rd] /\ pc' = [pc EXCEPT ![p] = "write"]
        /\ UNCHANGED <<tables, events, request, sockets, begun, history>>
    BY <1>0 DEF ReadMembers, Goes
  <1> HIDE DEF rd
  <1>6. Good("write", request[p], rd, seen[p], barred[p])
    BY <1>1, <1>2, <1>4, Onward
  <1> QED
    BY <1>1, <1>2, <1>4, <1>5, <1>6, Steps

(***************************************************************************)
(* Writes.                                                                 *)
(***************************************************************************)
\* What the history says of every request in progress.
LEMMA Watched ==
  ASSUME IInv, NEW o \in Procs, pc[o] \notin Rest
  PROVE  /\ barred[o] => Needs(request[o].op) \in
                           override[request[o].channel, request[o].user].deny
         /\ ~space.archived /\ member[request[o].user].active => seen[o]
  <1>1. Good(pc[o], request[o], read[o], seen[o], barred[o])
    BY TaskFacts
  <1>2. /\ Checked(pc[o], request[o], read[o], seen[o], barred[o])
        /\ Witnessed(pc[o], request[o], seen[o])
    BY <1>1 DEF Good
  <1> QED
    BY <1>2, Zenon DEF Checked, Witnessed

\* A request that was let through makes its write and moves on.
LEMMA Writes ==
  ASSUME IInv, Steady, NEW p \in Procs, pc[p] \notin Unsure,
         NEW stage \in {"write", "reread", "audit", "publish"},
         Goes(p, stage),
         stage \in {"write", "reread"} => request[p].op = "addMember",
         stage = "audit" => request[p].op # "deleteChannel",
         Announces(stage, request[p]) =>
           /\ channel'[request[p].channel].state = "archived"
           /\ Unannounced(request[p].channel)
           /\ \A o \in Procs \ {p} : Announces(pc[o], request[o]) =>
                                       request[o].channel # request[p].channel,
         TypeTables', TablesGood',
         seen' \in [Procs -> BOOLEAN], barred' \in [Procs -> BOOLEAN],
         UNCHANGED <<events, request, read, sockets, begun>>
  PROVE  IInv'
  <1>1. stage \in Stages \ Unsure
    BY DEF Stages, Unsure, Early, Rest
  <1>2. Good(pc[p], request[p], read[p], seen[p], barred[p])
    BY TaskFacts
  <1>3. pc'[p] = stage /\ pc' = [pc EXCEPT ![p] = stage]
    BY DEF IInv, TypeTasks, Goes
  <1>4. Shape(pc[p], request[p])' /\ Assigning(pc[p], request[p])'
    BY <1>2, <1>3 DEF Good, Shape, Assigning
  <1>5. seen'[p]
    <2>1. seen[p]
      BY <1>2 DEF Good, Checked, Unsure
    <2> QED
      BY <2>1 DEF Steady
  <1>6. Checked(pc[p], request[p], read[p], seen[p], barred[p])'
    <2>1. read[p].name \in Names
      BY <1>2 DEF Good, Checked, Unsure
    <2>2. request[p].op \in ChannelOps /\ request[p].user # Owner => ~barred[p]
      BY <1>2 DEF Good, Checked
    <2>3. request[p].op \in ChannelOps /\ request[p].user # Owner => ~barred'[p]
      BY <2>2 DEF Steady
    <2>4. pc[p] \notin Rest
      BY DEF Unsure, Early
    <2>5. barred'[p] => Needs(request[p].op) \in
                          override'[request[p].channel, request[p].user].deny
      BY <2>4, Zenon DEF Steady
    <2>6. stage # "overrides"
      OBVIOUS
    <2> QED
      BY <1>3, <1>5, <2>1, <2>3, <2>5, <2>6, Zenon DEF Checked
  <1>7. Witnessed(pc[p], request[p], seen[p])'
    BY <1>5 DEF Witnessed
  <1>8. Announces(pc[p], request[p])' =>
          /\ channel'[request'[p].channel].state = "archived"
          /\ Unannounced(request[p].channel)'
    BY <1>3 DEF Announces, Unannounced
  <1>9. Good(pc[p], request[p], read[p], seen[p], barred[p])'
    BY <1>4, <1>6, <1>7, <1>8 DEF Good
  <1> QED
    BY <1>1, <1>3, <1>9, Changes

\* Every stage that writes lies after the check.
LEMMA WriteStages ==
  /\ "write" \notin Unsure /\ "organization" \notin Unsure /\ "audit" \notin Unsure
  /\ "publish" \notin Unsure
  BY DEF Unsure, Early, Rest

LEMMA JoinOrganizationInv == ASSUME IInv, NEW p \in Procs, JoinOrganization(p) PROVE IInv'
  <1>0. /\ pc[p] = "organization" /\ Shape(pc[p], request[p])
        /\ Goes(p, "write")
        /\ UNCHANGED <<space, member, role, assigned, override, channel, audit, events,
                       request, read, sockets, begun, seen, barred>>
        /\ orgMembers' = orgMembers \cup {request[p].target}
    BY TaskFacts DEF JoinOrganization, Good, history
  <1>1. request[p].op = "addMember" /\ request[p].target \in Users
    BY <1>0 DEF Shape
  <1>2. Steady
    BY <1>0, Watched, Zenon DEF Steady
  <1>3. TypeTables' /\ seen' \in [Procs -> BOOLEAN] /\ barred' \in [Procs -> BOOLEAN]
    BY <1>0, <1>1 DEF IInv, TypeTables, TypeTasks
  <1>4. TablesGood'
    BY <1>0 DEF IInv, TablesGood, OwnerKept, ActiveRows, AssignedAreMembers, RolesMade,
                Deletions
  <1>5. ~Announces("write", request[p])
    BY DEF Announces
  <1> QED
    BY <1>0, <1>1, <1>2, <1>3, <1>4, <1>5, WriteStages, Writes

LEMMA AddMemberInv == ASSUME IInv, NEW p \in Procs, AddMember(p) PROVE IInv'
  <1> DEFINE t == request[p].target
             row == Upsert(member[t], request[p].level)
  <1>0. /\ pc[p] = "write" /\ request[p].op = "addMember" /\ Shape(pc[p], request[p])
        /\ request[p] \in Request
        /\ Goes(p, "reread")
        /\ member' = [member EXCEPT ![t] = row]
        /\ seen' = [x \in Procs |-> seen[x] \/ (request[x].user = t /\ ~space.archived)]
        /\ UNCHANGED <<space, orgMembers, role, assigned, override, channel, audit, events,
                       request, read, sockets, begun, barred>>
    BY TaskFacts DEF AddMember, Good
  <1>1. t \in Users /\ request[p].level \in {"member", "guest"}
    BY <1>0 DEF Shape, Request
  <1>2. member \in [Users -> Member] /\ member[t] \in Member
    BY <1>1 DEF IInv, TypeTables
  <1>3. /\ row \in Member /\ row.level # "none" /\ row.active
        /\ t = Owner => row = member[Owner]
        /\ t # Owner => ~IsAdmin(row.level)
    <2>1. row.active /\ row.level = IF member[t].level = "owner" THEN "owner"
                                   ELSE request[p].level
      BY DEF Upsert
    <2>2. row \in Member /\ row.level # "none"
      BY <1>1, <1>2 DEF Upsert, Member, Levels
    <2>3. t = Owner => row = member[Owner]
      <3>1. member[Owner] = [level |-> "owner", active |-> TRUE]
        BY DEF IInv, TablesGood, OwnerKept
      <3>2. row = [level |-> IF member[t].level = "owner" THEN member[t].level
                             ELSE request[p].level, active |-> TRUE]
        BY DEF Upsert
      <3> HIDE DEF row
      <3>3. ASSUME t = Owner PROVE row = member[Owner]
        <4>1. member[t].level = "owner"
          BY <3>1, <3>3
        <4>2. row = [level |-> "owner", active |-> TRUE]
          BY <3>2, <4>1
        <4> QED
          BY <3>1, <4>2
      <3> QED
        BY <3>3
    <2>4. t # Owner => ~IsAdmin(row.level)
      BY <1>1, <2>1 DEF IInv, TablesGood, OwnerKept, IsAdmin
    <2> QED
      BY <2>1, <2>2, <2>3, <2>4
  <1> HIDE DEF row
  <1>4. \A u \in Users : member'[u] = IF u = t THEN row ELSE member[u]
    BY <1>0, <1>2
  <1>5. \A o \in Procs : seen'[o] = (seen[o] \/ (request[o].user = t /\ ~space.archived))
    BY <1>0
  <1>6. Steady
    <2>1. \A u \in Users : member[u].level # "none" => member'[u].level # "none"
      BY <1>3, <1>4
    <2>2. /\ \A r \in RoleIds : role[r].made => role'[r] = role[r]
          /\ \A c \in Channels : channel[c].state = "archived" =>
                                   channel'[c].state = "archived"
      BY <1>0
    <2>3. ASSUME NEW o \in Procs
          PROVE  /\ seen[o] => seen'[o]
                 /\ barred'[o] => barred[o]
                 /\ pc[o] \notin Rest /\ barred'[o] =>
                      Needs(request[o].op) \in override'[request[o].channel, request[o].user].deny
                 /\ pc[o] \notin Rest /\ ~space'.archived /\ member'[request[o].user].active =>
                      seen'[o]
      <3>1. request[o].user \in Users
        BY TaskFacts
      <3>2. pc[o] \notin Rest /\ ~space'.archived /\ member'[request[o].user].active =>
              seen'[o]
        BY <1>0, <1>4, <1>5, <3>1, Watched
      <3> QED
        BY <1>0, <1>5, <3>2, Watched, Zenon
    <2> QED
      BY <2>1, <2>2, <2>3, Zenon DEF Steady
  <1>7. TypeTables'
    BY <1>0, <1>2, <1>3 DEF IInv, TypeTables
  <1>8. seen' \in [Procs -> BOOLEAN] /\ barred' \in [Procs -> BOOLEAN]
    BY <1>0 DEF IInv, TypeTasks
  <1>9. TablesGood'
    <2>1. OwnerKept'
      BY <1>3, <1>4, IdsAssumption DEF IInv, TablesGood, OwnerKept
    <2>2. ActiveRows' /\ AssignedAreMembers'
      BY <1>0, <1>3, <1>4 DEF IInv, TablesGood, ActiveRows, AssignedAreMembers
    <2>3. RolesMade' /\ Deletions'
      BY <1>0 DEF IInv, TablesGood, RolesMade, Deletions
    <2> QED
      BY <2>1, <2>2, <2>3 DEF TablesGood
  <1>10. ~Announces("reread", request[p])
    BY DEF Announces
  <1> QED
    BY <1>0, <1>6, <1>7, <1>8, <1>9, <1>10, WriteStages, Writes

LEMMA RemoveMemberInv == ASSUME IInv, NEW p \in Procs, RemoveMember(p) PROVE IInv'
  <1> DEFINE t == request[p].target
  <1>0. pc[p] = "write" /\ request[p].op = "removeMember" /\ Shape(pc[p], request[p])
    BY TaskFacts DEF RemoveMember, Good
  <1>1. t \in Users /\ t # Owner
    BY <1>0 DEF Shape
  <1>2. CASE member[t].active
    <2>0. /\ Goes(p, "audit")
          /\ member' = [member EXCEPT ![t].active = FALSE]
          /\ UNCHANGED <<space, orgMembers, role, assigned, override, channel, audit,
                         events, request, read, sockets, begun, seen, barred>>
      BY <1>2 DEF RemoveMember, history
    <2>1. member \in [Users -> Member]
      BY DEF IInv, TypeTables
    <2>2. \A u \in Users : /\ member'[u].level = member[u].level
                           /\ member'[u].active => member[u].active
                           /\ u # t => member'[u] = member[u]
      BY <2>0, <2>1, <1>1 DEF Member
    <2>3. Steady
      <3>1. \A u \in Users : member[u].level # "none" => member'[u].level # "none"
        BY <2>2
      <3>2. \A o \in Procs : request[o].user \in Users
        BY TaskFacts
      <3> QED
        BY <2>0, <2>2, <3>1, <3>2, Watched, Zenon DEF Steady
    <2>4. member' \in [Users -> Member]
      BY <2>0, <2>1, <1>1 DEF Member
    <2>5. TypeTables' /\ seen' \in [Procs -> BOOLEAN] /\ barred' \in [Procs -> BOOLEAN]
      BY <2>0, <2>4 DEF IInv, TypeTables, TypeTasks
    <2>6. TablesGood'
      <3>1. OwnerKept'
        BY <2>2, <1>1, IdsAssumption DEF IInv, TablesGood, OwnerKept
      <3>2. ActiveRows' /\ AssignedAreMembers'
        BY <2>0, <2>2 DEF IInv, TablesGood, ActiveRows, AssignedAreMembers
      <3>3. RolesMade' /\ Deletions'
        BY <2>0 DEF IInv, TablesGood, RolesMade, Deletions
      <3> QED
        BY <3>1, <3>2, <3>3 DEF TablesGood
    <2>7. ~Announces("audit", request[p])
      BY DEF Announces
    <2> QED
      BY <1>0, <2>0, <2>3, <2>5, <2>6, <2>7, WriteStages, Writes
  <1>3. CASE ~member[t].active
    BY <1>3, Refused DEF RemoveMember
  <1> QED
    BY <1>2, <1>3

LEMMA CreateRoleInv == ASSUME IInv, NEW p \in Procs, CreateRole(p) PROVE IInv'
  <1> DEFINE r == request[p].role
  <1>0. pc[p] = "write" /\ r \in RoleIds /\ request[p] \in Request
        /\ request[p].op = "createRole"
    BY TaskFacts DEF CreateRole
  <1>1. CASE ~role[r].made
    <2>0. /\ Goes(p, "audit")
          /\ role' = [role EXCEPT ![r] = [made |-> TRUE, grants |-> request[p].allow]]
          /\ UNCHANGED <<space, member, orgMembers, assigned, override, channel, audit,
                         events, request, read, sockets, begun, seen, barred>>
      BY <1>1 DEF CreateRole, history
    <2>1. role \in [RoleIds -> Role]
      BY DEF IInv, TypeTables
    <2>2. \A x \in RoleIds : role[x].made => role'[x] = role[x]
      BY <2>0, <2>1, <1>1
    <2>3. Steady
      BY <2>0, <2>2, Watched, Zenon DEF Steady
    <2>4. role' \in [RoleIds -> Role]
      BY <1>0, <2>0, <2>1 DEF Role, Request
    <2>5. TypeTables' /\ seen' \in [Procs -> BOOLEAN] /\ barred' \in [Procs -> BOOLEAN]
      BY <2>0, <2>4 DEF IInv, TypeTables, TypeTasks
    <2>6. TablesGood'
      <3>1. OwnerKept' /\ ActiveRows' /\ AssignedAreMembers' /\ Deletions'
        BY <2>0 DEF IInv, TablesGood, OwnerKept, ActiveRows, AssignedAreMembers,
                    Deletions
      <3>2. \A u \in Users : assigned[u] \subseteq RoleIds
        BY DEF IInv, TypeTables
      <3>3. RolesMade'
        BY <2>0, <2>2, <3>2 DEF IInv, TablesGood, RolesMade
      <3> QED
        BY <3>1, <3>3 DEF TablesGood
    <2>7. ~Announces("audit", request[p])
      BY DEF Announces
    <2> QED
      BY <1>0, <2>0, <2>3, <2>5, <2>6, <2>7, WriteStages, Writes
  <1>2. CASE role[r].made
    BY <1>2, Refused DEF CreateRole
  <1> QED
    BY <1>1, <1>2

LEMMA AssignRoleInv == ASSUME IInv, NEW p \in Procs, AssignRole(p) PROVE IInv'
  <1> DEFINE t == request[p].target
             r == request[p].role
  <1>0. /\ pc[p] = "write" /\ request[p].op = "assignRole" /\ Shape(pc[p], request[p])
        /\ Assigning(pc[p], request[p]) /\ r \in RoleIds
        /\ Goes(p, "audit")
        /\ assigned' = [assigned EXCEPT ![t] = assigned[t] \cup {r}]
        /\ UNCHANGED <<space, member, orgMembers, role, override, channel, audit, events,
                       request, read, sockets, begun, seen, barred>>
    BY TaskFacts DEF AssignRole, Good, history
  <1>1. t \in Users /\ member[t].level # "none" /\ role[r].made
    BY <1>0 DEF Shape, Assigning
  <1>2. assigned \in [Users -> SUBSET RoleIds]
    BY DEF IInv, TypeTables
  <1>3. Steady
    BY <1>0, Watched, Zenon DEF Steady
  <1>4. assigned' \in [Users -> SUBSET RoleIds]
    BY <1>0, <1>1, <1>2
  <1>5. TypeTables' /\ seen' \in [Procs -> BOOLEAN] /\ barred' \in [Procs -> BOOLEAN]
    BY <1>0, <1>4 DEF IInv, TypeTables, TypeTasks
  <1>6. TablesGood'
    <2>1. OwnerKept' /\ ActiveRows' /\ Deletions'
      BY <1>0 DEF IInv, TablesGood, OwnerKept, ActiveRows, Deletions
    <2>2. \A u \in Users : assigned'[u] = IF u = t THEN assigned[t] \cup {r} ELSE assigned[u]
      BY <1>0, <1>2
    <2>3. AssignedAreMembers' /\ RolesMade'
      BY <1>0, <1>1, <2>2 DEF IInv, TablesGood, AssignedAreMembers, RolesMade
    <2> QED
      BY <2>1, <2>3 DEF TablesGood
  <1>7. ~Announces("audit", request[p])
    BY DEF Announces
  <1> QED
    BY <1>0, <1>3, <1>5, <1>6, <1>7, WriteStages, Writes

\* A write after which the process is done.
LEMMA Finishes ==
  ASSUME IInv, Steady, NEW p \in Procs, Ends(p), TypeTables', TablesGood',
         UNCHANGED <<events, sockets, begun, seen, barred>>
  PROVE  IInv'
  <1>1. TypeTasks' /\ TypeSides'
    BY Blanks DEF IInv, TypeTasks, TypeSides, sockets, Ends, Goes, Stages
  <1>2. /\ pc'[p] = "idle" /\ request'[p] = NoRequest /\ read'[p] = Nothing
        /\ \A o \in Procs : o # p =>
             pc'[o] = pc[o] /\ request'[o] = request[o] /\ read'[o] = read[o]
    BY DEF IInv, TypeTasks, Ends, Goes
  <1>3. TasksGood'
    <2> SUFFICES ASSUME NEW o \in Procs
                 PROVE  Good(pc[o], request[o], read[o], seen[o], barred[o])'
      BY DEF TasksGood
    <2>1. CASE o = p
      BY <1>2, <2>1, IdleNext
    <2>2. CASE o # p
      BY <1>2, <2>2, Kept
    <2> QED
      BY <2>1, <2>2
  <1>4. OneAnnouncer'
    BY <1>2 DEF IInv, OneAnnouncer, Announces
  <1> QED
    BY <1>1, <1>3, <1>4 DEF IInv

LEMMA SetOverrideInv == ASSUME IInv, NEW p \in Procs, SetOverride(p) PROVE IInv'
  <1> DEFINE c == request[p].channel
             t == request[p].target
             row == [allow |-> request[p].allow, deny |-> request[p].deny]
  <1>0. /\ pc[p] = "write" /\ request[p] \in Request /\ request[p].op = "setOverride"
        /\ Goes(p, "audit")
        /\ override' = [override EXCEPT ![<<c, t>>] = row]
        /\ barred' = [x \in Procs |-> barred[x] /\ Needs(request[x].op)
                        \in override'[request[x].channel, request[x].user].deny]
        /\ UNCHANGED <<space, member, orgMembers, role, assigned, channel, audit, events,
                       request, read, sockets, begun, seen>>
    BY TaskFacts DEF SetOverride
  <1>1. \A o \in Procs :
          barred'[o] = (barred[o] /\ Needs(request[o].op)
                          \in override'[request[o].channel, request[o].user].deny)
    BY <1>0
  <1>2. Steady
    BY <1>0, <1>1, Watched, Zenon DEF Steady
  <1>3. row \in [allow : SUBSET Permissions, deny : SUBSET Permissions]
    BY <1>0 DEF Request
  <1>4. override' \in [Channels \X Targets ->
                         [allow : SUBSET Permissions, deny : SUBSET Permissions]]
    BY <1>0, <1>3 DEF IInv, TypeTables
  <1>5. TypeTables' /\ seen' \in [Procs -> BOOLEAN]
    BY <1>0, <1>4 DEF IInv, TypeTables, TypeTasks
  <1>6. barred' \in [Procs -> BOOLEAN]
    <2> DEFINE f(x) == barred[x] /\ Needs(request[x].op)
                         \in override'[request[x].channel, request[x].user].deny
    <2>1. barred' = [x \in Procs |-> f(x)] /\ \A x \in Procs : f(x) \in BOOLEAN
      BY <1>0
    <2> HIDE DEF f
    <2> QED
      BY <2>1
  <1>7. TablesGood'
    BY <1>0, ZenonT(60) DEF IInv, TablesGood, OwnerKept, ActiveRows, AssignedAreMembers, RolesMade,
                Deletions
  <1>8. ~Announces("audit", request[p])
    BY DEF Announces
  <1> QED
    BY <1>0, <1>2, <1>5, <1>6, <1>7, <1>8, WriteStages, Writes

\* A write to the channels that keeps every archived row.
LEMMA ChannelWrites ==
  ASSUME IInv, NEW p \in Procs, pc[p] = "write", Goes(p, "publish"),
         channel' \in [Channels -> Channel],
         \A c \in Channels : channel[c].state = "archived" =>
                               channel'[c].state = "archived",
         request[p].op = "deleteChannel" =>
           /\ channel[request[p].channel].state # "archived"
           /\ channel'[request[p].channel].state = "archived",
         UNCHANGED <<space, member, orgMembers, role, assigned, override, audit, events,
                     request, read, sockets, begun, seen, barred>>
  PROVE  IInv'
  <1>1. Steady
    BY Watched, Zenon DEF Steady
  <1>2. TypeTables' /\ seen' \in [Procs -> BOOLEAN] /\ barred' \in [Procs -> BOOLEAN]
    BY DEF IInv, TypeTables, TypeTasks
  <1>3. TablesGood'
    <2>1. OwnerKept' /\ ActiveRows' /\ AssignedAreMembers' /\ RolesMade'
      BY DEF IInv, TablesGood, OwnerKept, ActiveRows, AssignedAreMembers, RolesMade
    <2>2. Deletions'
      <3> SUFFICES ASSUME NEW i \in 1 .. Len(events), NEW j \in 1 .. Len(events),
                          events[i].type = "channel.deleted"
                   PROVE  /\ events[i].channel \in Channels
                          /\ channel'[events[i].channel].state = "archived"
                          /\ events[j].type = "channel.deleted"
                             /\ events[j].channel = events[i].channel => i = j
        BY DEF Deletions
      <3>1. /\ events[i].channel \in Channels
            /\ channel[events[i].channel].state = "archived"
            /\ events[j].type = "channel.deleted"
               /\ events[j].channel = events[i].channel => i = j
        BY DEF IInv, TablesGood, Deletions
      <3> QED
        BY <3>1
    <2> QED
      BY <2>1, <2>2 DEF TablesGood
  <1>4. Announces("publish", request[p]) =>
          /\ channel'[request[p].channel].state = "archived"
          /\ Unannounced(request[p].channel)
          /\ \A o \in Procs \ {p} : Announces(pc[o], request[o]) =>
                                      request[o].channel # request[p].channel
    <2> SUFFICES ASSUME request[p].op = "deleteChannel"
                 PROVE  /\ Unannounced(request[p].channel)
                        /\ \A o \in Procs : Announces(pc[o], request[o]) =>
                                              request[o].channel # request[p].channel
      BY DEF Announces
    <2>1. Unannounced(request[p].channel)
      BY DEF Unannounced, IInv, TablesGood, Deletions
    <2>2. ASSUME NEW o \in Procs, Announces(pc[o], request[o])
          PROVE  request[o].channel # request[p].channel
      BY <2>2, TaskFacts DEF Good
    <2> QED
      BY <2>1, <2>2
  <1> QED
    BY <1>1, <1>2, <1>3, <1>4, WriteStages, Writes

LEMMA CreateChannelInv == ASSUME IInv, NEW p \in Procs, CreateChannel(p) PROVE IInv'
  <1> DEFINE q == request[p]
             row == [state |-> "live", name |-> q.name,
                     privacy |-> IF q.privacy = "keep" THEN "public" ELSE q.privacy]
  <1>0. /\ pc[p] = "write" /\ q.op = "createChannel" /\ q \in Request
        /\ channel \in [Channels -> Channel] /\ q.channel \in Channels
    BY TaskFacts DEF CreateChannel, IInv, TypeTables
  <1>1. CASE channel[q.channel].state = "absent" /\ SlugFree(q.channel, q.name)
    <2>1. /\ channel' = [channel EXCEPT ![q.channel] = row]
          /\ Goes(p, "publish")
          /\ UNCHANGED <<space, member, orgMembers, role, assigned, override, audit,
                         events, request, read, sockets, begun, seen, barred>>
      BY <1>1 DEF CreateChannel, history
    <2>2. row \in Channel
      BY <1>0 DEF Channel, Request
    <2> HIDE DEF row
    <2>3. channel' \in [Channels -> Channel]
      BY <1>0, <2>1, <2>2
    <2>4. \A c \in Channels : channel[c].state = "archived" =>
                                channel'[c].state = "archived"
      BY <1>0, <1>1, <2>1
    <2> QED
      BY <1>0, <2>1, <2>3, <2>4, ChannelWrites
  <1>2. CASE ~(channel[q.channel].state = "absent" /\ SlugFree(q.channel, q.name))
    BY <1>2, Refused DEF CreateChannel
  <1> QED
    BY <1>1, <1>2

LEMMA UpdateChannelInv == ASSUME IInv, NEW p \in Procs, UpdateChannel(p) PROVE IInv'
  <1> DEFINE c == request[p].channel
             row == Patched(read[p].row, request[p])
  <1>0. /\ pc[p] = "write" /\ request[p].op = "updateChannel" /\ request[p] \in Request
        /\ read[p] \in Reading /\ channel \in [Channels -> Channel] /\ c \in Channels
    BY TaskFacts DEF UpdateChannel, IInv, TypeTables
  <1>1. CASE Writable(channel[c]) /\ SlugFree(c, row.name)
    <2>1. /\ channel' = [channel EXCEPT ![c].name = row.name, ![c].privacy = row.privacy]
          /\ Goes(p, "publish")
          /\ UNCHANGED <<space, member, orgMembers, role, assigned, override, audit,
                         events, request, read, sockets, begun, seen, barred>>
      BY <1>1 DEF UpdateChannel, history
    <2>2. row.name \in Names \cup {NoName} /\ row.privacy \in {"public", "private"}
      <3>1. read[p].row \in Channel /\ request[p].name \in Names \cup {NoName}
            /\ request[p].privacy \in {"public", "private", "keep"}
        BY <1>0 DEF Reading, Request
      <3> QED
        BY <3>1 DEF Patched, Channel
    <2> HIDE DEF row
    <2>3. channel' \in [Channels -> Channel]
      BY <1>0, <2>1, <2>2 DEF Channel
    <2>4. \A x \in Channels : channel[x].state = "archived" =>
                                channel'[x].state = "archived"
      BY <1>0, <1>1, <2>1 DEF Writable
    <2> QED
      BY <1>0, <2>1, <2>3, <2>4, ChannelWrites
  <1>2. CASE ~(Writable(channel[c]) /\ SlugFree(c, row.name))
    BY <1>2, Refused DEF UpdateChannel
  <1> QED
    BY <1>1, <1>2

LEMMA ArchiveChannelInv == ASSUME IInv, NEW p \in Procs, ArchiveChannel(p) PROVE IInv'
  <1> DEFINE c == request[p].channel
  <1>0. /\ pc[p] = "write" /\ request[p].op = "deleteChannel"
        /\ channel \in [Channels -> Channel] /\ c \in Channels
    BY TaskFacts DEF ArchiveChannel, IInv, TypeTables
  <1>1. CASE Writable(channel[c])
    <2>1. /\ channel' = [channel EXCEPT ![c].state = "archived"]
          /\ Goes(p, "publish")
          /\ UNCHANGED <<space, member, orgMembers, role, assigned, override, audit,
                         events, request, read, sockets, begun, seen, barred>>
      BY <1>1 DEF ArchiveChannel, history
    <2>2. channel' \in [Channels -> Channel]
      BY <1>0, <2>1 DEF Channel
    <2>3. /\ channel[c].state # "archived" /\ channel'[c].state = "archived"
          /\ \A x \in Channels : channel[x].state = "archived" =>
                                   channel'[x].state = "archived"
      BY <1>0, <1>1, <2>1 DEF Writable, Channel
    <2> QED
      BY <1>0, <2>1, <2>2, <2>3, ChannelWrites
  <1>2. CASE ~Writable(channel[c])
    BY <1>2, Refused DEF ArchiveChannel
  <1> QED
    BY <1>1, <1>2

\* A write to the row of the space that does not bring it back.
LEMMA SpaceWrites ==
  ASSUME IInv, NEW p \in Procs, pc[p] = "write", Goes(p, "publish"),
         request[p].op # "deleteChannel",
         space' \in [archived : BOOLEAN, name : Names],
         space.archived => space'.archived,
         UNCHANGED <<member, orgMembers, role, assigned, override, channel, audit, events,
                     request, read, sockets, begun, seen, barred>>
  PROVE  IInv'
  <1>1. Steady
    BY Watched, Zenon DEF Steady
  <1>2. TypeTables' /\ seen' \in [Procs -> BOOLEAN] /\ barred' \in [Procs -> BOOLEAN]
    BY DEF IInv, TypeTables, TypeTasks
  <1>3. TablesGood'
    BY DEF IInv, TablesGood, OwnerKept, ActiveRows, AssignedAreMembers, RolesMade,
           Deletions
  <1>4. ~Announces("publish", request[p])
    BY DEF Announces
  <1> QED
    BY <1>1, <1>2, <1>3, <1>4, WriteStages, Writes

LEMMA UpdateSpaceInv == ASSUME IInv, NEW p \in Procs, UpdateSpace(p) PROVE IInv'
  <1> DEFINE name == IF request[p].name = NoName THEN read[p].name ELSE request[p].name
  <1>0. /\ pc[p] = "write" /\ request[p].op = "updateSpace" /\ request[p] \in Request
        /\ Checked(pc[p], request[p], read[p], seen[p], barred[p])
        /\ space \in [archived : BOOLEAN, name : Names]
    BY TaskFacts DEF UpdateSpace, IInv, TypeTables, Good
  <1>1. read[p].name \in Names
    BY <1>0, WriteStages DEF Checked, Unsure
  <1>2. name \in Names
    BY <1>0, <1>1 DEF Request
  <1>3. CASE ~space.archived
    <2>1. /\ space' = [space EXCEPT !.name = name]
          /\ Goes(p, "publish")
          /\ UNCHANGED <<member, orgMembers, role, assigned, override, channel, audit,
                         events, request, read, sockets, begun, seen, barred>>
      BY <1>3 DEF UpdateSpace, history
    <2> HIDE DEF name
    <2>2. space' \in [archived : BOOLEAN, name : Names]
      BY <1>0, <1>2, <2>1
    <2> QED
      BY <1>0, <1>3, <2>1, <2>2, SpaceWrites
  <1>4. CASE space.archived
    BY <1>4, Refused DEF UpdateSpace
  <1> QED
    BY <1>3, <1>4

LEMMA ArchiveSpaceInv == ASSUME IInv, NEW p \in Procs, ArchiveSpace(p) PROVE IInv'
  <1>0. /\ pc[p] = "write" /\ request[p].op = "deleteSpace"
        /\ space \in [archived : BOOLEAN, name : Names]
    BY DEF ArchiveSpace, IInv, TypeTables
  <1>1. CASE ~space.archived
    <2>1. /\ space' = [space EXCEPT !.archived = TRUE]
          /\ Goes(p, "publish")
          /\ UNCHANGED <<member, orgMembers, role, assigned, override, channel, audit,
                         events, request, read, sockets, begun, seen, barred>>
      BY <1>1 DEF ArchiveSpace, history
    <2>2. space' \in [archived : BOOLEAN, name : Names]
      BY <1>0, <2>1
    <2> QED
      BY <1>0, <1>1, <2>1, <2>2, SpaceWrites
  <1>2. CASE space.archived
    BY <1>2, Refused DEF ArchiveSpace
  <1> QED
    BY <1>1, <1>2

(***************************************************************************)
(* The audit row and the event.                                            *)
(***************************************************************************)
LEMMA AuditInv == ASSUME IInv, NEW p \in Procs, Audit(p) PROVE IInv'
  <1>0. /\ pc[p] = "audit" /\ Shape(pc[p], request[p]) /\ request[p] \in Request
        /\ audit' = audit \cup {request[p]}
        /\ UNCHANGED <<space, member, orgMembers, role, assigned, override, channel, events,
                       sockets, begun, seen, barred>>
    BY TaskFacts DEF Audit, Good, history
  <1>1. TypeTables' /\ seen' \in [Procs -> BOOLEAN] /\ barred' \in [Procs -> BOOLEAN]
    BY <1>0 DEF IInv, TypeTables, TypeTasks
  <1>2. TablesGood'
    BY <1>0 DEF IInv, TablesGood, OwnerKept, ActiveRows, AssignedAreMembers, RolesMade,
                Deletions
  <1>3. Steady
    BY <1>0, Watched, Zenon DEF Steady
  <1>4. CASE Publishes(request[p])
    <2>1. Goes(p, "publish") /\ UNCHANGED <<request, read>>
      BY <1>4 DEF Audit
    <2>2. ~Announces("publish", request[p])
      BY <1>0 DEF Announces, Shape
    <2> QED
      BY <1>0, <1>1, <1>2, <1>3, <2>1, <2>2, WriteStages, Writes
  <1>5. CASE ~Publishes(request[p])
    <2>1. Ends(p)
      BY <1>5 DEF Audit
    <2> QED
      BY <1>0, <1>1, <1>2, <1>3, <2>1, Finishes
  <1> QED
    BY <1>4, <1>5

LEMMA TypesOfEvents ==
  ASSUME NEW op \in Ops
  PROVE  /\ EventType(op) \in EventTypes
         /\ EventType(op) = "channel.deleted" <=> op = "deleteChannel"
  <1>1. EventType(op) \in EventTypes
    BY DEF EventType, EventTypes
  <1>2. EventType(op) = "channel.deleted" <=> op = "deleteChannel"
    BY DEF EventType, Ops, SpaceOps, ChannelOps
  <1> QED
    BY <1>1, <1>2

LEMMA PublishInv == ASSUME IInv, NEW p \in Procs, Publish(p) PROVE IInv'
  <1> DEFINE q == request[p]
             e == EventOf(q, read[p].members)
  <1>0. /\ pc[p] = "publish" /\ q \in Request /\ read[p] \in Reading
        /\ events' = Append(events, e)
        /\ Ends(p)
        /\ UNCHANGED <<space, member, orgMembers, role, assigned, override, channel, audit,
                       sockets, begun, seen, barred>>
    BY TaskFacts DEF Publish, tables, history
  <1>1. q.op \in Ops /\ q.channel \in Channels
    BY TaskFacts
  <1>2. e \in Event /\ e.type = EventType(q.op)
    BY <1>0, <1>1, TypesOfEvents DEF EventOf, Event, Reading
  <1>3. q.op = "deleteChannel" => e.channel = q.channel
    BY DEF EventOf, ChannelOps
  <1>4. e.type = "channel.deleted" <=> q.op = "deleteChannel"
    BY <1>1, <1>2, TypesOfEvents
  <1>5. events \in Seq(Event)
    BY DEF IInv, TypeTables
  <1> HIDE DEF e
  <1>6. /\ events' \in Seq(Event) /\ Len(events') = Len(events) + 1 /\ Len(events) \in Nat
        /\ \A i \in 1 .. Len(events) : events'[i] = events[i]
        /\ events'[Len(events) + 1] = e
    BY <1>0, <1>2, <1>5
  <1>7. TypeTables'
    BY <1>0, <1>6 DEF IInv, TypeTables
  <1>8. q.op = "deleteChannel" =>
          channel[q.channel].state = "archived" /\ Unannounced(q.channel)
    BY <1>0, TaskFacts DEF Good, Announces
  <1>9. Deletions'
    <2> SUFFICES ASSUME NEW i \in 1 .. Len(events'), NEW j \in 1 .. Len(events'),
                        events'[i].type = "channel.deleted"
                 PROVE  /\ events'[i].channel \in Channels
                        /\ channel[events'[i].channel].state = "archived"
                        /\ events'[j].type = "channel.deleted"
                           /\ events'[j].channel = events'[i].channel => i = j
      BY <1>0 DEF Deletions
    <2>0. /\ i \in 1 .. Len(events) \/ i = Len(events) + 1
          /\ j \in 1 .. Len(events) \/ j = Len(events) + 1
      BY <1>6
    <2>1. CASE i \in 1 .. Len(events) /\ j \in 1 .. Len(events)
      BY <1>6, <2>1 DEF IInv, TablesGood, Deletions
    <2>2. CASE i \in 1 .. Len(events) /\ j = Len(events) + 1
      <3>1. events'[i] = events[i] /\ events'[j] = e
        BY <1>6, <2>2
      <3>2. events[i].channel \in Channels
            /\ channel[events[i].channel].state = "archived"
        BY <2>2, <3>1 DEF IInv, TablesGood, Deletions
      <3>3. ~(e.type = "channel.deleted" /\ e.channel = events[i].channel)
        BY <1>3, <1>4, <1>8, <2>2, <3>1 DEF Unannounced
      <3> QED
        BY <3>1, <3>2, <3>3
    <2>3. CASE i = Len(events) + 1 /\ j \in 1 .. Len(events)
      <3>1. events'[i] = e /\ events'[j] = events[j]
        BY <1>6, <2>3
      <3>2. q.op = "deleteChannel" /\ e.channel = q.channel
        BY <1>3, <1>4, <3>1
      <3>3. ~(events[j].type = "channel.deleted" /\ events[j].channel = e.channel)
        BY <1>8, <2>3, <3>2 DEF Unannounced
      <3> QED
        BY <1>1, <1>8, <3>1, <3>2, <3>3
    <2>4. CASE i = Len(events) + 1 /\ j = Len(events) + 1
      BY <1>1, <1>3, <1>4, <1>6, <1>8, <2>4
    <2> QED
      BY <2>0, <2>1, <2>2, <2>3, <2>4
  <1>10. TablesGood'
    BY <1>0, <1>9 DEF IInv, TablesGood, OwnerKept, ActiveRows, AssignedAreMembers,
                      RolesMade
  <1>11. TypeTasks' /\ TypeSides'
    BY <1>0, Blanks DEF IInv, TypeTasks, TypeSides, sockets, Ends, Goes, Stages
  <1>12. /\ pc'[p] = "idle" /\ request'[p] = NoRequest /\ read'[p] = Nothing
         /\ \A o \in Procs : o # p =>
              pc'[o] = pc[o] /\ request'[o] = request[o] /\ read'[o] = read[o]
    BY <1>0 DEF IInv, TypeTasks, Ends, Goes
  <1>13. TasksGood'
    <2> SUFFICES ASSUME NEW o \in Procs
                 PROVE  Good(pc[o], request[o], read[o], seen[o], barred[o])'
      BY DEF TasksGood
    <2>1. CASE o = p
      BY <1>12, <2>1, IdleNext
    <2>2. CASE o # p
      <3>1. Good(pc[o], request[o], read[o], seen[o], barred[o])
        BY TaskFacts
      <3>2. /\ pc'[o] = pc[o] /\ request'[o] = request[o] /\ read'[o] = read[o]
            /\ seen' = seen /\ barred' = barred
        BY <1>0, <1>12, <2>2
      <3>3. Shape(pc[o], request[o])' /\ Assigning(pc[o], request[o])'
        BY <1>0, <3>1, <3>2 DEF Good, Shape, Assigning
      <3>4. Checked(pc[o], request[o], read[o], seen[o], barred[o])'
            /\ Witnessed(pc[o], request[o], seen[o])'
        BY <1>0, <3>1, <3>2, Zenon DEF Good, Checked, Witnessed
      <3>5. Announces(pc[o], request[o])' =>
              /\ channel'[request'[o].channel].state = "archived"
              /\ Unannounced(request[o].channel)'
        <4> SUFFICES ASSUME Announces(pc[o], request[o])
                     PROVE  /\ channel[request[o].channel].state = "archived"
                            /\ Unannounced(request[o].channel)'
          BY <1>0, <3>2 DEF Announces
        <4>1. /\ channel[request[o].channel].state = "archived"
              /\ Unannounced(request[o].channel)
          BY <3>1 DEF Good
        <4>2. ~(e.type = "channel.deleted" /\ e.channel = request[o].channel)
          BY <1>0, <1>3, <1>4, <2>2 DEF IInv, OneAnnouncer, Announces
        <4>3. Unannounced(request[o].channel)'
          BY <1>6, <3>2, <4>1, <4>2 DEF Unannounced
        <4> QED
          BY <4>1, <4>3
      <3> QED
        BY <3>3, <3>4, <3>5 DEF Good
    <2> QED
      BY <2>1, <2>2
  <1>14. OneAnnouncer'
    BY <1>12 DEF IInv, OneAnnouncer, Announces
  <1> QED
    BY <1>7, <1>10, <1>11, <1>13, <1>14 DEF IInv

LEMMA NextInv == IInv /\ [Next]_vars => IInv'
  <1> SUFFICES ASSUME IInv, [Next]_vars PROVE IInv'
    OBVIOUS
  <1>1. ASSUME NEW p \in Procs, NEW q \in Menu, Begin(p, q) PROVE IInv'
    BY <1>1, BeginInv
  <1>2. ASSUME NEW p \in Procs, Abandon(p) \/ Answered(p) PROVE IInv'
    BY <1>2, AbandonInv, Refused DEF Answered
  <1>3. ASSUME NEW p \in Procs, Authorize(p) PROVE IInv'
    BY <1>3, ReadChannelInv, ReadSpaceInv, ReadRolesInv, ReadOverridesInv DEF Authorize
  <1>4. ASSUME NEW p \in Procs, Act(p) PROVE IInv'
    BY <1>4, JoinOrganizationInv, AddMemberInv, RereadMemberInv, ReadTargetInv,
       RemoveMemberInv, CreateRoleInv, ReadRoleInv, AssignRoleInv, SetOverrideInv,
       CreateChannelInv, UpdateChannelInv, ArchiveChannelInv, UpdateSpaceInv,
       ReadMembersInv, ArchiveSpaceInv, AuditInv, PublishInv
    DEF Act
  <1>5. ASSUME NEW s \in Sockets,
               Connect(s) \/ Close(s) \/ Lag(s) \/ TakeEvent(s) \/ Forward(s)
        PROVE  IInv'
    BY <1>5, ConnectInv, CloseInv, LagInv, TakeEventInv, ForwardInv DEF Procs
  <1>6. CASE UNCHANGED vars
    <2>1. UNCHANGED <<tables, events, tasks, sockets, begun, history>>
      BY <1>6 DEF vars
    <2>2. TypeSides'
      BY <2>1 DEF IInv, TypeSides, sockets
    <2> QED
      BY <2>1, <2>2, Unmoved
  <1> QED
    BY <1>1, <1>2, <1>3, <1>4, <1>5, <1>6 DEF Next

LEMMA Inductive == Spec => []IInv
  BY InitIInv, NextInv, PTL DEF Spec

(***************************************************************************)
(* The theorems.                                                           *)
(***************************************************************************)
\* Tables, requests in progress and sockets keep their types: in particular a
\* PATCH never writes a column it was not given, and names, levels and override
\* rows stay within their domains whatever the interleaving.
THEOREM TypeCorrect == Spec => []TypeOK
  <1>1. IInv => TypeOK
    BY TypeParts DEF IInv
  <1> QED
    BY <1>1, Inductive, PTL

\* The owner's membership survives every interleaving of add_member and
\* remove_member, and nobody else ever becomes owner or admin.
THEOREM OwnerStays == Spec => []OwnerKept
  <1>1. IInv => OwnerKept
    BY DEF IInv, TablesGood
  <1> QED
    BY <1>1, Inductive, PTL

\* The owner is never answered 403, whatever roles and overrides exist.
THEOREM OwnerIsNeverForbidden == Spec => []OwnerNeverForbidden
  <1>1. IInv => OwnerNeverForbidden
    BY TaskFacts DEF OwnerNeverForbidden, Good, Shape
  <1> QED
    BY <1>1, Inductive, PTL

\* Every request that passed its check had an active member of the live space
\* as its caller at some moment of that request.
THEOREM OnlyMembersPass == Spec => []MembersOnly
  <1>1. IInv => MembersOnly
    <2> SUFFICES ASSUME IInv, NEW p \in Procs, Entitled(p) PROVE seen[p]
      BY DEF MembersOnly
    <2> QED
      BY TaskFacts DEF Good, Checked, Entitled, Early, Rest
  <1> QED
    BY <1>1, Inductive, PTL

\* A member's own deny that stood for the whole of a request is never got past,
\* though level, roles and overrides are read by separate statements.
THEOREM MemberDenyHolds == Spec => []MemberDenyWins
  <1>1. IInv => MemberDenyWins
    <2> SUFFICES ASSUME IInv, NEW p \in Procs, Entitled(p),
                        request[p].op \in ChannelOps, request[p].user # Owner
                 PROVE  ~barred[p]
      BY DEF MemberDenyWins
    <2>1. pc[p] \notin Unsure
      BY DEF Entitled, Unsure, Early, Rest
    <2> QED
      BY <2>1, TaskFacts DEF Good, Checked
  <1> QED
    BY <1>1, Inductive, PTL

\* Roles are held only by users with a membership row.
THEOREM RolesOfMembers == Spec => []AssignedAreMembers
  <1>1. IInv => AssignedAreMembers
    BY DEF IInv, TablesGood
  <1> QED
    BY <1>1, Inductive, PTL

\* A channel is announced deleted at most once, and only when it is archived.
THEOREM AnnouncedOnce == Spec => []DeletedOnce
  <1>1. IInv => DeletedOnce
    BY DEF IInv, TablesGood, Deletions, DeletedOnce
  <1> QED
    BY <1>1, Inductive, PTL

\* Only five steps write the rows of the space and of its channels.
LEMMA OtherRows ==
  ASSUME NEW p, Abandon(p) \/ Answered(p) \/ Authorize(p) \/ Act(p),
         ~CreateChannel(p), ~UpdateChannel(p), ~ArchiveChannel(p), ~UpdateSpace(p),
         ~ArchiveSpace(p)
  PROVE  space' = space /\ channel' = channel
  <1>1. Refuses(p) => space' = space /\ channel' = channel
    BY DEF Refuses, tables
  <1>2. CASE Abandon(p) \/ Answered(p)
    BY <1>1, <1>2 DEF Abandon, Answered, tables
  <1>3. CASE Authorize(p)
    BY <1>1, <1>3 DEF Authorize, ReadChannel, ReadSpace, ReadRoles, ReadOverrides, tables
  <1>4. CASE JoinOrganization(p) \/ AddMember(p) \/ RereadMember(p) \/ ReadTarget(p)
               \/ RemoveMember(p)
    BY <1>1, <1>4
    DEF JoinOrganization, AddMember, RereadMember, ReadTarget, RemoveMember, tables
  <1>5. CASE CreateRole(p) \/ ReadRole(p) \/ AssignRole(p) \/ SetOverride(p)
    BY <1>1, <1>5 DEF CreateRole, ReadRole, AssignRole, SetOverride, tables
  <1>6. CASE ReadMembers(p) \/ Audit(p) \/ Publish(p)
    BY <1>6 DEF ReadMembers, Audit, Publish, tables
  <1> QED
    BY <1>2, <1>3, <1>4, <1>5, <1>6 DEF Act

\* An archived channel, or an archived space, is never written again by any
\* interleaving of PATCH and DELETE requests.
THEOREM ArchivedStaysFrozen == Spec => ArchivedFrozen
  <1> DEFINE Frozen == /\ space.archived => space' = space
                       /\ \A c \in Channels : channel[c].state = "archived" =>
                                                channel'[c] = channel[c]
  <1>1. ASSUME IInv, [Next]_vars PROVE Frozen
    <2>0. channel \in [Channels -> Channel]
      BY <1>1 DEF IInv, TypeTables
    <2>1. space' = space /\ channel' = channel => Frozen
      OBVIOUS
    <2>2. ASSUME NEW p \in Procs, CreateChannel(p) \/ UpdateChannel(p) \/ ArchiveChannel(p)
          PROVE  Frozen
      <3>1. Refuses(p) => space' = space /\ channel' = channel
        BY DEF Refuses, tables
      <3>2. CASE CreateChannel(p)
        BY <2>0, <2>1, <3>1, <3>2 DEF CreateChannel
      <3>3. CASE UpdateChannel(p)
        BY <2>0, <2>1, <3>1, <3>3 DEF UpdateChannel, Writable
      <3>4. CASE ArchiveChannel(p)
        BY <2>0, <2>1, <3>1, <3>4 DEF ArchiveChannel, Writable
      <3> QED
        BY <2>2, <3>2, <3>3, <3>4
    <2>3. ASSUME NEW p \in Procs, UpdateSpace(p) \/ ArchiveSpace(p)
          PROVE  Frozen
      <3>1. Refuses(p) => space' = space /\ channel' = channel
        BY DEF Refuses, tables
      <3> QED
        BY <2>1, <2>3, <3>1 DEF UpdateSpace, ArchiveSpace
    <2>4. ASSUME NEW p \in Procs, Abandon(p) \/ Answered(p) \/ Authorize(p) \/ Act(p)
          PROVE  Frozen
      BY <2>1, <2>2, <2>3, <2>4, OtherRows
    <2>5. ASSUME NEW p \in Procs, NEW q \in Menu, Begin(p, q) PROVE Frozen
      BY <2>1, <2>5 DEF Begin, tables
    <2>6. ASSUME NEW s \in Sockets,
                 Connect(s) \/ Close(s) \/ Lag(s) \/ TakeEvent(s) \/ Forward(s)
          PROVE  Frozen
      BY <2>1, <2>6 DEF Connect, Close, Lag, TakeEvent, Forward, tables
    <2>7. CASE UNCHANGED vars
      BY <2>1, <2>7 DEF vars, tables
    <2> HIDE DEF Frozen
    <2> QED
      BY <1>1, <2>4, <2>5, <2>6, <2>7 DEF Next
  <1> QED
    BY <1>1, Inductive, PTL DEF Spec, ArchivedFrozen

\* Whatever the tables, can_in_channel's two rounds of overrides over the level
\* and the assigned roles decide exactly by the documented precedence, as long
\* as what was read earlier still holds.
THEOREM PrecedenceDecides == Spec => DecidesByPrecedence
  <1>1. ASSUME IInv
        PROVE  \A p \in Procs : ReadOverrides(p) /\ Fresh(p) =>
                 (Entitled(p)' <=> MayUse(request[p].user, request[p].channel,
                                          Needs(request[p].op)))
    <2> SUFFICES ASSUME NEW p \in Procs, ReadOverrides(p), Fresh(p)
                 PROVE  Entitled(p)' <=> MayUse(request[p].user, request[p].channel,
                                                Needs(request[p].op))
      OBVIOUS
    <2> DEFINE u == request[p].user
               c == request[p].channel
               x == Needs(request[p].op)
               e == Effective(read[p].base, c, u, read[p].roles)
    <2>1. /\ pc[p] = "overrides" /\ request[p].op \in Ops /\ u \in Users
          /\ Good("overrides", request[p], read[p], seen[p], barred[p])
      BY <1>1, TaskFacts DEF ReadOverrides
    <2>2. x \in Permissions
      BY <2>1 DEF Needs, Permissions, Ops, SpaceOps, ChannelOps
    <2>3. u # Owner /\ ~IsAdmin(member[u].level)
      BY <1>1, <2>1 DEF Good, Shape, IInv, TablesGood, OwnerKept
    <2>4. x \in read[p].base <=> \/ x \in Builtin(member[u].level)
                                 \/ \E r \in assigned[u] : x \in role[r].grants
      BY <2>1, <2>2 DEF Good, Checked, Fresh
    <2>5. read[p].roles = assigned[u]
      BY DEF Fresh
    <2>6. Entitled(p)' <=> x \in e
      <3>1. pc'[p] = IF x \in e THEN FirstStage(request[p].op) ELSE "forbidden"
        BY <1>1 DEF ReadOverrides, Decide, Goes, IInv, TypeTasks
      <3> HIDE DEF x, e
      <3> QED
        BY <2>1, <3>1, FirstStages DEF Entitled
    <2>7. x \in e <=>
            /\ x \notin override[c, u].deny
            /\ \/ x \in override[c, u].allow
               \/ /\ \A r \in assigned[u] : x \notin override[c, r].deny
                  /\ \/ \E r \in assigned[u] : x \in override[c, r].allow
                     \/ x \in read[p].base
      <3>1. x \in Effective(read[p].base, c, u, assigned[u]) <=>
              /\ x \notin override[c, u].deny
              /\ \/ x \in override[c, u].allow
                 \/ /\ \A r \in assigned[u] : x \notin override[c, r].deny
                    /\ \/ \E r \in assigned[u] : x \in override[c, r].allow
                       \/ x \in read[p].base
        <4> HIDE DEF x, c, u
        <4> QED
          BY EffectiveFacts
      <3> QED
        BY <2>5, <3>1
    <2> HIDE DEF x, c, u, e
    <2> QED
      BY <2>3, <2>4, <2>6, <2>7 DEF MayUse, u, c, x
  <1> QED
    BY <1>1, Inductive, PTL DEF Spec, DecidesByPrecedence

(***************************************************************************)
(* What the owner's websocket hears.  A socket that looks an event up is   *)
(* refused when the channel's row is not live, so the invariant says that  *)
(* nothing is announced of a channel that was never there, and follows an  *)
(* event from the hub to the socket that holds it back.                    *)
(***************************************************************************)
\* Stages at which the request's channel has been found, or made.
Past(stage, q) ==
  \/ q.op \in ChannelOps /\ stage \notin Rest \cup {"channel"}
  \/ q.op = "createChannel" /\ stage \in {"audit", "publish"}

There(c) == channel[c].state # "absent"
Over(c)  == space.archived \/ channel[c].state = "archived"

KnownChannels == \A p \in Procs : Past(pc[p], request[p]) => There(request[p].channel)

EventChannels ==
  \A i \in 1 .. Len(events) : events[i].channel # NoChannel => There(events[i].channel)

Receiving(stage, q) == stage \notin Rest /\ q.op = "receive"

Receivers ==
  \A s \in Sockets : Receiving(pc[s], request[s]) =>
    /\ request[s].user = SocketUser[s]
    /\ cursor[s] \in 1 .. Len(events)
    /\ request[s].channel = events[cursor[s]].channel

OnlySockets == \A p \in Procs : Receiving(pc[p], request[p]) => p \in Sockets

HeldBack ==
  \A s \in Sockets : \A i \in dropped[s] :
    /\ i \in 1 .. Len(events)
    /\ events[i].channel \in Channels
    /\ SocketUser[s] = Owner => Over(events[i].channel)

HearInv == KnownChannels /\ EventChannels /\ Receivers /\ OnlySockets /\ HeldBack

\* Rows are made and archived, never unmade.
RowsAge ==
  /\ space.archived => space'.archived
  /\ \A c \in Channels :
       /\ channel[c].state # "absent" => channel'[c].state # "absent"
       /\ channel[c].state = "archived" => channel'[c].state = "archived"

\* Steps of one process that touch neither the hub nor a socket.
LEMMA HearStep ==
  ASSUME IInv, HearInv, RowsAge, NEW p \in Procs, NEW stage, NEW q \in Request,
         pc' = [pc EXCEPT ![p] = stage], request' = [request EXCEPT ![p] = q],
         UNCHANGED <<events, sockets>>,
         Past(stage, q) => channel'[q.channel].state # "absent",
         Receiving(stage, q) => q = request[p] /\ Receiving(pc[p], q)
  PROVE  HearInv'
  <1>0. TypeTables /\ TypeTasks /\ TypeSides
    BY DEF IInv
  <1>1. \A o \in Procs : /\ pc'[o] = IF o = p THEN stage ELSE pc[o]
                         /\ request'[o] = IF o = p THEN q ELSE request[o]
                         /\ request[o].channel \in Channels
    BY <1>0 DEF TypeTasks, Request
  <1>2. /\ events' = events /\ cursor' = cursor /\ dropped' = dropped
        /\ events \in Seq(Event)
    BY <1>0 DEF sockets, TypeTables
  <1>3. KnownChannels'
    <2> SUFFICES ASSUME NEW o \in Procs, Past(pc'[o], request'[o])
                 PROVE  channel'[request'[o].channel].state # "absent"
      BY DEF KnownChannels, Past, There
    <2>1. CASE o = p
      <3>1. pc'[o] = stage /\ request'[o] = q
        BY <1>1, <2>1
      <3> QED
        BY <3>1
    <2>2. CASE o # p
      <3>1. pc'[o] = pc[o] /\ request'[o] = request[o] /\ request[o].channel \in Channels
        BY <1>1, <2>2
      <3> QED
        BY <3>1 DEF HearInv, KnownChannels, There, RowsAge
    <2> QED
      BY <2>1, <2>2
  <1>4. \A i \in 1 .. Len(events) : events[i].channel \in Channels \cup {NoChannel}
    <2>1. \A i \in 1 .. Len(events) : events[i] \in Event
      BY <1>2
    <2> QED
      BY <2>1 DEF Event
  <1>5. EventChannels'
    BY <1>2, <1>4 DEF HearInv, EventChannels, There, RowsAge
  <1>6. \A s \in Sockets : s \in Procs
    BY DEF Procs
  <1>7. Receivers'
    BY <1>1, <1>2, <1>6 DEF HearInv, Receivers
  <1>8. HeldBack'
    BY <1>2 DEF HearInv, HeldBack, Over, RowsAge
  <1>9. OnlySockets'
    BY <1>1 DEF HearInv, OnlySockets, Receiving
  <1> QED
    BY <1>3, <1>5, <1>7, <1>8, <1>9 DEF HearInv

\* A request goes on from a stage to the next.
LEMMA HearMoves ==
  ASSUME IInv, HearInv, RowsAge, NEW p \in Procs, NEW stage,
         pc' = [pc EXCEPT ![p] = stage], request' = request,
         UNCHANGED <<events, sockets>>, pc[p] \notin Rest,
         pc[p] = "channel" => channel[request[p].channel].state = "live",
         request[p].op = "createChannel" /\ stage \in {"audit", "publish"} =>
           pc[p] = "audit" \/ channel'[request[p].channel].state # "absent"
  PROVE  HearInv'
  <1>1. /\ request[p] \in Request /\ request[p].channel \in Channels
        /\ request' = [request EXCEPT ![p] = request[p]]
    BY DEF IInv, TypeTasks, Request
  <1>2. Past(stage, request[p]) => channel'[request[p].channel].state # "absent"
    <2>1. CASE request[p].op \in ChannelOps
      BY <1>1, <2>1 DEF HearInv, KnownChannels, Past, There, RowsAge
    <2>2. CASE request[p].op \notin ChannelOps
      BY <1>1, <2>2 DEF HearInv, KnownChannels, Past, There, RowsAge
    <2> QED
      BY <2>1, <2>2
  <1>3. Receiving(stage, request[p]) => Receiving(pc[p], request[p])
    BY DEF Receiving
  <1> QED
    BY <1>1, <1>2, <1>3, HearStep

\* A process ends what it was at.
LEMMA HearRests ==
  ASSUME IInv, HearInv, RowsAge, NEW p \in Procs, NEW stage \in Rest,
         pc' = [pc EXCEPT ![p] = stage], request' = [request EXCEPT ![p] = NoRequest],
         UNCHANGED <<events, sockets>>
  PROVE  HearInv'
  <1>1. ~Past(stage, NoRequest) /\ ~Receiving(stage, NoRequest)
    BY DEF Past, Receiving, NoRequest
  <1> QED
    BY <1>1, Blanks, HearStep

\* A refusal: what the owner's socket holds back is over.
LEMMA HearRefuses ==
  ASSUME IInv, HearInv, NEW p \in Procs, Refuses(p), pc[p] \notin Rest,
         request[p].op = "receive" /\ request[p].user = Owner => Over(request[p].channel)
  PROVE  HearInv'
  <1>0. /\ TypeTables /\ TypeTasks /\ TypeSides
        /\ request[p].channel \in Channels
    BY DEF IInv, TypeTasks, Request
  <1>1. /\ pc' = [pc EXCEPT ![p] = "idle"] /\ request' = [request EXCEPT ![p] = NoRequest]
        /\ space' = space /\ channel' = channel /\ events' = events /\ "idle" \in Rest
    BY DEF Refuses, Ends, Goes, tables, Rest
  <1>2. RowsAge
    BY <1>1 DEF RowsAge
  <1>3. CASE request[p].op # "receive" \/ p \notin Sockets
    <2>1. UNCHANGED <<events, sockets>>
      <3>1. CASE request[p].op # "receive"
        BY <1>1, <3>1 DEF Refuses, HoldsBack
      <3>2. CASE request[p].op = "receive" /\ p \notin Sockets
        <4>1. dropped' = [dropped EXCEPT ![p] = dropped[p] \cup {cursor[p]}]
              /\ cursor' = cursor /\ sent' = sent
          BY <3>2 DEF Refuses, HoldsBack
        <4>2. dropped' = dropped
          BY <1>0, <3>2, <4>1 DEF TypeSides
        <4> QED
          BY <1>1, <4>1, <4>2 DEF sockets
      <3> QED
        BY <1>3, <3>1, <3>2
    <2> QED
      BY <1>1, <1>2, <2>1, HearRests
  <1>4. CASE request[p].op = "receive" /\ p \in Sockets
    <2>1. /\ dropped' = [dropped EXCEPT ![p] = dropped[p] \cup {cursor[p]}]
          /\ cursor' = cursor /\ sent' = sent
      BY <1>4 DEF Refuses, HoldsBack
    <2>2. \A o \in Procs : o # p => pc'[o] = pc[o] /\ request'[o] = request[o]
      BY <1>0, <1>1 DEF TypeTasks
    <2>3. pc'[p] = "idle"
      BY <1>0, <1>1 DEF TypeTasks
    <2>4. /\ request[p].user = SocketUser[p]
          /\ cursor[p] \in 1 .. Len(events)
          /\ request[p].channel = events[cursor[p]].channel
      BY <1>4 DEF HearInv, Receivers, Receiving
    <2>5. \A s \in Sockets : dropped'[s] = IF s = p THEN dropped[p] \cup {cursor[p]}
                                           ELSE dropped[s]
      BY <1>0, <2>1 DEF TypeSides
    <2>6. KnownChannels' /\ Receivers' /\ OnlySockets'
      <3>1. \A o \in Procs : Past(pc[o], request[o])' \/ Receiving(pc[o], request[o])' =>
              pc'[o] = pc[o] /\ request'[o] = request[o]
        BY <2>2, <2>3 DEF Past, Receiving, Rest
      <3>2. Sockets \subseteq Procs
        BY DEF Procs
      <3>3. KnownChannels'
        BY <1>1, <3>1 DEF HearInv, KnownChannels, There
      <3>4. Receivers'
        BY <1>1, <2>1, <3>1, <3>2 DEF HearInv, Receivers
      <3>5. OnlySockets'
        BY <3>1 DEF HearInv, OnlySockets
      <3> QED
        BY <3>3, <3>4, <3>5
    <2>7. EventChannels'
      BY <1>1 DEF HearInv, EventChannels, There
    <2>8. HeldBack'
      BY <1>0, <1>1, <1>4, <2>4, <2>5 DEF HearInv, HeldBack, Over
    <2> QED
      BY <2>6, <2>7, <2>8 DEF HearInv
  <1> QED
    BY <1>3, <1>4

\* The steps that authorize: only a row that is missing stops the owner.
LEMMA HearAuthorize ==
  ASSUME IInv, HearInv, RowsAge, NEW p \in Procs, Authorize(p) \/ Answered(p)
  PROVE  HearInv'
  <1>0. /\ Good(pc[p], request[p], read[p], seen[p], barred[p])
        /\ request[p].op \in Ops /\ request[p].channel \in Channels
        /\ channel \in [Channels -> Channel]
    BY TaskFacts DEF IInv, TypeTables
  <1>1. CASE ReadChannel(p)
    <2>0. pc[p] = "channel" /\ pc[p] \notin Rest
      BY <1>1 DEF ReadChannel, Rest
    <2>1. CASE channel[request[p].channel].state = "live"
      <3>1. /\ pc' = [pc EXCEPT ![p] = "space"] /\ request' = request
            /\ UNCHANGED <<events, sockets>>
        BY <1>1, <2>1 DEF ReadChannel, Goes
      <3> QED
        BY <2>0, <2>1, <3>1, HearMoves
    <2>2. CASE channel[request[p].channel].state # "live"
      <3>1. Refuses(p)
        BY <1>1, <2>2 DEF ReadChannel
      <3>2. ASSUME request[p].op = "receive", request[p].user = Owner
            PROVE  Over(request[p].channel)
        <4>1. p \in Sockets
          BY <2>0, <3>2 DEF HearInv, OnlySockets, Receiving
        <4>2. There(request[p].channel)
          <5>1. /\ cursor[p] \in 1 .. Len(events)
                /\ request[p].channel = events[cursor[p]].channel
            BY <2>0, <3>2, <4>1 DEF HearInv, Receivers, Receiving
          <5>2. request[p].channel # NoChannel
            BY <1>0, IdsAssumption
          <5> QED
            BY <5>1, <5>2 DEF HearInv, EventChannels
        <4> QED
          BY <1>0, <2>2, <4>2 DEF There, Over, Channel
      <3> QED
        BY <2>0, <3>1, <3>2, HearRefuses
    <2> QED
      BY <2>1, <2>2
  <1>2. CASE ReadSpace(p)
    <2>0. pc[p] = "space" /\ pc[p] \notin Rest
      BY <1>2 DEF ReadSpace, Rest
    <2>1. CASE Visible(request[p].user)
      <3>1. PICK stage : /\ pc' = [pc EXCEPT ![p] = stage] /\ request' = request
                         /\ UNCHANGED <<events, sockets>>
                         /\ stage = "roles" \/ stage = FirstStage(request[p].op)
        BY <1>2, <2>1 DEF ReadSpace, Decide, Goes
      <3>2. request[p].op = "createChannel" => stage \notin {"audit", "publish"}
        BY <1>0, <3>1, FirstStages
      <3> QED
        BY <2>0, <3>1, <3>2, HearMoves
    <2>2. CASE ~Visible(request[p].user)
      <3>1. Refuses(p)
        BY <1>2, <2>2 DEF ReadSpace
      <3>2. request[p].user = Owner => Over(request[p].channel)
        BY <2>2 DEF IInv, TablesGood, OwnerKept, Visible, Over
      <3> QED
        BY <2>0, <3>1, <3>2, HearRefuses
    <2> QED
      BY <2>1, <2>2
  <1>3. CASE ReadRoles(p) \/ ReadOverrides(p)
    <2>0. pc[p] \in {"roles", "overrides"} /\ pc[p] \notin Rest
      BY <1>3 DEF ReadRoles, ReadOverrides, Rest
    <2>1. PICK stage :
            /\ pc' = [pc EXCEPT ![p] = stage] /\ request' = request
            /\ UNCHANGED <<events, sockets>>
            /\ stage \in {"overrides", "forbidden"} \/ stage = FirstStage(request[p].op)
      BY <1>3 DEF ReadRoles, ReadOverrides, Decide, Goes
    <2>2. request[p].op = "createChannel" => stage \notin {"audit", "publish"}
      BY <1>0, <2>1, FirstStages
    <2> QED
      BY <2>0, <2>1, <2>2, HearMoves
  <1>4. CASE Answered(p)
    <2>1. pc[p] = "forbidden" /\ pc[p] \notin Rest /\ Refuses(p)
      BY <1>4 DEF Answered, Rest
    <2>2. request[p].user # Owner
      BY <1>0, <2>1 DEF Good, Shape
    <2> QED
      BY <2>1, <2>2, HearRefuses
  <1> QED
    BY <1>1, <1>2, <1>3, <1>4 DEF Authorize

\* The handlers' own statements, up to the event.
LEMMA HearAct ==
  ASSUME IInv, HearInv, RowsAge, NEW p \in Procs, Act(p), ~Publish(p)
  PROVE  HearInv'
  <1>0. /\ Good(pc[p], request[p], read[p], seen[p], barred[p])
        /\ request[p].op \in Ops /\ request[p].channel \in Channels
        /\ channel \in [Channels -> Channel]
    BY TaskFacts DEF IInv, TypeTables
  <1>1. ASSUME Refuses(p), pc[p] \notin Rest, request[p].op # "receive"
        PROVE  HearInv'
    BY <1>1, HearRefuses
  <1>2. ASSUME NEW stage, pc' = [pc EXCEPT ![p] = stage], request' = request,
               UNCHANGED <<events, sockets>>, pc[p] \notin Rest \cup {"channel"},
               request[p].op # "createChannel" \/ stage \notin {"audit", "publish"}
        PROVE  HearInv'
    BY <1>2, HearMoves
  <1>3. CASE JoinOrganization(p) \/ AddMember(p)
    <2>1. /\ pc[p] \in {"organization", "write"} /\ request[p].op = "addMember"
          /\ \E stage \in {"write", "reread"} : pc' = [pc EXCEPT ![p] = stage]
          /\ request' = request /\ UNCHANGED <<events, sockets>>
      BY <1>0, <1>3 DEF JoinOrganization, AddMember, Goes, Good, Shape
    <2>2. pc[p] \notin Rest \cup {"channel"}
      BY <2>1 DEF Rest
    <2> QED
      BY <1>2, <2>1, <2>2
  <1>4. CASE RereadMember(p) \/ ReadTarget(p) \/ RemoveMember(p)
    <2>1. /\ pc[p] \in {"reread", "target", "write"}
          /\ request[p].op \in {"addMember", "removeMember", "assignRole"}
      BY <1>0, <1>4 DEF RereadMember, ReadTarget, RemoveMember, Good, Shape
    <2>2. pc[p] \notin Rest \cup {"channel"}
      BY <2>1 DEF Rest
    <2>3. \/ Refuses(p)
          \/ /\ \E stage : pc' = [pc EXCEPT ![p] = stage]
             /\ request' = request /\ UNCHANGED <<events, sockets>>
      BY <1>4 DEF RereadMember, ReadTarget, RemoveMember, Goes
    <2> QED
      BY <1>1, <1>2, <2>1, <2>2, <2>3
  <1>5. CASE CreateRole(p) \/ ReadRole(p) \/ AssignRole(p) \/ SetOverride(p)
    <2>1. /\ pc[p] \in {"role", "write"}
          /\ request[p].op \in {"createRole", "assignRole", "setOverride"}
      BY <1>0, <1>5 DEF CreateRole, ReadRole, AssignRole, SetOverride, Good, Shape
    <2>2. pc[p] \notin Rest \cup {"channel"}
      BY <2>1 DEF Rest
    <2>3. \/ Refuses(p)
          \/ /\ \E stage : pc' = [pc EXCEPT ![p] = stage]
             /\ request' = request /\ UNCHANGED <<events, sockets>>
      BY <1>5 DEF CreateRole, ReadRole, AssignRole, SetOverride, Goes
    <2> QED
      BY <1>1, <1>2, <2>1, <2>2, <2>3
  <1>6. CASE CreateChannel(p)
    <2>1. pc[p] = "write" /\ request[p].op = "createChannel" /\ pc[p] \notin Rest
      BY <1>6 DEF CreateChannel, Rest
    <2>2. CASE Refuses(p)
      BY <1>1, <2>1, <2>2
    <2>3. CASE ~Refuses(p)
      <3>1. /\ pc' = [pc EXCEPT ![p] = "publish"] /\ request' = request
            /\ UNCHANGED <<events, sockets>>
            /\ channel'[request[p].channel].state = "live"
        BY <1>0, <1>6, <2>3 DEF CreateChannel, Goes
      <3> QED
        BY <2>1, <3>1, HearMoves
    <2> QED
      BY <2>2, <2>3
  <1>7. CASE UpdateChannel(p) \/ ArchiveChannel(p) \/ UpdateSpace(p) \/ ArchiveSpace(p)
    <2>1. /\ pc[p] = "write"
          /\ request[p].op \in {"updateChannel", "deleteChannel", "updateSpace", "deleteSpace"}
      BY <1>7 DEF UpdateChannel, ArchiveChannel, UpdateSpace, ArchiveSpace
    <2>2. pc[p] \notin Rest \cup {"channel"}
      BY <2>1 DEF Rest
    <2>3. \/ Refuses(p)
          \/ /\ \E stage : pc' = [pc EXCEPT ![p] = stage]
             /\ request' = request /\ UNCHANGED <<events, sockets>>
      BY <1>7 DEF UpdateChannel, ArchiveChannel, UpdateSpace, ArchiveSpace, Goes
    <2> QED
      BY <1>1, <1>2, <2>1, <2>2, <2>3
  <1>8. CASE ReadMembers(p)
    <2>1. /\ pc[p] = "members" /\ pc[p] \notin Rest \cup {"channel"}
          /\ pc' = [pc EXCEPT ![p] = "write"]
          /\ request' = request /\ UNCHANGED <<events, sockets>>
      BY <1>8 DEF ReadMembers, Goes, Rest
    <2> QED
      BY <1>2, <2>1
  <1>9. CASE Audit(p)
    <2>1. pc[p] = "audit" /\ pc[p] \notin Rest /\ UNCHANGED <<events, sockets>>
      BY <1>9 DEF Audit, Rest
    <2>2. CASE Publishes(request[p])
      <3>1. pc' = [pc EXCEPT ![p] = "publish"] /\ request' = request
        BY <1>9, <2>2 DEF Audit, Goes
      <3> QED
        BY <2>1, <3>1, HearMoves
    <2>3. CASE ~Publishes(request[p])
      <3>1. /\ pc' = [pc EXCEPT ![p] = "idle"] /\ "idle" \in Rest
            /\ request' = [request EXCEPT ![p] = NoRequest]
        BY <1>9, <2>3 DEF Audit, Ends, Goes, Rest
      <3> QED
        BY <2>1, <3>1, HearRests
    <2> QED
      BY <2>2, <2>3
  <1> QED
    BY <1>3, <1>4, <1>5, <1>6, <1>7, <1>8, <1>9 DEF Act

\* A published event is of a channel that was found or made.
LEMMA HearPublish ==
  ASSUME IInv, HearInv, NEW p \in Procs, Publish(p)
  PROVE  HearInv'
  <1> DEFINE e == EventOf(request[p], read[p].members)
  <1>0. /\ TypeTables /\ TypeTasks /\ TypeSides
        /\ request[p].op \in Ops /\ request[p].channel \in Channels
    BY TaskFacts DEF IInv
  <1>1. /\ pc[p] = "publish" /\ events' = Append(events, e)
        /\ pc' = [pc EXCEPT ![p] = "idle"] /\ request' = [request EXCEPT ![p] = NoRequest]
        /\ space' = space /\ channel' = channel
        /\ cursor' = cursor /\ dropped' = dropped
    BY DEF Publish, Ends, Goes, tables, sockets
  <1>2. /\ Len(events) \in Nat /\ Len(events') = Len(events) + 1
        /\ \A i \in 1 .. Len(events) : events'[i] = events[i]
        /\ events'[Len(events) + 1] = e
    BY <1>0, <1>1 DEF TypeTables
  <1>3. e.channel # NoChannel => There(e.channel)
    <2>1. e.channel = IF request[p].op \in ChannelOps \cup {"createChannel"}
                      THEN request[p].channel ELSE NoChannel
      BY DEF EventOf
    <2>2. request[p].op \in ChannelOps \cup {"createChannel"} => Past(pc[p], request[p])
      BY <1>1 DEF Past, Rest
    <2> QED
      BY <2>1, <2>2 DEF HearInv, KnownChannels
  <1> HIDE DEF e
  <1>4. \A o \in Procs : /\ pc'[o] = IF o = p THEN "idle" ELSE pc[o]
                         /\ o # p => request'[o] = request[o]
    BY <1>0, <1>1 DEF TypeTasks
  <1>5. \A o \in Procs : Past(pc[o], request[o])' \/ Receiving(pc[o], request[o])' =>
          pc'[o] = pc[o] /\ request'[o] = request[o]
    BY <1>4 DEF Past, Receiving, Rest
  <1>6. KnownChannels'
    BY <1>1, <1>5 DEF HearInv, KnownChannels, There
  <1>7. EventChannels'
    <2> SUFFICES ASSUME NEW i \in 1 .. Len(events'), events'[i].channel # NoChannel
                 PROVE  channel[events'[i].channel].state # "absent"
      BY <1>1 DEF EventChannels, There
    <2>1. CASE i = Len(events) + 1
      BY <1>2, <1>3, <2>1 DEF There
    <2>2. CASE i # Len(events) + 1
      <3>1. i \in 1 .. Len(events) /\ events'[i] = events[i]
        BY <1>2, <2>2
      <3> QED
        BY <3>1 DEF HearInv, EventChannels, There
    <2> QED
      BY <2>1, <2>2
  <1>8. \A i \in 1 .. Len(events) : i \in 1 .. Len(events') /\ events'[i] = events[i]
    BY <1>2
  <1>9. Receivers'
    <2>1. Sockets \subseteq Procs
      BY DEF Procs
    <2> QED
      BY <1>1, <1>5, <1>8, <2>1 DEF HearInv, Receivers
  <1>10. OnlySockets'
    BY <1>5 DEF HearInv, OnlySockets
  <1>11. HeldBack'
    BY <1>1, <1>8 DEF HearInv, HeldBack, Over
  <1> QED
    BY <1>6, <1>7, <1>9, <1>10, <1>11 DEF HearInv

\* A client's frame or request is not an event to receive.
LEMMA HearBegin ==
  ASSUME IInv, HearInv, NEW p \in Procs, NEW q \in Menu, Begin(p, q)
  PROVE  HearInv'
  <1> DEFINE stage == IF q.op \in ChannelOps THEN "channel" ELSE "space"
  <1>1. /\ pc' = [pc EXCEPT ![p] = stage] /\ request' = [request EXCEPT ![p] = q]
        /\ space' = space /\ channel' = channel /\ UNCHANGED <<events, sockets>>
    BY DEF Begin, Accepts, Goes, tables
  <1>2. q \in Request /\ q.op # "receive"
    BY MenuAssumption
  <1>3. RowsAge
    BY <1>1 DEF RowsAge
  <1>4. ~Past(stage, q) /\ ~Receiving(stage, q)
    BY <1>2 DEF Past, Receiving
  <1> HIDE DEF stage
  <1> QED
    BY <1>1, <1>2, <1>3, <1>4, HearStep

\* A socket takes an event up to look at it, or forwards it unseen.
LEMMA HearTake ==
  ASSUME IInv, HearInv, NEW s \in Sockets, TakeEvent(s)
  PROVE  HearInv'
  <1> DEFINE e == events[cursor[s] + 1]
             q == [NoRequest EXCEPT !.user = SocketUser[s], !.channel = e.channel]
  <1>0. TypeTables /\ TypeTasks /\ TypeSides /\ s \in Procs /\ Sockets \subseteq Procs
    BY DEF IInv, Procs
  <1>1. /\ cursor[s] \in Nat /\ cursor[s] < Len(events) /\ events \in Seq(Event)
        /\ pc[s] = "idle"
        /\ cursor' = [cursor EXCEPT ![s] = cursor[s] + 1]
        /\ space' = space /\ channel' = channel /\ events' = events /\ dropped' = dropped
    BY <1>0 DEF TypeSides, TypeTables, TakeEvent, tables
  <1>2. cursor'[s] = cursor[s] + 1 /\ cursor'[s] \in 1 .. Len(events)
    BY <1>0, <1>1 DEF TypeSides
  <1>3. \A x \in Sockets : x # s => cursor'[x] = cursor[x]
    BY <1>0, <1>1 DEF TypeSides
  <1>4. EventChannels' /\ HeldBack'
    BY <1>1 DEF HearInv, EventChannels, HeldBack, There, Over
  <1>5. CASE e.channel = NoChannel
    <2>1. pc' = pc /\ request' = request
      BY <1>5 DEF TakeEvent, tasks
    <2>2. ~Receiving(pc[s], request[s])
      BY <1>1 DEF Receiving, Rest
    <2>3. KnownChannels' /\ OnlySockets'
      BY <1>1, <2>1 DEF HearInv, KnownChannels, OnlySockets, There
    <2>4. Receivers'
      BY <1>1, <1>3, <2>1, <2>2 DEF HearInv, Receivers
    <2> QED
      BY <1>4, <2>3, <2>4 DEF HearInv
  <1>6. CASE e.channel # NoChannel
    <2>1. Accepts(s, q)
      BY <1>6 DEF TakeEvent
    <2>2. q.op = "receive" /\ q.user = SocketUser[s] /\ q.channel = e.channel
      BY DEF NoRequest
    <2> HIDE DEF q, e
    <2>3. pc' = [pc EXCEPT ![s] = "channel"] /\ request' = [request EXCEPT ![s] = q]
      BY <2>1, <2>2 DEF Accepts, Goes, ChannelOps
    <2>4. /\ pc'[s] = "channel" /\ request'[s] = q
          /\ \A o \in Procs : o # s => pc'[o] = pc[o] /\ request'[o] = request[o]
      BY <1>0, <2>3 DEF TypeTasks
    <2>5. ~Past(pc'[s], request'[s])
      BY <2>2, <2>4 DEF Past, ChannelOps
    <2>6. KnownChannels'
      <3> SUFFICES ASSUME NEW o \in Procs, Past(pc'[o], request'[o])
                   PROVE  channel[request'[o].channel].state # "absent"
        BY <1>1 DEF KnownChannels, Past, There
      <3>1. o # s /\ pc'[o] = pc[o] /\ request'[o] = request[o]
        BY <2>4, <2>5
      <3> QED
        BY <3>1 DEF HearInv, KnownChannels, There
    <2>7. OnlySockets'
      BY <2>4 DEF HearInv, OnlySockets
    <2>8. e = events[cursor'[s]]
      BY <1>2 DEF e
    <2>9. Receivers'
      <3> SUFFICES ASSUME NEW x \in Sockets, Receiving(pc'[x], request'[x])
                   PROVE  /\ request'[x].user = SocketUser[x]
                          /\ cursor'[x] \in 1 .. Len(events)
                          /\ request'[x].channel = events[cursor'[x]].channel
        BY <1>1 DEF Receivers, Receiving
      <3>1. CASE x = s
        BY <1>2, <2>2, <2>4, <2>8, <3>1
      <3>2. CASE x # s
        BY <1>0, <1>3, <2>4, <3>2 DEF HearInv, Receivers
      <3> QED
        BY <3>1, <3>2
    <2> QED
      BY <1>4, <2>6, <2>7, <2>9 DEF HearInv
  <1> QED
    BY <1>5, <1>6

\* Connecting, closing, lagging and forwarding hold nothing back.
LEMMA HearSocket ==
  ASSUME IInv, HearInv, NEW s \in Sockets, Connect(s) \/ Close(s) \/ Lag(s) \/ Forward(s)
  PROVE  HearInv'
  <1>0. TypeTables /\ TypeTasks /\ TypeSides /\ s \in Procs /\ Sockets \subseteq Procs
    BY DEF IInv, Procs
  <1>1. space' = space /\ channel' = channel /\ events' = events
    BY DEF Connect, Close, Lag, Forward, tables
  <1>2. /\ \A o \in Procs : o # s => pc'[o] = pc[o] /\ request'[o] = request[o]
        /\ pc'[s] \in Rest
    <2>1. CASE Connect(s) \/ Lag(s)
      BY <1>0, <2>1 DEF Connect, Lag, Goes, TypeTasks, tasks, Rest
    <2>2. CASE Close(s) \/ Forward(s)
      BY <1>0, <2>2 DEF Close, Forward, Ends, Goes, TypeTasks, Rest
    <2> QED
      BY <2>1, <2>2
  <1>3. \A x \in Sockets : /\ x # s => cursor'[x] = cursor[x]
                           /\ dropped'[x] \subseteq dropped[x]
    <2>1. CASE Connect(s)
      BY <1>0, <2>1 DEF Connect, TypeSides
    <2>2. CASE Lag(s)
      <3>1. dropped' = dropped /\ \E i : cursor' = [cursor EXCEPT ![s] = i]
        BY <2>2 DEF Lag
      <3> QED
        BY <1>0, <3>1 DEF TypeSides
    <2>3. CASE Close(s) \/ Forward(s)
      BY <1>0, <2>3 DEF Close, Forward, TypeSides, sockets
    <2> QED
      BY <2>1, <2>2, <2>3
  <1>4. \A o \in Procs : Past(pc[o], request[o])' \/ Receiving(pc[o], request[o])' =>
          o # s /\ pc'[o] = pc[o] /\ request'[o] = request[o]
    BY <1>2 DEF Past, Receiving, Rest
  <1>5. KnownChannels'
    BY <1>1, <1>4 DEF HearInv, KnownChannels, There
  <1>6. Receivers'
    BY <1>0, <1>1, <1>3, <1>4 DEF HearInv, Receivers
  <1>7. OnlySockets'
    BY <1>4 DEF HearInv, OnlySockets
  <1>8. EventChannels' /\ HeldBack'
    BY <1>1, <1>3 DEF HearInv, EventChannels, HeldBack, There, Over
  <1> QED
    BY <1>5, <1>6, <1>7, <1>8 DEF HearInv

\* Only five steps write these rows, and none of them unmakes one.
LEMMA NextAges ==
  ASSUME IInv, NEW p \in Procs, Abandon(p) \/ Answered(p) \/ Authorize(p) \/ Act(p)
  PROVE  RowsAge
  <1>0. channel \in [Channels -> Channel] /\ space \in [archived : BOOLEAN, name : Names]
    BY DEF IInv, TypeTables
  <1>1. space' = space /\ channel' = channel => RowsAge
    BY DEF RowsAge
  <1>2. Refuses(p) => RowsAge
    BY <1>1 DEF Refuses, tables
  <1>3. CASE CreateChannel(p)
    BY <1>0, <1>2, <1>3 DEF CreateChannel, RowsAge
  <1>4. CASE UpdateChannel(p)
    <2>1. \/ Refuses(p)
          \/ /\ space' = space
             /\ \A c \in Channels : channel'[c].state = channel[c].state
      BY <1>0, <1>4 DEF UpdateChannel, Channel
    <2> QED
      BY <1>2, <2>1 DEF RowsAge
  <1>5. CASE ArchiveChannel(p)
    <2>1. \/ Refuses(p)
          \/ /\ space' = space
             /\ \A c \in Channels : channel'[c].state \in {channel[c].state, "archived"}
      BY <1>0, <1>5 DEF ArchiveChannel, Channel
    <2> QED
      BY <1>2, <2>1 DEF RowsAge
  <1>6. CASE UpdateSpace(p) \/ ArchiveSpace(p)
    BY <1>0, <1>2, <1>6 DEF UpdateSpace, ArchiveSpace, RowsAge
  <1> QED
    BY <1>1, <1>3, <1>4, <1>5, <1>6, OtherRows

\* Every step keeps HearInv.
LEMMA NextHear == IInv /\ HearInv /\ [Next]_vars => HearInv'
  <1> SUFFICES ASSUME IInv, HearInv, [Next]_vars PROVE HearInv'
    OBVIOUS
  <1>1. ASSUME NEW p \in Procs, Abandon(p) PROVE HearInv'
    <2>1. /\ pc' = [pc EXCEPT ![p] = "idle"] /\ "idle" \in Rest
          /\ request' = [request EXCEPT ![p] = NoRequest] /\ UNCHANGED <<events, sockets>>
      BY <1>1 DEF Abandon, Ends, Goes, Rest
    <2> QED
      BY <1>1, <2>1, NextAges, HearRests
  <1>2. ASSUME NEW p \in Procs, Answered(p) \/ Authorize(p) PROVE HearInv'
    BY <1>2, NextAges, HearAuthorize
  <1>3. ASSUME NEW p \in Procs, Act(p) PROVE HearInv'
    BY <1>3, NextAges, HearAct, HearPublish
  <1>4. CASE UNCHANGED vars
    <2>1. /\ space' = space /\ channel' = channel /\ events' = events /\ pc' = pc
          /\ request' = request /\ cursor' = cursor /\ dropped' = dropped
      BY <1>4 DEF vars, tables, tasks, sockets
    <2> QED
      BY <2>1 DEF HearInv, KnownChannels, EventChannels, Receivers, OnlySockets, HeldBack,
                  There, Over
  <1> QED
    BY <1>1, <1>2, <1>3, <1>4, HearBegin, HearTake, HearSocket DEF Next

\* While the space stands, the owner's websocket holds back nothing but events
\* of archived channels, for any number of requests that change roles,
\* overrides and members meanwhile: channel.deleted, and what else was published
\* of that channel, are all that the lookup of the channel costs.
THEOREM OwnerHears == Spec => []OwnerHearsTheRest
  <1>1. Init => HearInv
    <2> SUFFICES ASSUME Init PROVE HearInv
      OBVIOUS
    <2>1. \A p \in Procs : pc[p] \in Rest /\ request[p] = NoRequest
      BY DEF Init, Rest
    <2>2. KnownChannels
      BY <2>1 DEF KnownChannels, Past, NoRequest
    <2>3. Receivers /\ OnlySockets
      BY <2>1 DEF Receivers, OnlySockets, Receiving, Procs
    <2>4. EventChannels /\ HeldBack
      BY DEF Init, EventChannels, HeldBack
    <2> QED
      BY <2>2, <2>3, <2>4 DEF HearInv
  <1>2. HearInv => OwnerHearsTheRest
    BY DEF HearInv, HeldBack, Over, OwnerHearsTheRest
  <1> QED
    BY <1>1, <1>2, NextHear, Inductive, PTL DEF Spec
=============================================================================
