--------------------------- MODULE CompatGateway ---------------------------
(***************************************************************************)
(* The Discord-compatible gateway: one task per websocket                  *)
(* (controllers/compat_gateway_controller.rs), the broadcast hub the REST  *)
(* handlers publish to (domain/realtime.rs) and the session and replay     *)
(* tables (repositories/compat_gateway_postgres.rs).                       *)
(*                                                                         *)
(* A handler awaits between two accesses to shared state, so a step of     *)
(* this module makes at most one access to a table or to the hub; pc says  *)
(* where a socket task is suspended.  A table access may fail at every     *)
(* step.  link says whether bytes still reach the client: after it drops,  *)
(* a send may succeed (the bytes stay in a buffer) or fail.                *)
(*                                                                         *)
(* Frames that change nothing (heartbeat, pong, an unparsable IDENTIFY or  *)
(* RESUME payload, a failed read before any write) are stuttering steps.   *)
(***************************************************************************)
EXTENDS Integers, Sequences, FiniteSets

CONSTANTS
  Sockets,        \* websocket connections, each used once
  Readers,        \* the sockets whose client keeps reading what it is sent
  Sessions,       \* session ids "gw_<uuid v7>", never reused
  Bots,           \* authenticated bots: application, organization, bot user
  NoBot,          \* identified_bot = None; as a token, one nobody owns
  NoSession,      \* active_session_id = None
  HubCapacity,    \* broadcast::channel(1024)
  ReplayLimit,    \* GATEWAY_REPLAY_LIMIT = 100
  Offers,         \* the intent sets clients ask for in IDENTIFY
  Published,      \* the event types the REST handlers publish
  MaxEvents,      \* bound: events published in one behaviour
  MaxRetries,     \* bound: failed IDENTIFY attempts of one socket
  MaxSeq          \* bound: sequence numbers clients send in RESUME

Supported  == {"GUILDS", "GUILD_MEMBERS", "GUILD_MESSAGES"}
Disallowed == {"GUILD_PRESENCES", "MESSAGE_CONTENT"}

\* The dispatch table of the event loop: the intent each event type needs.
\* Other event types (typing.started, voice and meeting events) match no
\* branch; "other" stands for them.
NeedsMessages == {"message.created", "message.updated", "message.deleted"}
NeedsGuilds   == {"channel.created", "channel.updated", "channel.deleted",
                  "space.updated", "space.deleted", "space.bot.invited"}
NeedsMembers  == {"space.member.added", "space.member.removed"}
Dispatched ==
  NeedsMessages \cup NeedsGuilds \cup NeedsMembers \cup {"interaction.created"}
EventTypes == Dispatched \cup {"other"}

\* has_intent of each branch; an interaction needs none.
HasIntent(i, t) ==
  /\ t \in NeedsMessages => "GUILD_MESSAGES" \in i
  /\ t \in NeedsGuilds => "GUILDS" \in i
  /\ t \in NeedsMembers => "GUILD_MEMBERS" \in i

ASSUME LimitsAssumption ==
  /\ HubCapacity \in Nat \ {0}
  /\ ReplayLimit \in Nat \ {0}
  /\ MaxEvents \in Nat
  /\ MaxRetries \in Nat
  /\ MaxSeq \in Nat
ASSUME NamesAssumption ==
  /\ NoBot \notin Bots
  /\ NoSession \notin Sessions
  /\ Readers \subseteq Sockets
  /\ Published \subseteq EventTypes
  /\ Offers \subseteq SUBSET (Supported \cup Disallowed \cup {"UNKNOWN"})

VARIABLES
  \* shared state of the server and its database
  hub,            \* the types of the events published so far, in order
  sessions,       \* table compat_gateway_sessions
  replay,         \* table compat_gateway_replay_events
  \* one task per socket
  status, link, pc,
  bot, session, intents, sequence,
  pos,            \* the broadcast receiver's next position in hub
  pending,        \* the position in hub of the event being dispatched, or 0
  resuming,       \* locals of resume_bot between its awaits
  batch,          \* replay_events not sent yet
  \* history
  recv,           \* dispatch frames that reached the client, in order
  granted         \* <<b, n>>: event n passed the gateway's checks for bot b

table == <<sessions, replay>>
task  == <<status, link, pc, bot, session, intents, sequence, pos, pending,
           resuming, batch>>
vars  == <<hub, table, task, recv, granted>>

Row     == [seq : Nat, ev : Nat]
Frame   == [s : Nat, ev : Nat]      \* ev = 0: READY or RESUMED
Session == [owner : Bots, sequence : Nat, intents : SUBSET Supported,
            expired : BOOLEAN]
Resume  == [session : Sessions \cup {NoSession}, bot : Bots \cup {NoBot},
            intents : SUBSET Supported, client : Nat, base : Nat]
NotResuming ==
  [session |-> NoSession, bot |-> NoBot, intents |-> {}, client |-> 0,
   base |-> 0]

\* Where a socket task is suspended: in tokio::select!, or before the store
\* or socket call the label names.
Labels == {"select", "append", "send", "update", "list", "replay"}

TypeOK ==
  /\ hub \in Seq(EventTypes)
  /\ DOMAIN sessions \subseteq Sessions
  /\ \A s \in DOMAIN sessions : sessions[s] \in Session
  /\ replay \in [Sessions -> SUBSET Row]
  /\ status \in [Sockets -> {"new", "open", "closed"}]
  /\ link \in [Sockets -> BOOLEAN]
  /\ pc \in [Sockets -> Labels]
  /\ bot \in [Sockets -> Bots \cup {NoBot}]
  /\ session \in [Sockets -> Sessions \cup {NoSession}]
  /\ intents \in [Sockets -> SUBSET Supported]
  /\ sequence \in [Sockets -> Nat]
  /\ pos \in [Sockets -> Nat]
  /\ pending \in [Sockets -> Nat]
  /\ resuming \in [Sockets -> Resume]
  /\ batch \in [Sockets -> SUBSET Row]
  /\ recv \in [Sockets -> Seq(Frame)]
  /\ granted \subseteq Bots \X Nat

Init ==
  /\ hub = <<>>
  /\ sessions = [s \in {} |-> NotResuming]
  /\ replay = [s \in Sessions |-> {}]
  /\ status = [k \in Sockets |-> "new"]
  /\ link = [k \in Sockets |-> TRUE]
  /\ pc = [k \in Sockets |-> "select"]
  /\ bot = [k \in Sockets |-> NoBot]
  /\ session = [k \in Sockets |-> NoSession]
  /\ intents = [k \in Sockets |-> {}]
  /\ sequence = [k \in Sockets |-> 0]
  /\ pos = [k \in Sockets |-> 0]
  /\ pending = [k \in Sockets |-> 0]
  /\ resuming = [k \in Sockets |-> NotResuming]
  /\ batch = [k \in Sockets |-> {}]
  /\ recv = [k \in Sockets |-> <<>>]
  /\ granted = {}

(***************************************************************************)
(* The session store.                                                      *)
(***************************************************************************)
StoreCreate(s, b, n, i) ==
  sessions' = [x \in DOMAIN sessions \cup {s} |->
                 IF x = s
                 THEN [owner |-> b, sequence |-> n, intents |-> i,
                       expired |-> FALSE]
                 ELSE sessions[x]]

\* Mutant: the UPDATE without GREATEST.
StoreUpdateSequence_Overwrites(s, n) ==
  sessions' = [x \in DOMAIN sessions |->
                 IF x = s /\ ~sessions[x].expired
                 THEN [sessions[x] EXCEPT !.sequence = n]
                 ELSE sessions[x]]

\* GREATEST(sequence, n), and nothing once the session has expired.
StoreUpdateSequence(s, n) ==
  sessions' = [x \in DOMAIN sessions |->
                 IF x = s /\ ~sessions[x].expired /\ n > sessions[x].sequence
                 THEN [sessions[x] EXCEPT !.sequence = n]
                 ELSE sessions[x]]

\* INSERT ... ON CONFLICT (session_id, sequence) DO UPDATE.
StoreAppend(s, n, e) ==
  replay' = [replay EXCEPT
               ![s] = {r \in @ : r.seq # n} \cup {[seq |-> n, ev |-> e]}]

\* Mutant: the rows after the one that follows the client's.
StoreListAfter_SkipsOne(s, c) ==
  {r \in replay[s] :
     /\ r.seq > c + 1
     /\ Cardinality({q \in replay[s] : c + 1 < q.seq /\ q.seq < r.seq})
          < ReplayLimit}

\* ORDER BY sequence ASC LIMIT: the rows with fewer than ReplayLimit rows of
\* the result before them.
StoreListAfter(s, c) ==
  {r \in replay[s] :
     /\ r.seq > c
     /\ Cardinality({q \in replay[s] : c < q.seq /\ q.seq < r.seq})
          < ReplayLimit}

\* Mutant: the owner is not compared.
StoreFinds_AnyOwner(s, b) == s \in DOMAIN sessions /\ ~sessions[s].expired

\* get_active_session, then the comparisons of resume_session.  Its final
\* update writes max(sequence, c) = sequence: no change.
StoreFinds(s, b) ==
  /\ s \in DOMAIN sessions
  /\ ~sessions[s].expired
  /\ sessions[s].owner = b
StoreResumes(s, b, c) == StoreFinds(s, b) /\ c <= sessions[s].sequence

(***************************************************************************)
(* The rest of the server, as the gateway sees it.                         *)
(***************************************************************************)

\* A REST handler publishes.
Publish(t) ==
  /\ Len(hub) < MaxEvents
  /\ hub' = Append(hub, t)
  /\ UNCHANGED <<table, task, recv, granted>>

\* 24 hours after creation; neither RESUME nor a dispatch extends it.
Expire(s) ==
  /\ s \in DOMAIN sessions
  /\ ~sessions[s].expired
  /\ sessions' = [sessions EXCEPT ![s].expired = TRUE]
  /\ UNCHANGED <<hub, replay, task, recv, granted>>

LinkDrops(k) ==
  /\ status[k] = "open" /\ link[k]
  /\ link' = [link EXCEPT ![k] = FALSE]
  /\ UNCHANGED <<hub, table, status, pc, bot, session, intents, sequence, pos,
                 pending, resuming, batch, recv, granted>>

(***************************************************************************)
(* The socket task.                                                        *)
(***************************************************************************)
At(k, l) == status[k] = "open" /\ pc[k] = l

Goto(k, l) == pc' = [pc EXCEPT ![k] = l]

\* The task returns and its locals are dropped.  (bot, session and resuming
\* keep saying for the properties whose connection it was.)
Ends(k) ==
  /\ status' = [status EXCEPT ![k] = "closed"]
  /\ pc' = [pc EXCEPT ![k] = "select"]
  /\ sequence' = [sequence EXCEPT ![k] = 0]
  /\ pos' = [pos EXCEPT ![k] = 0]
  /\ pending' = [pending EXCEPT ![k] = 0]
  /\ batch' = [batch EXCEPT ![k] = {}]
  /\ UNCHANGED <<hub, table, link, bot, session, intents, resuming, recv,
                 granted>>

\* socket.send(dispatch): the frame reaches the client while the link is up.
Deliver(k, n, e) ==
  recv' = [recv EXCEPT
             ![k] = IF link[k] THEN Append(@, [s |-> n, ev |-> e]) ELSE @]

\* Upgrade, HELLO, subscribe.
Connect(k) ==
  /\ status[k] = "new"
  /\ status' = [status EXCEPT ![k] = "open"]
  /\ pos' = [pos EXCEPT ![k] = Len(hub) + 1]
  /\ UNCHANGED <<hub, table, link, pc, bot, session, intents, sequence, pending,
                 resuming, batch, recv, granted>>

\* recv() yields None, an error or a close frame; or the frame limiter, the
\* decoder or the opcode match rejects a frame and the loop breaks.
SocketEnds(k) == At(k, "select") /\ Ends(k)

\* The process dies while the task is anywhere; the tables stay.
Crash(k) == status[k] = "open" /\ Ends(k)

IdentifyAdmits(k, b, i, shardOk, underLimit) ==
  /\ bot[k] = NoBot
  /\ i \subseteq Supported
  /\ shardOk
  /\ b \in Bots
  /\ underLimit

IdentifyRefused(k, b, i, shardOk, underLimit) ==
  /\ At(k, "select")
  /\ ~IdentifyAdmits(k, b, i, shardOk, underLimit)
  /\ Ends(k)

\* The sequence moved, then the session could not be stored: INVALID_SESSION,
\* and the socket stays open and unidentified.
IdentifyFails(k, b, i, shardOk, underLimit) ==
  /\ At(k, "select")
  /\ IdentifyAdmits(k, b, i, shardOk, underLimit)
  /\ sequence[k] < MaxRetries
  /\ sequence' = [sequence EXCEPT ![k] = @ + 1]
  /\ UNCHANGED <<hub, table, status, link, pc, bot, session, intents, pos,
                 pending, resuming, batch, recv, granted>>

\* The session is stored, the socket bound, and READY is sent next.
Identify(k, b, i, shardOk, underLimit, s) ==
  /\ At(k, "select")
  /\ IdentifyAdmits(k, b, i, shardOk, underLimit)
  /\ s \notin DOMAIN sessions
  /\ sequence' = [sequence EXCEPT ![k] = @ + 1]
  /\ StoreCreate(s, b, sequence[k] + 1, i)
  /\ bot' = [bot EXCEPT ![k] = b]
  /\ session' = [session EXCEPT ![k] = s]
  /\ intents' = [intents EXCEPT ![k] = i]
  /\ Goto(k, "send")
  /\ UNCHANGED <<hub, replay, status, link, pos, pending, resuming, batch, recv,
                 granted>>

ResumeRefused(k, b, s, c) ==
  /\ At(k, "select")
  /\ bot[k] # NoBot \/ b \notin Bots \/ ~StoreResumes(s, b, c)
  /\ Ends(k)

ResumeFindsSession(k, b, s, c) ==
  /\ At(k, "select")
  /\ bot[k] = NoBot
  /\ b \in Bots
  /\ StoreResumes(s, b, c)
  /\ resuming' = [resuming EXCEPT
                    ![k] = [session |-> s, bot |-> b,
                            intents |-> sessions[s].intents, client |-> c,
                            base |-> sessions[s].sequence]]
  /\ Goto(k, "list")
  /\ UNCHANGED <<hub, table, status, link, bot, session, intents, sequence, pos,
                 pending, batch, recv, granted>>

\* Mutant: the replayed rows are left out of the maximum.
IsLast_IgnoresRows(m, n, rows) == m = n

\* m = session.sequence.max(the last row's sequence)
IsLast(m, n, rows) == m >= n /\ \A r \in rows : m >= r.seq

\* list_replay_events_after; base becomes what sequence will be set from.
ResumeLists(k) ==
  /\ At(k, "list")
  /\ LET rows == StoreListAfter(resuming[k].session, resuming[k].client)
     IN  /\ batch' = [batch EXCEPT ![k] = rows]
         /\ \E m \in {resuming[k].base} \cup {r.seq : r \in rows} :
              /\ IsLast(m, resuming[k].base, rows)
              /\ resuming' = [resuming EXCEPT ![k].base = m]
  /\ Goto(k, "replay")
  /\ UNCHANGED <<hub, table, status, link, bot, session, intents, sequence, pos,
                 pending, recv, granted>>

ResumeListFails(k) ==
  /\ At(k, "list")
  /\ resuming' = [resuming EXCEPT ![k] = NotResuming]
  /\ Goto(k, "select")
  /\ UNCHANGED <<hub, table, status, link, bot, session, intents, sequence, pos,
                 pending, batch, recv, granted>>

\* The replay loop sends the rows in ascending order.
ReplayOne(k) ==
  /\ At(k, "replay")
  /\ \E r \in batch[k] :
       /\ \A q \in batch[k] : r.seq <= q.seq
       /\ batch' = [batch EXCEPT ![k] = @ \ {r}]
       /\ Deliver(k, r.seq, r.ev)
  /\ UNCHANGED <<hub, table, status, link, pc, bot, session, intents, sequence,
                 pos, pending, resuming, granted>>

\* Mutant: RESUMED repeats the last number instead of taking the next one.
ResumeCompletes_NoIncrement(k, stored) ==
  /\ At(k, "replay")
  /\ batch[k] = {}
  /\ sequence' = [sequence EXCEPT ![k] = resuming[k].base]
  /\ bot' = [bot EXCEPT ![k] = resuming[k].bot]
  /\ session' = [session EXCEPT ![k] = resuming[k].session]
  /\ intents' = [intents EXCEPT ![k] = resuming[k].intents]
  /\ resuming' = [resuming EXCEPT ![k] = NotResuming]
  /\ Goto(k, "send")
  /\ UNCHANGED <<hub, table, status, link, pos, pending, batch, recv, granted>>

\* update_sequence may fail and is ignored (.ok()); the socket is bound, and
\* RESUMED is sent next.
ResumeCompletes(k, stored) ==
  /\ At(k, "replay")
  /\ batch[k] = {}
  /\ LET n == resuming[k].base + 1
     IN  /\ sequence' = [sequence EXCEPT ![k] = n]
         /\ IF stored THEN StoreUpdateSequence(resuming[k].session, n)
                      ELSE UNCHANGED sessions
  /\ bot' = [bot EXCEPT ![k] = resuming[k].bot]
  /\ session' = [session EXCEPT ![k] = resuming[k].session]
  /\ intents' = [intents EXCEPT ![k] = resuming[k].intents]
  /\ resuming' = [resuming EXCEPT ![k] = NotResuming]
  /\ Goto(k, "send")
  /\ UNCHANGED <<hub, replay, status, link, pos, pending, batch, recv, granted>>

\* RecvError::Lagged: the receiver skips to the oldest event still buffered.
Lags(k) == Len(hub) - pos[k] + 1 > HubCapacity

SkipLagged(k) ==
  /\ At(k, "select") /\ Lags(k)
  /\ pos' = [pos EXCEPT ![k] = Len(hub) - HubCapacity + 1]
  /\ UNCHANGED <<hub, table, status, link, pc, bot, session, intents, sequence,
                 pending, resuming, batch, recv, granted>>

\* The branches of the event loop.  admitted is the answer of
\* can_bot_receive_event and of the payload builders at this moment: the
\* tables they read belong to the REST API, which changes them at any time.
Dispatches(k, t, admitted) ==
  /\ bot[k] # NoBot
  /\ t \in Dispatched
  /\ HasIntent(intents[k], t)
  /\ admitted

\* Mutant: a socket polls the hub only once it is identified.
TakeEvent_WaitsForIdentify(k, admitted) ==
  /\ bot[k] # NoBot /\ At(k, "select") /\ ~Lags(k) /\ pos[k] <= Len(hub)
  /\ pos' = [pos EXCEPT ![k] = @ + 1]
  /\ UNCHANGED <<hub, table, status, link, pc, bot, session, intents, sequence,
                 pending, resuming, batch, recv, granted>>

TakeEvent(k, admitted) ==
  /\ At(k, "select") /\ ~Lags(k) /\ pos[k] <= Len(hub)
  /\ pos' = [pos EXCEPT ![k] = @ + 1]
  /\ \/ /\ ~Dispatches(k, hub[pos[k]], admitted)
        /\ UNCHANGED <<pc, sequence, pending, granted>>
     \/ /\ Dispatches(k, hub[pos[k]], admitted)
        /\ sequence' = [sequence EXCEPT ![k] = @ + 1]
        /\ pending' = [pending EXCEPT ![k] = pos[k]]
        /\ granted' = granted \cup {<<bot[k], pos[k]>>}
        /\ Goto(k, "append")
  /\ UNCHANGED <<hub, table, status, link, bot, session, intents, resuming,
                 batch, recv>>

\* Mutant: the dispatch is sent before it is stored.
AppendReplay_SendsFirst(k) ==
  /\ At(k, "append")
  /\ Goto(k, "send")
  /\ UNCHANGED <<hub, table, status, link, bot, session, intents, sequence, pos,
                 pending, resuming, batch, recv, granted>>

AppendReplay(k) ==
  /\ At(k, "append")
  /\ StoreAppend(session[k], sequence[k], pending[k])
  /\ Goto(k, "send")
  /\ UNCHANGED <<hub, sessions, status, link, bot, session, intents, sequence,
                 pos, pending, resuming, batch, recv, granted>>

AppendFails(k) == At(k, "append") /\ Ends(k)

\* READY, RESUMED (pending = 0) or a dispatch, whose sequence is then stored.
SendDispatch(k) ==
  /\ At(k, "send")
  /\ Deliver(k, sequence[k], pending[k])
  /\ Goto(k, IF pending[k] = 0 THEN "select" ELSE "update")
  /\ UNCHANGED <<hub, table, status, link, bot, session, intents, sequence, pos,
                 pending, resuming, batch, granted>>

\* A send notices that the peer is gone.
SendFails(k) ==
  /\ ~link[k]
  /\ At(k, "send") \/ (At(k, "replay") /\ batch[k] # {})
  /\ Ends(k)

\* Mutant: the update is repeated until it changes a row.
UpdateSequence_UntilStored(k, stored) ==
  /\ At(k, "update") /\ ~sessions[session[k]].expired /\ stored
  /\ StoreUpdateSequence(session[k], sequence[k])
  /\ pending' = [pending EXCEPT ![k] = 0]
  /\ Goto(k, "select")
  /\ UNCHANGED <<hub, replay, status, link, bot, session, intents, sequence, pos,
                 resuming, batch, recv, granted>>

\* update_active_session_sequence ignores a failure.
UpdateSequence(k, stored) ==
  /\ At(k, "update")
  /\ IF stored THEN StoreUpdateSequence(session[k], sequence[k])
               ELSE UNCHANGED sessions
  /\ pending' = [pending EXCEPT ![k] = 0]
  /\ Goto(k, "select")
  /\ UNCHANGED <<hub, replay, status, link, bot, session, intents, sequence, pos,
                 resuming, batch, recv, granted>>

ClientFrame(k) ==
  \/ \E b \in Bots \cup {NoBot}, i \in Offers, ok, under \in BOOLEAN :
       \/ IdentifyRefused(k, b, i, ok, under)
       \/ IdentifyFails(k, b, i, ok, under)
       \/ \E s \in Sessions : Identify(k, b, i, ok, under, s)
  \/ \E b \in Bots \cup {NoBot}, s \in Sessions, c \in 0..MaxSeq :
       \/ ResumeRefused(k, b, s, c)
       \/ ResumeFindsSession(k, b, s, c)

Receive(k) == SkipLagged(k) \/ \E admitted \in BOOLEAN : TakeEvent(k, admitted)

\* The steps of a handler that wait for a statement, and those that wait for
\* socket.send.
Stores(k) ==
  \/ ResumeLists(k) \/ ResumeListFails(k)
  \/ \E stored \in BOOLEAN : ResumeCompletes(k, stored)
  \/ AppendReplay(k) \/ AppendFails(k)
  \/ \E stored \in BOOLEAN : UpdateSequence(k, stored)
Sends(k) == ReplayOne(k) \/ SendDispatch(k) \/ SendFails(k)

Proceed(k) == Stores(k) \/ Sends(k)

SocketTask(k) ==
  Connect(k) \/ SocketEnds(k) \/ ClientFrame(k) \/ Receive(k) \/ Proceed(k)

Environment ==
  \/ \E t \in Published : Publish(t)
  \/ \E s \in Sessions : Expire(s)
  \/ \E k \in Sockets : LinkDrops(k) \/ Crash(k)

Next == Environment \/ \E k \in Sockets : SocketTask(k)

Spec == Init /\ [][Next]_vars

\* Every statement ends, with a result or an error.  socket.send has no timeout
\* and no heartbeat is enforced, so a send returns only if the client goes on
\* reading or is gone: a client outside Readers may hold its handler in a send
\* for ever, in the answer to a heartbeat too, which keeps the task from its
\* select loop.  For a reader tokio::select! draws at random between ready
\* branches: an event branch that is ready again and again is taken in the end.
Fairness ==
  /\ \A k \in Sockets : WF_vars(Stores(k))
  /\ \A k \in Readers : WF_vars(Sends(k)) /\ SF_vars(Receive(k))

\* Connections of one session that do not overlap: the old task has ended
\* before a new one resumes its session.
Bound(k) == IF session[k] # NoSession THEN session[k] ELSE resuming[k].session
NoOverlap ==
  \A k1, k2 \in Sockets :
    /\ status[k1] = "open" /\ status[k2] = "open"
    /\ Bound(k1) = Bound(k2) /\ Bound(k1) # NoSession
    => k1 = k2

\* No client resumes further behind its session's journal than one page of
\* GATEWAY_REPLAY_LIMIT rows.
ResumesFit ==
  \A k \in Sockets : At(k, "list") =>
    Cardinality({r \in replay[resuming[k].session] : r.seq > resuming[k].client})
      <= ReplayLimit

\* The server with clients that let one connection end before they resume its
\* session with the next, and that are at most a page behind.  Only what clients
\* send is restricted: no other step can break either condition.
ApartNext ==
  \/ \E k \in Sockets :
       \/ Connect(k) \/ SocketEnds(k) \/ Receive(k) \/ Proceed(k)
       \/ ClientFrame(k) /\ NoOverlap' /\ ResumesFit'
  \/ Environment
ApartSpec == Init /\ [][ApartNext]_vars
FairApartSpec == ApartSpec /\ Fairness

(***************************************************************************)
(* Properties.                                                             *)
(***************************************************************************)

\* The bot a connection authenticated as, known from the moment resume_bot has
\* checked the session.
Peer(k) == IF bot[k] # NoBot THEN bot[k] ELSE resuming[k].bot

\* READY, RESUMED, replayed and live dispatches reach one client connection
\* with strictly increasing sequence numbers, whatever other connections do to
\* the same session (identify_bot, resume_bot, send_session_dispatch).
ConnectionOrder ==
  \A k \in Sockets : \A i, j \in 1..Len(recv[k]) :
    i < j => recv[k][i].s < recv[k][j].s

\* A bot only sees an event that can_bot_receive_event granted to that bot
\* while one of its connections handled it, and only of a type the intents of
\* its session ask for: replay after RESUME hands out nothing else, in
\* particular nothing stored for another bot's session.
OnlyGranted ==
  \A k \in Sockets : \A i \in 1..Len(recv[k]) :
    recv[k][i].ev # 0 =>
      /\ <<Peer(k), recv[k][i].ev>> \in granted
      /\ Bound(k) \in DOMAIN sessions
      /\ HasIntent(sessions[Bound(k)].intents, hub[recv[k][i].ev])

\* send_session_dispatch stores a dispatch before it sends it: a client never
\* knows a sequence number of an event that the session's journal lacks.
WriteAhead ==
  \A k \in Sockets : \A i \in 1..Len(recv[k]) :
    recv[k][i].ev # 0 =>
      \E r \in replay[Bound(k)] : r.seq = recv[k][i].s

NumbersAgree ==
  \A k1, k2 \in Sockets :
    Bound(k1) = Bound(k2) =>
      \A i \in 1..Len(recv[k1]), j \in 1..Len(recv[k2]) :
        recv[k1][i].s = recv[k2][j].s => recv[k1][i].ev = recv[k2][j].ev

\* A sequence number of a session names one dispatch for ever, across
\* reconnects, lost updates and crashes, as long as the session's connections
\* never overlap (NoOverlap) and no RESUME asks for more rows than one replay
\* lists (ResumesFit): resume_bot continues after both the stored sequence and
\* the last row.
NumbersNeverReused == []NoOverlap /\ []ResumesFit => []NumbersAgree

\* update_sequence, run by connections in any order, never takes a session's
\* sequence back, and no handler gives a session to another bot or changes its
\* intents; a journal row is never deleted while the server runs.
SessionMonotone ==
  [][\A s \in DOMAIN sessions :
       /\ s \in DOMAIN sessions'
       /\ sessions'[s].sequence >= sessions[s].sequence
       /\ sessions'[s].owner = sessions[s].owner
       /\ sessions'[s].intents = sessions[s].intents
       /\ \A r \in replay[s] : \E q \in replay'[s] : q.seq = r.seq]_vars

\* RESUME replays every stored dispatch with a larger sequence number before
\* RESUMED (openapi.yaml): at the moment RESUMED is due, a client whose link
\* is up has received each row between its sequence and the server's.
ResumeReplaysAll ==
  \A k \in Sockets :
    status[k] = "open" /\ link[k] /\ pc[k] = "replay" /\ batch[k] = {} =>
      \A r \in replay[resuming[k].session] :
        resuming[k].client < r.seq /\ r.seq <= resuming[k].base =>
          \E i \in 1..Len(recv[k]) : recv[k][i].s = r.seq

\* Between two frames that a client has received, it has received every
\* dispatch that its session's journal numbers in between.
NoHole ==
  \A k \in Sockets : \A i, j \in 1..Len(recv[k]) : \A r \in replay[Bound(k)] :
    recv[k][i].s < r.seq /\ r.seq < recv[k][j].s =>
      \E h \in 1..Len(recv[k]) : recv[k][h] = [s |-> r.seq, ev |-> r.ev]

\* With connections that do not overlap and resumes of at most one page, the
\* stream is whole: RESUME replays every stored dispatch the client lacks, and
\* replayed and live dispatches then leave no hole, whatever crashes, lost
\* updates and dropped links came before (resume_bot, send_session_dispatch).
StreamIsWhole == []NoOverlap /\ []ResumesFit => [](ResumeReplaysAll /\ NoHole)

\* To such clients a session is a log (SessionLog): the connections that number,
\* store, send, crash and resume implement one list of entries per session that
\* grows at its end and that every connection reads in order.
Log == INSTANCE SessionLog WITH
         Clients <- Sockets, Logs <- Sessions, Nowhere <- NoSession,
         log <- replay, home <- [k \in Sockets |-> Bound(k)], inbox <- recv
LogSpec == Log!Spec

\* socket.send is due.
Sending(k) == At(k, "send") \/ (At(k, "replay") /\ batch[k] # {})

\* A connection that has begun to resume or to dispatch gets back to its
\* select loop, ends, or is in a send; and the connection of a client that reads
\* does not stay in a send: no statement a handler awaits depends on another
\* client, which may have stopped reading, or on the session being still there.
HandlersFinish ==
  \A k \in Sockets :
    pc[k] # "select" ~>
      \/ pc[k] = "select"
      \/ status[k] = "closed"
      \/ k \notin Readers /\ Sending(k)

\* An open connection whose client reads consumes what the hub buffers for it,
\* or ends, however far it lags when it comes back to its loop and whatever the
\* other connections wait for (RecvError::Lagged, then the oldest event kept).
QueueDrains ==
  \A k \in Readers :
    (status[k] = "open" /\ pos[k] <= Len(hub))
      ~> (pos[k] = Len(hub) + 1 \/ status[k] = "closed")
=============================================================================
