------------------------------- MODULE Calendars -------------------------------
(***************************************************************************)
(* Connected calendars and the copies of meetings in them                  *)
(* (domain/calendar_sync.rs, the calendar routes and those of              *)
(* controllers/meeting_controller.rs, repositories/calendar_postgres.rs).  *)
(*                                                                         *)
(* A sync reads the caller's account, then the row that links the meeting  *)
(* to an event, has the provider's adapter create or update that event,    *)
(* and stores and answers the link.  The adapters wired in are local: they *)
(* make up the id of a new event and call nobody.  Nothing makes the four  *)
(* one step, so syncs of one meeting overlap and may be cut off anywhere.  *)
(***************************************************************************)
EXTENDS Integers, FiniteSets, FiniteSetsExt

CONSTANTS
  People,       \* logged-in users
  Services,     \* the providers in use
  Meetings,
  Manages,      \* pairs of a person and a meeting he or she manages
  Inputs,       \* what a request to connect a calendar holds
  AccountIds,   \* positive integers, given out in order
  EventIds,     \* ids the adapters make up, positive integers given out in order
  Syncs,        \* sync requests running at the same time
  MaxCalls      \* bound: requests in one behaviour

\* Each provider has a connect route, a sync route and an adapter of its own;
\* they differ in the id of a new event and, for CalDAV, in the request.
CalendarServices == {"google", "microsoft", "caldav"}

ASSUME CalendarsAssumption ==
  /\ Services \subseteq CalendarServices
  /\ AccountIds \cup EventIds \subseteq Nat \ {0}
  /\ Manages \subseteq People \X Meetings
  /\ MaxCalls \in Nat
  /\ Inputs \subseteq
       [external : {"mine", "ours", "  ", "", "too long"},
        calendar : {"absent", "  ", " team ", "team", "primary", "too long"},
        token : {"long enough", "short"}, refresh : {"none", "long enough", "short"}]

VARIABLES
  accounts,    \* table connected_calendar_accounts
  links,       \* table calendar_event_syncs
  sync,        \* what each running sync holds
  calls,       \* requests so far
  events,      \* history: what each event id was made up for
  told,        \* history: the events syncs have answered for a meeting and a key
  overlapped   \* history: the meetings and keys whose link two syncs missed at a time

calendarVars == <<accounts, links, sync, calls, events, told, overlapped>>

Nothing == 0
Keys == People \X Services
NoKey == <<>>

\* UNIQUE (user_id, provider); sync_enabled is never unset.
External == {"mine", "ours", "name@server"}
Account == [id : AccountIds \cup {Nothing}, external : External \cup {"none"},
            calendar : {"none", "primary", "team"}]
NoAccount == [id |-> Nothing, external |-> "none", calendar |-> "none"]

\* UNIQUE (meeting_id, account_id, provider); an account has one provider.
Link == [event : EventIds \cup {Nothing}, calendar : {"none", "primary", "team"}]
NoLink == [event |-> Nothing, calendar |-> "none"]

\* The meeting, the key and the provider's account an id was made up for.
Event == [meeting : Meetings \cup {Nothing}, key : Keys \cup {NoKey},
          external : External \cup {"none"}]
NoEvent == [meeting |-> Nothing, key |-> NoKey, external |-> "none"]

Sync ==
  [at : {"idle", "account", "existing", "provider", "store"}, meeting : Meetings \cup {Nothing},
   key : Keys \cup {NoKey}, account : Account, existing : EventIds \cup {Nothing},
   event : EventIds \cup {Nothing}]
NoSync ==
  [at |-> "idle", meeting |-> Nothing, key |-> NoKey, account |-> NoAccount,
   existing |-> Nothing, event |-> Nothing]

CalendarTypeOK ==
  /\ accounts \in [Keys -> Account]
  /\ links \in [Meetings \X AccountIds -> Link]
  /\ \A q \in Syncs : sync[q] \in Sync
  /\ calls \in 0..MaxCalls
  /\ events \in [EventIds -> Event]
  /\ told \in [Meetings \X Keys -> SUBSET EventIds]
  /\ overlapped \subseteq Meetings \X Keys

CalendarInit ==
  /\ accounts = [k \in Keys |-> NoAccount]
  /\ links = [l \in Meetings \X AccountIds |-> NoLink]
  /\ sync = [q \in Syncs |-> NoSync]
  /\ calls = 0
  /\ events = [v \in EventIds |-> NoEvent]
  /\ told = [l \in Meetings \X Keys |-> {}]
  /\ overlapped = {}

Called == calls < MaxCalls /\ calls' = calls + 1

(***************************************************************************)
(* Connecting an account.                                                  *)
(***************************************************************************)

\* The request as the service gets it: without a calendar it is the primary
\* one; the id of a CalDAV account is name@server, the password is its access
\* token and there is no refresh token.
ConnectInput(service, i) ==
  [external |-> IF service = "caldav" THEN "name@server" ELSE i.external,
   calendar |-> IF i.calendar = "absent" THEN "primary" ELSE i.calendar,
   token |-> i.token,
   refresh |-> IF service = "caldav" THEN "none" ELSE i.refresh]

\* normalize_required: 1 to 256 bytes once words are joined by one space.
Required(t) == t \notin {"", "  ", "too long"}

\* normalize_calendar_id: an empty id is the primary calendar.
NormalizeCalendarId(c) == CASE c = "  " -> "primary" [] c = " team " -> "team" [] OTHER -> c

\* token_last_four and token_storage_value: 8 bytes or more.
ValidToken(t) == t = "long enough"

\* connect_provider_account
ValidConnection(i) ==
  /\ Required(i.external)
  /\ Required(NormalizeCalendarId(i.calendar))
  /\ ValidToken(i.token)
  /\ i.refresh # "none" => ValidToken(i.refresh)

UnusedAccounts == {a \in AccountIds : \A k \in Keys : accounts[k].id # a}

\* Mutant: a second connection replaces the row and its id.
UpsertAccount_NewId(k, external, calendar) ==
  /\ UnusedAccounts # {}
  /\ accounts' = [accounts EXCEPT ![k] =
       [id |-> Min(UnusedAccounts), external |-> external, calendar |-> calendar]]

\* upsert_account: a second connection, of another account of the provider too,
\* overwrites the row and keeps its id, and with it the links.
UpsertAccount(k, external, calendar) ==
  /\ accounts[k].id = Nothing => UnusedAccounts # {}
  /\ accounts' = [accounts EXCEPT ![k] =
       [id |-> IF @.id = Nothing THEN Min(UnusedAccounts) ELSE @.id,
        external |-> external, calendar |-> calendar]]

ConnectAccount(k, i) ==
  LET input == ConnectInput(k[2], i)
  IN  /\ Called
      /\ ValidConnection(input)
      /\ UpsertAccount(k, input.external, NormalizeCalendarId(input.calendar))
      /\ UNCHANGED <<links, sync, events, told, overlapped>>

(***************************************************************************)
(* Syncing a meeting.                                                      *)
(***************************************************************************)
SyncGoes(q, s) == sync' = [sync EXCEPT ![q] = s]

\* require_read_meeting and require_meeting_manager: who created the meeting and
\* the organization's administrators, as long as they can see its channel.
MayManage(person, m) == <<person, m>> \in Manages

\* The three routes; the meeting may be cancelled.
SyncMeeting(q, k, m) ==
  /\ sync[q] = NoSync
  /\ Called
  /\ MayManage(k[1], m)
  /\ SyncGoes(q, [NoSync EXCEPT !.at = "account", !.meeting = m, !.key = k])
  /\ UNCHANGED <<accounts, links, events, told, overlapped>>

\* connected_account, by user and provider.
ConnectedAccount(k) == accounts[k]

\* sync_provider_meeting begins: no account, no sync.
SyncAccount(q) ==
  LET account == ConnectedAccount(sync[q].key)
  IN  /\ sync[q].at = "account"
      /\ account # NoAccount
      /\ SyncGoes(q, [sync[q] EXCEPT !.account = account, !.at = "existing"])
      /\ UNCHANGED <<accounts, links, calls, events, told, overlapped>>

\* The other syncs that found no link for the same meeting and account.
AlsoMissed(q) ==
  {w \in Syncs \ {q} : /\ sync[w].at \in {"provider", "store"} /\ sync[w].existing = Nothing
                       /\ sync[w].meeting = sync[q].meeting /\ sync[w].key = sync[q].key}

\* event_sync_for_meeting
ExistingLink(m, account) == links[<<m, account.id>>]

SyncExisting(q) ==
  LET s == sync[q]
      link == ExistingLink(s.meeting, s.account)
  IN  /\ s.at = "existing"
      /\ SyncGoes(q, [s EXCEPT !.existing = link.event, !.at = "provider"])
      /\ overlapped' = IF link = NoLink /\ AlsoMissed(q) # {}
                       THEN overlapped \cup {<<s.meeting, s.key>>} ELSE overlapped
      /\ UNCHANGED <<accounts, links, calls, events, told>>

UnusedEvents == {v \in EventIds : events[v] = NoEvent}

\* The adapters' upsert_event: the event of the link, whichever account it was
\* made up for, or a new one (a uuid that no one else gets).
UpsertEvent(event, s) ==
  \/ /\ s.existing # Nothing
     /\ event = s.existing
     /\ UNCHANGED events
  \/ /\ s.existing = Nothing
     /\ UnusedEvents # {} /\ event = Min(UnusedEvents)
     /\ events' = [events EXCEPT ![event] =
          [meeting |-> s.meeting, key |-> s.key, external |-> s.account.external]]

SyncProvider(q) ==
  /\ sync[q].at = "provider"
  /\ \E event \in EventIds :
       /\ UpsertEvent(event, sync[q])
       /\ SyncGoes(q, [sync[q] EXCEPT !.event = event, !.at = "store"])
  /\ UNCHANGED <<accounts, links, calls, told, overlapped>>

\* upsert_event_sync: ON CONFLICT (meeting_id, account_id, provider) DO UPDATE.
UpsertLink(m, account, link) == links' = [links EXCEPT ![<<m, account.id>>] = link]

\* The link has the calendar the account had when it was read; the answer is the
\* row just stored.
SyncStore(q) ==
  LET s == sync[q]
  IN  /\ s.at = "store"
      /\ UpsertLink(s.meeting, s.account, [event |-> s.event, calendar |-> s.account.calendar])
      /\ told' = [told EXCEPT ![<<s.meeting, s.key>>] = @ \cup {s.event}]
      /\ SyncGoes(q, NoSync)
      /\ UNCHANGED <<accounts, calls, events, overlapped>>

\* A statement fails, no account is connected, or the client goes away.
SyncEnds(q) ==
  /\ sync[q].at # "idle"
  /\ SyncGoes(q, NoSync)
  /\ UNCHANGED <<accounts, links, calls, events, told, overlapped>>

CalendarNext ==
  \/ \E k \in Keys, i \in Inputs : ConnectAccount(k, i)
  \/ \E q \in Syncs :
       \/ \E k \in Keys, m \in Meetings : SyncMeeting(q, k, m)
       \/ SyncAccount(q) \/ SyncExisting(q) \/ SyncProvider(q) \/ SyncStore(q) \/ SyncEnds(q)

CalendarSpec == CalendarInit /\ [][CalendarNext]_calendarVars

(***************************************************************************)
(* Properties.                                                             *)
(***************************************************************************)
MadeFor(v, m, k) == events[v].meeting = m /\ events[v].key = k

\* Syncs of a meeting go on naming one event, the one of its link, however often
\* the meeting is synced, a sync is cut off before it stored anything or the
\* account is connected anew, unless two syncs both looked for the link before
\* either had stored it; and even then a sync answers, and a link names, only
\* events made up for that meeting, user and provider.
SyncedOnce ==
  \A m \in Meetings, k \in Keys :
    /\ <<m, k>> \notin overlapped => \A v, w \in told[<<m, k>>] : v = w
    /\ \A v \in told[<<m, k>>] : MadeFor(v, m, k)
    /\ accounts[k].id # Nothing =>
         LET link == links[<<m, accounts[k].id>>]
         IN  link # NoLink => link.event \in told[<<m, k>>]

\* "The operation is idempotent for the current user, meeting, and provider
\* account" (openapi.yaml): every sync of a meeting names the same event.
SyncIdempotent ==
  \A m \in Meetings, k \in Keys : \A v, w \in told[<<m, k>>] : v = w
=============================================================================
