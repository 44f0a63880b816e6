------------------------------ MODULE MCServices ------------------------------
(***************************************************************************)
(* Instances of Accounts, Calendars, RateLimits and Media for TLC.  No      *)
(* action of one reads or writes a variable of another, so an interleaving  *)
(* of two of them shows nothing that one at a time does not: side says      *)
(* which one moves in a behaviour.                                          *)
(***************************************************************************)
EXTENDS SideServices, TLC

CONSTANTS owner, bob, acme, labs, chat, ann, ben, standup, host, lounge, townhall, huddle,
          allhands, s3, old, new
VARIABLE side

MCTyped == {owner, bob, "BOB@", "nobody"}
MCAddress == (owner :> owner @@ bob :> bob @@ "BOB@" :> bob @@ "nobody" :> Invalid)

MCNames == {"Acme", " Labs  ", "!!"}
MCSlug == ("Acme" :> acme @@ " Labs  " :> labs @@ "!!" :> Invalid)

MCHostNames == {"Chat.Example.org.", "chat"}
MCHostOf == ("Chat.Example.org." :> chat @@ "chat" :> Invalid)

MCTenants ==
  {[plan |-> " Team", mode |-> "Cloud ", region |-> "eu-1"],
   [plan |-> "gold", mode |-> "cloud", region |-> "eu-1"]}

MCBillingEvents ==
  {[provider |-> "stripe", type |-> "plan.changed", plan |-> plan, status |-> "active",
    customer |-> "plain", subscription |-> sub, period |-> period] :
      plan \in {"free", " Team", "gold"}, sub \in {"plain", "  "},
      period \in {"absent", "soon"}}

MCMailDomains == {"example.org"}
MCDomainOf == (owner :> "example.org" @@ bob :> "example.org")
MCProviders ==
  {[domains |-> {" @Example.org", ""}, required |-> b, role |-> " Admin",
    secret |-> "long enough", client |-> " padded ", issuer |-> i] :
      b \in BOOLEAN, i \in Issuers \cup {"http"}}
    \cup {[domains |-> {"example.org"}, required |-> FALSE, role |-> "owner",
           secret |-> secret, client |-> "plain", issuer |-> i] :
             secret \in PasswordLengths, i \in Issuers}

\* The second issuer asserts one subject, the first the others.
MCIssuerOf == [s \in Subjects |-> IF s = s3 THEN new ELSE old]

MCManages == {<<ann, standup>>, <<ben, standup>>}
MCInputs ==
  [external : {"mine", "ours", ""}, calendar : {"absent", " team ", "too long"},
   token : {"long enough"}, refresh : {"none", "short"}]
    \cup {[external |-> "mine", calendar |-> "  ", token |-> "short", refresh |-> "none"]}

MCCallerOf == (owner :> owner @@ "OWNER@" :> owner)

MCRoleRights == (host :> {"connect", "speak"})
MCPlace == (townhall :> lounge @@ huddle :> "space" @@ allhands :> "organization")
MCSettings ==
  {[allow |-> {}, deny |-> {}], [allow |-> {"connect", "video"}, deny |-> {}],
   [allow |-> {"screen"}, deny |-> {"view"}]}
MCWishes == {{}, {"audio", "video"}, {"screen", "subscribe"}}

\* One start is enough where media does not move.
MCQuiet ==
  /\ \A u \in Speakers : standing[u] = "guest" /\ given[u] = {}
  /\ \A x \in Channels \X (Speakers \cup VoiceRoles) : ruled[x] = [allow |-> {}, deny |-> {}]

MCInit ==
  /\ Init /\ CalendarInit /\ LimitInit /\ MediaInit
  /\ side \in {"accounts", "calendars", "limits", "media"}
  /\ side # "media" => MCQuiet

MCNext ==
  \/ side = "accounts" /\ Next /\ UNCHANGED <<calendarVars, limitVars, mediaVars, side>>
  \/ side = "calendars" /\ CalendarNext /\ UNCHANGED <<vars, limitVars, mediaVars, side>>
  \/ side = "limits" /\ LimitNext /\ UNCHANGED <<vars, calendarVars, mediaVars, side>>
  \/ side = "media" /\ MediaNext /\ UNCHANGED <<vars, calendarVars, limitVars, side>>

MCSpec == MCInit /\ [][MCNext]_<<vars, calendarVars, limitVars, mediaVars, side>>

\* The calendars alone.
MCCalendarSpec == side = "calendars" /\ MCSpec

MCSymmetry == Permutations(Requests)
=============================================================================
