------------------------------- MODULE Accounts -------------------------------
(***************************************************************************)
(* Accounts and credentials: registration, login and OpenID Connect        *)
(* (domain/auth.rs), SCIM provisioning (domain/scim.rs), bot applications  *)
(* (domain/bot.rs) and incoming webhooks (domain/webhook.rs), with their   *)
(* controllers and tables, and the requests that change organizations.     *)
(*                                                                         *)
(* Every request is a sequence of single statements; only the creation of  *)
(* an organization and the rotation of a bot token are transactions.  Any  *)
(* request may end between two statements, because one fails, the rate     *)
(* limit is reached or the client goes away (RequestEnds).                 *)
(***************************************************************************)
EXTENDS Organizations, FiniteSetsExt

CONSTANTS
  SessionIds, TokenIds, AppIds, HookIds,   \* positive integers, given out in order
  Emails,       \* addresses of people, as they are stored
  Typed,        \* addresses as people and identity systems write them
  Address,      \* the stored form of what is written, or Invalid
  Owner,        \* the email of the first user
  Founded,      \* the organization the first user has founded
  DomainOf,     \* the domain of an email
  Subjects,     \* subjects identity providers assert
  IssuerOf,     \* the issuer that asserts a subject
  Providers,    \* provider settings administrators send
  ExternalIds,  \* SCIM external ids
  Requests,     \* requests running at the same time
  MaxRequests   \* bound: requests in one behaviour

\* A password has 12 bytes or more, a client secret 8.
PasswordLengths == {"short", "long enough"}

\* The settings of a provider as they are sent.  Domains lose a leading @ and
\* the role is put in lower case; it must then be one of two.
SettingsType ==
  [domains : SUBSET (MailDomains \cup {" @Example.org", "", "nodot"}), required : BOOLEAN,
   role : {"member", "admin", " Admin", "owner"}, secret : PasswordLengths, client : Text,
   issuer : Issuers \cup {"http"}]

Internal == "internal"   \* the address made up for a bot or webhook: never taken

ASSUME AccountsAssumption ==
  /\ SessionIds \cup TokenIds \cup AppIds \cup HookIds \subseteq Nat \ {0}
  /\ 1 \in UserIds /\ Owner \in Emails /\ Founded \in Orgs /\ Internal \notin Emails
  /\ DomainOf \in [Emails -> MailDomains] /\ "example.org" \in MailDomains
  /\ IssuerOf \in [Subjects -> Issuers] /\ {"http", NoIssuer} \cap Issuers = {}
  /\ Address \in [Typed -> Emails \cup {Invalid}]
  /\ Providers \subseteq SettingsType
  /\ MaxRequests \in Nat

VARIABLES
  users,       \* table users
  sessions,    \* table user_sessions
  identities,  \* table user_oidc_identities
  scim,        \* tables organization_scim_tokens and scim_users
  apps,        \* tables bot_applications and bot_tokens
  hooks,       \* table incoming_webhooks
  request,     \* what each running request holds
  started,     \* requests so far
  history      \* what properties look back on

vars == <<users, sessions, identities, orgs, members, domains, scim, apps, hooks, request,
          started, history>>

tables == <<users, sessions, identities, orgs, members, domains, scim, apps, hooks, history>>

\* Rows.  A user whose password_hash is a marker cannot log in with a password.
User == [exists : BOOLEAN, email : Emails \cup {Internal}, password : BOOLEAN]
Session ==
  [state : {"none", "live", "revoked"}, user : UserIds \cup {None},
   proof : {"password", "oidc"}, subject : Subjects \cup {None}, free : BOOLEAN]
Identity == [subject : Subjects, user : UserIds, org : Orgs]
ScimUser == [user : UserIds \cup {None}, active : BOOLEAN]
BotToken == [app : AppIds \cup {None}, active : BOOLEAN]
Hook == [active : BOOLEAN, token : TokenIds \cup {None}, org : Orgs \cup {None}]

NoUser == [exists |-> FALSE, email |-> Internal, password |-> FALSE]
NoSession ==
  [state |-> "none", user |-> None, proof |-> "password", subject |-> None, free |-> TRUE]
NoHook == [active |-> FALSE, token |-> None, org |-> None]

\* retired: tokens that completed rotations replaced; torn: organizations whose
\* plan and billing row a cut or overlapping event may have left apart;
\* posted: for each execution of a webhook whether its author's name was
\* overridden, and whether that was allowed at some moment of the request.
History ==
  [retired : SUBSET TokenIds, torn : SUBSET Orgs,
   posted : SUBSET [override : BOOLEAN, allowed : BOOLEAN]]

Ops == {"idle", "register", "login", "oidc", "provision", "patch", "admin", "rotate", "bill",
        "execute", "domain"}
Steps ==
  {"idle", "sso", "find", "create", "session", "provider", "identity", "by_email", "link",
   "join", "token", "deactivate", "row", "member", "write", "app", "first_token", "hook",
   "update", "commit", "plan", "policy", "message"}

\* free: at some moment since the request began no provider required SSO for
\* its email, or the organization allowed overrides (history);
\* whole: no other billing event of the organization overlapped this one (history);
\* seen: the tokens the UPDATE of a rotation found; old: the tokens there were
\* when the rotation began.
Request ==
  [op : Ops, at : Steps, user : UserIds \cup {None}, email : Emails \cup {Internal},
   org : Orgs \cup {None}, subject : Subjects \cup {None}, ext : ExternalIds \cup {None},
   active : BOOLEAN, role : {"member", "admin"}, app : AppIds \cup {None}, free : BOOLEAN,
   seen : SUBSET TokenIds, old : SUBSET TokenIds, plan : Plans, whole : BOOLEAN,
   override : BOOLEAN]

Idle ==
  [op |-> "idle", at |-> "idle", user |-> None, email |-> Internal, org |-> None,
   subject |-> None, ext |-> None, active |-> TRUE, role |-> "member", app |-> None,
   free |-> TRUE, seen |-> {}, old |-> {}, plan |-> "free", whole |-> TRUE,
   override |-> FALSE]

\* One type per table and request.
TypeOK ==
  /\ users \in [UserIds -> User]
  /\ sessions \in [SessionIds -> Session]
  /\ identities \subseteq Identity
  /\ orgs \in [Orgs -> Organization]
  /\ members \in [Orgs -> [UserIds -> Member]]
  /\ domains \in [Hosts -> CustomDomain]
  /\ scim \in [token : [Orgs -> TokenIds \cup {None}], users : [Orgs -> [ExternalIds -> ScimUser]]]
  /\ apps \in [user : [AppIds -> UserIds \cup {None}], org : [AppIds -> Orgs \cup {None}],
               tokens : [TokenIds -> BotToken]]
  /\ hooks \in [HookIds -> Hook]
  /\ request \in [Requests -> Request]
  /\ started \in 0..MaxRequests
  /\ history \in History

\* The first user has registered, is logged in and has founded an organization.
Init ==
  /\ users = [u \in UserIds |->
                IF u = 1 THEN [exists |-> TRUE, email |-> Owner, password |-> TRUE] ELSE NoUser]
  /\ sessions = [s \in SessionIds |->
                   IF s = 1 THEN [NoSession EXCEPT !.state = "live", !.user = 1] ELSE NoSession]
  /\ identities = {}
  /\ orgs = [o \in Orgs |-> [NoOrganization EXCEPT !.exists = (o = Founded)]]
  /\ members = [o \in Orgs |-> [u \in UserIds |->
                  IF o = Founded /\ u = 1 THEN [role |-> "owner", active |-> TRUE] ELSE NoMember]]
  /\ domains = [h \in Hosts |-> [org |-> None, active |-> FALSE]]
  /\ scim = [token |-> [o \in Orgs |-> None],
             users |-> [o \in Orgs |-> [x \in ExternalIds |-> [user |-> None, active |-> FALSE]]]]
  /\ apps = [user |-> [a \in AppIds |-> None], org |-> [a \in AppIds |-> None],
             tokens |-> [t \in TokenIds |-> [app |-> None, active |-> FALSE]]]
  /\ hooks = [h \in HookIds |-> NoHook]
  /\ request = [q \in Requests |-> Idle]
  /\ started = 0
  /\ history = [retired |-> {}, torn |-> {}, posted |-> {}]

(***************************************************************************)
(* Queries.                                                                *)
(***************************************************************************)
UsersWith(email) == {u \in UserIds : users[u].exists /\ users[u].email = email}
LoggedIn(u) == \E s \in SessionIds : sessions[s].state = "live" /\ sessions[s].user = u

\* normalize_email: trimmed and in lower case, or refused.
NormalizeEmail(typed) == Address[typed]

NormalizeRole(role) == IF role = " Admin" THEN "admin" ELSE role

\* normalize_allowed_domains: empty ones are dropped.
NormalizeDomains(ds) == {IF d = " @Example.org" THEN "example.org" ELSE d : d \in ds} \ {""}

ValidDomains(ds) == NormalizeDomains(ds) # {} /\ "nodot" \notin NormalizeDomains(ds)

\* normalize_url: outside this machine only https.
ValidUrl(url) == url \in Issuers

\* normalize_non_empty and normalize_client_secret
ValidClient(client, secret) == NormalizeText(client) # "" /\ secret = "long enough"

\* Mutant: any role may be given to who joins.
ValidProvider_AnyRole(p) ==
  ValidUrl(p.issuer) /\ ValidClient(p.client, p.secret) /\ ValidDomains(p.domains)

\* What configure_oidc_provider accepts.
ValidProvider(p) ==
  /\ ValidUrl(p.issuer) /\ ValidClient(p.client, p.secret)
  /\ ValidDomains(p.domains)
  /\ NormalizeRole(p.role) \in {"member", "admin"}

\* normalize_display_name and validate_password
ValidRegistration(name, password) == Filled(name) /\ password = "long enough"

\* oidc_providers_for_email_domain
ProvidersFor(email) == {o \in Orgs : DomainOf[email] \in orgs[o].provider.domains}

\* For the history only: do the providers of table os leave the email free?
FreeIn(os, email) ==
  \A o \in Orgs : DomainOf[email] \in os[o].provider.domains => ~os[o].provider.required

\* Mutant: only new accounts are asked to use the provider.
SsoRequired_NewOnly(email) ==
  UsersWith(email) = {} /\ \E o \in ProvidersFor(email) : orgs[o].provider.required

\* sso_required_for_email
SsoRequired(email) == \E o \in ProvidersFor(email) : orgs[o].provider.required

Issued == {t \in TokenIds : \/ apps.tokens[t].app # None
                            \/ \E h \in HookIds : hooks[h].token = t
                            \/ \E o \in Orgs : scim.token[o] = t} \cup history.retired

\* find_oidc_identity, by issuer and subject: a subject here is one of one issuer.
FindIdentity(subject) == {i \in identities : i.subject = subject}

\* find_bot_by_token_hash
FindBot(t) == apps.tokens[t].app # None /\ apps.tokens[t].active

\* token_by_hash: the organization a SCIM token belongs to.
FindScimToken(t) == {o \in Orgs : scim.token[o] = t}

\* verify, of a webhook and the token its URL holds.
Verified(h, t) == hooks[h].active /\ hooks[h].token = t

\* Whoever a token lets in.
Authenticates(t) ==
  FindBot(t) \/ FindScimToken(t) # {} \/ \E h \in HookIds : Verified(h, t)

FreshUser == Min({u \in UserIds : ~users[u].exists})
HasFreshUser == \E u \in UserIds : ~users[u].exists
FreshSession == Min({s \in SessionIds : sessions[s].state = "none"})
HasFreshSession == \E s \in SessionIds : sessions[s].state = "none"
FreshToken == Min(TokenIds \ Issued)
HasFreshToken == Issued # TokenIds

(***************************************************************************)
(* Statements.                                                             *)
(***************************************************************************)

\* Mutant: nothing makes emails unique.
EmailFree_Any(email) == TRUE

\* users.email is UNIQUE.
EmailFree(email) == email # Internal => UsersWith(email) = {}

CreateUser(email, password) ==
  /\ HasFreshUser
  /\ EmailFree(email)
  /\ users' = [users EXCEPT ![FreshUser] =
                 [exists |-> TRUE, email |-> email, password |-> password]]

CreateSession(session) ==
  /\ HasFreshSession
  /\ sessions' = [sessions EXCEPT ![FreshSession] = [session EXCEPT !.state = "live"]]

\* UNIQUE (issuer, subject) and UNIQUE (user_id, organization_id, issuer).
CreateIdentity(i) ==
  /\ \A j \in identities :
       /\ j.subject # i.subject
       /\ <<j.user, j.org, IssuerOf[j.subject]>> # <<i.user, i.org, IssuerOf[i.subject]>>
  /\ identities' = identities \cup {i}

RevokeSession(s) ==
  /\ sessions[s].state = "live"
  /\ sessions' = [sessions EXCEPT ![s].state = "revoked"]

\* upsert_oidc_provider: one row per organization.
UpsertProvider(o, provider) == orgs' = [orgs EXCEPT ![o].provider = provider]

\* rotate_token of SCIM: one row per organization, the new hash replaces the old.
UpsertScimToken(o) == HasFreshToken /\ scim' = [scim EXCEPT !.token[o] = FreshToken]

\* upsert_user: one row per organization and external id.
UpsertScimUser(o, x, u, active) ==
  scim' = [scim EXCEPT !.users[o][x] = [user |-> u, active |-> active]]

\* set_user_active
SetScimActive(o, x, active) ==
  /\ scim.users[o][x].user # None
  /\ scim' = [scim EXCEPT !.users[o][x].active = active]

InsertHook(h, o) ==
  /\ hooks[h].token = None
  /\ HasFreshToken
  /\ hooks' = [hooks EXCEPT ![h] = [active |-> TRUE, token |-> FreshToken, org |-> o]]

\* UPDATE ... WHERE status = 'active', of both.
UpdateHookToken(h) ==
  /\ hooks[h].active
  /\ HasFreshToken
  /\ hooks' = [hooks EXCEPT ![h].token = FreshToken]

DisableHook(h) ==
  /\ hooks[h].active
  /\ hooks' = [hooks EXCEPT ![h].active = FALSE]

(***************************************************************************)
(* Requests.                                                               *)
(***************************************************************************)
Counted == started < MaxRequests /\ started' = started + 1
Goes(q, r) == request' = [request EXCEPT ![q] = r]
At(q, op, step) == request[q].op = op /\ request[q].at = step
To(q, step) == Goes(q, [request[q] EXCEPT !.at = step])

Begin(q, r) ==
  /\ request[q] = Idle
  /\ Counted
  /\ Goes(q, r)
  /\ UNCHANGED tables

\* A billing event that ends here has changed the plan and not the row.
RequestEnds(q) ==
  /\ request[q] # Idle
  /\ Goes(q, Idle)
  /\ history' = [history EXCEPT !.torn =
                   IF At(q, "bill", "row") THEN @ \cup {request[q].org} ELSE @]
  /\ UNCHANGED <<users, sessions, identities, orgs, members, domains, scim, apps, hooks, started>>

(***************************************************************************)
(* Passwords.                                                              *)
(***************************************************************************)
PasswordBegin(q, op, typed) ==
  LET email == NormalizeEmail(typed)
  IN  /\ email # Invalid
      /\ Begin(q, [Idle EXCEPT !.op = op, !.at = "sso", !.email = email,
                                !.free = FreeIn(orgs, email)])

Register(q, typed, name, password) ==
  ValidRegistration(name, password) /\ PasswordBegin(q, "register", typed)

Login(q, typed) == PasswordBegin(q, "login", typed)

CheckSso(q) ==
  /\ request[q].at = "sso"
  /\ ~SsoRequired(request[q].email)
  /\ To(q, "find")
  /\ UNCHANGED <<tables, started>>

\* register: the email is free; the password is hashed before the user is stored.
RegisterFind(q) ==
  /\ At(q, "register", "find")
  /\ UsersWith(request[q].email) = {}
  /\ To(q, "create")
  /\ UNCHANGED <<tables, started>>

RegisterCreate(q) ==
  /\ At(q, "register", "create")
  /\ CreateUser(request[q].email, TRUE)
  /\ Goes(q, [request[q] EXCEPT !.user = FreshUser, !.at = "session"])
  /\ UNCHANGED <<sessions, identities, orgs, members, domains, scim, apps, hooks, started, history>>

\* verify_password: a marker is no password hash.
Verifies(u) == users[u].password

LoginFind(q) ==
  /\ At(q, "login", "find")
  /\ \E u \in UsersWith(request[q].email) :
       Verifies(u) /\ Goes(q, [request[q] EXCEPT !.user = u, !.at = "session"])
  /\ UNCHANGED <<tables, started>>

\* create_session_for_user; for a request of the identity provider the join is next.
OpenSession(q) ==
  LET r == request[q]
  IN  /\ r.at = "session"
      /\ CreateSession([NoSession EXCEPT !.user = r.user, !.subject = r.subject, !.free = r.free,
                          !.proof = IF r.op = "oidc" THEN "oidc" ELSE "password"])
      /\ Goes(q, IF r.op = "oidc" THEN [r EXCEPT !.at = "join"] ELSE Idle)
      /\ UNCHANGED <<users, identities, orgs, members, domains, scim, apps, hooks, started, history>>

Logout(s) ==
  /\ Counted
  /\ RevokeSession(s)
  /\ UNCHANGED <<users, identities, orgs, members, domains, scim, apps, hooks, request, history>>

(***************************************************************************)
(* OpenID Connect.  The assertion is verified and signed by the provider.  *)
(***************************************************************************)
OidcBegin(q, subject, typed) ==
  LET email == NormalizeEmail(typed)
  IN  /\ email # Invalid
      /\ Begin(q, [Idle EXCEPT !.op = "oidc", !.at = "provider", !.subject = subject,
                               !.email = email])

\* oidc_provider_for_issuer_and_domain
OidcProvider(q) ==
  /\ At(q, "oidc", "provider")
  /\ \E o \in ProvidersFor(request[q].email) :
       /\ orgs[o].provider.issuer = IssuerOf[request[q].subject]
       /\ Goes(q, [request[q] EXCEPT !.org = o, !.role = orgs[o].provider.role, !.at = "identity"])
  /\ UNCHANGED <<tables, started>>

OidcIdentity(q) ==
  LET r == request[q]
      known == FindIdentity(r.subject)
  IN  /\ At(q, "oidc", "identity")
      /\ IF known = {} THEN To(q, "by_email")
         ELSE \E i \in known : Goes(q, [r EXCEPT !.user = i.user, !.at = "session"])
      /\ UNCHANGED <<tables, started>>

OidcByEmail(q) ==
  LET r == request[q]
  IN  /\ At(q, "oidc", "by_email")
      /\ IF UsersWith(r.email) = {} THEN To(q, "create")
         ELSE \E u \in UsersWith(r.email) : Goes(q, [r EXCEPT !.user = u, !.at = "link"])
      /\ UNCHANGED <<tables, started>>

OidcCreate(q) ==
  /\ At(q, "oidc", "create")
  /\ CreateUser(request[q].email, FALSE)
  /\ Goes(q, [request[q] EXCEPT !.user = FreshUser, !.at = "link"])
  /\ UNCHANGED <<sessions, identities, orgs, members, domains, scim, apps, hooks, started, history>>

OidcLink(q) ==
  LET r == request[q]
  IN  /\ At(q, "oidc", "link")
      /\ CreateIdentity([subject |-> r.subject, user |-> r.user, org |-> r.org])
      /\ To(q, "session")
      /\ UNCHANGED <<users, sessions, orgs, members, domains, scim, apps, hooks, started, history>>

\* oidc_callback joins the organization after the session is there.
OidcJoin(q) ==
  LET r == request[q]
  IN  /\ At(q, "oidc", "join")
      /\ AddMember(r.org, r.user, r.role)
      /\ Goes(q, Idle)
      /\ UNCHANGED <<users, sessions, identities, orgs, domains, scim, apps, hooks, started, history>>

(***************************************************************************)
(* Organizations.                                                          *)
(***************************************************************************)

CreateOrganization(u, name) ==
  /\ Counted
  /\ LoggedIn(u)
  /\ CreateWithOptions(u, name, "free")
  /\ UNCHANGED <<users, sessions, identities, domains, scim, apps, hooks, request, history>>

ProvisionTenant(u, name, t) ==
  /\ Counted
  /\ LoggedIn(u)
  /\ ValidTenant(t)
  /\ CreateWithOptions(u, name, NormalizePlan(t.plan))
  /\ UNCHANGED <<users, sessions, identities, domains, scim, apps, hooks, request, history>>

\* A request only an administrator may make, after require_admin.
AdminBegin(q, u, o, step) ==
  /\ LoggedIn(u) /\ IsAdmin(o, u)
  /\ Begin(q, [Idle EXCEPT !.op = "admin", !.at = step, !.org = o])

\* configure_oidc_provider replaces the row.
ConfigureProvider(q, p) ==
  /\ At(q, "admin", "write")
  /\ ValidProvider(p)
  /\ UpsertProvider(request[q].org,
                    [domains |-> NormalizeDomains(p.domains), required |-> p.required,
                     role |-> NormalizeRole(p.role), issuer |-> p.issuer])
  /\ request' = [w \in Requests |->
                   IF w = q THEN Idle
                   ELSE [request[w] EXCEPT !.free = \/ @
                                                    \/ /\ request[w].email \in Emails
                                                       /\ FreeIn(orgs', request[w].email)]]
  /\ UNCHANGED <<users, sessions, identities, members, domains, scim, apps, hooks, started, history>>

\* Custom domains: the membership is read before the statements of the request.
DomainBegin(q, u, o) ==
  /\ LoggedIn(u) /\ IsMember(o, u)
  /\ Begin(q, [Idle EXCEPT !.op = "domain", !.at = "write", !.org = o])

CreateCustomDomain(q, name) ==
  /\ At(q, "domain", "write")
  /\ NormalizeHostname(name) # Invalid
  /\ InsertDomain(request[q].org, NormalizeHostname(name))
  /\ Goes(q, Idle)
  /\ UNCHANGED <<users, sessions, identities, orgs, members, scim, apps, hooks, started, history>>

\* verify_custom_domain: the token is the one the creation returned.
VerifyCustomDomain(q, h) ==
  /\ At(q, "domain", "write")
  /\ ActivateDomain(request[q].org, h)
  /\ Goes(q, Idle)
  /\ UNCHANGED <<users, sessions, identities, orgs, members, scim, apps, hooks, started, history>>

\* The request for it has passed require_admin.
UpsertWebhookPolicy(q, allow) ==
  LET o == request[q].org
  IN  /\ At(q, "admin", "write")
      /\ UpsertPolicy(o, allow)
      /\ request' = [w \in Requests |->
                       IF w = q THEN Idle
                       ELSE [request[w] EXCEPT !.free = \/ @
                                                        \/ /\ request[w].op = "execute"
                                                           /\ request[w].org = o /\ allow]]
      /\ UNCHANGED <<users, sessions, identities, members, domains, scim, apps, hooks, started, history>>

(***************************************************************************)
(* Billing: a logged-in caller reports an event of the provider; the plan  *)
(* is changed first, the billing row after it.                             *)
(***************************************************************************)
BillBegin(q, u, o, e) ==
  /\ LoggedIn(u)
  /\ ValidEvent(e)
  /\ Begin(q, [Idle EXCEPT !.op = "bill", !.at = "plan", !.org = o,
                           !.plan = NormalizePlan(e.plan)])

\* The events of o between their two statements.
HalfBilled(o) == {w \in Requests : At(w, "bill", "row") /\ request[w].org = o}

BillPlan(q) ==
  LET o == request[q].org
      others == HalfBilled(o)
  IN  /\ At(q, "bill", "plan")
      /\ UpdatePlan(o, request[q].plan)
      /\ request' = [w \in Requests |->
                       IF w = q THEN [request[w] EXCEPT !.at = "row", !.whole = (others = {})]
                       ELSE IF w \in others THEN [request[w] EXCEPT !.whole = FALSE]
                       ELSE request[w]]
      /\ history' = [history EXCEPT !.torn = IF others = {} THEN @ ELSE @ \cup {o}]
      /\ UNCHANGED <<users, sessions, identities, members, domains, scim, apps, hooks, started>>

\* An event that nothing overlapped leaves plan and row together again.
BillRow(q) ==
  LET r == request[q]
  IN  /\ At(q, "bill", "row")
      /\ UpsertBilling(r.org, r.plan)
      /\ Goes(q, Idle)
      /\ history' = [history EXCEPT !.torn = IF r.whole THEN @ \ {r.org} ELSE @]
      /\ UNCHANGED <<users, sessions, identities, members, domains, scim, apps, hooks, started>>

(***************************************************************************)
(* SCIM.                                                                   *)
(***************************************************************************)

RotateScimToken(q) ==
  LET o == request[q].org
  IN  /\ At(q, "admin", "write")
      /\ UpsertScimToken(o)
      /\ history' = [history EXCEPT !.retired = @ \cup ({scim.token[o]} \ {None})]
      /\ Goes(q, Idle)
      /\ UNCHANGED <<users, sessions, identities, orgs, members, domains, apps, hooks, started>>

\* config_for_token
HasScimToken(o) == scim.token[o] # None

\* The display name is the address when there is none.
ValidScimName(name) == NormalizeText(name) # Invalid

ProvisionBegin(q, o, x, typed, name, active) ==
  LET email == NormalizeEmail(typed)
  IN  /\ HasScimToken(o)
      /\ email # Invalid /\ ValidScimName(name)
      /\ Begin(q, [Idle EXCEPT !.op = "provision", !.at = "find", !.org = o, !.ext = x,
                               !.email = email, !.active = active])

\* What a PATCH may hold: operations on members other than active, and values
\* that are no Boolean, are not taken.
PatchValues == {"true", "false", "text", "other"}

\* active_patch_value
ActivePatch(v) == v = "true"
ValidPatch(v) == v \in {"true", "false"}

PatchBegin(q, o, x, v) ==
  /\ ValidPatch(v)
  /\ HasScimToken(o)
  /\ Begin(q, [Idle EXCEPT !.op = "patch", !.at = "row", !.org = o, !.ext = x,
                           !.active = ActivePatch(v)])

ScimFind(q) ==
  LET r == request[q]
  IN  /\ At(q, "provision", "find")
      /\ IF UsersWith(r.email) = {} THEN To(q, "create")
         ELSE \E u \in UsersWith(r.email) : Goes(q, [r EXCEPT !.user = u, !.at = "join"])
      /\ UNCHANGED <<tables, started>>

ScimCreate(q) ==
  /\ At(q, "provision", "create")
  /\ CreateUser(request[q].email, FALSE)
  /\ Goes(q, [request[q] EXCEPT !.user = FreshUser, !.at = "join"])
  /\ UNCHANGED <<sessions, identities, orgs, members, domains, scim, apps, hooks, started, history>>

ScimJoin(q) ==
  LET r == request[q]
  IN  /\ At(q, "provision", "join")
      /\ AddMember(r.org, r.user, "member")
      /\ To(q, IF r.active THEN "row" ELSE "deactivate")
      /\ UNCHANGED <<users, sessions, identities, orgs, domains, scim, apps, hooks, started, history>>

ScimDeactivate(q) ==
  LET r == request[q]
  IN  /\ At(q, "provision", "deactivate")
      /\ SetMemberStatus(r.org, r.user, FALSE)
      /\ To(q, "row")
      /\ UNCHANGED <<users, sessions, identities, orgs, domains, scim, apps, hooks, started, history>>

ScimUpsert(q) ==
  LET r == request[q]
  IN  /\ At(q, "provision", "row")
      /\ UpsertScimUser(r.org, r.ext, r.user, r.active)
      /\ Goes(q, Idle)
      /\ UNCHANGED <<users, sessions, identities, orgs, members, domains, apps, hooks, started, history>>

\* set_user_active: the row of scim_users first, the membership after it.
ScimPatch(q) ==
  LET r == request[q]
  IN  /\ At(q, "patch", "row")
      /\ SetScimActive(r.org, r.ext, r.active)
      /\ Goes(q, [r EXCEPT !.user = scim.users[r.org][r.ext].user, !.at = "member"])
      /\ UNCHANGED <<users, sessions, identities, orgs, members, domains, apps, hooks, started, history>>

ScimPatchMember(q) ==
  LET r == request[q]
  IN  /\ At(q, "patch", "member")
      /\ SetMemberStatus(r.org, r.user, r.active)
      /\ Goes(q, Idle)
      /\ UNCHANGED <<users, sessions, identities, orgs, domains, scim, apps, hooks, started, history>>

(***************************************************************************)
(* Bot applications: three statements without a transaction create one.    *)
(***************************************************************************)
\* normalize_name and normalize_description; an empty description is none.
ValidApplication(name, description) == Filled(name) /\ NormalizeText(description) # Invalid

AppCreateUser(q, name, description) ==
  /\ At(q, "admin", "create")
  /\ ValidApplication(name, description)
  /\ CreateUser(Internal, FALSE)
  /\ Goes(q, [request[q] EXCEPT !.user = FreshUser, !.at = "app"])
  /\ UNCHANGED <<sessions, identities, orgs, members, domains, scim, apps, hooks, started, history>>

AppCreate(q, a) ==
  /\ At(q, "admin", "app")
  /\ apps.user[a] = None
  /\ apps' = [apps EXCEPT !.user[a] = request[q].user, !.org[a] = request[q].org]
  /\ Goes(q, [request[q] EXCEPT !.app = a, !.at = "first_token"])
  /\ UNCHANGED <<users, sessions, identities, orgs, members, domains, scim, hooks, started, history>>

AppFirstToken(q) ==
  /\ At(q, "admin", "first_token")
  /\ HasFreshToken
  /\ apps' = [apps EXCEPT !.tokens[FreshToken] = [app |-> request[q].app, active |-> TRUE]]
  /\ Goes(q, Idle)
  /\ UNCHANGED <<users, sessions, identities, orgs, members, domains, scim, hooks, started, history>>

\* application_for_organization: nothing makes an application inactive.
OwnsApplication(o, a) == apps.org[a] = o

RotateBegin(q, u, o, a) ==
  /\ LoggedIn(u) /\ IsAdmin(o, u)
  /\ OwnsApplication(o, a)
  /\ Begin(q, [Idle EXCEPT !.op = "rotate", !.at = "update", !.org = o, !.app = a,
                           !.old = {t \in TokenIds : apps.tokens[t].app = a}])

\* Mutant: the application's first token is replaced, not the later ones.
ActiveTokens_First(a) ==
  LET all == {t \in TokenIds : apps.tokens[t].app = a}
  IN  {t \in all : apps.tokens[t].active /\ \A u \in all : t <= u}

ActiveTokens(a) == {t \in TokenIds : apps.tokens[t].app = a /\ apps.tokens[t].active}

\* The UPDATE of the transaction sees what is committed.  It waits for another
\* rotation's locks on the rows both deactivate; what it waits for changes
\* neither the rows it deactivates nor the other's new row, which it never sees.
RotateUpdate(q) ==
  /\ At(q, "rotate", "update")
  /\ Goes(q, [request[q] EXCEPT !.seen = ActiveTokens(request[q].app), !.at = "commit"])
  /\ UNCHANGED <<tables, started>>

\* INSERT and COMMIT.
RotateCommit(q) ==
  LET r == request[q]
  IN  /\ At(q, "rotate", "commit")
      /\ HasFreshToken
      /\ apps' = [apps EXCEPT !.tokens = [t \in TokenIds |->
                    IF t = FreshToken THEN [app |-> r.app, active |-> TRUE]
                    ELSE IF t \in r.seen THEN [@[t] EXCEPT !.active = FALSE] ELSE @[t]]]
      /\ history' = [history EXCEPT !.retired = @ \cup r.old]
      /\ Goes(q, Idle)
      /\ UNCHANGED <<users, sessions, identities, orgs, members, domains, scim, hooks, started>>

\* invite_to_space, as far as the organization goes.
InviteBot(q, a) ==
  /\ At(q, "admin", "write")
  /\ OwnsApplication(request[q].org, a)
  /\ AddMember(request[q].org, apps.user[a], "member")
  /\ Goes(q, Idle)
  /\ UNCHANGED <<users, sessions, identities, orgs, domains, scim, apps, hooks, started, history>>

(***************************************************************************)
(* Incoming webhooks; who may manage a channel is AccessControl's.         *)
(***************************************************************************)
HookBegin(q, o, name) ==
  /\ orgs[o].exists
  /\ Filled(name)
  /\ Begin(q, [Idle EXCEPT !.op = "admin", !.at = "hook", !.org = o])

\* The webhook's user first, the webhook after it.
HookCreateUser(q) ==
  /\ At(q, "admin", "hook") /\ request[q].user = None
  /\ CreateUser(Internal, FALSE)
  /\ Goes(q, [request[q] EXCEPT !.user = FreshUser])
  /\ UNCHANGED <<sessions, identities, orgs, members, domains, scim, apps, hooks, started, history>>

HookCreate(q, h) ==
  /\ At(q, "admin", "hook") /\ request[q].user # None
  /\ InsertHook(h, request[q].org)
  /\ Goes(q, Idle)
  /\ UNCHANGED <<users, sessions, identities, orgs, members, domains, scim, apps, started, history>>

\* The caller manages the webhook's channel.
HookRotate(h) ==
  /\ Counted
  /\ UpdateHookToken(h)
  /\ history' = [history EXCEPT !.retired = @ \cup {hooks[h].token}]
  /\ UNCHANGED <<users, sessions, identities, orgs, members, domains, scim, apps, request>>

HookDisable(h) ==
  /\ Counted
  /\ DisableHook(h)
  /\ history' = [history EXCEPT !.retired = @ \cup {hooks[h].token}]
  /\ UNCHANGED <<users, sessions, identities, orgs, members, domains, scim, apps, request>>

\* Executing a webhook: its token is verified, then the policy is read, then the
\* message is stored under the name the request asks for or the webhook's own.
ExecuteBegin(q, h, t) ==
  /\ Verified(h, t)
  /\ Begin(q, [Idle EXCEPT !.op = "execute", !.at = "policy", !.org = hooks[h].org,
                           !.free = AllowsOverrides(hooks[h].org)])

\* Mutant: the policy is not asked for.
Overrides_Any(o, username) == NormalizeText(username) # ""

\* normalize_webhook_username: an empty name is none; one that is too long is
\* refused, unless the policy drops it.
Overrides(o, username) == AllowsOverrides(o) /\ NormalizeText(username) # ""

ExecutePolicy(q, username) ==
  /\ At(q, "execute", "policy")
  /\ AllowsOverrides(request[q].org) => NormalizeText(username) # Invalid
  /\ Goes(q, [request[q] EXCEPT !.override = Overrides(request[q].org, username),
                                !.at = "message"])
  /\ UNCHANGED <<tables, started>>

ExecuteStore(q) ==
  /\ At(q, "execute", "message")
  /\ history' = [history EXCEPT !.posted = @ \cup
                   {[override |-> request[q].override, allowed |-> request[q].free]}]
  /\ Goes(q, Idle)
  /\ UNCHANGED <<users, sessions, identities, orgs, members, domains, scim, apps, hooks, started>>

(***************************************************************************)
(* The specification.                                                      *)
(***************************************************************************)
\* What a free handler may be asked to do.
Receive(q) ==
  /\ request[q].op = "idle" /\ started < MaxRequests
  /\ \/ \E t \in Typed :
          \/ \E n \in Text, p \in PasswordLengths : Register(q, t, n, p)
          \/ Login(q, t)
          \/ \E s \in Subjects : OidcBegin(q, s, t)
     \/ \E o \in Orgs :
          \/ \E x \in ExternalIds, t \in Typed, n \in Text, b \in BOOLEAN :
               ProvisionBegin(q, o, x, t, n, b)
          \/ \E x \in ExternalIds, v \in PatchValues : PatchBegin(q, o, x, v)
          \/ \E n \in Text : HookBegin(q, o, n)
          \/ \E u \in UserIds :
               \/ \E step \in {"write", "create"} : AdminBegin(q, u, o, step)
               \/ DomainBegin(q, u, o)
               \/ \E a \in AppIds : RotateBegin(q, u, o, a)
               \/ \E e \in BillingEvents : BillBegin(q, u, o, e)
     \/ \E h \in HookIds, t \in TokenIds : ExecuteBegin(q, h, t)

Passwords(q) ==
  CheckSso(q) \/ RegisterFind(q) \/ RegisterCreate(q) \/ LoginFind(q) \/ OpenSession(q)

Oidc(q) ==
  \/ OidcProvider(q) \/ OidcIdentity(q) \/ OidcByEmail(q) \/ OidcCreate(q) \/ OidcLink(q)
  \/ OidcJoin(q)

Scim(q) ==
  \/ ScimFind(q) \/ ScimCreate(q) \/ ScimJoin(q) \/ ScimDeactivate(q) \/ ScimUpsert(q)
  \/ ScimPatch(q) \/ ScimPatchMember(q)

\* The requests of administrators, members, managers of channels and billing.
Manage(q) ==
  \/ \E p \in Providers : ConfigureProvider(q, p)
  \/ \E allow \in BOOLEAN : UpsertWebhookPolicy(q, allow)
  \/ RotateScimToken(q)
  \/ \E n, d \in Text : AppCreateUser(q, n, d)
  \/ \E a \in AppIds : AppCreate(q, a) \/ InviteBot(q, a)
  \/ AppFirstToken(q) \/ RotateUpdate(q) \/ RotateCommit(q)
  \/ HookCreateUser(q) \/ \E h \in HookIds : HookCreate(q, h)
  \/ (\E n \in HostNames : CreateCustomDomain(q, n)) \/ \E h \in Hosts : VerifyCustomDomain(q, h)
  \/ BillPlan(q) \/ BillRow(q)

Execute(q) == (\E n \in Text : ExecutePolicy(q, n)) \/ ExecuteStore(q)

Proceed(q) ==
  /\ request[q].op # "idle"
  /\ Passwords(q) \/ Oidc(q) \/ Scim(q) \/ Manage(q) \/ Execute(q) \/ RequestEnds(q)

Next ==
  \/ \E q \in Requests : Receive(q) \/ Proceed(q)
  \/ \E s \in SessionIds : Logout(s)
  \/ \E u \in UserIds, n \in Names :
       CreateOrganization(u, n) \/ \E t \in Tenants : ProvisionTenant(u, n, t)
  \/ \E h \in HookIds : HookRotate(h) \/ HookDisable(h)

Spec == Init /\ [][Next]_vars

(***************************************************************************)
(* Properties.                                                             *)
(***************************************************************************)

\* However registrations, first logins through the provider and SCIM race for
\* one address: an address has one account; a session opened with a password is
\* of an account that has one; a session opened by the provider is of the account
\* its subject is linked to, and of no second one.
OneAccount ==
  /\ \A e \in Emails : Cardinality(UsersWith(e)) <= 1
  /\ \A i, j \in identities : i.subject = j.subject => i = j
  /\ \A s \in SessionIds :
       sessions[s].state # "none" =>
         IF sessions[s].proof = "password" THEN users[sessions[s].user].password
         ELSE \E i \in identities : /\ i.subject = sessions[s].subject
                                    /\ i.user = sessions[s].user

\* A password request during whose whole life some organization requires single
\* sign-on for the address never yields a session, whatever administrators
\* configure while it runs and whichever of them stops requiring it.
SsoHolds ==
  \A s \in SessionIds :
    sessions[s].state # "none" /\ sessions[s].proof = "password" => sessions[s].free

\* A bot, webhook or SCIM token that existed when a completed rotation began
\* lets nobody in any more, although two rotations of one bot token may run at
\* the same time and leave two new tokens active.
RotatedOut == \A t \in history.retired : ~Authenticates(t)

\* The plan an organization has is the one its billing row names, whenever no
\* event is between its two statements and the last one was neither cut off
\* there nor overlapped by another: one undisturbed event puts right whatever
\* earlier ones left apart.
PlanAsBilled ==
  \A o \in Orgs :
    orgs[o].billing # NoPlan /\ HalfBilled(o) = {} /\ o \notin history.torn
      => orgs[o].plan = orgs[o].billing

\* A webhook's message appears under another name only if the organization
\* allowed that at some moment of the very request, although the policy is read
\* before the message is stored and administrators change it in between.
OverridesHold == \A p \in history.posted : p.override => p.allowed
=============================================================================
