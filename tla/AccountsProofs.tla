---------------------------- MODULE AccountsProofs ----------------------------
(***************************************************************************)
(* Theorems about Accounts and Organizations, for any number of users,     *)
(* organizations, tokens and racing requests.                              *)
(***************************************************************************)
EXTENDS Accounts, FiniteSetTheorems, WellFoundedInduction, TLAPS

(***************************************************************************)
(* The inductive invariant: the tables, and what each request relies on    *)
(* between two statements.                                                 *)
(***************************************************************************)

\* One account per address, one identity per subject.
AccountsHold ==
  /\ \A u, v \in UserIds :
       users[u].exists /\ users[v].exists /\ users[u].email = users[v].email
         /\ users[u].email # Internal => u = v
  /\ \A i, j \in identities : i.subject = j.subject => i = j

HasPassword(u) == u \in UserIds /\ users[u].exists /\ users[u].password
Linked(subject, u) == \E i \in identities : i.subject = subject /\ i.user = u

SessionHolds(s) ==
  s.state # "none" =>
    IF s.proof = "password" THEN HasPassword(s.user) /\ s.free ELSE Linked(s.subject, s.user)

\* A token is in one row of one table at most.
TokenApart(t) ==
  /\ \A h \in HookIds :
       hooks[h].token = t =>
         /\ apps.tokens[t].app = None /\ \A o \in Orgs : scim.token[o] # t
         /\ \A g \in HookIds : hooks[g].token = t => g = h
  /\ \A o \in Orgs :
       scim.token[o] = t =>
         apps.tokens[t].app = None /\ \A p \in Orgs : scim.token[p] = t => p = o

HookHolds(h) ==
  h.active => h.token \in TokenIds /\ h.org \in Orgs /\ orgs[h.org].exists

TokensInv ==
  /\ \A t \in TokenIds : TokenApart(t)
  /\ \A h \in HookIds : HookHolds(hooks[h])
  /\ RotatedOut

\* What a request relies on.  A rotation has seen every active token of those
\* there were; a webhook's organization exists.
RequestHolds(r) ==
  /\ r.at = "sso" =>
       /\ r.op \in {"register", "login"} /\ r.email \in Emails
       /\ FreeIn(orgs, r.email) => r.free
  /\ r.op \in {"register", "login"} /\ r.at \in {"find", "create", "session"} => r.free
  /\ r.at = "session" =>
       /\ r.op \in {"register", "login", "oidc"}
       /\ IF r.op = "oidc" THEN Linked(r.subject, r.user) ELSE HasPassword(r.user)
  /\ r.op = "oidc" => r.subject \in Subjects
  /\ r.op = "oidc" /\ r.at \notin {"provider", "idle"} => r.org \in Orgs
  /\ r.op = "oidc" /\ r.at \in {"link", "session", "join"} => r.user \in UserIds
  /\ r.op = "patch" => r.org \in Orgs /\ r.ext \in ExternalIds
  /\ r.op = "rotate" => r.app # None /\ \A t \in r.old : apps.tokens[t].app = r.app
  /\ r.op = "rotate" /\ r.at = "commit" => \A t \in r.old : t \in r.seen \/ ~apps.tokens[t].active
  /\ r.op = "rotate" => \A t \in r.seen : apps.tokens[t].app = r.app
  /\ r.op = "admin" => r.org \in Orgs
  /\ r.op = "admin" /\ r.at = "hook" => orgs[r.org].exists
  /\ r.op = "execute" =>
       /\ r.org \in Orgs /\ orgs[r.org].exists
       /\ r.at = "policy" /\ orgs[r.org].overrides => r.free
       /\ r.at = "message" /\ r.override => r.free
  /\ r.op = "bill" => r.org \in Orgs
  /\ r.op = "bill" /\ r.at = "row" => orgs[r.org].exists

\* A billing event between its two statements: nothing else is there when it is
\* whole, and otherwise the organization counts as torn.
BillHolds(w) ==
  At(w, "bill", "row") =>
    LET o == request[w].org
    IN  IF request[w].whole THEN HalfBilled(o) = {w} /\ orgs[o].plan = request[w].plan
        ELSE o \in history.torn

BillingInv ==
  /\ \A w \in Requests : BillHolds(w)
  /\ \A o \in Orgs : ~orgs[o].exists => orgs[o].billing = NoPlan
  /\ PlanAsBilled

AccountsInv ==
  /\ TypeOK
  /\ AccountsHold /\ (\A s \in SessionIds : SessionHolds(sessions[s]))
  /\ TokensInv /\ OverridesHold
  /\ \A q \in Requests : RequestHolds(request[q])
  /\ BillingInv

(***************************************************************************)
(* Types.                                                                  *)
(***************************************************************************)
LEMMA Constants ==
  /\ 1 \in UserIds /\ None \notin UserIds /\ None \notin TokenIds /\ None = 0
  /\ UserIds \subseteq Nat /\ SessionIds \subseteq Nat /\ TokenIds \subseteq Nat
  /\ MaxRequests \in Nat /\ Owner \in Emails /\ Internal \notin Emails /\ Founded \in Orgs
BY OrganizationsAssumption, AccountsAssumption DEF None

LEMMA Blanks ==
  /\ NoUser \in User /\ NoSession \in Session /\ NoHook \in Hook /\ NoMember \in Member
  /\ NoOrganization \in Organization /\ Idle \in Request
<1>1. NoUser \in User
  BY DEF NoUser, User
<1>2. NoSession \in Session
  BY DEF NoSession, Session
<1>3. NoHook \in Hook
  BY DEF NoHook, Hook
<1>4. NoMember \in Member
  BY DEF NoMember, Member
<1>5. NoOrganization \in Organization
  BY DEF NoOrganization, Organization, NoProvider, ProviderType, Plans
<1>6. Idle \in Request
  BY DEF Idle, Request, Ops, Steps, Plans
<1> QED BY <1>1, <1>2, <1>3, <1>4, <1>5, <1>6

\* The typing of each table, to be cited alone.
LEMMA Typed1 ==
  ASSUME TypeOK
  PROVE  /\ users \in [UserIds -> User] /\ sessions \in [SessionIds -> Session]
         /\ identities \subseteq Identity /\ orgs \in [Orgs -> Organization]
         /\ members \in [Orgs -> [UserIds -> Member]] /\ domains \in [Hosts -> CustomDomain]
         /\ hooks \in [HookIds -> Hook] /\ request \in [Requests -> Request]
         /\ scim \in [token : [Orgs -> TokenIds \cup {None}],
                     users : [Orgs -> [ExternalIds -> ScimUser]]]
         /\ apps \in [user : [AppIds -> UserIds \cup {None}], org : [AppIds -> Orgs \cup {None}],
                     tokens : [TokenIds -> BotToken]]
         /\ started \in 0..MaxRequests /\ history \in History
BY DEF TypeOK

(***************************************************************************)
(* What a step may do to the tables as far as waiting requests go.         *)
(***************************************************************************)

\* Users and organizations stay, identities grow, a token that was issued to an
\* application stays issued and is not activated again.
TablesAge ==
  /\ \A u \in UserIds :
       users[u].exists => users'[u].exists /\ users'[u].password = users[u].password
  /\ identities \subseteq identities'
  /\ \A t \in TokenIds :
       apps.tokens[t].app # None =>
         /\ apps'.tokens[t].app = apps.tokens[t].app
         /\ apps'.tokens[t].active => apps.tokens[t].active
  /\ \A o \in Orgs : orgs[o].exists => orgs'[o].exists

\* Nothing a request waits to be told about organizations changes.
RulesStay ==
  \A o \in Orgs : orgs'[o].provider = orgs[o].provider /\ orgs'[o].overrides = orgs[o].overrides

LEMMA FreeStays ==
  ASSUME RulesStay, NEW e PROVE FreeIn(orgs', e) <=> FreeIn(orgs, e)
BY DEF RulesStay, FreeIn

LEMMA LinkedAges ==
  ASSUME TablesAge, NEW s, NEW u, Linked(s, u) PROVE Linked(s, u)'
BY DEF TablesAge, Linked

LEMMA PasswordAges ==
  ASSUME TablesAge, NEW u, HasPassword(u) PROVE HasPassword(u)'
BY DEF TablesAge, HasPassword

\* A request that is not moved keeps what it relies on.
LEMMA RequestKept ==
  ASSUME TablesAge, RulesStay, NEW r \in Request, RequestHolds(r)
  PROVE  RequestHolds(r)'
<1>1. r.old \subseteq TokenIds /\ r.seen \subseteq TokenIds
  BY DEF Request
<1>2. FreeIn(orgs', r.email) <=> FreeIn(orgs, r.email)
  BY FreeStays
<1>3. (r.at = "sso" =>
         /\ r.op \in {"register", "login"} /\ r.email \in Emails
         /\ FreeIn(orgs, r.email) => r.free)'
  BY <1>2 DEF RequestHolds
<1>4. (r.at = "session" =>
         /\ r.op \in {"register", "login", "oidc"}
         /\ IF r.op = "oidc" THEN Linked(r.subject, r.user) ELSE HasPassword(r.user))'
  BY LinkedAges, PasswordAges DEF RequestHolds
<1>5. /\ (r.op = "rotate" => r.app # None /\ \A t \in r.old : apps.tokens[t].app = r.app)'
      /\ (r.op = "rotate" => \A t \in r.seen : apps.tokens[t].app = r.app)'
  BY <1>1 DEF RequestHolds, TablesAge
<1>6. (r.op = "rotate" /\ r.at = "commit" =>
         \A t \in r.old : t \in r.seen \/ ~apps.tokens[t].active)'
  <2> SUFFICES ASSUME r.op = "rotate", r.at = "commit", NEW t \in r.old, t \notin r.seen
               PROVE  ~apps'.tokens[t].active
    OBVIOUS
  <2>1. apps.tokens[t].app # None /\ ~apps.tokens[t].active /\ t \in TokenIds
    BY <1>1 DEF RequestHolds
  <2> QED BY <2>1 DEF TablesAge
<1>7. /\ (r.op = "admin" /\ r.at = "hook" => orgs[r.org].exists)'
      /\ (r.op = "bill" /\ r.at = "row" => orgs[r.org].exists)'
  BY DEF RequestHolds, TablesAge
<1>8. (r.op = "execute" =>
         /\ r.org \in Orgs /\ orgs[r.org].exists
         /\ r.at = "policy" /\ orgs[r.org].overrides => r.free
         /\ r.at = "message" /\ r.override => r.free)'
  BY DEF RequestHolds, TablesAge, RulesStay
<1>9. /\ r.op \in {"register", "login"} /\ r.at \in {"find", "create", "session"} => r.free
      /\ r.op = "oidc" => r.subject \in Subjects
      /\ r.op = "oidc" /\ r.at \notin {"provider", "idle"} => r.org \in Orgs
      /\ r.op = "oidc" /\ r.at \in {"link", "session", "join"} => r.user \in UserIds
      /\ r.op = "admin" => r.org \in Orgs
      /\ r.op = "patch" => r.org \in Orgs /\ r.ext \in ExternalIds
      /\ r.op = "bill" => r.org \in Orgs
  BY DEF RequestHolds
<1> QED BY <1>3, <1>4, <1>5, <1>6, <1>7, <1>8, <1>9 DEF RequestHolds

LEMMA SessionKept ==
  ASSUME TablesAge, NEW s, SessionHolds(s) PROVE SessionHolds(s)'
<1>1. CASE s.proof = "password"
  BY <1>1, PasswordAges DEF SessionHolds
<1>2. CASE s.proof # "password"
  BY <1>2, LinkedAges DEF SessionHolds
<1> QED BY <1>1, <1>2

LEMMA IdleHolds == RequestHolds(Idle)'
BY DEF RequestHolds, Idle

(***************************************************************************)
(* Billing, when no event of it moves.                                     *)
(***************************************************************************)
HalfWay(r) == r.op = "bill" /\ r.at = "row"

\* Requests between the two statements of billing stay there, and no new ones come.
BillsStay ==
  /\ \A w \in Requests : HalfWay(request'[w]) <=> HalfWay(request[w])
  /\ \A w \in Requests :
       HalfWay(request[w]) => /\ request'[w].org = request[w].org
                              /\ request'[w].plan = request[w].plan
                              /\ request'[w].whole = request[w].whole

LEMMA HalfBilledStays ==
  ASSUME BillsStay, NEW o PROVE HalfBilled(o)' = HalfBilled(o)
BY DEF BillsStay, HalfBilled, HalfWay, At

\* A step that leaves billing rows and the plans of existing organizations alone.
LEMMA BillingKept ==
  ASSUME BillingInv, \A w \in Requests : RequestHolds(request[w]), BillsStay,
         history'.torn = history.torn,
         \A o \in Orgs : orgs'[o].billing = orgs[o].billing,
         \A o \in Orgs : orgs[o].exists => orgs'[o].exists /\ orgs'[o].plan = orgs[o].plan
  PROVE  BillingInv'
<1>1. \A o : HalfBilled(o)' = HalfBilled(o)
  BY HalfBilledStays
<1>2. ASSUME NEW w \in Requests PROVE BillHolds(w)'
  <2> SUFFICES ASSUME HalfWay(request'[w]) PROVE BillHolds(w)'
    BY DEF BillHolds, At, HalfWay
  <2>1. HalfWay(request[w]) /\ request'[w].org = request[w].org
        /\ request'[w].plan = request[w].plan /\ request'[w].whole = request[w].whole
    BY DEF BillsStay
  <2>2. request[w].org \in Orgs /\ orgs[request[w].org].exists
    BY <2>1 DEF RequestHolds, HalfWay
  <2>3. BillHolds(w)
    BY DEF BillingInv
  <2>4. HalfBilled(request[w].org)' = HalfBilled(request'[w].org)
    BY <1>1, <2>1
  <2> QED BY <1>1, <2>1, <2>2, <2>3 DEF BillHolds, At, HalfWay
<1>3. \A o \in Orgs : ~orgs'[o].exists => orgs'[o].billing = NoPlan
  BY DEF BillingInv
<1>4. PlanAsBilled'
  <2> SUFFICES ASSUME NEW o \in Orgs, orgs'[o].billing # NoPlan, HalfBilled(o)' = {},
                      o \notin history'.torn
               PROVE  orgs'[o].plan = orgs'[o].billing
    BY DEF PlanAsBilled
  <2>1. orgs[o].billing # NoPlan /\ HalfBilled(o) = {} /\ o \notin history.torn
    BY <1>1
  <2>2. orgs[o].plan = orgs[o].billing /\ orgs[o].exists
    BY <2>1 DEF BillingInv, PlanAsBilled
  <2> QED BY <2>2
<1> QED BY <1>2, <1>3, <1>4 DEF BillingInv

(***************************************************************************)
(* A step, put together from what it does to each table.                   *)
(***************************************************************************)

\* A request that does not move, or one that comes to hold what it relies on
\* and is between the statements of billing neither before nor after.
Settled(w) ==
  \/ request'[w] = request[w]
  \/ RequestHolds(request[w])' /\ ~HalfWay(request[w]) /\ ~HalfWay(request'[w])

Calm(w) == request'[w] = request[w] \/ RequestHolds(request[w])'

\* Plans and billing rows of the organizations there are stay.
PlansStay ==
  /\ history'.torn = history.torn
  /\ \A o \in Orgs : orgs'[o].billing = orgs[o].billing
  /\ \A o \in Orgs : orgs[o].exists => orgs'[o].exists /\ orgs'[o].plan = orgs[o].plan

SessionsHold == \A s \in SessionIds : SessionHolds(sessions[s])
RequestsHold == \A q \in Requests : RequestHolds(request[q])

LEMMA Parts ==
  AccountsInv <=> /\ TypeOK /\ AccountsHold /\ SessionsHold /\ TokensInv /\ OverridesHold
                  /\ RequestsHold /\ BillingInv
BY DEF AccountsInv, SessionsHold, RequestsHold

LEMMA RequestsKept ==
  ASSUME TypeOK, RequestsHold, TablesAge, RulesStay, \A w \in Requests : Calm(w)
  PROVE  RequestsHold'
<1> SUFFICES ASSUME NEW w \in Requests PROVE RequestHolds(request[w])'
  BY DEF RequestsHold
<1>1. CASE request'[w] = request[w]
  <2>1. PICK r \in Request : r = request[w]
    BY Typed1
  <2>2. RequestHolds(r)'
    BY <2>1, RequestKept DEF RequestsHold
  <2> QED BY <1>1, <2>1, <2>2 DEF RequestHolds
<1> QED BY <1>1 DEF Calm

LEMMA BillsSettled ==
  ASSUME \A w \in Requests : Settled(w) PROVE BillsStay
BY DEF BillsStay, Settled

\* What is left to show of a step that keeps plans and rules.
LEMMA Whole ==
  ASSUME AccountsInv, TypeOK', TablesAge, RulesStay, PlansStay, \A w \in Requests : Settled(w),
         AccountsHold', SessionsHold', TokensInv', OverridesHold'
  PROVE  AccountsInv'
<1>1. TypeOK /\ RequestsHold /\ BillingInv
  BY Parts
<1>2. RequestsHold'
  <2>1. \A w \in Requests : Calm(w)
    BY DEF Calm, Settled
  <2> QED BY <1>1, <2>1, RequestsKept
<1>3. BillingInv'
  BY <1>1, BillsSettled, BillingKept DEF PlansStay, RequestsHold
<1> QED BY <1>2, <1>3 DEF AccountsInv, SessionsHold, RequestsHold

\* Parts that a step leaves alone.
LEMMA AccountsSame ==
  ASSUME AccountsHold, UNCHANGED <<users, identities>> PROVE AccountsHold'
BY DEF AccountsHold

LEMMA SessionsSame ==
  ASSUME SessionsHold, TablesAge, UNCHANGED sessions PROVE SessionsHold'
<1> SUFFICES ASSUME NEW s \in SessionIds PROVE SessionHolds(sessions[s])'
  BY DEF SessionsHold
<1>1. PICK x : x = sessions[s]
  OBVIOUS
<1>2. SessionHolds(x)'
  BY <1>1, SessionKept DEF SessionsHold
<1> QED BY <1>1, <1>2 DEF SessionHolds

LEMMA TokensSame ==
  ASSUME TokensInv, UNCHANGED hooks, apps'.tokens = apps.tokens, scim'.token = scim.token,
         history'.retired = history.retired,
         \A o \in Orgs : orgs[o].exists => orgs'[o].exists
  PROVE  TokensInv'
<1>1. ASSUME NEW t \in TokenIds PROVE TokenApart(t)'
  BY DEF TokensInv, TokenApart
<1>2. ASSUME NEW h \in HookIds PROVE HookHolds(hooks[h])'
  BY DEF TokensInv, HookHolds
<1>3. RotatedOut'
  BY DEF TokensInv, RotatedOut, Authenticates, FindBot, FindScimToken, Verified
<1> QED BY <1>1, <1>2, <1>3 DEF TokensInv

LEMMA OverridesSame ==
  ASSUME OverridesHold, history'.posted = history.posted PROVE OverridesHold'
BY DEF OverridesHold

\* One request moves, or none.
LEMMA OneMoves ==
  ASSUME TypeOK, NEW q \in Requests, NEW r \in Request, Goes(q, r),
         ~HalfWay(request[q]), ~HalfWay(r), RequestHolds(r)'
  PROVE  request' \in [Requests -> Request] /\ \A w \in Requests : Settled(w)
<1>1. request \in [Requests -> Request]
  BY Typed1
<1>2. request' = [request EXCEPT ![q] = r]
  BY DEF Goes
<1>3. request' \in [Requests -> Request] /\ request'[q] = r
  BY <1>1, <1>2
<1>4. ASSUME NEW w \in Requests PROVE Settled(w)
  <2>1. CASE w = q
    <3>1. RequestHolds(request[w])'
      BY <1>3, <2>1 DEF RequestHolds
    <3> QED BY <1>3, <2>1, <3>1 DEF Settled
  <2>2. CASE w # q
    BY <1>1, <1>2, <2>2 DEF Settled
  <2> QED BY <2>1, <2>2
<1> QED BY <1>3, <1>4

\* Steps that touch neither accounts nor credentials: they move one request, and
\* may change members and host names.
LEMMA Moves ==
  ASSUME AccountsInv, UNCHANGED <<users, sessions, identities, orgs, scim, apps, hooks, history>>,
         members' \in [Orgs -> [UserIds -> Member]], domains' \in [Hosts -> CustomDomain],
         started' \in 0..MaxRequests, request' \in [Requests -> Request],
         \A w \in Requests : Settled(w)
  PROVE  AccountsInv'
<1>1. TypeOK /\ AccountsHold /\ SessionsHold /\ TokensInv /\ OverridesHold
  BY Parts
<1>2. TypeOK'
  BY <1>1 DEF TypeOK
<1>3. TablesAge /\ RulesStay /\ PlansStay
  BY DEF TablesAge, RulesStay, PlansStay
<1>4. AccountsHold' /\ SessionsHold'
  BY <1>1, <1>3, AccountsSame, SessionsSame
<1>5. TokensInv' /\ OverridesHold'
  BY <1>1, TokensSame, OverridesSame
<1> QED BY <1>2, <1>3, <1>4, <1>5, Whole

\* RequestHolds of a constant, over tables that stay.
LEMMA HoldsStill ==
  ASSUME UNCHANGED <<users, identities, orgs, apps>>, NEW r, RequestHolds(r)
  PROVE  RequestHolds(r)'
BY DEF RequestHolds, Linked, HasPassword

LEMMA Steps1 ==
  ASSUME AccountsInv, UNCHANGED tables, started' \in 0..MaxRequests,
         NEW q \in Requests, NEW r \in Request, Goes(q, r),
         ~HalfWay(request[q]), ~HalfWay(r), RequestHolds(r)
  PROVE  AccountsInv'
<1>1. UNCHANGED <<users, sessions, identities, orgs, members, domains, scim, apps, hooks, history>>
  BY DEF tables
<1>2. TypeOK
  BY Parts
<1>3. RequestHolds(r)'
  BY <1>1, HoldsStill
<1>4. request' \in [Requests -> Request] /\ \A w \in Requests : Settled(w)
  BY <1>2, <1>3, OneMoves
<1>5. members' \in [Orgs -> [UserIds -> Member]] /\ domains' \in [Hosts -> CustomDomain]
  BY <1>1, <1>2, Typed1
<1> QED BY <1>1, <1>4, <1>5, Moves

(***************************************************************************)
(* Requests begin, and read.                                               *)
(***************************************************************************)
LEMMA CountedTyped ==
  ASSUME TypeOK, Counted PROVE started' \in 0..MaxRequests
<1>1. started \in 0..MaxRequests /\ MaxRequests \in Nat
  BY Typed1, Constants
<1> QED BY <1>1 DEF Counted

LEMMA Begins ==
  ASSUME AccountsInv, NEW q \in Requests, NEW r \in Request, Begin(q, r), ~HalfWay(r),
         RequestHolds(r)
  PROVE  AccountsInv'
<1>1. started' \in 0..MaxRequests
  BY Parts, CountedTyped DEF Begin
<1>2. ~HalfWay(request[q])
  BY DEF Begin, HalfWay, Idle
<1> QED BY <1>1, <1>2, Steps1 DEF Begin

LEMMA Emailed ==
  ASSUME NEW t \in Typed, NormalizeEmail(t) # Invalid PROVE NormalizeEmail(t) \in Emails
BY AccountsAssumption DEF NormalizeEmail

LEMMA PasswordBegins ==
  ASSUME AccountsInv, NEW q \in Requests, NEW t \in Typed, NEW op \in {"register", "login"},
         PasswordBegin(q, op, t)
  PROVE  AccountsInv'
<1> DEFINE e == NormalizeEmail(t)
           r == [Idle EXCEPT !.op = op, !.at = "sso", !.email = e, !.free = FreeIn(orgs, e)]
<1>1. e \in Emails /\ Begin(q, r)
  BY Emailed DEF PasswordBegin
<1>2. FreeIn(orgs, e) \in BOOLEAN
  BY DEF FreeIn
<1>3. r \in Request
  <2> HIDE DEF e
  <2> QED BY <1>1, <1>2, Blanks, ZenonT(60) DEF Request, Ops, Steps, Idle
<1>4. r.op = op /\ r.at = "sso" /\ r.email = e /\ r.free = FreeIn(orgs, e)
  <2> HIDE DEF e
  <2> QED BY DEF Idle
<1>5. RequestHolds(r) /\ ~HalfWay(r)
  <2> HIDE DEF r, e
  <2> QED BY <1>1, <1>4 DEF RequestHolds, HalfWay
<1> HIDE DEF r, e
<1> QED BY <1>1, <1>3, <1>5, Begins

LEMMA OidcBegins ==
  ASSUME AccountsInv, NEW q \in Requests, NEW t \in Typed, NEW s \in Subjects, OidcBegin(q, s, t)
  PROVE  AccountsInv'
<1> DEFINE e == NormalizeEmail(t)
           r == [Idle EXCEPT !.op = "oidc", !.at = "provider", !.subject = s, !.email = e]
<1>1. e \in Emails /\ Begin(q, r)
  BY Emailed DEF OidcBegin
<1>2. r \in Request /\ r.op = "oidc" /\ r.at = "provider" /\ r.subject = s
  <2> HIDE DEF e
  <2> QED BY <1>1, Blanks, ZenonT(60) DEF Request, Ops, Steps, Idle
<1>3. RequestHolds(r) /\ ~HalfWay(r)
  <2> HIDE DEF r, e
  <2> QED BY <1>2 DEF RequestHolds, HalfWay
<1> HIDE DEF r, e
<1> QED BY <1>1, <1>2, <1>3, Begins

LEMMA ScimBegins ==
  ASSUME AccountsInv, NEW q \in Requests, NEW o \in Orgs, NEW x \in ExternalIds,
         \/ \E t \in Typed, n \in Text, b \in BOOLEAN : ProvisionBegin(q, o, x, t, n, b)
         \/ \E v \in PatchValues : PatchBegin(q, o, x, v)
  PROVE  AccountsInv'
<1>1. ASSUME NEW t \in Typed, NEW n \in Text, NEW b \in BOOLEAN, ProvisionBegin(q, o, x, t, n, b)
      PROVE  AccountsInv'
  <2> DEFINE e == NormalizeEmail(t)
             r == [Idle EXCEPT !.op = "provision", !.at = "find", !.org = o, !.ext = x,
                               !.email = e, !.active = b]
  <2>1. e \in Emails /\ Begin(q, r)
    BY <1>1, Emailed DEF ProvisionBegin
  <2>2. r \in Request /\ r.op = "provision" /\ r.at = "find"
    <3> HIDE DEF e
    <3> QED BY <2>1, Blanks, ZenonT(60) DEF Request, Ops, Steps, Idle
  <2>3. RequestHolds(r) /\ ~HalfWay(r)
    <3> HIDE DEF r, e
    <3> QED BY <2>2 DEF RequestHolds, HalfWay
  <2> HIDE DEF r, e
  <2> QED BY <2>1, <2>2, <2>3, Begins
<1>2. ASSUME NEW v \in PatchValues, PatchBegin(q, o, x, v) PROVE AccountsInv'
  <2> DEFINE b == ActivePatch(v)
             r == [Idle EXCEPT !.op = "patch", !.at = "row", !.org = o, !.ext = x, !.active = b]
  <2>1. b \in BOOLEAN /\ Begin(q, r)
    BY <1>2 DEF PatchBegin, ActivePatch
  <2>2. r \in Request /\ r.op = "patch" /\ r.at = "row" /\ r.org = o /\ r.ext = x
    <3> HIDE DEF b
    <3> QED BY <2>1, Blanks, ZenonT(60) DEF Request, Ops, Steps, Idle
  <2>3. RequestHolds(r) /\ ~HalfWay(r)
    <3> HIDE DEF r
    <3> QED BY <2>2 DEF RequestHolds, HalfWay
  <2> HIDE DEF r
  <2> QED BY <2>1, <2>2, <2>3, Begins
<1> QED BY <1>1, <1>2

LEMMA HookBegins ==
  ASSUME AccountsInv, NEW q \in Requests, NEW o \in Orgs, NEW n, HookBegin(q, o, n)
  PROVE  AccountsInv'
<1> DEFINE r == [Idle EXCEPT !.op = "admin", !.at = "hook", !.org = o]
<1>1. Begin(q, r) /\ orgs[o].exists
  BY DEF HookBegin
<1>2. r \in Request /\ r.op = "admin" /\ r.at = "hook" /\ r.org = o
  BY Blanks, ZenonT(60) DEF Request, Ops, Steps, Idle
<1>3. RequestHolds(r) /\ ~HalfWay(r)
  <2> HIDE DEF r
  <2> QED BY <1>1, <1>2 DEF RequestHolds, HalfWay
<1> HIDE DEF r
<1> QED BY <1>1, <1>2, <1>3, Begins

LEMMA AdminBegins ==
  ASSUME AccountsInv, NEW q \in Requests, NEW o \in Orgs, NEW u, NEW step \in {"write", "create"},
         AdminBegin(q, u, o, step)
  PROVE  AccountsInv'
<1> DEFINE r == [Idle EXCEPT !.op = "admin", !.at = step, !.org = o]
<1>1. Begin(q, r)
  BY DEF AdminBegin
<1>2. r \in Request /\ r.op = "admin" /\ r.at = step /\ r.org = o
  BY Blanks, ZenonT(60) DEF Request, Ops, Steps, Idle
<1>3. RequestHolds(r) /\ ~HalfWay(r)
  <2> HIDE DEF r
  <2> QED BY <1>2 DEF RequestHolds, HalfWay
<1> HIDE DEF r
<1> QED BY <1>1, <1>2, <1>3, Begins

LEMMA DomainBegins ==
  ASSUME AccountsInv, NEW q \in Requests, NEW o \in Orgs, NEW u, DomainBegin(q, u, o)
  PROVE  AccountsInv'
<1> DEFINE r == [Idle EXCEPT !.op = "domain", !.at = "write", !.org = o]
<1>1. Begin(q, r)
  BY DEF DomainBegin
<1>2. r \in Request /\ r.op = "domain" /\ r.at = "write"
  BY Blanks, ZenonT(60) DEF Request, Ops, Steps, Idle
<1>3. RequestHolds(r) /\ ~HalfWay(r)
  <2> HIDE DEF r
  <2> QED BY <1>2 DEF RequestHolds, HalfWay
<1> HIDE DEF r
<1> QED BY <1>1, <1>2, <1>3, Begins

\* The tokens a rotation is to retire all belong to its application.
LEMMA RotateBegins ==
  ASSUME AccountsInv, NEW q \in Requests, NEW o \in Orgs, NEW u, NEW a \in AppIds,
         RotateBegin(q, u, o, a)
  PROVE  AccountsInv'
<1> DEFINE old == {t \in TokenIds : apps.tokens[t].app = a}
           r == [Idle EXCEPT !.op = "rotate", !.at = "update", !.org = o, !.app = a, !.old = old]
<1>1. Begin(q, r)
  BY DEF RotateBegin
<1>2. a # None
  BY AccountsAssumption DEF None
<1>3. \A t \in old : apps.tokens[t].app = a
  OBVIOUS
<1>4. old \subseteq TokenIds
  OBVIOUS
<1>5. /\ r \in Request /\ r.op = "rotate" /\ r.at = "update" /\ r.old = old /\ r.seen = {}
      /\ r.app = a
  <2> HIDE DEF old
  <2> QED BY <1>4, Blanks, ZenonT(60) DEF Request, Ops, Steps, Idle
<1>6. RequestHolds(r) /\ ~HalfWay(r)
  <2> HIDE DEF r, old
  <2> QED BY <1>2, <1>3, <1>5 DEF RequestHolds, HalfWay
<1> HIDE DEF r, old
<1> QED BY <1>1, <1>5, <1>6, Begins

LEMMA BillBegins ==
  ASSUME AccountsInv, NEW q \in Requests, NEW o \in Orgs, NEW u, NEW e, BillBegin(q, u, o, e)
  PROVE  AccountsInv'
<1> DEFINE p == NormalizePlan(e.plan)
           r == [Idle EXCEPT !.op = "bill", !.at = "plan", !.org = o, !.plan = p]
<1>1. p \in Plans /\ Begin(q, r)
  BY DEF BillBegin, ValidEvent
<1>2. r \in Request /\ r.op = "bill" /\ r.at = "plan" /\ r.org = o
  <2> HIDE DEF p
  <2> QED BY <1>1, Blanks, ZenonT(60) DEF Request, Ops, Steps, Idle
<1>3. RequestHolds(r) /\ ~HalfWay(r)
  <2> HIDE DEF r, p
  <2> QED BY <1>2 DEF RequestHolds, HalfWay
<1> HIDE DEF r, p
<1> QED BY <1>1, <1>2, <1>3, Begins

LEMMA ExecuteBegins ==
  ASSUME AccountsInv, NEW q \in Requests, NEW h \in HookIds, NEW t, ExecuteBegin(q, h, t)
  PROVE  AccountsInv'
<1> DEFINE o == hooks[h].org
           b == AllowsOverrides(o)
           r == [Idle EXCEPT !.op = "execute", !.at = "policy", !.org = o, !.free = b]
<1>1. Begin(q, r) /\ hooks[h].active
  BY DEF ExecuteBegin, Verified
<1>2. o \in Orgs /\ orgs[o].exists
  BY <1>1, Parts DEF TokensInv, HookHolds
<1>3. b \in BOOLEAN /\ (orgs[o].overrides => b)
  <2>1. orgs[o].exists \in BOOLEAN /\ orgs[o].overrides \in BOOLEAN
    BY <1>2, Parts, Typed1 DEF Organization
  <2> QED BY <1>2, <2>1 DEF AllowsOverrides
<1>4. r \in Request /\ r.op = "execute" /\ r.at = "policy" /\ r.org = o /\ r.free = b
  <2> HIDE DEF o, b
  <2> QED BY <1>2, <1>3, Blanks, ZenonT(60) DEF Request, Ops, Steps, Idle
<1>5. RequestHolds(r) /\ ~HalfWay(r)
  <2> HIDE DEF r, o, b
  <2> QED BY <1>2, <1>3, <1>4 DEF RequestHolds, HalfWay
<1> HIDE DEF r, o, b
<1> QED BY <1>1, <1>4, <1>5, Begins

LEMMA ReceiveKeeps ==
  ASSUME AccountsInv, NEW q \in Requests, Receive(q) PROVE AccountsInv'
<1>1. ASSUME NEW t \in Typed, NEW n \in Text, NEW p \in PasswordLengths, Register(q, t, n, p)
      PROVE AccountsInv'
  BY <1>1, PasswordBegins DEF Register
<1>2. ASSUME NEW t \in Typed, Login(q, t) PROVE AccountsInv'
  BY <1>2, PasswordBegins DEF Login
<1> QED BY <1>1, <1>2, OidcBegins, ScimBegins, HookBegins, AdminBegins, DomainBegins, RotateBegins,
           BillBegins, ExecuteBegins DEF Receive

LEMMA Reads ==
  ASSUME AccountsInv, UNCHANGED <<tables, started>>,
         NEW q \in Requests, NEW r \in Request, Goes(q, r),
         ~HalfWay(request[q]), ~HalfWay(r), RequestHolds(r)
  PROVE  AccountsInv'
<1>1. started' \in 0..MaxRequests
  BY Parts, Typed1
<1> QED BY <1>1, Steps1

\* The request a step finds, as a value.
LEMMA Found ==
  ASSUME AccountsInv, NEW q \in Requests
  PROVE  request[q] \in Request /\ RequestHolds(request[q])
BY Parts, Typed1 DEF RequestsHold

LEMMA CheckSsoKeeps ==
  ASSUME AccountsInv, NEW q \in Requests, CheckSso(q) PROVE AccountsInv'
<1>1. PICK c \in Request : c = request[q] /\ RequestHolds(c)
  BY Found
<1> DEFINE r == [c EXCEPT !.at = "find"]
<1>2. Goes(q, r) /\ c.at = "sso" /\ ~SsoRequired(c.email)
  BY <1>1 DEF CheckSso, To
<1>3. c.op \in {"register", "login"} /\ c.email \in Emails /\ (FreeIn(orgs, c.email) => c.free)
  BY <1>1, <1>2 DEF RequestHolds
<1>4. FreeIn(orgs, c.email)
  BY <1>2 DEF SsoRequired, ProvidersFor, FreeIn
<1>5. r \in Request /\ r.op = c.op /\ r.at = "find" /\ r.free = c.free
  BY DEF Request, Steps
<1>6. RequestHolds(r) /\ ~HalfWay(r) /\ ~HalfWay(c)
  <2> HIDE DEF r
  <2> QED BY <1>3, <1>4, <1>5 DEF RequestHolds, HalfWay
<1> HIDE DEF r
<1> QED BY <1>1, <1>2, <1>5, <1>6, Reads DEF CheckSso

LEMMA RegisterFindKeeps ==
  ASSUME AccountsInv, NEW q \in Requests, RegisterFind(q) PROVE AccountsInv'
<1>1. PICK c \in Request : c = request[q] /\ RequestHolds(c)
  BY Found
<1> DEFINE r == [c EXCEPT !.at = "create"]
<1>2. Goes(q, r) /\ c.op = "register" /\ c.at = "find"
  BY <1>1 DEF RegisterFind, To, At
<1>3. r \in Request /\ r.op = "register" /\ r.at = "create" /\ r.free = c.free
  BY <1>2 DEF Request, Steps
<1>4. RequestHolds(r) /\ ~HalfWay(r) /\ ~HalfWay(c)
  <2> HIDE DEF r
  <2> QED BY <1>1, <1>2, <1>3 DEF RequestHolds, HalfWay
<1> HIDE DEF r
<1> QED BY <1>1, <1>2, <1>3, <1>4, Reads DEF RegisterFind

LEMMA LoginFindKeeps ==
  ASSUME AccountsInv, NEW q \in Requests, LoginFind(q) PROVE AccountsInv'
<1>1. PICK c \in Request : c = request[q] /\ RequestHolds(c)
  BY Found
<1>2. PICK u \in UsersWith(c.email) :
         Verifies(u) /\ Goes(q, [c EXCEPT !.user = u, !.at = "session"])
  BY <1>1 DEF LoginFind
<1> DEFINE r == [c EXCEPT !.user = u, !.at = "session"]
<1>3. Goes(q, r) /\ c.op = "login" /\ c.at = "find"
  BY <1>1, <1>2 DEF LoginFind, At
<1>4. u \in UserIds /\ HasPassword(u)
  BY <1>2 DEF UsersWith, HasPassword, Verifies
<1>5. r \in Request /\ r.op = "login" /\ r.at = "session" /\ r.free = c.free /\ r.user = u
  BY <1>3, <1>4, ZenonT(60) DEF Request, Steps
<1>6. RequestHolds(r) /\ ~HalfWay(r) /\ ~HalfWay(c)
  <2> HIDE DEF r
  <2> QED BY <1>1, <1>3, <1>4, <1>5 DEF RequestHolds, HalfWay
<1> HIDE DEF r
<1> QED BY <1>1, <1>3, <1>5, <1>6, Reads DEF LoginFind

LEMMA OidcProviderKeeps ==
  ASSUME AccountsInv, NEW q \in Requests, OidcProvider(q) PROVE AccountsInv'
<1>1. PICK c \in Request : c = request[q] /\ RequestHolds(c)
  BY Found
<1>2. PICK o \in ProvidersFor(c.email) :
         Goes(q, [c EXCEPT !.org = o, !.role = orgs[o].provider.role, !.at = "identity"])
  BY <1>1 DEF OidcProvider
<1> DEFINE role == orgs[o].provider.role
           r == [c EXCEPT !.org = o, !.role = role, !.at = "identity"]
<1>3. Goes(q, r) /\ c.op = "oidc" /\ c.at = "provider"
  BY <1>1, <1>2 DEF OidcProvider, At
<1>4. o \in Orgs /\ role \in {"member", "admin"}
  BY <1>2, Parts, Typed1 DEF ProvidersFor, Organization, ProviderType
<1>5. /\ r \in Request /\ r.op = "oidc" /\ r.at = "identity" /\ r.org = o
      /\ r.subject = c.subject
  <2> HIDE DEF role
  <2>1. r \in Request
    BY <1>3, <1>4, ZenonT(60) DEF Request, Steps
  <2>2. r.op = "oidc" /\ r.at = "identity" /\ r.org = o /\ r.subject = c.subject
    BY <1>3, ZenonT(60) DEF Request
  <2> QED BY <2>1, <2>2
<1>6. RequestHolds(r) /\ ~HalfWay(r) /\ ~HalfWay(c)
  <2> HIDE DEF r
  <2> QED BY <1>1, <1>3, <1>4, <1>5 DEF RequestHolds, HalfWay
<1> HIDE DEF r
<1> QED BY <1>1, <1>3, <1>5, <1>6, Reads DEF OidcProvider

LEMMA OidcIdentityKeeps ==
  ASSUME AccountsInv, NEW q \in Requests, OidcIdentity(q) PROVE AccountsInv'
<1>1. PICK c \in Request : c = request[q] /\ RequestHolds(c)
  BY Found
<1>2. c.op = "oidc" /\ c.at = "identity" /\ UNCHANGED <<tables, started>> /\ ~HalfWay(c)
  BY <1>1 DEF OidcIdentity, At, HalfWay
<1>3. CASE FindIdentity(c.subject) = {}
  <2> DEFINE r == [c EXCEPT !.at = "by_email"]
  <2>1. Goes(q, r)
    BY <1>1, <1>3 DEF OidcIdentity, To
  <2>2. /\ r \in Request /\ r.op = "oidc" /\ r.at = "by_email" /\ r.org = c.org
        /\ r.subject = c.subject
    BY <1>2 DEF Request, Steps
  <2>3. RequestHolds(r) /\ ~HalfWay(r)
    <3> HIDE DEF r
    <3> QED BY <1>1, <1>2, <2>2 DEF RequestHolds, HalfWay
  <2> HIDE DEF r
  <2> QED BY <1>1, <1>2, <2>1, <2>2, <2>3, Reads
<1>4. CASE FindIdentity(c.subject) # {}
  <2>1. PICK i \in FindIdentity(c.subject) : Goes(q, [c EXCEPT !.user = i.user, !.at = "session"])
    BY <1>1, <1>4 DEF OidcIdentity
  <2>2. i \in identities /\ i.subject = c.subject /\ i.user \in UserIds
    BY <2>1, Parts, Typed1 DEF FindIdentity, Identity
  <2>3. Linked(c.subject, i.user)
    BY <2>2 DEF Linked
  <2> DEFINE r == [c EXCEPT !.user = i.user, !.at = "session"]
  <2>4. /\ r \in Request /\ r.op = "oidc" /\ r.at = "session" /\ r.org = c.org
        /\ r.subject = c.subject /\ r.user = i.user
    BY <1>2, <2>2, ZenonT(60) DEF Request, Steps
  <2>5. RequestHolds(r) /\ ~HalfWay(r)
    <3> HIDE DEF r
    <3> QED BY <1>1, <1>2, <2>2, <2>3, <2>4 DEF RequestHolds, HalfWay
  <2> HIDE DEF r
  <2> QED BY <1>1, <1>2, <2>1, <2>4, <2>5, Reads DEF r
<1> QED BY <1>3, <1>4

LEMMA OidcByEmailKeeps ==
  ASSUME AccountsInv, NEW q \in Requests, OidcByEmail(q) PROVE AccountsInv'
<1>1. PICK c \in Request : c = request[q] /\ RequestHolds(c)
  BY Found
<1>2. c.op = "oidc" /\ c.at = "by_email" /\ UNCHANGED <<tables, started>> /\ ~HalfWay(c)
  BY <1>1 DEF OidcByEmail, At, HalfWay
<1>3. CASE UsersWith(c.email) = {}
  <2> DEFINE r == [c EXCEPT !.at = "create"]
  <2>1. Goes(q, r)
    BY <1>1, <1>3 DEF OidcByEmail, To
  <2>2. /\ r \in Request /\ r.op = "oidc" /\ r.at = "create" /\ r.org = c.org
        /\ r.subject = c.subject
    BY <1>2 DEF Request, Steps
  <2>3. RequestHolds(r) /\ ~HalfWay(r)
    <3> HIDE DEF r
    <3> QED BY <1>1, <1>2, <2>2 DEF RequestHolds, HalfWay
  <2> HIDE DEF r
  <2> QED BY <1>1, <1>2, <2>1, <2>2, <2>3, Reads
<1>4. CASE UsersWith(c.email) # {}
  <2>1. PICK u \in UsersWith(c.email) : Goes(q, [c EXCEPT !.user = u, !.at = "link"])
    BY <1>1, <1>4 DEF OidcByEmail
  <2>2. u \in UserIds
    BY DEF UsersWith
  <2> DEFINE r == [c EXCEPT !.user = u, !.at = "link"]
  <2>3. /\ r \in Request /\ r.op = "oidc" /\ r.at = "link" /\ r.org = c.org
        /\ r.subject = c.subject /\ r.user = u
    BY <1>2, <2>2, ZenonT(60) DEF Request, Steps
  <2>4. RequestHolds(r) /\ ~HalfWay(r)
    <3> HIDE DEF r
    <3> QED BY <1>1, <1>2, <2>2, <2>3 DEF RequestHolds, HalfWay
  <2> HIDE DEF r
  <2> QED BY <1>1, <1>2, <2>1, <2>3, <2>4, Reads DEF r
<1> QED BY <1>3, <1>4

LEMMA ScimFindKeeps ==
  ASSUME AccountsInv, NEW q \in Requests, ScimFind(q) PROVE AccountsInv'
<1>1. PICK c \in Request : c = request[q] /\ RequestHolds(c)
  BY Found
<1>2. c.op = "provision" /\ c.at = "find" /\ UNCHANGED <<tables, started>> /\ ~HalfWay(c)
  BY <1>1 DEF ScimFind, At, HalfWay
<1>3. PICK r \in Request : Goes(q, r) /\ r.op = "provision" /\ r.at \in {"create", "join"}
  <2>1. CASE UsersWith(c.email) = {}
    <3> DEFINE r == [c EXCEPT !.at = "create"]
    <3>1. Goes(q, r)
      BY <1>1, <2>1 DEF ScimFind, To
    <3>2. r \in Request /\ r.op = "provision" /\ r.at = "create"
      BY <1>2 DEF Request, Steps
    <3> QED BY <3>1, <3>2
  <2>2. CASE UsersWith(c.email) # {}
    <3>1. PICK u \in UsersWith(c.email) : Goes(q, [c EXCEPT !.user = u, !.at = "join"])
      BY <1>1, <2>2 DEF ScimFind
    <3> DEFINE r == [c EXCEPT !.user = u, !.at = "join"]
    <3>2. u \in UserIds
      BY DEF UsersWith
    <3>3. r \in Request /\ r.op = "provision" /\ r.at = "join"
      BY <1>2, <3>2, ZenonT(60) DEF Request, Steps
    <3> QED BY <3>1, <3>3
  <2> QED BY <2>1, <2>2
<1>4. RequestHolds(r) /\ ~HalfWay(r)
  BY <1>3 DEF RequestHolds, HalfWay
<1> QED BY <1>1, <1>2, <1>3, <1>4, Reads

\* The tokens a rotation has not seen were inactive when it looked.
LEMMA RotateUpdateKeeps ==
  ASSUME AccountsInv, NEW q \in Requests, RotateUpdate(q) PROVE AccountsInv'
<1>1. PICK c \in Request : c = request[q] /\ RequestHolds(c)
  BY Found
<1> DEFINE seen == ActiveTokens(c.app)
           r == [c EXCEPT !.seen = seen, !.at = "commit"]
<1>2. Goes(q, r) /\ c.op = "rotate" /\ c.at = "update"
  BY <1>1 DEF RotateUpdate, At
<1>3. seen \subseteq TokenIds
  BY DEF ActiveTokens
<1>4. /\ r \in Request /\ r.op = "rotate" /\ r.at = "commit" /\ r.seen = seen /\ r.old = c.old
      /\ r.app = c.app
  <2> HIDE DEF seen
  <2> QED BY <1>2, <1>3, ZenonT(60) DEF Request, Steps
<1>5. c.app # None /\ c.old \subseteq TokenIds /\ \A t \in c.old : apps.tokens[t].app = c.app
  BY <1>1, <1>2 DEF RequestHolds, Request
<1>6. \A t \in seen : apps.tokens[t].app = c.app
  BY DEF ActiveTokens
<1>7. \A t \in c.old : t \in seen \/ ~apps.tokens[t].active
  BY <1>5 DEF ActiveTokens
<1>8. RequestHolds(r) /\ ~HalfWay(r) /\ ~HalfWay(c)
  <2> HIDE DEF r, seen
  <2> QED BY <1>2, <1>4, <1>5, <1>6, <1>7 DEF RequestHolds, HalfWay
<1> HIDE DEF r, seen
<1> QED BY <1>1, <1>2, <1>4, <1>8, Reads DEF RotateUpdate

\* The override is decided on a policy read while the request runs.
LEMMA ExecutePolicyKeeps ==
  ASSUME AccountsInv, NEW q \in Requests, NEW n, ExecutePolicy(q, n) PROVE AccountsInv'
<1>1. PICK c \in Request : c = request[q] /\ RequestHolds(c)
  BY Found
<1> DEFINE b == Overrides(c.org, n)
           r == [c EXCEPT !.override = b, !.at = "message"]
<1>2. Goes(q, r) /\ c.op = "execute" /\ c.at = "policy"
  BY <1>1 DEF ExecutePolicy, At
<1>3. c.org \in Orgs /\ orgs[c.org].exists /\ (orgs[c.org].overrides => c.free)
  BY <1>1, <1>2 DEF RequestHolds
<1>4. b \in BOOLEAN /\ (b => orgs[c.org].overrides)
  <2>1. orgs[c.org].overrides \in BOOLEAN
    BY <1>3, Parts, Typed1 DEF Organization
  <2> QED BY <1>3, <2>1 DEF Overrides, AllowsOverrides
<1>5. /\ r \in Request /\ r.op = "execute" /\ r.at = "message" /\ r.override = b
      /\ r.org = c.org /\ r.free = c.free
  <2>1. PICK d \in Request : d = [c EXCEPT !.override = b]
    <3> HIDE DEF b
    <3> QED BY <1>4, ZenonT(60) DEF Request
  <2>2. r = [d EXCEPT !.at = "message"]
    BY <2>1 DEF Request
  <2>3. d.override = b /\ d.op = "execute" /\ d.org = c.org /\ d.free = c.free
    <3> HIDE DEF b
    <3> QED BY <1>2, <1>4, <2>1 DEF Request
  <2> HIDE DEF b, r
  <2>4. r \in Request /\ r.at = "message" /\ r.op = d.op /\ r.override = d.override
        /\ r.org = d.org /\ r.free = d.free
    BY <2>2 DEF Request, Steps
  <2> QED BY <2>3, <2>4
<1>6. RequestHolds(r) /\ ~HalfWay(r) /\ ~HalfWay(c)
  <2> HIDE DEF r, b
  <2> QED BY <1>2, <1>3, <1>4, <1>5 DEF RequestHolds, HalfWay
<1> HIDE DEF r, b
<1> QED BY <1>1, <1>2, <1>5, <1>6, Reads DEF ExecutePolicy

(***************************************************************************)
(* Accounts, sessions and identities.                                      *)
(***************************************************************************)
\* A set of numbers has a least one, the one Min names.
LEMMA NatMin ==
  ASSUME NEW S, S \subseteq Nat, S # {}
  PROVE  Min(S) \in S /\ \A y \in S : Min(S) <= y
<1> DEFINE R == OpToRel(<, Nat)
<1>1. IsWellFoundedOn(R, Nat)
  BY NatLessThanWellFounded
<1>2. \A x, y \in Nat : y < x => <<y, x>> \in R
  BY DEF OpToRel
<1>3. PICK x \in S : \A y \in S : ~(<<y, x>> \in R)
  <2> HIDE DEF R
  <2> QED BY <1>1, WFMin
<1>4. ASSUME NEW y \in S PROVE x <= y
  <2>1. x \in Nat /\ y \in Nat
    OBVIOUS
  <2>2. ~(y < x)
    <3> HIDE DEF R
    <3> QED BY <1>2, <1>3, <2>1
  <2> QED BY <2>1, <2>2
<1> QED BY <1>3, <1>4 DEF Min

LEMMA FreshUserIs ==
  ASSUME HasFreshUser PROVE FreshUser \in UserIds /\ ~users[FreshUser].exists
<1> DEFINE S == {u \in UserIds : ~users[u].exists}
<1>1. S \subseteq Nat /\ S # {}
  BY Constants DEF HasFreshUser
<1>2. Min(S) \in S
  <2> HIDE DEF S
  <2> QED BY <1>1, NatMin
<1> QED BY <1>2 DEF FreshUser

\* The unique column makes the new account the only one of its address.
LEMMA UserCreated ==
  ASSUME AccountsInv, NEW e \in Emails \cup {Internal}, NEW p \in BOOLEAN, CreateUser(e, p),
         UNCHANGED <<sessions, identities, orgs, members, domains, scim, apps, hooks, started,
                     history>>,
         request' \in [Requests -> Request], \A w \in Requests : Settled(w)
  PROVE  AccountsInv'
<1>1. TypeOK /\ AccountsHold /\ SessionsHold /\ TokensInv /\ OverridesHold
  BY Parts
<1>2. users \in [UserIds -> User]
  BY <1>1, Typed1
<1>3. PICK f \in UserIds : f = FreshUser /\ ~users[f].exists
  BY FreshUserIs DEF CreateUser
<1>4. users' = [users EXCEPT ![f] = [exists |-> TRUE, email |-> e, password |-> p]]
  BY <1>3 DEF CreateUser
<1>5. users' \in [UserIds -> User]
  <2>1. [exists |-> TRUE, email |-> e, password |-> p] \in User
    BY DEF User
  <2> QED BY <1>2, <1>4, <2>1
<1>6. TypeOK'
  BY <1>1, <1>5 DEF TypeOK
<1>7. \A u \in UserIds : u # f => users'[u] = users[u]
  BY <1>2, <1>4
<1>8. TablesAge
  BY <1>3, <1>7 DEF TablesAge
<1>9. RulesStay /\ PlansStay
  BY DEF RulesStay, PlansStay
<1>10. users'[f].email = e
  BY <1>2, <1>4
<1>11. AccountsHold'
  <2>1. ASSUME NEW u \in UserIds, NEW v \in UserIds, users'[u].exists, users'[v].exists,
               users'[u].email = users'[v].email, users'[u].email # Internal
        PROVE  u = v
    <3>1. CASE u # f /\ v # f
      BY <1>1, <1>7, <2>1, <3>1 DEF AccountsHold
    <3>2. CASE u = f /\ v # f
      BY <1>7, <1>10, <2>1, <3>2 DEF CreateUser, EmailFree, UsersWith
    <3>3. CASE u # f /\ v = f
      BY <1>7, <1>10, <2>1, <3>3 DEF CreateUser, EmailFree, UsersWith
    <3> QED BY <3>1, <3>2, <3>3
  <2> QED BY <1>1, <2>1 DEF AccountsHold
<1>12. SessionsHold' /\ TokensInv' /\ OverridesHold'
  BY <1>1, <1>8, SessionsSame, TokensSame, OverridesSame
<1> QED BY <1>6, <1>8, <1>9, <1>11, <1>12, Whole

\* The new account is there, with the password it was given.
LEMMA UserIsThere ==
  ASSUME TypeOK, NEW e, NEW p, CreateUser(e, p)
  PROVE  /\ FreshUser \in UserIds
         /\ users'[FreshUser] = [exists |-> TRUE, email |-> e, password |-> p]
<1>1. FreshUser \in UserIds /\ users \in [UserIds -> User]
  BY FreshUserIs, Typed1 DEF CreateUser
<1> QED BY <1>1 DEF CreateUser

LEMMA RegisterCreateKeeps ==
  ASSUME AccountsInv, NEW q \in Requests, RegisterCreate(q) PROVE AccountsInv'
<1>0. TypeOK
  BY Parts
<1>1. PICK c \in Request : c = request[q] /\ RequestHolds(c)
  BY Found
<1>2. CreateUser(c.email, TRUE) /\ c.op = "register" /\ c.at = "create" /\ c.email \in Emails \cup {Internal}
  BY <1>1 DEF RegisterCreate, At, Request
<1>3. PICK f \in UserIds :
        f = FreshUser /\ users'[f] = [exists |-> TRUE, email |-> c.email, password |-> TRUE]
  BY <1>0, <1>2, UserIsThere
<1> DEFINE r == [c EXCEPT !.user = f, !.at = "session"]
<1>4. Goes(q, r)
  BY <1>1, <1>3 DEF RegisterCreate
<1>5. r \in Request /\ r.op = "register" /\ r.at = "session" /\ r.user = f /\ r.free = c.free
  BY <1>2, ZenonT(60) DEF Request, Steps
<1>6. RequestHolds(r)' /\ ~HalfWay(r) /\ ~HalfWay(c)
  <2> HIDE DEF r
  <2>1. HasPassword(f)'
    BY <1>3 DEF HasPassword
  <2>2. c.free
    BY <1>1, <1>2 DEF RequestHolds
  <2> QED BY <1>2, <1>5, <2>1, <2>2 DEF RequestHolds, HalfWay
<1> HIDE DEF r
<1>7. request' \in [Requests -> Request] /\ \A w \in Requests : Settled(w)
  BY <1>0, <1>1, <1>4, <1>5, <1>6, OneMoves
<1> QED BY <1>2, <1>7, UserCreated DEF RegisterCreate

LEMMA OidcCreateKeeps ==
  ASSUME AccountsInv, NEW q \in Requests, OidcCreate(q) PROVE AccountsInv'
<1>0. TypeOK
  BY Parts
<1>1. PICK c \in Request : c = request[q] /\ RequestHolds(c)
  BY Found
<1>2. CreateUser(c.email, FALSE) /\ c.op = "oidc" /\ c.at = "create" /\ c.email \in Emails \cup {Internal}
  BY <1>1 DEF OidcCreate, At, Request
<1>3. PICK f \in UserIds : f = FreshUser
  BY <1>0, <1>2, UserIsThere
<1> DEFINE r == [c EXCEPT !.user = f, !.at = "link"]
<1>4. Goes(q, r)
  BY <1>1, <1>3 DEF OidcCreate
<1>5. /\ r \in Request /\ r.op = "oidc" /\ r.at = "link" /\ r.user = f /\ r.org = c.org
      /\ r.subject = c.subject
  BY <1>2, ZenonT(60) DEF Request, Steps
<1>6. RequestHolds(r)' /\ ~HalfWay(r) /\ ~HalfWay(c)
  <2> HIDE DEF r
  <2> QED BY <1>1, <1>2, <1>5 DEF RequestHolds, HalfWay
<1> HIDE DEF r
<1>7. request' \in [Requests -> Request] /\ \A w \in Requests : Settled(w)
  BY <1>0, <1>1, <1>4, <1>5, <1>6, OneMoves
<1> QED BY <1>2, <1>7, UserCreated DEF OidcCreate

LEMMA ScimCreateKeeps ==
  ASSUME AccountsInv, NEW q \in Requests, ScimCreate(q) PROVE AccountsInv'
<1>0. TypeOK
  BY Parts
<1>1. PICK c \in Request : c = request[q] /\ RequestHolds(c)
  BY Found
<1>2. /\ CreateUser(c.email, FALSE) /\ c.op = "provision" /\ c.at = "create"
      /\ c.email \in Emails \cup {Internal}
  BY <1>1 DEF ScimCreate, At, Request
<1>3. PICK f \in UserIds : f = FreshUser
  BY <1>0, <1>2, UserIsThere
<1> DEFINE r == [c EXCEPT !.user = f, !.at = "join"]
<1>4. Goes(q, r)
  BY <1>1, <1>3 DEF ScimCreate
<1>5. r \in Request /\ r.op = "provision" /\ r.at = "join"
  BY <1>2, ZenonT(60) DEF Request, Steps
<1>6. RequestHolds(r)' /\ ~HalfWay(r) /\ ~HalfWay(c)
  <2> HIDE DEF r
  <2> QED BY <1>2, <1>5 DEF RequestHolds, HalfWay
<1> HIDE DEF r
<1>7. request' \in [Requests -> Request] /\ \A w \in Requests : Settled(w)
  BY <1>0, <1>1, <1>4, <1>5, <1>6, OneMoves
<1> QED BY <1>2, <1>7, UserCreated DEF ScimCreate

\* The users of bots and of webhooks.
LEMMA AppCreateUserKeeps ==
  ASSUME AccountsInv, NEW q \in Requests, NEW n, NEW d, AppCreateUser(q, n, d)
  PROVE  AccountsInv'
<1>0. TypeOK
  BY Parts
<1>1. PICK c \in Request : c = request[q] /\ RequestHolds(c)
  BY Found
<1>2. CreateUser(Internal, FALSE) /\ c.op = "admin" /\ c.at = "create"
  BY <1>1 DEF AppCreateUser, At
<1>3. PICK f \in UserIds : f = FreshUser
  BY <1>0, <1>2, UserIsThere
<1> DEFINE r == [c EXCEPT !.user = f, !.at = "app"]
<1>4. Goes(q, r)
  BY <1>1, <1>3 DEF AppCreateUser
<1>5. r \in Request /\ r.op = "admin" /\ r.at = "app" /\ r.org = c.org
  BY <1>2, ZenonT(60) DEF Request, Steps
<1>6. RequestHolds(r)' /\ ~HalfWay(r) /\ ~HalfWay(c)
  <2> HIDE DEF r
  <2> QED BY <1>1, <1>2, <1>5 DEF RequestHolds, HalfWay
<1> HIDE DEF r
<1>7. request' \in [Requests -> Request] /\ \A w \in Requests : Settled(w)
  BY <1>0, <1>1, <1>4, <1>5, <1>6, OneMoves
<1> QED BY <1>2, <1>7, UserCreated DEF AppCreateUser

LEMMA HookCreateUserKeeps ==
  ASSUME AccountsInv, NEW q \in Requests, HookCreateUser(q) PROVE AccountsInv'
<1>0. TypeOK
  BY Parts
<1>1. PICK c \in Request : c = request[q] /\ RequestHolds(c)
  BY Found
<1>2. CreateUser(Internal, FALSE) /\ c.op = "admin" /\ c.at = "hook" /\ orgs' = orgs
  BY <1>1 DEF HookCreateUser, At
<1>3. PICK f \in UserIds : f = FreshUser
  BY <1>0, <1>2, UserIsThere
<1> DEFINE r == [c EXCEPT !.user = f]
<1>4. Goes(q, r)
  BY <1>1, <1>3 DEF HookCreateUser
<1>5. r \in Request /\ r.op = "admin" /\ r.at = "hook" /\ r.org = c.org
  BY <1>2 DEF Request
<1>6. RequestHolds(r)' /\ ~HalfWay(r) /\ ~HalfWay(c)
  <2> HIDE DEF r
  <2> QED BY <1>1, <1>2, <1>5 DEF RequestHolds, HalfWay
<1> HIDE DEF r
<1>7. request' \in [Requests -> Request] /\ \A w \in Requests : Settled(w)
  BY <1>0, <1>1, <1>4, <1>5, <1>6, OneMoves
<1> QED BY <1>2, <1>7, UserCreated DEF HookCreateUser

LEMMA FreshSessionIs ==
  ASSUME HasFreshSession PROVE FreshSession \in SessionIds /\ sessions[FreshSession].state = "none"
<1> DEFINE S == {s \in SessionIds : sessions[s].state = "none"}
<1>1. S \subseteq Nat /\ S # {}
  BY Constants DEF HasFreshSession
<1>2. Min(S) \in S
  <2> HIDE DEF S
  <2> QED BY <1>1, NatMin
<1> QED BY <1>2 DEF FreshSession

\* A session is opened only by a request that has proved who asks.
LEMMA OpenSessionKeeps ==
  ASSUME AccountsInv, NEW q \in Requests, OpenSession(q) PROVE AccountsInv'
<1>1. TypeOK /\ AccountsHold /\ SessionsHold /\ TokensInv /\ OverridesHold
  BY Parts
<1>2. PICK c \in Request : c = request[q] /\ RequestHolds(c)
  BY Found
<1>3. c.at = "session" /\ c.op \in {"register", "login", "oidc"}
  BY <1>2 DEF OpenSession, RequestHolds
<1> DEFINE proof == IF c.op = "oidc" THEN "oidc" ELSE "password"
           n == [NoSession EXCEPT !.user = c.user, !.subject = c.subject, !.free = c.free,
                                  !.proof = proof]
           m == [n EXCEPT !.state = "live"]
           r == IF c.op = "oidc" THEN [c EXCEPT !.at = "join"] ELSE Idle
<1>4. CreateSession(n) /\ Goes(q, r)
  BY <1>2 DEF OpenSession
<1>5. /\ UNCHANGED <<users, identities, orgs, members, domains, scim, apps, hooks, history>>
      /\ started' = started
  BY DEF OpenSession
<1>6. TablesAge /\ RulesStay /\ PlansStay
  BY <1>5 DEF TablesAge, RulesStay, PlansStay
<1>7. r \in Request /\ RequestHolds(r)' /\ ~HalfWay(r) /\ ~HalfWay(c)
  <2>1. CASE c.op = "oidc"
    <3> DEFINE d == [c EXCEPT !.at = "join"]
    <3>1. /\ d \in Request /\ d.op = "oidc" /\ d.at = "join" /\ d.user = c.user /\ d.org = c.org
          /\ d.subject = c.subject
      BY <2>1 DEF Request, Steps
    <3>2. RequestHolds(d)' /\ ~HalfWay(d) /\ ~HalfWay(c)
      <4> HIDE DEF d
      <4> QED BY <1>2, <1>3, <2>1, <3>1 DEF RequestHolds, HalfWay
    <3> QED BY <2>1, <3>1, <3>2
  <2>2. CASE c.op # "oidc"
    BY <1>3, <2>2, Blanks, IdleHolds DEF HalfWay, Idle
  <2> QED BY <2>1, <2>2
<1>8. request' \in [Requests -> Request] /\ \A w \in Requests : Settled(w)
  <2> HIDE DEF r
  <2> QED BY <1>1, <1>2, <1>4, <1>7, OneMoves
<1>9. m \in Session /\ m.user = c.user /\ m.subject = c.subject /\ m.free = c.free /\ m.proof = proof
  BY DEF Session, NoSession, Request
<1>10. SessionHolds(m)'
  <2>1. CASE c.op = "oidc"
    <3>1. Linked(c.subject, c.user)'
      BY <1>2, <1>3, <1>6, <2>1, LinkedAges DEF RequestHolds
    <3> HIDE DEF m
    <3> QED BY <1>9, <2>1, <3>1 DEF SessionHolds
  <2>2. CASE c.op # "oidc"
    <3>1. HasPassword(c.user)'
      BY <1>2, <1>3, <1>6, <2>2, PasswordAges DEF RequestHolds
    <3>2. c.free
      BY <1>2, <1>3, <2>2 DEF RequestHolds
    <3> HIDE DEF m
    <3> QED BY <1>9, <2>2, <3>1, <3>2 DEF SessionHolds
  <2> QED BY <2>1, <2>2
<1>11. PICK f \in SessionIds : f = FreshSession
  BY <1>4, FreshSessionIs DEF CreateSession
<1>12. sessions' = [sessions EXCEPT ![f] = m] /\ sessions \in [SessionIds -> Session]
  BY <1>1, <1>4, <1>11, Typed1 DEF CreateSession
<1> HIDE DEF m
<1>13. sessions' \in [SessionIds -> Session]
  BY <1>9, <1>12
<1>14. TypeOK'
  BY <1>1, <1>5, <1>8, <1>13 DEF TypeOK
<1>15. SessionsHold'
  <2> SUFFICES ASSUME NEW s \in SessionIds PROVE SessionHolds(sessions[s])'
    BY DEF SessionsHold
  <2>1. CASE s = f
    BY <1>10, <1>12, <2>1 DEF SessionHolds
  <2>2. CASE s # f
    <3>1. PICK x : x = sessions[s]
      OBVIOUS
    <3>2. SessionHolds(x)'
      BY <1>1, <1>6, <3>1, SessionKept DEF SessionsHold
    <3> QED BY <1>12, <2>2, <3>1, <3>2 DEF SessionHolds
  <2> QED BY <2>1, <2>2
<1>16. AccountsHold' /\ TokensInv' /\ OverridesHold'
  BY <1>1, <1>5, AccountsSame, TokensSame, OverridesSame
<1> QED BY <1>6, <1>8, <1>14, <1>15, <1>16, Whole

LEMMA LogoutKeeps ==
  ASSUME AccountsInv, NEW s \in SessionIds, Logout(s) PROVE AccountsInv'
<1>1. TypeOK /\ AccountsHold /\ SessionsHold /\ TokensInv /\ OverridesHold
  BY Parts
<1>2. UNCHANGED <<users, identities, orgs, members, domains, scim, apps, hooks, request, history>>
  BY DEF Logout
<1>3. TablesAge /\ RulesStay /\ PlansStay
  BY <1>2 DEF TablesAge, RulesStay, PlansStay
<1>4. sessions \in [SessionIds -> Session] /\ sessions[s].state = "live"
      /\ sessions' = [sessions EXCEPT ![s].state = "revoked"]
  BY <1>1, Typed1 DEF Logout, RevokeSession
<1>5. sessions' \in [SessionIds -> Session]
  BY <1>4 DEF Session
<1>6. started' \in 0..MaxRequests
  BY <1>1, CountedTyped DEF Logout
<1>7. TypeOK'
  BY <1>1, <1>2, <1>5, <1>6 DEF TypeOK
<1>8. SessionsHold'
  <2> SUFFICES ASSUME NEW z \in SessionIds PROVE SessionHolds(sessions[z])'
    BY DEF SessionsHold
  <2>1. PICK x \in Session : x = sessions[z]
    BY <1>4
  <2>2. SessionHolds(x)'
    BY <1>1, <1>3, <2>1, SessionKept DEF SessionsHold
  <2>3. CASE z = s
    <3>1. sessions'[z] = [x EXCEPT !.state = "revoked"] /\ x.state = "live"
      BY <1>4, <2>1, <2>3
    <3>2. PICK y \in Session : y = [x EXCEPT !.state = "revoked"]
      BY DEF Session
    <3>3. y.proof = x.proof /\ y.user = x.user /\ y.free = x.free /\ y.subject = x.subject
      BY <3>2 DEF Session
    <3>4. SessionHolds(y)'
      BY <2>2, <3>1, <3>3 DEF SessionHolds
    <3> QED BY <3>1, <3>2, <3>4 DEF SessionHolds
  <2>4. CASE z # s
    BY <1>4, <2>1, <2>2, <2>4 DEF SessionHolds
  <2> QED BY <2>3, <2>4
<1>9. \A w \in Requests : Settled(w)
  BY <1>2 DEF Settled
<1>10. AccountsHold' /\ TokensInv' /\ OverridesHold'
  BY <1>1, <1>2, AccountsSame, TokensSame, OverridesSame
<1> QED BY <1>3, <1>7, <1>8, <1>9, <1>10, Whole

\* The unique column makes the link the only one of its subject.
LEMMA OidcLinkKeeps ==
  ASSUME AccountsInv, NEW q \in Requests, OidcLink(q) PROVE AccountsInv'
<1>1. TypeOK /\ AccountsHold /\ SessionsHold /\ TokensInv /\ OverridesHold
  BY Parts
<1>2. PICK c \in Request : c = request[q] /\ RequestHolds(c)
  BY Found
<1>3. c.op = "oidc" /\ c.at = "link"
  BY <1>2 DEF OidcLink, At
<1>4. c.subject \in Subjects /\ c.user \in UserIds /\ c.org \in Orgs
  BY <1>2, <1>3 DEF RequestHolds
<1> DEFINE i == [subject |-> c.subject, user |-> c.user, org |-> c.org]
           r == [c EXCEPT !.at = "session"]
<1>5. CreateIdentity(i) /\ Goes(q, r)
  BY <1>2 DEF OidcLink, To
<1>6. /\ UNCHANGED <<users, sessions, orgs, members, domains, scim, apps, hooks, started, history>>
      /\ identities' = identities \cup {i}
  BY <1>5 DEF OidcLink, CreateIdentity
<1>7. TablesAge /\ RulesStay /\ PlansStay
  BY <1>6 DEF TablesAge, RulesStay, PlansStay
<1>8. Linked(c.subject, c.user)'
  <2>1. i \in identities' /\ i.subject = c.subject /\ i.user = c.user
    BY <1>6
  <2> HIDE DEF i
  <2> QED BY <2>1 DEF Linked
<1>9. /\ r \in Request /\ r.op = "oidc" /\ r.at = "session" /\ r.user = c.user /\ r.org = c.org
      /\ r.subject = c.subject
  BY <1>3 DEF Request, Steps
<1>10. RequestHolds(r)' /\ ~HalfWay(r) /\ ~HalfWay(c)
  <2> HIDE DEF r
  <2> QED BY <1>3, <1>4, <1>8, <1>9 DEF RequestHolds, HalfWay
<1>11. request' \in [Requests -> Request] /\ \A w \in Requests : Settled(w)
  <2> HIDE DEF r
  <2> QED BY <1>1, <1>2, <1>5, <1>9, <1>10, OneMoves
<1>12. identities' \subseteq Identity
  BY <1>1, <1>4, <1>6, Typed1 DEF Identity
<1>13. TypeOK'
  BY <1>1, <1>6, <1>11, <1>12 DEF TypeOK
<1>14. AccountsHold'
  <2>1. \A j \in identities : j.subject # c.subject
    BY <1>5 DEF CreateIdentity
  <2>2. ASSUME NEW j \in identities', NEW k \in identities', j.subject = k.subject PROVE j = k
    BY <1>1, <1>6, <2>1, <2>2 DEF AccountsHold
  <2> QED BY <1>1, <1>6, <2>2 DEF AccountsHold
<1>15. SessionsHold' /\ TokensInv' /\ OverridesHold'
  BY <1>1, <1>6, <1>7, SessionsSame, TokensSame, OverridesSame
<1> QED BY <1>7, <1>11, <1>13, <1>14, <1>15, Whole

(***************************************************************************)
(* Members, organizations and host names.                                  *)
(***************************************************************************)
LEMMA MembersTyped ==
  ASSUME TypeOK, NEW o, NEW u, NEW role \in {"member", "admin"}, NEW b \in BOOLEAN,
         AddMember(o, u, role) \/ SetMemberStatus(o, u, b)
  PROVE  members' \in [Orgs -> [UserIds -> Member]]
<1>1. members \in [Orgs -> [UserIds -> Member]]
  BY Typed1
<1>2. CASE o \in Orgs /\ u \in UserIds
  <2>1. PICK m \in Member : m = members[o][u]
    BY <1>1, <1>2
  <2>2. PICK n \in Member : members' = [members EXCEPT ![o][u] = n]
    <3>1. CASE AddMember(o, u, role)
      <4> DEFINE n == [role |-> IF m.role = "none" THEN role ELSE m.role, active |-> TRUE]
      <4>1. n \in Member
        BY DEF Member
      <4>2. members' = [members EXCEPT ![o][u] = n]
        BY <1>1, <1>2, <2>1, <3>1 DEF AddMember, InsertMember
      <4> QED BY <4>1, <4>2
    <3>2. CASE SetMemberStatus(o, u, b)
      <4>1. [m EXCEPT !.active = b] \in Member
        BY DEF Member
      <4>2. members' = [members EXCEPT ![o][u] = [m EXCEPT !.active = b]]
        BY <1>1, <1>2, <2>1, <3>2 DEF SetMemberStatus
      <4> QED BY <4>1, <4>2
    <3> QED BY <3>1, <3>2
  <2> QED BY <1>1, <1>2, <2>2
<1>3. CASE ~(o \in Orgs /\ u \in UserIds)
  <2>1. members' = members
    <3>1. CASE AddMember(o, u, role)
      BY <1>1, <1>3, <3>1 DEF AddMember, InsertMember
    <3>2. CASE SetMemberStatus(o, u, b)
      BY <1>1, <1>3, <3>2 DEF SetMemberStatus
    <3> QED BY <3>1, <3>2
  <2> QED BY <1>1, <2>1
<1> QED BY <1>2, <1>3

LEMMA MemberMoves ==
  ASSUME AccountsInv, NEW q \in Requests, NEW r \in Request, Goes(q, r),
         ~HalfWay(request[q]), ~HalfWay(r), RequestHolds(r)',
         UNCHANGED <<users, sessions, identities, orgs, domains, scim, apps, hooks, started, history>>,
         NEW o, NEW u, NEW role \in {"member", "admin"}, NEW b \in BOOLEAN,
         AddMember(o, u, role) \/ SetMemberStatus(o, u, b)
  PROVE  AccountsInv'
<1>1. TypeOK
  BY Parts
<1>2. members' \in [Orgs -> [UserIds -> Member]]
  BY <1>1, MembersTyped
<1>3. request' \in [Requests -> Request] /\ \A w \in Requests : Settled(w)
  BY <1>1, OneMoves
<1>4. domains' \in [Hosts -> CustomDomain] /\ started' \in 0..MaxRequests
  BY <1>1, Typed1
<1> QED BY <1>2, <1>3, <1>4, Moves

LEMMA IdleMoves ==
  Idle \in Request /\ ~HalfWay(Idle) /\ RequestHolds(Idle)'
BY Blanks, IdleHolds DEF HalfWay, Idle

LEMMA JoinKeeps ==
  ASSUME AccountsInv, NEW q \in Requests,
         OidcJoin(q) \/ ScimPatchMember(q) \/ \E a \in AppIds : InviteBot(q, a)
  PROVE  AccountsInv'
<1>1. PICK c \in Request : c = request[q] /\ RequestHolds(c)
  BY Found
<1>2. c.active \in BOOLEAN /\ c.role \in {"member", "admin"}
  BY DEF Request
<1>3. CASE OidcJoin(q)
  <2>1. AddMember(c.org, c.user, c.role) /\ ~HalfWay(c) /\ Goes(q, Idle)
    BY <1>1, <1>3 DEF OidcJoin, At, HalfWay
  <2> QED BY <1>1, <1>2, <1>3, <2>1, IdleMoves, MemberMoves DEF OidcJoin
<1>4. CASE ScimPatchMember(q)
  <2>1. SetMemberStatus(c.org, c.user, c.active) /\ ~HalfWay(c) /\ Goes(q, Idle)
    BY <1>1, <1>4 DEF ScimPatchMember, At, HalfWay
  <2> QED BY <1>1, <1>2, <1>4, <2>1, IdleMoves, MemberMoves DEF ScimPatchMember
<1>5. ASSUME NEW a \in AppIds, InviteBot(q, a) PROVE AccountsInv'
  <2>1. AddMember(c.org, apps.user[a], "member") /\ ~HalfWay(c) /\ Goes(q, Idle)
    BY <1>1, <1>5 DEF InviteBot, At, HalfWay
  <2> QED BY <1>1, <1>2, <1>5, <2>1, IdleMoves, MemberMoves DEF InviteBot
<1> QED BY <1>3, <1>4, <1>5

LEMMA ScimJoinKeeps ==
  ASSUME AccountsInv, NEW q \in Requests, ScimJoin(q) \/ ScimDeactivate(q) PROVE AccountsInv'
<1>1. PICK c \in Request : c = request[q] /\ RequestHolds(c)
  BY Found
<1>2. c.op = "provision" /\ ~HalfWay(c)
  BY <1>1 DEF ScimJoin, ScimDeactivate, At, HalfWay
<1>3. PICK step \in {"row", "deactivate"} : Goes(q, [c EXCEPT !.at = step])
  BY <1>1 DEF ScimJoin, ScimDeactivate, To
<1> DEFINE r == [c EXCEPT !.at = step]
<1>4. r \in Request /\ r.op = "provision" /\ r.at = step
  BY <1>2 DEF Request, Steps
<1>5. RequestHolds(r)' /\ ~HalfWay(r)
  <2> HIDE DEF r
  <2> QED BY <1>4 DEF RequestHolds, HalfWay
<1>6. AddMember(c.org, c.user, "member") \/ SetMemberStatus(c.org, c.user, FALSE)
  BY <1>1 DEF ScimJoin, ScimDeactivate
<1>7. UNCHANGED <<users, sessions, identities, orgs, domains, scim, apps, hooks, started, history>>
  BY DEF ScimJoin, ScimDeactivate
<1>8. Goes(q, r)
  BY <1>3
<1> HIDE DEF r
<1> QED BY <1>1, <1>2, <1>4, <1>5, <1>6, <1>7, <1>8, MemberMoves

\* An organization begins with no plan of billing's, no provider and the open policy
\* that its absence stood for.
LEMMA OrganizationCreated ==
  ASSUME AccountsInv, NEW u \in UserIds, NEW n \in Names, NEW p \in Plans, Counted,
         CreateWithOptions(u, n, p),
         UNCHANGED <<users, sessions, identities, domains, scim, apps, hooks, request, history>>
  PROVE  AccountsInv'
<1>1. TypeOK /\ AccountsHold /\ SessionsHold /\ TokensInv /\ OverridesHold
  BY Parts
<1>2. PICK o \in Orgs : o = Slugify(n)
  BY OrganizationsAssumption DEF CreateWithOptions, Slugify
<1>3. /\ ~orgs[o].exists /\ orgs \in [Orgs -> Organization]
      /\ members \in [Orgs -> [UserIds -> Member]]
      /\ orgs' = [orgs EXCEPT ![o].exists = TRUE, ![o].plan = p]
      /\ members' = [members EXCEPT ![o][u] = [role |-> "owner", active |-> TRUE]]
  BY <1>1, <1>2, Typed1 DEF CreateWithOptions, InsertOrganization
<1>4. members' \in [Orgs -> [UserIds -> Member]]
  <2>1. [role |-> "owner", active |-> TRUE] \in Member
    BY DEF Member
  <2> QED BY <1>3, <2>1
<1>5. PICK x \in Organization : x = orgs[o]
  BY <1>3
<1>6. PICK y \in Organization : y = [x EXCEPT !.exists = TRUE, !.plan = p]
  BY DEF Organization
<1>7. /\ y.exists /\ y.overrides = x.overrides /\ y.billing = x.billing
      /\ y.provider = x.provider
  BY <1>6 DEF Organization
<1>8. orgs' = [orgs EXCEPT ![o] = y]
  BY <1>3, <1>5, <1>6 DEF Organization
<1>9. orgs' \in [Orgs -> Organization] /\ orgs'[o] = y /\ \A z \in Orgs : z # o => orgs'[z] = orgs[z]
  BY <1>3, <1>8
<1>10. TablesAge /\ RulesStay /\ PlansStay
  BY <1>3, <1>5, <1>7, <1>9 DEF TablesAge, RulesStay, PlansStay
<1>11. started' \in 0..MaxRequests
  BY <1>1, CountedTyped
<1>12. TypeOK'
  BY <1>1, <1>4, <1>9, <1>11 DEF TypeOK
<1>13. \A w \in Requests : Settled(w)
  BY DEF Settled
<1>14. AccountsHold' /\ SessionsHold'
  BY <1>1, <1>10, AccountsSame, SessionsSame
<1>15. TokensInv' /\ OverridesHold'
  BY <1>1, <1>10, TokensSame, OverridesSame DEF TablesAge
<1> QED BY <1>10, <1>12, <1>13, <1>14, <1>15, Whole

LEMMA OrganizationsKeep ==
  ASSUME AccountsInv, NEW u \in UserIds, NEW n \in Names,
         CreateOrganization(u, n) \/ \E t \in Tenants : ProvisionTenant(u, n, t)
  PROVE  AccountsInv'
<1>1. CASE CreateOrganization(u, n)
  <2>1. "free" \in Plans
    BY DEF Plans
  <2> QED BY <1>1, <2>1, OrganizationCreated DEF CreateOrganization
<1>2. ASSUME NEW t \in Tenants, ProvisionTenant(u, n, t) PROVE AccountsInv'
  <2>1. NormalizePlan(t.plan) \in Plans
    BY <1>2 DEF ProvisionTenant, ValidTenant
  <2> QED BY <1>2, <2>1, OrganizationCreated DEF ProvisionTenant
<1> QED BY <1>1, <1>2

LEMMA HostsKeep ==
  ASSUME AccountsInv, NEW q \in Requests,
         \/ \E n \in HostNames : CreateCustomDomain(q, n)
         \/ \E h \in Hosts : VerifyCustomDomain(q, h)
  PROVE  AccountsInv'
<1>1. TypeOK
  BY Parts
<1>2. PICK c \in Request : c = request[q] /\ RequestHolds(c)
  BY Found
<1>3. /\ c.op = "domain" /\ ~HalfWay(c) /\ Goes(q, Idle)
      /\ UNCHANGED <<users, sessions, identities, orgs, members, scim, apps, hooks, started, history>>
  BY <1>2 DEF CreateCustomDomain, VerifyCustomDomain, At, HalfWay
<1>4. PICK o \in Orgs \cup {None} : o = c.org
  BY DEF Request
<1>5. domains' \in [Hosts -> CustomDomain]
  <2>1. domains \in [Hosts -> CustomDomain]
    BY <1>1, Typed1
  <2>2. ASSUME NEW n \in HostNames, CreateCustomDomain(q, n)
        PROVE  domains' \in [Hosts -> CustomDomain]
    <3>1. [org |-> o, active |-> FALSE] \in CustomDomain
      BY DEF CustomDomain
    <3> QED BY <1>2, <1>4, <2>1, <2>2, <3>1 DEF CreateCustomDomain, InsertDomain
  <2>3. ASSUME NEW h \in Hosts, VerifyCustomDomain(q, h)
        PROVE  domains' \in [Hosts -> CustomDomain]
    <3>1. PICK x \in CustomDomain : x = domains[h]
      BY <2>1
    <3>2. [x EXCEPT !.active = TRUE] \in CustomDomain
      BY DEF CustomDomain
    <3>3. domains' = [domains EXCEPT ![h] = [x EXCEPT !.active = TRUE]]
      BY <2>1, <2>3, <3>1 DEF VerifyCustomDomain, ActivateDomain
    <3> QED BY <2>1, <3>2, <3>3
  <2> QED BY <2>2, <2>3
<1>6. request' \in [Requests -> Request] /\ \A w \in Requests : Settled(w)
  BY <1>1, <1>2, <1>3, IdleMoves, OneMoves
<1>7. members' \in [Orgs -> [UserIds -> Member]] /\ started' \in 0..MaxRequests
  BY <1>1, <1>3, Typed1
<1> QED BY <1>3, <1>5, <1>6, <1>7, Moves

(***************************************************************************)
(* Tokens.                                                                 *)
(***************************************************************************)

\* A new token is in no table and was never retired.
LEMMA FreshTokenIs ==
  ASSUME TypeOK, HasFreshToken
  PROVE  /\ FreshToken \in TokenIds /\ FreshToken # None
         /\ apps.tokens[FreshToken].app = None
         /\ \A h \in HookIds : hooks[h].token # FreshToken
         /\ \A o \in Orgs : scim.token[o] # FreshToken
         /\ FreshToken \notin history.retired
<1> DEFINE S == TokenIds \ Issued
<1>1. history.retired \subseteq TokenIds
  BY Typed1 DEF History
<1>2. Issued \subseteq TokenIds
  BY <1>1 DEF Issued
<1>3. S \subseteq Nat /\ S # {}
  BY <1>2, Constants DEF HasFreshToken
<1>4. Min(S) \in S
  <2> HIDE DEF S
  <2> QED BY <1>3, NatMin
<1>5. FreshToken \in TokenIds /\ FreshToken \notin Issued
  BY <1>4 DEF FreshToken
<1>6. FreshToken # None
  BY <1>5, Constants
<1>7. PICK f : f = FreshToken
  OBVIOUS
<1> QED BY <1>5, <1>6, <1>7 DEF Issued

\* No token of the tables opens anything in two ways.
LEMMA NobodyIn ==
  ASSUME NEW t, ~Authenticates(t)
  PROVE  /\ apps.tokens[t].app # None => ~apps.tokens[t].active
         /\ \A o \in Orgs : scim.token[o] # t
         /\ \A h \in HookIds : hooks[h].active => hooks[h].token # t
BY DEF Authenticates, FindBot, FindScimToken, Verified

\* How a step of SCIM or of an administrator that touches credentials only is put together.
LEMMA TokenMoves ==
  ASSUME AccountsInv, UNCHANGED <<users, sessions, identities, orgs, members, domains>>,
         TypeOK', TokensInv', history'.torn = history.torn, history'.posted = history.posted,
         \A t \in TokenIds :
           apps.tokens[t].app # None =>
             /\ apps'.tokens[t].app = apps.tokens[t].app
             /\ apps'.tokens[t].active => apps.tokens[t].active,
         \A w \in Requests : Settled(w)
  PROVE  AccountsInv'
<1>1. TypeOK /\ AccountsHold /\ SessionsHold /\ OverridesHold
  BY Parts
<1>2. TablesAge /\ RulesStay /\ PlansStay
  BY DEF TablesAge, RulesStay, PlansStay
<1>3. AccountsHold' /\ SessionsHold' /\ OverridesHold'
  BY <1>1, <1>2, AccountsSame, SessionsSame, OverridesSame
<1> QED BY <1>2, <1>3, Whole

\* The tables of SCIM: the retired token is the one the new row replaces.
LEMMA RotateScimTokenKeeps ==
  ASSUME AccountsInv, NEW q \in Requests, RotateScimToken(q) PROVE AccountsInv'
<1>1. TypeOK /\ TokensInv
  BY Parts
<1>2. PICK c \in Request : c = request[q] /\ RequestHolds(c)
  BY Found
<1>3. c.op = "admin" /\ c.at = "write" /\ ~HalfWay(c) /\ HasFreshToken
  BY <1>2 DEF RotateScimToken, At, HalfWay, UpsertScimToken
<1>4. PICK o \in Orgs : o = c.org
  BY <1>2, <1>3 DEF RequestHolds
<1>5. PICK f \in TokenIds :
        /\ f = FreshToken /\ f # None /\ apps.tokens[f].app = None
        /\ \A h \in HookIds : hooks[h].token # f
        /\ \A p \in Orgs : scim.token[p] # f
        /\ f \notin history.retired
  BY <1>1, <1>3, FreshTokenIs
<1>6. /\ scim' = [scim EXCEPT !.token[o] = f]
      /\ history' = [history EXCEPT !.retired = @ \cup ({scim.token[o]} \ {None})]
      /\ UNCHANGED <<users, sessions, identities, orgs, members, domains, apps, hooks, started>>
      /\ Goes(q, Idle)
  BY <1>2, <1>4, <1>5 DEF RotateScimToken, UpsertScimToken
<1>7. request' \in [Requests -> Request] /\ \A w \in Requests : Settled(w)
  BY <1>1, <1>2, <1>3, <1>6, IdleMoves, OneMoves
<1>8. /\ scim.token \in [Orgs -> TokenIds \cup {None}] /\ history \in History
      /\ scim \in [token : [Orgs -> TokenIds \cup {None}],
                   users : [Orgs -> [ExternalIds -> ScimUser]]]
  BY <1>1, Typed1
<1>9. scim'.token = [scim.token EXCEPT ![o] = f] /\ scim'.users = scim.users
  BY <1>6, <1>8
<1>10. scim' \in [token : [Orgs -> TokenIds \cup {None}],
                  users : [Orgs -> [ExternalIds -> ScimUser]]]
  <2>1. [scim.token EXCEPT ![o] = f] \in [Orgs -> TokenIds \cup {None}]
    BY <1>8
  <2>2. scim' = [token |-> [scim.token EXCEPT ![o] = f], users |-> scim.users]
    BY <1>6, <1>8
  <2> QED BY <1>8, <2>1, <2>2
<1>11. history' \in History /\ history'.torn = history.torn /\ history'.posted = history.posted
       /\ history'.retired = history.retired \cup ({scim.token[o]} \ {None})
  BY <1>6, <1>8 DEF History
<1>12. TypeOK'
  BY <1>1, <1>6, <1>7, <1>10, <1>11 DEF TypeOK
<1>13. \A p \in Orgs : scim'.token[p] = IF p = o THEN f ELSE scim.token[p]
  BY <1>8, <1>9
<1>14. ASSUME NEW t \in TokenIds PROVE TokenApart(t)'
  <2>1. TokenApart(t)
    BY <1>1 DEF TokensInv
  <2> QED BY <1>5, <1>6, <1>13, <2>1 DEF TokenApart
<1>15. ASSUME NEW h \in HookIds PROVE HookHolds(hooks[h])'
  BY <1>1, <1>6 DEF TokensInv, HookHolds
<1>16. ASSUME NEW t \in history'.retired PROVE ~Authenticates(t)'
  <2>1. CASE t \in history.retired
    <3>1. ~Authenticates(t) /\ t # f
      BY <1>1, <1>5, <2>1 DEF TokensInv, RotatedOut
    <3>2. \A p \in Orgs : scim'.token[p] # t
      BY <1>13, <3>1, NobodyIn
    <3> QED BY <1>6, <3>1, <3>2, NobodyIn DEF Authenticates, FindBot, FindScimToken, Verified
  <2>2. CASE t \notin history.retired
    <3>1. t = scim.token[o] /\ t # None /\ t \in TokenIds
      BY <1>8, <1>11, <2>2
    <3>2. TokenApart(t)
      BY <1>1, <3>1 DEF TokensInv
    <3>3. /\ apps.tokens[t].app = None /\ \A p \in Orgs : scim.token[p] = t => p = o
          /\ \A h \in HookIds : hooks[h].token # t
      BY <3>1, <3>2 DEF TokenApart
    <3>4. \A p \in Orgs : scim'.token[p] # t
      BY <1>5, <1>13, <3>1, <3>3
    <3> QED BY <1>6, <3>3, <3>4 DEF Authenticates, FindBot, FindScimToken, Verified
  <2> QED BY <2>1, <2>2
<1>17. TokensInv'
  BY <1>14, <1>15, <1>16 DEF TokensInv, RotatedOut
<1> QED BY <1>6, <1>7, <1>11, <1>12, <1>17, TokenMoves

LEMMA ScimRowKeeps ==
  ASSUME AccountsInv, NEW q \in Requests, ScimUpsert(q) \/ ScimPatch(q) PROVE AccountsInv'
<1>1. TypeOK /\ TokensInv
  BY Parts
<1>2. PICK c \in Request : c = request[q] /\ RequestHolds(c)
  BY Found
<1>3. /\ scim \in [token : [Orgs -> TokenIds \cup {None}],
                   users : [Orgs -> [ExternalIds -> ScimUser]]]
      /\ UNCHANGED <<users, sessions, identities, orgs, members, domains, apps, hooks, started, history>>
  BY <1>1, Typed1 DEF ScimUpsert, ScimPatch
<1> DEFINE T == [Orgs -> [ExternalIds -> ScimUser]]
<1>4. PICK us \in T : scim' = [scim EXCEPT !.users = us]
  <2>1. scim.users \in T
    BY <1>3
  <2>2. CASE ScimUpsert(q)
    <3> DEFINE x == [user |-> c.user, active |-> c.active]
               us == [scim.users EXCEPT ![c.org][c.ext] = x]
    <3>1. x \in ScimUser
      BY DEF ScimUser, Request
    <3>2. us \in T
      <4> HIDE DEF x
      <4> QED BY <2>1, <3>1
    <3>3. scim' = [scim EXCEPT !.users = us]
      BY <1>2, <1>3, <2>2 DEF ScimUpsert, UpsertScimUser
    <3> QED BY <3>2, <3>3
  <2>3. CASE ScimPatch(q)
    <3>1. c.org \in Orgs /\ c.ext \in ExternalIds
      BY <1>2, <2>3 DEF ScimPatch, At, RequestHolds
    <3>2. PICK y \in ScimUser : y = scim.users[c.org][c.ext]
      BY <2>1, <3>1
    <3> DEFINE x == [y EXCEPT !.active = c.active]
               us == [scim.users EXCEPT ![c.org][c.ext] = x]
    <3>3. x \in ScimUser
      BY DEF ScimUser, Request
    <3>4. us \in T
      <4> HIDE DEF x
      <4> QED BY <2>1, <3>3
    <3>5. scim' = [scim EXCEPT !.users = us]
      BY <1>2, <1>3, <2>1, <2>3, <3>1, <3>2 DEF ScimPatch, SetScimActive
    <3> QED BY <3>4, <3>5
  <2> QED BY <2>2, <2>3
<1>5. scim'.token = scim.token
      /\ scim' \in [token : [Orgs -> TokenIds \cup {None}],
                    users : [Orgs -> [ExternalIds -> ScimUser]]]
  BY <1>3, <1>4
<1>6. PICK r \in Request : Goes(q, r) /\ RequestHolds(r)' /\ ~HalfWay(r) /\ ~HalfWay(c)
  <2>1. CASE ScimUpsert(q)
    BY <1>2, <2>1, IdleMoves DEF ScimUpsert, At, HalfWay
  <2>2. CASE ScimPatch(q)
    <3>1. c.op = "patch" /\ c.at = "row" /\ c.org \in Orgs /\ c.ext \in ExternalIds
      BY <1>2, <2>2 DEF ScimPatch, At, RequestHolds
    <3>2. PICK u \in UserIds \cup {None} : u = scim.users[c.org][c.ext].user
      BY <1>3, <3>1 DEF ScimUser
    <3> DEFINE r == [c EXCEPT !.user = u, !.at = "member"]
    <3>3. r \in Request /\ r.op = "patch" /\ r.at = "member" /\ r.org = c.org /\ r.ext = c.ext
      BY <3>1, ZenonT(60) DEF Request, Steps
    <3>4. Goes(q, r)
      BY <1>2, <2>2, <3>2 DEF ScimPatch
    <3>5. RequestHolds(r)' /\ ~HalfWay(r) /\ ~HalfWay(c)
      <4> HIDE DEF r
      <4> QED BY <3>1, <3>3 DEF RequestHolds, HalfWay
    <3> HIDE DEF r
    <3> QED BY <3>3, <3>4, <3>5
  <2> QED BY <2>1, <2>2
<1>7. request' \in [Requests -> Request] /\ \A w \in Requests : Settled(w)
  BY <1>1, <1>2, <1>6, OneMoves
<1>8. TypeOK'
  BY <1>1, <1>3, <1>5, <1>7 DEF TypeOK
<1>9. TokensInv'
  BY <1>1, <1>3, <1>5, TokensSame
<1> QED BY <1>3, <1>7, <1>8, <1>9, TokenMoves

\* Bot applications.
Applications == [user : [AppIds -> UserIds \cup {None}], org : [AppIds -> Orgs \cup {None}],
                 tokens : [TokenIds -> BotToken]]

LEMMA AppCreateKeeps ==
  ASSUME AccountsInv, NEW q \in Requests, NEW a \in AppIds, AppCreate(q, a) PROVE AccountsInv'
<1>1. TypeOK /\ TokensInv
  BY Parts
<1>2. PICK c \in Request : c = request[q] /\ RequestHolds(c)
  BY Found
<1>3. c.op = "admin" /\ c.at = "app" /\ c.user \in UserIds \cup {None} /\ c.org \in Orgs
  BY <1>2 DEF AppCreate, At, RequestHolds, Request
<1> DEFINE r == [c EXCEPT !.app = a, !.at = "first_token"]
<1>4. /\ apps \in Applications /\ Goes(q, r)
      /\ apps' = [apps EXCEPT !.user[a] = c.user, !.org[a] = c.org]
      /\ UNCHANGED <<users, sessions, identities, orgs, members, domains, scim, hooks, started, history>>
  BY <1>1, <1>2, Typed1 DEF AppCreate, Applications
<1>5. apps'.tokens = apps.tokens /\ apps' \in Applications
  <2>1. apps' = [user |-> [apps.user EXCEPT ![a] = c.user], org |-> [apps.org EXCEPT ![a] = c.org],
                 tokens |-> apps.tokens]
    BY <1>4 DEF Applications
  <2>2. [apps.user EXCEPT ![a] = c.user] \in [AppIds -> UserIds \cup {None}]
    BY <1>3, <1>4 DEF Applications
  <2>3. [apps.org EXCEPT ![a] = c.org] \in [AppIds -> Orgs \cup {None}]
    BY <1>3, <1>4 DEF Applications
  <2>4. apps.tokens \in [TokenIds -> BotToken]
    BY <1>4 DEF Applications
  <2> QED BY <2>1, <2>2, <2>3, <2>4 DEF Applications
<1>6. r \in Request /\ r.op = "admin" /\ r.at = "first_token" /\ r.org = c.org
  BY <1>3, ZenonT(60) DEF Request, Steps
<1>7. RequestHolds(r)' /\ ~HalfWay(r) /\ ~HalfWay(c)
  <2> HIDE DEF r
  <2> QED BY <1>3, <1>6 DEF RequestHolds, HalfWay
<1> HIDE DEF r
<1>8. request' \in [Requests -> Request] /\ \A w \in Requests : Settled(w)
  BY <1>1, <1>2, <1>4, <1>6, <1>7, OneMoves
<1>9. TypeOK'
  BY <1>1, <1>4, <1>5, <1>8 DEF TypeOK, Applications
<1>10. TokensInv'
  BY <1>1, <1>4, <1>5, TokensSame
<1> QED BY <1>4, <1>5, <1>8, <1>9, <1>10, TokenMoves

\* A new token of an application, with others of it made inactive: what existed
\* when a rotation began is retired with it.
LEMMA TokenIssued ==
  ASSUME AccountsInv, HasFreshToken, NEW a \in AppIds \cup {None}, NEW off \in SUBSET TokenIds,
         NEW retired \in SUBSET TokenIds,
         \A t \in off : apps.tokens[t].app # None,
         \A t \in retired : apps.tokens[t].app # None /\ (t \in off \/ ~apps.tokens[t].active),
         apps' = [apps EXCEPT !.tokens = [t \in TokenIds |->
                    IF t = FreshToken THEN [app |-> a, active |-> TRUE]
                    ELSE IF t \in off THEN [@[t] EXCEPT !.active = FALSE] ELSE @[t]]],
         history' = [history EXCEPT !.retired = @ \cup retired],
         UNCHANGED <<users, sessions, identities, orgs, members, domains, scim, hooks, started>>,
         request' \in [Requests -> Request], \A w \in Requests : Settled(w)
  PROVE  AccountsInv'
<1>1. TypeOK /\ TokensInv
  BY Parts
<1>2. PICK f \in TokenIds :
        /\ f = FreshToken /\ f # None /\ apps.tokens[f].app = None
        /\ \A h \in HookIds : hooks[h].token # f
        /\ \A p \in Orgs : scim.token[p] # f
        /\ f \notin history.retired
  BY <1>1, FreshTokenIs
<1>3. apps \in Applications /\ history \in History /\ apps.tokens \in [TokenIds -> BotToken]
  BY <1>1, Typed1 DEF Applications
<1> DEFINE New(t) == IF t = f THEN [app |-> a, active |-> TRUE]
                     ELSE IF t \in off THEN [apps.tokens[t] EXCEPT !.active = FALSE]
                     ELSE apps.tokens[t]
<1>4. apps' = [apps EXCEPT !.tokens = [t \in TokenIds |-> New(t)]]
  BY <1>2
<1>5. \A t \in TokenIds : New(t) \in BotToken
  BY <1>3 DEF BotToken
<1>6. apps'.tokens = [t \in TokenIds |-> New(t)] /\ apps' \in Applications
  <2> HIDE DEF New
  <2>1. [t \in TokenIds |-> New(t)] \in [TokenIds -> BotToken]
    BY <1>5
  <2> QED BY <1>3, <1>4, <2>1 DEF Applications
<1>7. \A t \in TokenIds : t # f => /\ apps'.tokens[t].app = apps.tokens[t].app
                                   /\ apps'.tokens[t].active => apps.tokens[t].active
                                   /\ t \in off => ~apps'.tokens[t].active
  <2> SUFFICES ASSUME NEW t \in TokenIds, t # f
               PROVE  /\ apps'.tokens[t].app = apps.tokens[t].app
                      /\ apps'.tokens[t].active => apps.tokens[t].active
                      /\ t \in off => ~apps'.tokens[t].active
    OBVIOUS
  <2>1. apps.tokens[t] \in BotToken
    BY <1>3
  <2>2. CASE t \in off
    <3>1. apps'.tokens[t] = [apps.tokens[t] EXCEPT !.active = FALSE]
      BY <1>6, <2>2
    <3> QED BY <2>1, <3>1 DEF BotToken
  <2>3. CASE t \notin off
    BY <1>6, <2>3
  <2> QED BY <2>2, <2>3
<1>8. /\ history' \in History /\ history'.torn = history.torn /\ history'.posted = history.posted
      /\ history'.retired = history.retired \cup retired
  BY <1>3 DEF History
<1>9. TypeOK'
  BY <1>1, <1>6, <1>8 DEF TypeOK, Applications
<1> HIDE DEF New
<1>10. ASSUME NEW t \in TokenIds PROVE TokenApart(t)'
  <2>1. TokenApart(t)
    BY <1>1 DEF TokensInv
  <2>2. CASE t = f
    BY <1>2, <2>2 DEF TokenApart
  <2>3. CASE t # f
    BY <1>7, <2>1, <2>3 DEF TokenApart
  <2> QED BY <2>2, <2>3
<1>11. ASSUME NEW h \in HookIds PROVE HookHolds(hooks[h])'
  BY <1>1 DEF TokensInv, HookHolds
<1>12. ASSUME NEW t \in history'.retired PROVE ~Authenticates(t)'
  <2>0. t \in TokenIds
    BY <1>8 DEF History
  <2>1. CASE t \in history.retired
    <3>1. ~Authenticates(t) /\ t # f
      BY <1>1, <1>2, <2>1 DEF TokensInv, RotatedOut
    <3>2. ~(apps'.tokens[t].app # None /\ apps'.tokens[t].active)
      BY <1>7, <2>0, <3>1, NobodyIn
    <3> QED BY <3>1, <3>2, NobodyIn DEF Authenticates, FindBot, FindScimToken, Verified
  <2>2. CASE t \in retired
    <3>1. apps.tokens[t].app # None /\ t # f
      BY <1>2, <2>2
    <3>2. ~apps'.tokens[t].active
      BY <1>7, <2>0, <2>2, <3>1
    <3>3. TokenApart(t)
      BY <1>1, <2>0 DEF TokensInv
    <3>4. (\A h \in HookIds : hooks[h].token # t) /\ \A o \in Orgs : scim.token[o] # t
      BY <3>1, <3>3 DEF TokenApart
    <3> QED BY <3>2, <3>4 DEF Authenticates, FindBot, FindScimToken, Verified
  <2> QED BY <1>8, <2>1, <2>2
<1>13. TokensInv'
  BY <1>10, <1>11, <1>12 DEF TokensInv, RotatedOut
<1> QED BY <1>2, <1>7, <1>8, <1>9, <1>13, TokenMoves

LEMMA AppFirstTokenKeeps ==
  ASSUME AccountsInv, NEW q \in Requests, AppFirstToken(q) PROVE AccountsInv'
<1>1. TypeOK
  BY Parts
<1>2. PICK c \in Request : c = request[q] /\ RequestHolds(c)
  BY Found
<1>3. ~HalfWay(c) /\ c.app \in AppIds \cup {None} /\ HasFreshToken /\ Goes(q, Idle)
  BY <1>2 DEF AppFirstToken, At, HalfWay, Request
<1>4. request' \in [Requests -> Request] /\ \A w \in Requests : Settled(w)
  BY <1>1, <1>2, <1>3, IdleMoves, OneMoves
<1>5. apps \in Applications /\ history \in History
  BY <1>1, Typed1 DEF Applications
<1>6. apps' = [apps EXCEPT !.tokens = [t \in TokenIds |->
                    IF t = FreshToken THEN [app |-> c.app, active |-> TRUE]
                    ELSE IF t \in {} THEN [@[t] EXCEPT !.active = FALSE] ELSE @[t]]]
  BY <1>2, <1>5 DEF AppFirstToken, Applications
<1>7. history' = [history EXCEPT !.retired = @ \cup {}]
  BY <1>5 DEF AppFirstToken, History
<1>8. UNCHANGED <<users, sessions, identities, orgs, members, domains, scim, hooks, started>>
  BY DEF AppFirstToken
<1>9. {} \in SUBSET TokenIds /\ (\A t \in {} : apps.tokens[t].app # None)
      /\ \A t \in {} : apps.tokens[t].app # None /\ (t \in {} \/ ~apps.tokens[t].active)
  OBVIOUS
<1> QED BY <1>3, <1>4, <1>6, <1>7, <1>8, <1>9, TokenIssued

LEMMA RotateCommitKeeps ==
  ASSUME AccountsInv, NEW q \in Requests, RotateCommit(q) PROVE AccountsInv'
<1>1. TypeOK
  BY Parts
<1>2. PICK c \in Request : c = request[q] /\ RequestHolds(c)
  BY Found
<1>3. c.op = "rotate" /\ c.at = "commit" /\ ~HalfWay(c) /\ HasFreshToken /\ Goes(q, Idle)
  BY <1>2 DEF RotateCommit, At, HalfWay
<1>4. c.app \in AppIds \cup {None} /\ c.seen \in SUBSET TokenIds /\ c.old \in SUBSET TokenIds
  BY DEF Request
<1>5. /\ \A t \in c.seen : apps.tokens[t].app # None
      /\ \A t \in c.old : apps.tokens[t].app # None /\ (t \in c.seen \/ ~apps.tokens[t].active)
  BY <1>2, <1>3 DEF RequestHolds
<1>6. request' \in [Requests -> Request] /\ \A w \in Requests : Settled(w)
  BY <1>1, <1>2, <1>3, IdleMoves, OneMoves
<1>7. /\ apps' = [apps EXCEPT !.tokens = [t \in TokenIds |->
                    IF t = FreshToken THEN [app |-> c.app, active |-> TRUE]
                    ELSE IF t \in c.seen THEN [@[t] EXCEPT !.active = FALSE] ELSE @[t]]]
      /\ history' = [history EXCEPT !.retired = @ \cup c.old]
      /\ UNCHANGED <<users, sessions, identities, orgs, members, domains, scim, hooks, started>>
  BY <1>2 DEF RotateCommit
<1> QED BY <1>3, <1>4, <1>5, <1>6, <1>7, TokenIssued

\* Webhooks: a row that stays or takes a new token; what it gives up is retired.
LEMMA HookMoves ==
  ASSUME AccountsInv, NEW h \in HookIds, NEW x \in Hook, HookHolds(x),
         hooks' = [hooks EXCEPT ![h] = x],
         \/ x.token = hooks[h].token /\ ~x.active
         \/ HasFreshToken /\ x.token = FreshToken,
         NEW retired \in SUBSET TokenIds, retired \subseteq {hooks[h].token},
         x.token \notin retired \/ ~x.active,
         history' = [history EXCEPT !.retired = @ \cup retired],
         UNCHANGED <<users, sessions, identities, orgs, members, domains, scim, apps>>,
         started' \in 0..MaxRequests,
         request' \in [Requests -> Request], \A w \in Requests : Settled(w)
  PROVE  AccountsInv'
<1>1. TypeOK /\ TokensInv
  BY Parts
<1>2. hooks \in [HookIds -> Hook] /\ history \in History
  BY <1>1, Typed1
<1>3. /\ hooks' \in [HookIds -> Hook] /\ hooks'[h] = x
      /\ \A g \in HookIds : g # h => hooks'[g] = hooks[g]
  BY <1>2
<1>4. /\ history' \in History /\ history'.torn = history.torn /\ history'.posted = history.posted
      /\ history'.retired = history.retired \cup retired
  BY <1>2 DEF History
<1>5. TypeOK'
  BY <1>1, <1>3, <1>4 DEF TypeOK
\* The token of the row is in no other row of any table.
<1>6. x.token \in TokenIds =>
        /\ apps.tokens[x.token].app = None /\ \A o \in Orgs : scim.token[o] # x.token
        /\ \A g \in HookIds : hooks[g].token = x.token => g = h
  <2>1. CASE x.token = hooks[h].token
    BY <1>1, <2>1 DEF TokensInv, TokenApart
  <2>2. CASE HasFreshToken /\ x.token = FreshToken
    BY <1>1, <2>2, FreshTokenIs
  <2> QED BY <2>1, <2>2
<1>7. ASSUME NEW t \in TokenIds PROVE TokenApart(t)'
  <2>1. TokenApart(t)
    BY <1>1 DEF TokensInv
  <2>2. CASE t = x.token
    <3>1. /\ apps.tokens[t].app = None /\ \A o \in Orgs : scim.token[o] # t
          /\ \A g \in HookIds : hooks'[g].token = t => g = h
      BY <1>3, <1>6, <2>2
    <3> QED BY <3>1 DEF TokenApart
  <2>3. CASE t # x.token
    <3>1. \A g \in HookIds : hooks'[g].token = t => g # h /\ hooks[g].token = t
      BY <1>3, <2>3
    <3> QED BY <2>1, <3>1 DEF TokenApart
  <2> QED BY <2>2, <2>3
<1>8. ASSUME NEW g \in HookIds PROVE HookHolds(hooks[g])'
  <2>1. CASE g = h
    BY <1>3, <2>1 DEF HookHolds
  <2>2. CASE g # h
    BY <1>1, <1>3, <2>2 DEF TokensInv, HookHolds
  <2> QED BY <2>1, <2>2
<1>9. ASSUME NEW t \in history'.retired PROVE ~Authenticates(t)'
  <2>1. CASE t \in retired
    <3>1. t \in TokenIds /\ t = hooks[h].token /\ TokenApart(t)
      BY <1>1, <2>1 DEF TokensInv
    <3>2. /\ apps.tokens[t].app = None /\ \A o \in Orgs : scim.token[o] # t
          /\ \A g \in HookIds : hooks[g].token = t => g = h
      BY <3>1 DEF TokenApart
    <3>3. ~(x.active /\ x.token = t)
      BY <2>1
    <3>4. \A g \in HookIds : ~(hooks'[g].active /\ hooks'[g].token = t)
      BY <1>3, <3>2, <3>3
    <3> QED BY <3>2, <3>4 DEF Authenticates, FindBot, FindScimToken, Verified
  <2>2. CASE t \in history.retired
    <3>1. ~Authenticates(t)
      BY <1>1, <2>2 DEF TokensInv, RotatedOut
    <3>2. ~(x.active /\ x.token = t)
      <4>1. CASE ~x.active
        BY <4>1
      <4>2. CASE HasFreshToken /\ x.token = FreshToken
        BY <1>1, <2>2, <4>2, FreshTokenIs
      <4> QED BY <4>1, <4>2
    <3>3. \A g \in HookIds : ~(hooks'[g].active /\ hooks'[g].token = t)
      BY <1>3, <3>1, <3>2, NobodyIn
    <3>4. (apps.tokens[t].app # None => ~apps.tokens[t].active) /\ \A o \in Orgs : scim.token[o] # t
      BY <3>1, NobodyIn
    <3> QED BY <3>3, <3>4 DEF Authenticates, FindBot, FindScimToken, Verified
  <2> QED BY <1>4, <2>1, <2>2
<1>10. TokensInv'
  BY <1>7, <1>8, <1>9 DEF TokensInv, RotatedOut
<1> QED BY <1>4, <1>5, <1>10, TokenMoves

LEMMA HookCreateKeeps ==
  ASSUME AccountsInv, NEW q \in Requests, NEW h \in HookIds, HookCreate(q, h) PROVE AccountsInv'
<1>1. TypeOK
  BY Parts
<1>2. PICK c \in Request : c = request[q] /\ RequestHolds(c)
  BY Found
<1>3. /\ c.op = "admin" /\ c.at = "hook" /\ ~HalfWay(c) /\ HasFreshToken /\ Goes(q, Idle)
      /\ hooks' = [hooks EXCEPT ![h] = [active |-> TRUE, token |-> FreshToken, org |-> c.org]]
      /\ UNCHANGED <<users, sessions, identities, orgs, members, domains, scim, apps, started, history>>
  BY <1>2 DEF HookCreate, InsertHook, At, HalfWay
<1>4. c.org \in Orgs /\ orgs[c.org].exists
  BY <1>2, <1>3 DEF RequestHolds
<1>5. FreshToken \in TokenIds
  BY <1>1, <1>3, FreshTokenIs
<1> DEFINE x == [active |-> TRUE, token |-> FreshToken, org |-> c.org]
<1>6. x \in Hook /\ HookHolds(x) /\ x.token = FreshToken
  BY <1>4, <1>5 DEF Hook, HookHolds
<1>7. request' \in [Requests -> Request] /\ \A w \in Requests : Settled(w)
  BY <1>1, <1>2, <1>3, IdleMoves, OneMoves
<1>8. history' = [history EXCEPT !.retired = @ \cup {}] /\ started' \in 0..MaxRequests
  BY <1>1, <1>3, Typed1 DEF History
<1>9. {} \in SUBSET TokenIds /\ {} \subseteq {hooks[h].token} /\ x.token \notin {}
  OBVIOUS
<1> HIDE DEF x
<1> QED BY <1>3, <1>6, <1>7, <1>8, <1>9, HookMoves DEF x

LEMMA HookTokenKeeps ==
  ASSUME AccountsInv, NEW h \in HookIds, HookRotate(h) \/ HookDisable(h) PROVE AccountsInv'
<1>1. TypeOK
  BY Parts
<1>2. /\ hooks \in [HookIds -> Hook] /\ hooks[h].active /\ HookHolds(hooks[h])
      /\ history' = [history EXCEPT !.retired = @ \cup {hooks[h].token}]
      /\ UNCHANGED <<users, sessions, identities, orgs, members, domains, scim, apps, request>>
  BY <1>1, Parts, Typed1 DEF HookRotate, HookDisable, UpdateHookToken, DisableHook, TokensInv
<1>3. started' \in 0..MaxRequests
  BY <1>1, CountedTyped DEF HookRotate, HookDisable
<1>4. request' \in [Requests -> Request] /\ \A w \in Requests : Settled(w)
  BY <1>1, <1>2, Typed1 DEF Settled
<1>5. PICK y \in Hook : y = hooks[h]
  BY <1>2
<1>6. y.token \in TokenIds /\ y.org \in Orgs /\ orgs[y.org].exists
  BY <1>2, <1>5 DEF HookHolds
<1>7. {y.token} \in SUBSET TokenIds
  BY <1>6
<1>8. CASE HookRotate(h)
  <2>1. PICK f \in TokenIds : f = FreshToken /\ \A g \in HookIds : hooks[g].token # f
    BY <1>1, <1>8, FreshTokenIs DEF HookRotate, UpdateHookToken
  <2> DEFINE x == [y EXCEPT !.token = f]
  <2>2. x \in Hook /\ x.token = f /\ x.org = y.org /\ hooks' = [hooks EXCEPT ![h] = x]
    BY <1>2, <1>5, <1>8, <2>1 DEF Hook, HookRotate, UpdateHookToken
  <2> HIDE DEF x
  <2>3. HookHolds(x)
    BY <1>6, <2>2 DEF HookHolds
  <2>4. HasFreshToken /\ x.token = FreshToken /\ x.token \notin {y.token}
    BY <1>5, <1>8, <2>1, <2>2 DEF HookRotate, UpdateHookToken
  <2> QED BY <1>2, <1>3, <1>4, <1>5, <1>7, <2>2, <2>3, <2>4, HookMoves
<1>9. CASE HookDisable(h)
  <2> DEFINE x == [y EXCEPT !.active = FALSE]
  <2>1. /\ x \in Hook /\ x.token = y.token /\ ~x.active
    BY DEF Hook
  <2>2. hooks' = [hooks EXCEPT ![h] = x]
    BY <1>2, <1>5, <1>9 DEF HookDisable, DisableHook
  <2> HIDE DEF x
  <2>3. HookHolds(x)
    BY <2>1 DEF HookHolds
  <2> QED BY <1>2, <1>3, <1>4, <1>5, <1>7, <2>1, <2>2, <2>3, HookMoves
<1> QED BY <1>8, <1>9

(***************************************************************************)
(* The end of requests, and what administrators configure.                 *)
(***************************************************************************)
LEMMA ExecuteStoreKeeps ==
  ASSUME AccountsInv, NEW q \in Requests, ExecuteStore(q) PROVE AccountsInv'
<1>1. TypeOK /\ AccountsHold /\ SessionsHold /\ TokensInv /\ OverridesHold
  BY Parts
<1>2. PICK c \in Request : c = request[q] /\ RequestHolds(c)
  BY Found
<1> DEFINE p == [override |-> c.override, allowed |-> c.free]
<1>3. /\ c.op = "execute" /\ c.at = "message" /\ ~HalfWay(c) /\ Goes(q, Idle)
      /\ history' = [history EXCEPT !.posted = @ \cup {p}]
      /\ UNCHANGED <<users, sessions, identities, orgs, members, domains, scim, apps, hooks, started>>
  BY <1>2 DEF ExecuteStore, At, HalfWay
<1>4. c.override => c.free
  BY <1>2, <1>3 DEF RequestHolds
<1>5. c.override \in BOOLEAN /\ c.free \in BOOLEAN
  BY DEF Request
<1>6. p \in [override : BOOLEAN, allowed : BOOLEAN] /\ (p.override => p.allowed)
  BY <1>4, <1>5
<1> HIDE DEF p
<1>7. /\ history' \in History /\ history'.torn = history.torn /\ history'.retired = history.retired
      /\ history'.posted = history.posted \cup {p}
  BY <1>1, <1>3, <1>6, Typed1 DEF History
<1>8. request' \in [Requests -> Request] /\ \A w \in Requests : Settled(w)
  BY <1>1, <1>2, <1>3, IdleMoves, OneMoves
<1>9. TypeOK'
  BY <1>1, <1>3, <1>7, <1>8 DEF TypeOK
<1>10. TablesAge /\ RulesStay /\ PlansStay
  BY <1>3, <1>7 DEF TablesAge, RulesStay, PlansStay
<1>11. OverridesHold'
  BY <1>1, <1>6, <1>7 DEF OverridesHold
<1>12. AccountsHold' /\ SessionsHold' /\ TokensInv'
  BY <1>1, <1>3, <1>7, <1>10, AccountsSame, SessionsSame, TokensSame
<1> QED BY <1>8, <1>9, <1>10, <1>11, <1>12, Whole

\* What billing leaves of the invariant to show.
LEMMA BillingMoves ==
  ASSUME AccountsInv, UNCHANGED <<users, sessions, identities, members, domains, scim, apps, hooks,
                                  started>>,
         orgs' \in [Orgs -> Organization], RulesStay,
         \A o \in Orgs : orgs'[o].exists = orgs[o].exists,
         history' \in History, history'.retired = history.retired,
         history'.posted = history.posted,
         request' \in [Requests -> Request], \A w \in Requests : Calm(w), BillingInv'
  PROVE  AccountsInv'
<1>1. TypeOK /\ AccountsHold /\ SessionsHold /\ TokensInv /\ OverridesHold /\ RequestsHold
  BY Parts
<1>2. TypeOK'
  BY <1>1 DEF TypeOK
<1>3. TablesAge
  BY DEF TablesAge
<1>4. AccountsHold' /\ SessionsHold' /\ RequestsHold'
  BY <1>1, <1>3, AccountsSame, SessionsSame, RequestsKept
<1>5. TokensInv' /\ OverridesHold'
  BY <1>1, TokensSame, OverridesSame
<1> QED BY <1>2, <1>4, <1>5 DEF AccountsInv, SessionsHold, RequestsHold

LEMMA Half ==
  /\ \A w, o : w \in HalfBilled(o) <=> w \in Requests /\ HalfWay(request[w]) /\ request[w].org = o
  /\ \A w, o : w \in HalfBilled(o)' <=> w \in Requests /\ HalfWay(request'[w]) /\ request'[w].org = o
BY DEF HalfBilled, HalfWay, At

\* An event that is whole is alone.
LEMMA WholeAlone ==
  ASSUME BillingInv, NEW w \in Requests, HalfWay(request[w]), request[w].whole
  PROVE  /\ HalfBilled(request[w].org) = {w}
         /\ orgs[request[w].org].plan = request[w].plan
BY DEF BillingInv, BillHolds, HalfWay, At

LEMMA NotWholeTorn ==
  ASSUME BillingInv, NEW w \in Requests, HalfWay(request[w]), ~request[w].whole
  PROVE  request[w].org \in history.torn
BY DEF BillingInv, BillHolds, HalfWay, At

\* A cut billing event leaves its organization torn.
LEMMA RequestEndsKeeps ==
  ASSUME AccountsInv, NEW q \in Requests, RequestEnds(q) PROVE AccountsInv'
<1>1. TypeOK /\ BillingInv
  BY Parts
<1>2. PICK c \in Request : c = request[q] /\ RequestHolds(c)
  BY Found
<1>3. /\ request' = [request EXCEPT ![q] = Idle] /\ request \in [Requests -> Request]
      /\ UNCHANGED <<users, sessions, identities, orgs, members, domains, scim, apps, hooks, started>>
      /\ history \in History
  BY <1>1, Typed1 DEF RequestEnds, Goes
<1>4. CASE ~HalfWay(c)
  <2>1. history' = history
    BY <1>2, <1>3, <1>4 DEF RequestEnds, At, HalfWay, History
  <2>2. request' \in [Requests -> Request] /\ \A w \in Requests : Settled(w)
    BY <1>1, <1>2, <1>4, IdleMoves, OneMoves DEF RequestEnds
  <2>3. /\ members' \in [Orgs -> [UserIds -> Member]] /\ domains' \in [Hosts -> CustomDomain]
        /\ started' \in 0..MaxRequests
    BY <1>1, <1>3, Typed1
  <2> QED BY <1>3, <2>1, <2>2, <2>3, Moves
<1>5. CASE HalfWay(c)
  <2>1. PICK o \in Orgs : o = c.org
    BY <1>2, <1>5 DEF RequestHolds, HalfWay
  <2>2. history' = [history EXCEPT !.torn = @ \cup {o}]
    BY <1>2, <1>5, <2>1 DEF RequestEnds, At, HalfWay
  <2>3. /\ history' \in History /\ history'.torn = history.torn \cup {o}
        /\ history'.retired = history.retired /\ history'.posted = history.posted
    BY <1>3, <2>2 DEF History
  <2>4. /\ request' \in [Requests -> Request] /\ request'[q] = Idle
        /\ \A w \in Requests : w # q => request'[w] = request[w]
    BY <1>3, Blanks
  <2>5. ASSUME NEW w \in Requests PROVE Calm(w)
    <3>1. CASE w = q
      BY <2>4, <3>1, IdleHolds DEF Calm, RequestHolds, Idle
    <3> QED BY <2>4, <3>1 DEF Calm
  <2>6. ~HalfWay(request'[q])
    BY <2>4 DEF HalfWay, Idle
  <2>7. ASSUME NEW p, p # o PROVE HalfBilled(p)' = HalfBilled(p)
    <3>1. \A w \in Requests : HalfWay(request'[w]) /\ request'[w].org = p
                                <=> HalfWay(request[w]) /\ request[w].org = p
      BY <1>2, <2>1, <2>4, <2>6, <2>7
    <3>2. \A w : w \in HalfBilled(p)' <=> w \in HalfBilled(p)
      BY <3>1, Half
    <3> QED BY <3>2
  <2>8. ASSUME NEW w \in Requests PROVE BillHolds(w)'
    <3> SUFFICES ASSUME HalfWay(request'[w]) PROVE BillHolds(w)'
      BY DEF BillHolds, At, HalfWay
    <3>1. w # q /\ request'[w] = request[w] /\ HalfWay(request[w])
      BY <2>4, <2>6
    <3>2. request[w].whole \in BOOLEAN
      BY <1>3 DEF Request
    <3>3. CASE request[w].whole
      <4>1. HalfBilled(request[w].org) = {w} /\ orgs[request[w].org].plan = request[w].plan
        BY <1>1, <3>1, <3>3, WholeAlone
      <4>2. request[w].org # o
        BY <1>2, <1>5, <2>1, <3>1, <4>1, Half
      <4>3. HalfBilled(request[w].org)' = {w}
        <5>1. PICK p : p = request[w].org
          OBVIOUS
        <5>2. HalfBilled(p)' = {w}
          BY <2>7, <4>1, <4>2, <5>1
        <5> QED BY <3>1, <5>1, <5>2 DEF HalfBilled
      <4> QED BY <1>3, <3>1, <3>3, <4>1, <4>3 DEF BillHolds
    <3>4. CASE ~request[w].whole
      BY <1>1, <2>3, <3>1, <3>4, NotWholeTorn DEF BillHolds
    <3> QED BY <3>2, <3>3, <3>4
  <2>9. PlanAsBilled'
    <3> SUFFICES ASSUME NEW p \in Orgs, orgs[p].billing # NoPlan, HalfBilled(p)' = {},
                        p \notin history'.torn
                 PROVE  orgs[p].plan = orgs[p].billing
      BY <1>3 DEF PlanAsBilled
    <3>1. p # o /\ p \notin history.torn
      BY <2>3
    <3>2. HalfBilled(p) = {}
      BY <2>7, <3>1
    <3> QED BY <1>1, <3>1, <3>2 DEF BillingInv, PlanAsBilled
  <2>10. BillingInv'
    BY <1>1, <1>3, <2>8, <2>9 DEF BillingInv
  <2>11. RulesStay /\ orgs' \in [Orgs -> Organization]
    BY <1>1, <1>3, Typed1 DEF RulesStay
  <2> QED BY <1>3, <2>3, <2>4, <2>5, <2>10, <2>11, BillingMoves
<1> QED BY <1>4, <1>5

LEMMA BillRowKeeps ==
  ASSUME AccountsInv, NEW q \in Requests, BillRow(q) PROVE AccountsInv'
<1>1. TypeOK /\ BillingInv
  BY Parts
<1>2. PICK c \in Request : c = request[q] /\ RequestHolds(c)
  BY Found
<1>3. HalfWay(c)
  BY <1>2 DEF BillRow, At, HalfWay
<1>4. PICK o \in Orgs : o = c.org /\ orgs[o].exists
  BY <1>2, <1>3 DEF RequestHolds, HalfWay
<1>5. /\ request' = [request EXCEPT ![q] = Idle] /\ request \in [Requests -> Request]
      /\ UNCHANGED <<users, sessions, identities, members, domains, scim, apps, hooks, started>>
      /\ history \in History /\ orgs \in [Orgs -> Organization]
      /\ orgs' = [orgs EXCEPT ![o].billing = c.plan]
      /\ history' = [history EXCEPT !.torn = IF c.whole THEN @ \ {o} ELSE @]
  BY <1>1, <1>2, <1>4, Typed1 DEF BillRow, Goes, UpsertBilling
<1>6. c.plan \in Plans /\ c.whole \in BOOLEAN
  BY DEF Request
<1>7. PICK x \in Organization : x = orgs[o]
  BY <1>5
<1>8. PICK y \in Organization : y = [x EXCEPT !.billing = c.plan]
  BY <1>6 DEF Organization
<1>9. /\ y.exists = x.exists /\ y.plan = x.plan /\ y.overrides = x.overrides
      /\ y.provider = x.provider /\ y.billing = c.plan
  BY <1>8 DEF Organization
<1>10. orgs' = [orgs EXCEPT ![o] = y]
  BY <1>5, <1>7, <1>8
<1>11. orgs' \in [Orgs -> Organization] /\ orgs'[o] = y /\ \A p \in Orgs : p # o => orgs'[p] = orgs[p]
  BY <1>5, <1>10
<1>12. RulesStay /\ (\A p \in Orgs : orgs'[p].exists = orgs[p].exists)
       /\ \A p \in Orgs : orgs'[p].plan = orgs[p].plan
  BY <1>7, <1>9, <1>11 DEF RulesStay
<1>13. /\ history' \in History /\ history'.torn = IF c.whole THEN history.torn \ {o} ELSE history.torn
       /\ history'.retired = history.retired /\ history'.posted = history.posted
  BY <1>5 DEF History
<1>14. /\ request' \in [Requests -> Request] /\ request'[q] = Idle
       /\ \A w \in Requests : w # q => request'[w] = request[w]
  BY <1>5, Blanks
<1>15. ASSUME NEW w \in Requests PROVE Calm(w)
  <2>1. CASE w = q
    BY <1>14, <2>1, IdleHolds DEF Calm, RequestHolds, Idle
  <2> QED BY <1>14, <2>1 DEF Calm
<1>16. ~HalfWay(request'[q])
  BY <1>14 DEF HalfWay, Idle
<1>17. ASSUME NEW p, p # o PROVE HalfBilled(p)' = HalfBilled(p)
  <2>1. \A w \in Requests : HalfWay(request'[w]) /\ request'[w].org = p
                              <=> HalfWay(request[w]) /\ request[w].org = p
    BY <1>2, <1>4, <1>14, <1>16, <1>17
  <2>2. \A w : w \in HalfBilled(p)' <=> w \in HalfBilled(p)
    BY <2>1, Half
  <2> QED BY <2>2
<1>18. c.whole => HalfBilled(o) = {q} /\ orgs[o].plan = c.plan
  BY <1>1, <1>2, <1>3, <1>4, WholeAlone
<1>19. ~c.whole => o \in history.torn
  BY <1>1, <1>2, <1>3, <1>4, NotWholeTorn
<1>20. q \in HalfBilled(o)
  BY <1>2, <1>3, <1>4, Half
<1>21. ASSUME NEW w \in Requests PROVE BillHolds(w)'
  <2> SUFFICES ASSUME HalfWay(request'[w]) PROVE BillHolds(w)'
    BY DEF BillHolds, At, HalfWay
  <2>1. w # q /\ request'[w] = request[w] /\ HalfWay(request[w])
    BY <1>14, <1>16
  <2>2. request[w].whole \in BOOLEAN /\ request[w].org \in Orgs
    BY <1>5, <2>1, Found DEF Request, RequestHolds, HalfWay
  <2>3. CASE request[w].whole
    <3>1. HalfBilled(request[w].org) = {w} /\ orgs[request[w].org].plan = request[w].plan
      BY <1>1, <2>1, <2>3, WholeAlone
    <3>2. request[w].org # o
      BY <1>20, <2>1, <3>1
    <3>3. HalfBilled(request[w].org)' = {w}
      <4>1. PICK p : p = request[w].org
        OBVIOUS
      <4>2. HalfBilled(p)' = {w}
        BY <1>17, <3>1, <3>2, <4>1
      <4> QED BY <2>1, <4>1, <4>2 DEF HalfBilled
    <3>4. orgs'[request[w].org].plan = request[w].plan
      BY <1>12, <2>2, <3>1
    <3> QED BY <2>1, <2>3, <3>3, <3>4 DEF BillHolds
  <2>4. CASE ~request[w].whole
    <3>1. request[w].org \in history.torn
      BY <1>1, <2>1, <2>4, NotWholeTorn
    <3>2. request[w].org = o => ~c.whole
      BY <1>18, <2>1, Half
    <3>3. request[w].org \in history'.torn
      BY <1>13, <3>1, <3>2
    <3> QED BY <2>1, <2>4, <3>3 DEF BillHolds
  <2> QED BY <2>2, <2>3, <2>4
<1>22. PlanAsBilled'
  <2> SUFFICES ASSUME NEW p \in Orgs, orgs'[p].billing # NoPlan, HalfBilled(p)' = {},
                      p \notin history'.torn
               PROVE  orgs'[p].plan = orgs'[p].billing
    BY DEF PlanAsBilled
  <2>1. CASE p = o
    <3>1. c.whole
      BY <1>13, <1>19, <2>1
    <3> QED BY <1>9, <1>11, <1>12, <1>18, <2>1, <3>1
  <2>2. CASE p # o
    <3>1. p \notin history.torn /\ HalfBilled(p) = {} /\ orgs'[p] = orgs[p]
      BY <1>11, <1>13, <1>17, <2>2
    <3> QED BY <1>1, <3>1 DEF BillingInv, PlanAsBilled
  <2> QED BY <2>1, <2>2
<1>23. \A p \in Orgs : ~orgs'[p].exists => orgs'[p].billing = NoPlan
  BY <1>1, <1>4, <1>11, <1>12 DEF BillingInv
<1>24. BillingInv'
  BY <1>21, <1>22, <1>23 DEF BillingInv
<1> QED BY <1>5, <1>11, <1>12, <1>13, <1>14, <1>15, <1>24, BillingMoves

\* An event's first statement: whatever it overlaps counts as torn.
LEMMA BillPlanKeeps ==
  ASSUME AccountsInv, NEW q \in Requests, BillPlan(q) PROVE AccountsInv'
<1>1. TypeOK /\ BillingInv
  BY Parts
<1>2. PICK c \in Request : c = request[q] /\ RequestHolds(c)
  BY Found
<1>3. c.op = "bill" /\ c.at = "plan" /\ ~HalfWay(c)
  BY <1>2 DEF BillPlan, At, HalfWay
<1>4. PICK o \in Orgs : o = c.org /\ orgs[o].exists
  BY <1>2, <1>3 DEF RequestHolds, BillPlan, UpdatePlan
<1>5. PICK others : others = HalfBilled(o)
  OBVIOUS
<1>6. PICK alone \in BOOLEAN : alone = (others = {})
  OBVIOUS
<1>7. /\ request' = [w \in Requests |->
                       IF w = q THEN [request[w] EXCEPT !.at = "row", !.whole = alone]
                       ELSE IF w \in others THEN [request[w] EXCEPT !.whole = FALSE]
                       ELSE request[w]]
      /\ UNCHANGED <<users, sessions, identities, members, domains, scim, apps, hooks, started>>
      /\ orgs' = [orgs EXCEPT ![o].plan = c.plan]
      /\ history' = [history EXCEPT !.torn = IF others = {} THEN @ ELSE @ \cup {o}]
  BY <1>2, <1>4, <1>5, <1>6 DEF BillPlan, UpdatePlan
<1>8. request \in [Requests -> Request] /\ history \in History /\ orgs \in [Orgs -> Organization]
  BY <1>1, Typed1
<1>9. /\ history' \in History /\ history'.retired = history.retired
      /\ history'.posted = history.posted
      /\ history'.torn = IF others = {} THEN history.torn ELSE history.torn \cup {o}
  BY <1>7, <1>8 DEF History
\* The organization.
<1>10. c.plan \in Plans
  BY DEF Request
<1>11. PICK x \in Organization : x = orgs[o]
  BY <1>8
<1>12. PICK y \in Organization : y = [x EXCEPT !.plan = c.plan]
  BY <1>10 DEF Organization
<1>13. /\ y.exists = x.exists /\ y.billing = x.billing /\ y.overrides = x.overrides
       /\ y.provider = x.provider /\ y.plan = c.plan
  BY <1>12 DEF Organization
<1>14. orgs' = [orgs EXCEPT ![o] = y]
  BY <1>7, <1>11, <1>12
<1>15. orgs' \in [Orgs -> Organization] /\ orgs'[o] = y /\ \A p \in Orgs : p # o => orgs'[p] = orgs[p]
  BY <1>8, <1>14
<1>16. RulesStay /\ (\A p \in Orgs : orgs'[p].exists = orgs[p].exists)
       /\ \A p \in Orgs : orgs'[p].billing = orgs[p].billing
  BY <1>11, <1>13, <1>15 DEF RulesStay
\* The requests.
<1>17. PICK d \in Request : d = [c EXCEPT !.whole = alone]
  BY ZenonT(60) DEF Request
<1>18. PICK r \in Request : r = [d EXCEPT !.at = "row"]
  <2>1. [d EXCEPT !.at = "row"] \in Request
    BY DEF Request, Steps
  <2> QED BY <2>1
<1>19. r.op = "bill" /\ r.at = "row" /\ r.org = o /\ r.plan = c.plan /\ r.whole = alone
  <2>1. d.op = "bill" /\ d.org = o /\ d.plan = c.plan /\ d.whole = alone
    BY <1>3, <1>4, <1>17 DEF Request
  <2> QED BY <1>18, <2>1 DEF Request
<1>20. request'[q] = r
  <2>1. request'[q] = [c EXCEPT !.at = "row", !.whole = alone]
    BY <1>2, <1>7
  <2> QED BY <1>17, <1>18, <2>1 DEF Request
<1>21. q \notin others
  BY <1>2, <1>3, <1>5, Half
<1>22. ASSUME NEW w \in Requests, w \in others
       PROVE  /\ request'[w] \in Request /\ request'[w].org = request[w].org
              /\ request'[w].op = request[w].op /\ request'[w].at = request[w].at
              /\ request'[w].whole = FALSE
  <2>1. request'[w] = [request[w] EXCEPT !.whole = FALSE]
    BY <1>7, <1>21, <1>22
  <2>2. request[w] \in Request
    BY <1>8
  <2> QED BY <2>1, <2>2 DEF Request
<1>23. \A w \in Requests : w # q /\ w \notin others => request'[w] = request[w]
  BY <1>7
<1>24. request' \in [Requests -> Request]
  <2>1. \A w \in Requests : request'[w] \in Request
    BY <1>8, <1>20, <1>22, <1>23
  <2>2. request' = [w \in Requests |-> request'[w]]
    BY <1>7
  <2> QED BY <2>1, <2>2
<1>25. ASSUME NEW w \in Requests PROVE Calm(w)
  <2>1. CASE w = q
    <3>1. RequestHolds(r)'
      BY <1>4, <1>16, <1>19 DEF RequestHolds
    <3> QED BY <1>20, <2>1, <3>1 DEF Calm, RequestHolds
  <2>2. CASE w \in others
    <3>0. HalfWay(request[w]) /\ request[w].org = o
      BY <1>5, <2>2, Half
    <3>1. PICK v \in Request : v = request'[w] /\ v.op = "bill" /\ v.at = "row" /\ v.org = o
      <4>1. /\ request'[w] \in Request /\ request'[w].op = "bill" /\ request'[w].at = "row"
            /\ request'[w].org = o
        BY <1>22, <2>2, <3>0 DEF HalfWay
      <4> QED BY <4>1
    <3>2. RequestHolds(v)'
      BY <1>4, <1>16, <3>1 DEF RequestHolds
    <3> QED BY <3>1, <3>2 DEF Calm, RequestHolds
  <2>3. CASE w # q /\ w \notin others
    BY <1>23, <2>3 DEF Calm
  <2> QED BY <2>1, <2>2, <2>3
\* The events between their statements.
<1>26. ASSUME NEW w \in Requests
       PROVE  /\ HalfWay(request'[w]) <=> w = q \/ HalfWay(request[w])
              /\ w # q => request'[w].org = request[w].org
  <2>1. CASE w = q
    BY <1>19, <1>20, <2>1 DEF HalfWay
  <2>2. CASE w \in others
    BY <1>21, <1>22, <2>2 DEF HalfWay
  <2>3. CASE w # q /\ w \notin others
    BY <1>23, <2>3
  <2> QED BY <2>1, <2>2, <2>3
<1>27. ASSUME NEW p, p # o PROVE HalfBilled(p)' = HalfBilled(p)
  <2>1. \A w \in Requests : HalfWay(request'[w]) /\ request'[w].org = p
                              <=> HalfWay(request[w]) /\ request[w].org = p
    BY <1>2, <1>3, <1>19, <1>20, <1>26, <1>27
  <2>2. \A w : w \in HalfBilled(p)' <=> w \in HalfBilled(p)
    BY <2>1, Half
  <2> QED BY <2>2
<1>28. HalfBilled(o)' = others \cup {q}
  <2>1. \A w : w \in HalfBilled(o)' <=> w \in others \cup {q}
    BY <1>5, <1>19, <1>20, <1>26, Half
  <2> QED BY <2>1
<1>29. ASSUME NEW w \in Requests PROVE BillHolds(w)'
  <2> SUFFICES ASSUME HalfWay(request'[w]) PROVE BillHolds(w)'
    BY DEF BillHolds, At, HalfWay
  <2>1. CASE w = q
    <3>1. CASE alone
      <4>1. HalfBilled(request[w].org)' = {q}
        BY <1>6, <1>19, <1>20, <1>28, <2>1, <3>1 DEF HalfBilled
      <4>2. orgs'[o].plan = request'[q].plan
        BY <1>13, <1>15, <1>19, <1>20
      <4>3. request'[q].org = o /\ request'[q].whole
        BY <1>19, <1>20, <3>1
      <4> QED BY <2>1, <4>1, <4>2, <4>3 DEF BillHolds
    <3>2. CASE ~alone
      BY <1>6, <1>9, <1>19, <1>20, <2>1, <3>2 DEF BillHolds
    <3> QED BY <3>1, <3>2
  <2>2. CASE w \in others
    <3>1. request'[w].org = o /\ request'[w].whole = FALSE
      BY <1>5, <1>22, <2>2, Half
    <3>2. o \in history'.torn
      BY <1>9, <2>2
    <3> QED BY <3>1, <3>2 DEF BillHolds
  <2>3. CASE w # q /\ w \notin others
    <3>1. request'[w] = request[w] /\ HalfWay(request[w]) /\ request[w].org # o
      BY <1>5, <1>23, <2>3, Half
    <3>2. request[w].whole \in BOOLEAN /\ request[w].org \in Orgs
      BY <1>8, <3>1, Found DEF Request, RequestHolds, HalfWay
    <3>3. CASE request[w].whole
      <4>1. HalfBilled(request[w].org) = {w} /\ orgs[request[w].org].plan = request[w].plan
        BY <1>1, <3>1, <3>3, WholeAlone
      <4>2. HalfBilled(request[w].org)' = {w}
        <5>1. PICK p : p = request[w].org
          OBVIOUS
        <5>2. HalfBilled(p)' = {w}
          BY <1>27, <3>1, <4>1, <5>1
        <5> QED BY <3>1, <5>1, <5>2 DEF HalfBilled
      <4>3. orgs'[request[w].org].plan = request[w].plan
        BY <1>15, <3>1, <3>2, <4>1
      <4> QED BY <3>1, <3>3, <4>2, <4>3 DEF BillHolds
    <3>4. CASE ~request[w].whole
      <4>1. request[w].org \in history'.torn
        BY <1>1, <1>9, <3>1, <3>4, NotWholeTorn
      <4> QED BY <3>1, <3>4, <4>1 DEF BillHolds
    <3> QED BY <3>2, <3>3, <3>4
  <2> QED BY <2>1, <2>2, <2>3
<1>30. PlanAsBilled'
  <2> SUFFICES ASSUME NEW p \in Orgs, orgs'[p].billing # NoPlan, HalfBilled(p)' = {},
                      p \notin history'.torn
               PROVE  orgs'[p].plan = orgs'[p].billing
    BY DEF PlanAsBilled
  <2>1. p # o
    BY <1>28
  <2>2. p \notin history.torn /\ HalfBilled(p) = {} /\ orgs'[p] = orgs[p]
    BY <1>9, <1>15, <1>27, <2>1
  <2> QED BY <1>1, <2>2 DEF BillingInv, PlanAsBilled
<1>31. \A p \in Orgs : ~orgs'[p].exists => orgs'[p].billing = NoPlan
  BY <1>1, <1>16 DEF BillingInv
<1>32. BillingInv'
  BY <1>29, <1>30, <1>31 DEF BillingInv
<1> QED BY <1>7, <1>9, <1>15, <1>16, <1>24, <1>25, <1>32, BillingMoves

\* A request that is told of a rule an administrator has just relaxed.
LEMMA FreedHolds ==
  ASSUME TablesAge, NEW c \in Request, RequestHolds(c), NEW b \in BOOLEAN, c.free => b,
         c.at = "sso" /\ FreeIn(orgs', c.email) => b,
         c.op = "execute" /\ c.at = "policy" /\ orgs'[c.org].overrides => b,
         NEW r \in Request, r = [c EXCEPT !.free = b]
  PROVE  RequestHolds(r)'
<1>1. /\ r.op = c.op /\ r.at = c.at /\ r.email = c.email /\ r.org = c.org /\ r.user = c.user
      /\ r.subject = c.subject /\ r.ext = c.ext /\ r.app = c.app /\ r.seen = c.seen /\ r.old = c.old
  BY DEF Request
<1>2. r.free = b /\ r.override = c.override
  BY DEF Request
<1>3. c.old \subseteq TokenIds /\ c.seen \subseteq TokenIds
  BY DEF Request
<1>4. (r.at = "sso" =>
         /\ r.op \in {"register", "login"} /\ r.email \in Emails
         /\ FreeIn(orgs, r.email) => r.free)'
  BY <1>1, <1>2 DEF RequestHolds
<1>5. (r.at = "session" =>
         /\ r.op \in {"register", "login", "oidc"}
         /\ IF r.op = "oidc" THEN Linked(r.subject, r.user) ELSE HasPassword(r.user))'
  <2> SUFFICES ASSUME r.at = "session"
               PROVE  /\ r.op \in {"register", "login", "oidc"}
                      /\ (IF r.op = "oidc" THEN Linked(r.subject, r.user)
                          ELSE HasPassword(r.user))'
    OBVIOUS
  <2>1. /\ c.op \in {"register", "login", "oidc"}
        /\ IF c.op = "oidc" THEN Linked(c.subject, c.user) ELSE HasPassword(c.user)
    BY <1>1 DEF RequestHolds
  <2>2. CASE c.op = "oidc"
    <3>1. Linked(c.subject, c.user)'
      BY <2>1, <2>2, LinkedAges
    <3> QED BY <1>1, <2>1, <2>2, <3>1
  <2>3. CASE c.op # "oidc"
    <3>1. HasPassword(c.user)'
      BY <2>1, <2>3, PasswordAges
    <3> QED BY <1>1, <2>1, <2>3, <3>1
  <2> QED BY <2>2, <2>3
<1>6. /\ (r.op = "rotate" => r.app # None /\ \A t \in r.old : apps.tokens[t].app = r.app)'
      /\ (r.op = "rotate" => \A t \in r.seen : apps.tokens[t].app = r.app)'
  BY <1>1, <1>3 DEF RequestHolds, TablesAge
<1>7. (r.op = "rotate" /\ r.at = "commit" =>
         \A t \in r.old : t \in r.seen \/ ~apps.tokens[t].active)'
  <2> SUFFICES ASSUME c.op = "rotate", c.at = "commit", NEW t \in c.old, t \notin c.seen
               PROVE  ~apps'.tokens[t].active
    BY <1>1
  <2>1. apps.tokens[t].app # None /\ ~apps.tokens[t].active /\ t \in TokenIds
    BY <1>3 DEF RequestHolds
  <2> QED BY <2>1 DEF TablesAge
<1>8. /\ (r.op = "admin" /\ r.at = "hook" => orgs[r.org].exists)'
      /\ (r.op = "bill" /\ r.at = "row" => orgs[r.org].exists)'
  BY <1>1 DEF RequestHolds, TablesAge
<1>9. (r.op = "execute" =>
         /\ r.org \in Orgs /\ orgs[r.org].exists
         /\ r.at = "policy" /\ orgs[r.org].overrides => r.free
         /\ r.at = "message" /\ r.override => r.free)'
  BY <1>1, <1>2 DEF RequestHolds, TablesAge
<1>10. /\ r.op \in {"register", "login"} /\ r.at \in {"find", "create", "session"} => r.free
       /\ r.op = "oidc" => r.subject \in Subjects
       /\ r.op = "oidc" /\ r.at \notin {"provider", "idle"} => r.org \in Orgs
       /\ r.op = "oidc" /\ r.at \in {"link", "session", "join"} => r.user \in UserIds
       /\ r.op = "admin" => r.org \in Orgs
       /\ r.op = "patch" => r.org \in Orgs /\ r.ext \in ExternalIds
       /\ r.op = "bill" => r.org \in Orgs
  BY <1>1, <1>2 DEF RequestHolds
<1> QED BY <1>4, <1>5, <1>6, <1>7, <1>8, <1>9, <1>10 DEF RequestHolds

\* An administrator's write of one organization's rules ends the request and tells
\* the others.
LEMMA RulesMove ==
  ASSUME AccountsInv, NEW q \in Requests, ~HalfWay(request[q]), NEW o \in Orgs,
         NEW y \in Organization, orgs' = [orgs EXCEPT ![o] = y],
         y.exists = orgs[o].exists, y.plan = orgs[o].plan, y.billing = orgs[o].billing,
         NEW tell \in [Requests -> BOOLEAN],
         request' = [w \in Requests |->
                       IF w = q THEN Idle ELSE [request[w] EXCEPT !.free = tell[w]]],
         \A w \in Requests : request[w].free => tell[w],
         \A w \in Requests : request[w].at = "sso" /\ FreeIn(orgs', request[w].email) => tell[w],
         \A w \in Requests :
           request[w].op = "execute" /\ request[w].at = "policy" /\ orgs'[request[w].org].overrides
             => tell[w],
         UNCHANGED <<users, sessions, identities, members, domains, scim, apps, hooks, started, history>>
  PROVE  AccountsInv'
<1>1. /\ TypeOK /\ AccountsHold /\ SessionsHold /\ TokensInv /\ OverridesHold /\ RequestsHold
      /\ BillingInv
  BY Parts
<1>2. orgs \in [Orgs -> Organization] /\ request \in [Requests -> Request]
  BY <1>1, Typed1
<1>3. orgs' \in [Orgs -> Organization] /\ orgs'[o] = y /\ \A p \in Orgs : p # o => orgs'[p] = orgs[p]
  BY <1>2
<1>4. TablesAge
  BY <1>3 DEF TablesAge
<1>5. request'[q] = Idle /\ \A w \in Requests : w # q => request'[w] = [request[w] EXCEPT !.free = tell[w]]
  OBVIOUS
<1>6. ASSUME NEW w \in Requests, w # q
      PROVE  /\ request'[w] \in Request /\ request'[w].op = request[w].op
             /\ request'[w].at = request[w].at /\ request'[w].org = request[w].org
             /\ request'[w].plan = request[w].plan
             /\ request'[w].whole = request[w].whole
  <2>1. PICK b \in BOOLEAN : b = tell[w]
    OBVIOUS
  <2>2. request'[w] = [request[w] EXCEPT !.free = b] /\ request[w] \in Request
    BY <1>2, <1>5, <1>6, <2>1
  <2> QED BY <2>2 DEF Request
<1>7. request' \in [Requests -> Request]
  <2>1. \A w \in Requests : request'[w] \in Request
    BY <1>5, <1>6, Blanks
  <2>2. request' = [w \in Requests |-> request'[w]]
    OBVIOUS
  <2> QED BY <2>1, <2>2
<1>8. TypeOK'
  BY <1>1, <1>3, <1>7 DEF TypeOK
<1>9. ASSUME NEW w \in Requests PROVE RequestHolds(request[w])'
  <2>1. CASE w = q
    BY <1>5, <2>1, IdleHolds DEF RequestHolds, Idle
  <2>2. CASE w # q
    <3>1. PICK c \in Request : c = request[w] /\ RequestHolds(c)
      BY Found
    <3>2. PICK b \in BOOLEAN : b = tell[w]
      OBVIOUS
    <3>3. PICK r \in Request : r = request'[w] /\ r = [c EXCEPT !.free = b]
      BY <1>5, <1>6, <2>2, <3>1, <3>2
    <3>4. RequestHolds(r)'
      BY <1>4, <3>1, <3>2, <3>3, FreedHolds
    <3> QED BY <3>3, <3>4, SMTT(60) DEF RequestHolds
  <2> QED BY <2>1, <2>2
<1>10. BillsStay
  <2>1. ~HalfWay(request'[q])
    BY <1>5 DEF HalfWay, Idle
  <2>2. ASSUME NEW w \in Requests, w # q PROVE HalfWay(request'[w]) <=> HalfWay(request[w])
    BY <1>6, <2>2 DEF HalfWay
  <2> QED BY <1>6, <2>1, <2>2 DEF BillsStay
<1>11. BillingInv'
  <2>1. /\ \A p \in Orgs : orgs'[p].billing = orgs[p].billing
        /\ \A p \in Orgs : orgs[p].exists => orgs'[p].exists /\ orgs'[p].plan = orgs[p].plan
    BY <1>3
  <2> QED BY <1>1, <1>10, <2>1, BillingKept DEF RequestsHold
<1>12. AccountsHold' /\ SessionsHold'
  BY <1>1, <1>4, AccountsSame, SessionsSame
<1>13. TokensInv' /\ OverridesHold'
  BY <1>1, <1>4, TokensSame, OverridesSame DEF TablesAge
<1> QED BY <1>8, <1>9, <1>11, <1>12, <1>13 DEF AccountsInv, SessionsHold

\* What a provider is stored with: domains without the @ and the empty ones, a
\* role in its normal form.
LEMMA ProviderTyped ==
  ASSUME NEW p \in Providers, ValidProvider(p)
  PROVE  [domains |-> NormalizeDomains(p.domains), required |-> p.required,
          role |-> NormalizeRole(p.role), issuer |-> p.issuer] \in ProviderType
<1>1. p \in SettingsType /\ "example.org" \in MailDomains
  BY AccountsAssumption
<1>2. p.domains \subseteq MailDomains \cup {" @Example.org", "", "nodot"} /\ p.required \in BOOLEAN
  BY <1>1 DEF SettingsType
<1>3. "nodot" \notin NormalizeDomains(p.domains)
  BY DEF ValidProvider, ValidDomains
<1>4. ASSUME NEW d \in NormalizeDomains(p.domains) PROVE d \in MailDomains
  <2>1. PICK e \in p.domains : d = IF e = " @Example.org" THEN "example.org" ELSE e
    BY DEF NormalizeDomains
  <2>2. d # "" /\ d # "nodot"
    BY <1>3 DEF NormalizeDomains
  <2> QED BY <1>1, <1>2, <2>1, <2>2
<1>5. NormalizeRole(p.role) \in {"member", "admin"} /\ p.issuer \in Issuers
  BY DEF ValidProvider, ValidUrl
<1> QED BY <1>2, <1>4, <1>5 DEF ProviderType

LEMMA ConfigureProviderKeeps ==
  ASSUME AccountsInv, NEW q \in Requests, NEW p \in Providers, ConfigureProvider(q, p)
  PROVE  AccountsInv'
<1>1. TypeOK
  BY Parts
<1>2. PICK c \in Request : c = request[q] /\ RequestHolds(c)
  BY Found
<1>3. c.op = "admin" /\ c.at = "write" /\ ~HalfWay(c)
  BY <1>2 DEF ConfigureProvider, At, HalfWay
<1>4. PICK o \in Orgs : o = c.org
  BY <1>2, <1>3 DEF RequestHolds
<1>5. PICK new \in ProviderType : orgs' = [orgs EXCEPT ![o].provider = new]
  <2>1. ValidProvider(p)
    BY DEF ConfigureProvider
  <2> QED BY <1>2, <1>4, <2>1, ProviderTyped DEF ConfigureProvider, UpsertProvider
<1>6. orgs \in [Orgs -> Organization] /\ request \in [Requests -> Request]
  BY <1>1, Typed1
<1>7. PICK x \in Organization : x = orgs[o]
  BY <1>6
<1>8. PICK y \in Organization : y = [x EXCEPT !.provider = new]
  BY DEF Organization
<1>9. y.exists = x.exists /\ y.plan = x.plan /\ y.billing = x.billing /\ y.overrides = x.overrides
  BY <1>8 DEF Organization
<1>10. orgs' = [orgs EXCEPT ![o] = y]
  BY <1>5, <1>6, <1>7, <1>8
<1> DEFINE Told(w) == request[w].email \in Emails /\ FreeIn(orgs', request[w].email)
           tell == [w \in Requests |-> request[w].free \/ Told(w)]
<1>11. tell \in [Requests -> BOOLEAN] /\ \A w \in Requests : tell[w] <=> request[w].free \/ Told(w)
  <2>1. \A w \in Requests : (request[w].free \/ Told(w)) \in BOOLEAN
    OBVIOUS
  <2> HIDE DEF Told
  <2> QED BY <2>1
<1>12. request' = [w \in Requests |-> IF w = q THEN Idle ELSE [request[w] EXCEPT !.free = tell[w]]]
  <2>1. \A w \in Requests : [request[w] EXCEPT !.free = tell[w]]
                              = [request[w] EXCEPT !.free = @ \/ Told(w)]
    <3> SUFFICES ASSUME NEW w \in Requests
                 PROVE  [request[w] EXCEPT !.free = tell[w]]
                          = [request[w] EXCEPT !.free = @ \/ Told(w)]
      OBVIOUS
    <3>1. tell[w] = (request[w].free \/ Told(w))
      <4> HIDE DEF Told
      <4> QED OBVIOUS
    <3> HIDE DEF tell, Told
    <3> QED BY <3>1
  <2>2. request' = [w \in Requests |-> IF w = q THEN Idle ELSE [request[w] EXCEPT !.free = @ \/ Told(w)]]
    BY DEF ConfigureProvider
  <2> HIDE DEF tell, Told
  <2> QED BY <2>1, <2>2
<1>13. ASSUME NEW w \in Requests, request[w].at = "sso", FreeIn(orgs', request[w].email)
       PROVE  Told(w)
  BY <1>13, Found DEF RequestHolds
<1>14. ASSUME NEW w \in Requests, request[w].op = "execute", request[w].at = "policy",
              orgs'[request[w].org].overrides
       PROVE  request[w].free
  <2>1. PICK z \in Orgs : z = request[w].org /\ (orgs[z].overrides => request[w].free)
    BY <1>14, Found DEF RequestHolds
  <2>2. orgs'[z].overrides = orgs[z].overrides
    BY <1>6, <1>7, <1>9, <1>10
  <2> QED BY <1>14, <2>1, <2>2
<1>15. UNCHANGED <<users, sessions, identities, members, domains, scim, apps, hooks, started, history>>
  BY DEF ConfigureProvider
<1> HIDE DEF tell, Told
<1>16. /\ \A w \in Requests : request[w].free => tell[w]
       /\ \A w \in Requests : request[w].at = "sso" /\ FreeIn(orgs', request[w].email) => tell[w]
       /\ \A w \in Requests :
           request[w].op = "execute" /\ request[w].at = "policy" /\ orgs'[request[w].org].overrides
             => tell[w]
  BY <1>11, <1>13, <1>14
<1> QED BY <1>2, <1>3, <1>7, <1>9, <1>10, <1>11, <1>12, <1>15, <1>16, RulesMove

LEMMA UpsertWebhookPolicyKeeps ==
  ASSUME AccountsInv, NEW q \in Requests, NEW allow \in BOOLEAN, UpsertWebhookPolicy(q, allow)
  PROVE  AccountsInv'
<1>1. TypeOK
  BY Parts
<1>2. PICK c \in Request : c = request[q] /\ RequestHolds(c)
  BY Found
<1>3. c.op = "admin" /\ c.at = "write" /\ ~HalfWay(c)
  BY <1>2 DEF UpsertWebhookPolicy, At, HalfWay
<1>4. PICK o \in Orgs : o = c.org
  BY <1>2, <1>3 DEF RequestHolds
<1>5. orgs' = [orgs EXCEPT ![o].overrides = allow]
  BY <1>2, <1>4 DEF UpsertWebhookPolicy, UpsertPolicy
<1>6. orgs \in [Orgs -> Organization] /\ request \in [Requests -> Request]
  BY <1>1, Typed1
<1>7. PICK x \in Organization : x = orgs[o]
  BY <1>6
<1>8. PICK y \in Organization : y = [x EXCEPT !.overrides = allow]
  BY DEF Organization
<1>9. y.exists = x.exists /\ y.plan = x.plan /\ y.billing = x.billing /\ y.provider = x.provider
      /\ y.overrides = allow
  BY <1>8 DEF Organization
<1>10. orgs' = [orgs EXCEPT ![o] = y]
  BY <1>5, <1>6, <1>7, <1>8
<1>11. orgs'[o] = y /\ \A p \in Orgs : p # o => orgs'[p] = orgs[p]
  BY <1>6, <1>10
<1> DEFINE Told(w) == request[w].op = "execute" /\ request[w].org = o /\ allow
           tell == [w \in Requests |-> request[w].free \/ Told(w)]
<1>12. tell \in [Requests -> BOOLEAN] /\ \A w \in Requests : tell[w] <=> request[w].free \/ Told(w)
  <2>1. \A w \in Requests : (request[w].free \/ Told(w)) \in BOOLEAN
    OBVIOUS
  <2> HIDE DEF Told
  <2> QED BY <2>1
<1>13. request' = [w \in Requests |-> IF w = q THEN Idle ELSE [request[w] EXCEPT !.free = tell[w]]]
  <2>1. \A w \in Requests : [request[w] EXCEPT !.free = tell[w]]
                              = [request[w] EXCEPT !.free = @ \/ Told(w)]
    <3> SUFFICES ASSUME NEW w \in Requests
                 PROVE  [request[w] EXCEPT !.free = tell[w]]
                          = [request[w] EXCEPT !.free = @ \/ Told(w)]
      OBVIOUS
    <3>1. tell[w] = (request[w].free \/ Told(w))
      <4> HIDE DEF Told
      <4> QED OBVIOUS
    <3> HIDE DEF tell, Told
    <3> QED BY <3>1
  <2>2. request' = [w \in Requests |-> IF w = q THEN Idle ELSE [request[w] EXCEPT !.free = @ \/ Told(w)]]
    BY <1>2, <1>4 DEF UpsertWebhookPolicy
  <2> HIDE DEF tell, Told
  <2> QED BY <2>1, <2>2
<1>14. ASSUME NEW w \in Requests, request[w].at = "sso", FreeIn(orgs', request[w].email)
       PROVE  request[w].free
  <2>1. \A p \in Orgs : orgs'[p].provider = orgs[p].provider
    BY <1>7, <1>9, <1>11
  <2>2. PICK e : e = request[w].email
    OBVIOUS
  <2>3. FreeIn(orgs, e)
    BY <1>14, <2>1, <2>2 DEF FreeIn
  <2> QED BY <1>14, <2>2, <2>3, Found DEF RequestHolds
<1>15. ASSUME NEW w \in Requests, request[w].op = "execute", request[w].at = "policy",
              orgs'[request[w].org].overrides
       PROVE  request[w].free \/ Told(w)
  <2>1. PICK z \in Orgs : z = request[w].org /\ (orgs[z].overrides => request[w].free)
    BY <1>15, Found DEF RequestHolds
  <2>2. CASE z = o
    BY <1>9, <1>11, <1>15, <2>1, <2>2
  <2>3. CASE z # o
    BY <1>11, <1>15, <2>1, <2>3
  <2> QED BY <2>2, <2>3
<1>16. UNCHANGED <<users, sessions, identities, members, domains, scim, apps, hooks, started, history>>
  BY DEF UpsertWebhookPolicy
<1> HIDE DEF tell, Told
<1>17. /\ \A w \in Requests : request[w].free => tell[w]
       /\ \A w \in Requests : request[w].at = "sso" /\ FreeIn(orgs', request[w].email) => tell[w]
       /\ \A w \in Requests :
           request[w].op = "execute" /\ request[w].at = "policy" /\ orgs'[request[w].org].overrides
             => tell[w]
  BY <1>12, <1>14, <1>15
<1> QED BY <1>2, <1>3, <1>7, <1>9, <1>10, <1>12, <1>13, <1>16, <1>17, RulesMove

(***************************************************************************)
(* Theorems.                                                               *)
(***************************************************************************)
LEMMA InitHolds ==
  ASSUME Init PROVE AccountsInv
<1>1. orgs = [o \in Orgs |-> [NoOrganization EXCEPT !.exists = (o = Founded)]]
  BY DEF Init
<1>2. \A o \in Orgs : /\ orgs[o] \in Organization /\ orgs[o].billing = NoPlan
                      /\ orgs[o].overrides
  BY <1>1, Blanks DEF Organization, NoOrganization
<1>3. TypeOK
  <2>1. users \in [UserIds -> User]
    <3>1. [exists |-> TRUE, email |-> Owner, password |-> TRUE] \in User
      BY Constants DEF User
    <3> QED BY <3>1, Blanks DEF Init
  <2>2. sessions \in [SessionIds -> Session]
    <3>1. [NoSession EXCEPT !.state = "live", !.user = 1] \in Session
      BY Constants DEF Session, NoSession
    <3> QED BY <3>1, Blanks DEF Init
  <2>3. orgs \in [Orgs -> Organization]
    BY <1>1, <1>2
  <2>4. members \in [Orgs -> [UserIds -> Member]]
    <3>1. [role |-> "owner", active |-> TRUE] \in Member
      BY DEF Member
    <3> QED BY <3>1, Blanks DEF Init
  <2>5. domains \in [Hosts -> CustomDomain]
    BY DEF Init, CustomDomain
  <2>6. scim \in [token : [Orgs -> TokenIds \cup {None}], users : [Orgs -> [ExternalIds -> ScimUser]]]
    BY DEF Init, ScimUser
  <2>7. apps \in [user : [AppIds -> UserIds \cup {None}], org : [AppIds -> Orgs \cup {None}],
                  tokens : [TokenIds -> BotToken]]
    BY DEF Init, BotToken
  <2>8. hooks \in [HookIds -> Hook] /\ request \in [Requests -> Request] /\ identities \subseteq Identity
    BY Blanks DEF Init
  <2>9. started \in 0..MaxRequests /\ history \in History
    BY Constants DEF Init, History
  <2> QED BY <2>1, <2>2, <2>3, <2>4, <2>5, <2>6, <2>7, <2>8, <2>9 DEF TypeOK
<1>4. AccountsHold
  <2>1. \A u \in UserIds : users[u].exists => u = 1
    BY DEF Init, NoUser
  <2>2. identities = {}
    BY DEF Init
  <2> QED BY <2>1, <2>2 DEF AccountsHold
<1>5. SessionsHold
  <2> SUFFICES ASSUME NEW s \in SessionIds PROVE SessionHolds(sessions[s])
    BY DEF SessionsHold
  <2>1. CASE s = 1
    <3>1. sessions[s] = [NoSession EXCEPT !.state = "live", !.user = 1]
      BY <2>1 DEF Init
    <3>2. sessions[s].proof = "password" /\ sessions[s].user = 1 /\ sessions[s].free
      BY <3>1 DEF NoSession
    <3>3. users[1] = [exists |-> TRUE, email |-> Owner, password |-> TRUE] /\ 1 \in UserIds
      BY Constants DEF Init
    <3>4. HasPassword(1)
      BY <3>3 DEF HasPassword
    <3> QED BY <3>2, <3>4 DEF SessionHolds
  <2>2. CASE s # 1
    BY <2>2 DEF Init, SessionHolds, NoSession
  <2> QED BY <2>1, <2>2
<1>6. TokensInv
  <2>1. ASSUME NEW t \in TokenIds PROVE TokenApart(t)
    BY Constants DEF Init, TokenApart, NoHook
  <2>2. ASSUME NEW h \in HookIds PROVE HookHolds(hooks[h])
    BY DEF Init, HookHolds, NoHook
  <2>3. RotatedOut
    BY DEF Init, RotatedOut
  <2> QED BY <2>1, <2>2, <2>3 DEF TokensInv
<1>7. OverridesHold
  BY DEF Init, OverridesHold
<1>8. \A q \in Requests : request[q] = Idle
  BY DEF Init
<1>9. RequestsHold
  BY <1>8 DEF RequestsHold, RequestHolds, Idle
<1>10. BillingInv
  <2>1. \A w \in Requests : BillHolds(w)
    BY <1>8 DEF BillHolds, At, Idle
  <2> QED BY <1>2, <2>1 DEF BillingInv, PlanAsBilled
<1> QED BY <1>3, <1>4, <1>5, <1>6, <1>7, <1>9, <1>10, Parts

LEMMA StutterHolds ==
  ASSUME AccountsInv, UNCHANGED vars PROVE AccountsInv'
<1>1. /\ UNCHANGED <<users, sessions, identities, orgs, scim, apps, hooks, history>>
      /\ UNCHANGED <<members, domains, started, request>>
  BY DEF vars
<1>2. TypeOK
  BY Parts
<1>3. /\ members' \in [Orgs -> [UserIds -> Member]] /\ domains' \in [Hosts -> CustomDomain]
      /\ started' \in 0..MaxRequests /\ request' \in [Requests -> Request]
  BY <1>1, <1>2, Typed1
<1>4. \A w \in Requests : Settled(w)
  BY <1>1 DEF Settled
<1> QED BY <1>1, <1>3, <1>4, Moves

LEMMA ProceedKeeps ==
  ASSUME AccountsInv, NEW q \in Requests, Proceed(q) PROVE AccountsInv'
<1>1. CASE Passwords(q)
  BY <1>1, CheckSsoKeeps, RegisterFindKeeps, RegisterCreateKeeps, LoginFindKeeps, OpenSessionKeeps
     DEF Passwords
<1>2. CASE Oidc(q)
  BY <1>2, OidcProviderKeeps, OidcIdentityKeeps, OidcByEmailKeeps, OidcCreateKeeps, OidcLinkKeeps,
     JoinKeeps DEF Oidc
<1>3. CASE Scim(q)
  BY <1>3, ScimFindKeeps, ScimCreateKeeps, ScimJoinKeeps, ScimRowKeeps, JoinKeeps DEF Scim
<1>4. CASE Manage(q)
  BY <1>4, ConfigureProviderKeeps, UpsertWebhookPolicyKeeps, RotateScimTokenKeeps,
     AppCreateUserKeeps, AppCreateKeeps, JoinKeeps, AppFirstTokenKeeps, RotateUpdateKeeps,
     RotateCommitKeeps, HookCreateUserKeeps, HookCreateKeeps, HostsKeep, BillPlanKeeps,
     BillRowKeeps DEF Manage
<1>5. CASE Execute(q)
  BY <1>5, ExecutePolicyKeeps, ExecuteStoreKeeps DEF Execute
<1>6. CASE RequestEnds(q)
  BY <1>6, RequestEndsKeeps
<1> QED BY <1>1, <1>2, <1>3, <1>4, <1>5, <1>6 DEF Proceed

\* The tables are typed and every credential in them has one owner, whatever
\* requests interleave and wherever they end (domain/auth.rs, scim.rs, bot.rs,
\* webhook.rs, organization.rs and billing.rs with their tables): the invariant
\* from which the other theorems follow.
THEOREM AccountsInvariant == Spec => []AccountsInv
<1>1. Init => AccountsInv
  BY InitHolds
<1>2. AccountsInv /\ [Next]_vars => AccountsInv'
  <2> SUFFICES ASSUME AccountsInv, [Next]_vars PROVE AccountsInv'
    OBVIOUS
  <2>1. CASE Next
    BY <2>1, ReceiveKeeps, ProceedKeeps, LogoutKeeps, OrganizationsKeep, HookTokenKeeps
       DEF Next
  <2>2. CASE UNCHANGED vars
    BY <2>2, StutterHolds
  <2> QED BY <2>1, <2>2
<1> QED BY <1>1, <1>2, PTL DEF Spec

\* However registrations, first logins through the provider and SCIM race for one
\* address, it has one account and a subject one identity; a session is of an
\* account with a password or of the one its subject is linked to.
THEOREM AccountsUnique == Spec => []OneAccount
<1>1. AccountsInv => OneAccount
  <2> SUFFICES ASSUME AccountsInv PROVE OneAccount
    OBVIOUS
  <2>1. AccountsHold /\ SessionsHold
    BY Parts
  <2>2. ASSUME NEW e \in Emails PROVE Cardinality(UsersWith(e)) <= 1
    <3>1. ASSUME NEW u \in UsersWith(e), NEW v \in UsersWith(e) PROVE u = v
      BY <2>1, <2>2, Constants DEF UsersWith, AccountsHold
    <3>2. CASE UsersWith(e) = {}
      <4>1. Cardinality(UsersWith(e)) = 0
        BY <3>2, FS_EmptySet
      <4> QED BY <4>1
    <3>3. CASE UsersWith(e) # {}
      <4>1. PICK u : UsersWith(e) = {u}
        <5>1. PICK u : u \in UsersWith(e)
          BY <3>3
        <5>2. UsersWith(e) = {u}
          BY <3>1, <5>1
        <5> QED BY <5>2
      <4>2. Cardinality(UsersWith(e)) = 1
        BY <4>1, FS_Singleton
      <4> QED BY <4>2
    <3> QED BY <3>2, <3>3
  <2>3. ASSUME NEW s \in SessionIds, sessions[s].state # "none"
        PROVE  IF sessions[s].proof = "password" THEN users[sessions[s].user].password
               ELSE \E i \in identities : /\ i.subject = sessions[s].subject
                                          /\ i.user = sessions[s].user
    BY <2>1, <2>3 DEF SessionsHold, SessionHolds, HasPassword, Linked
  <2> QED BY <2>1, <2>2, <2>3 DEF OneAccount, AccountsHold
<1> QED BY <1>1, AccountsInvariant, PTL

\* Where some organization requires single sign-on for an address during the whole
\* life of a password request, the request opens no session
\* (domain/auth.rs, sso_required_for_email).
THEOREM SsoKept == Spec => []SsoHolds
<1>1. AccountsInv => SsoHolds
  BY DEF AccountsInv, SessionHolds, SsoHolds
<1> QED BY <1>1, AccountsInvariant, PTL

\* A token that existed when a completed rotation of a bot's, a webhook's or a SCIM
\* token began lets nobody in any more, however rotations of it overlap.
THEOREM RetiredLockedOut == Spec => []RotatedOut
<1>1. AccountsInv => RotatedOut
  BY DEF AccountsInv, TokensInv
<1> QED BY <1>1, AccountsInvariant, PTL

\* Plan and billing row agree unless an event is, or was cut or overlapped, between
\* its two statements (domain/billing.rs, apply_provider_event).
THEOREM PlansBilled == Spec => []PlanAsBilled
<1>1. AccountsInv => PlanAsBilled
  BY DEF AccountsInv, BillingInv
<1> QED BY <1>1, AccountsInvariant, PTL

\* A webhook's message has an overridden author only if the organization allowed
\* that at some moment of the request (domain/webhook.rs).
THEOREM OverridesAllowed == Spec => []OverridesHold
<1>1. AccountsInv => OverridesHold
  BY DEF AccountsInv
<1> QED BY <1>1, AccountsInvariant, PTL
=============================================================================
