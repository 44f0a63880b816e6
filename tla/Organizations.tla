----------------------------- MODULE Organizations -----------------------------
(***************************************************************************)
(* Organizations, their members, plan, custom domains and webhook policy   *)
(* (domain/organization.rs) and the billing row that follows the plan      *)
(* (domain/billing.rs): tables, the forms that what people write takes     *)
(* before it is stored, and the statements on the tables.  Accounts puts   *)
(* the statements together into requests.                                  *)
(***************************************************************************)
EXTENDS Integers, FiniteSets

CONSTANTS
  UserIds,    \* positive integers, given out in order
  Orgs,       \* slugs of organizations
  Hosts,      \* host names as they are stored
  MailDomains,\* domains of addresses as they are stored
  Issuers,    \* https URLs of OpenID issuers
  Names,      \* names of organizations as people write them
  Slug,       \* the slug of a name, or Invalid
  HostNames,  \* host names as people write them
  HostOf,     \* the stored form of a host name, or Invalid
  Tenants,    \* what POST /tenants asks for
  BillingEvents  \* what the billing provider reports

Invalid == "invalid"
None == 0
NoPlan == "none"
NoIssuer == "no issuer"

ASSUME OrganizationsAssumption ==
  /\ UserIds \subseteq Nat \ {0}
  /\ Slug \in [Names -> Orgs \cup {Invalid}]
  /\ HostOf \in [HostNames -> Hosts \cup {Invalid}]

VARIABLES
  orgs,        \* organizations with their provider, policy and billing row
  members,     \* table organization_members
  domains      \* table organization_custom_domains

Plans == {"free", "team", "business", "enterprise"}

\* The settings of an OpenID provider that decisions depend on.
ProviderType ==
  [domains : SUBSET MailDomains, required : BOOLEAN, role : {"member", "admin"},
   issuer : Issuers \cup {NoIssuer}]
NoProvider == [domains |-> {}, required |-> FALSE, role |-> "member", issuer |-> NoIssuer]

\* billing: the plan of the row of billing_subscriptions, NoPlan without a row;
\* overrides: allow_identity_overrides, true without a row.
Organization ==
  [exists : BOOLEAN, plan : Plans, overrides : BOOLEAN, billing : Plans \cup {NoPlan},
   provider : ProviderType]
NoOrganization ==
  [exists |-> FALSE, plan |-> "free", overrides |-> TRUE, billing |-> NoPlan,
   provider |-> NoProvider]

Member == [role : {"none", "owner", "admin", "member"}, active : BOOLEAN]
NoMember == [role |-> "none", active |-> FALSE]

CustomDomain == [org : Orgs \cup {None}, active : BOOLEAN]

(***************************************************************************)
(* Normal forms.  Text is trimmed and has a length limit.                  *)
(***************************************************************************)
Text == {"plain", " padded ", "  ", "too long"}

NormalizeText(t) ==
  CASE t = " padded " -> "padded" [] t = "  " -> "" [] t = "too long" -> Invalid
    [] OTHER -> t

Filled(t) == NormalizeText(t) \notin {"", Invalid}

\* normalize_name and slugify: words joined by one space; letters and digits in
\* lower case, whatever is between them a hyphen.
Slugify(name) == Slug[name]

\* normalize_hostname
NormalizeHostname(name) == HostOf[name]

\* normalize_plan, of organizations and of billing alike.
NormalizePlan(plan) == IF plan = " Team" THEN "team" ELSE plan

NormalizeMode(mode) == IF mode = "Cloud " THEN "cloud" ELSE mode

\* What provision_tenant accepts; the region is 2 to 64 letters, digits and hyphens.
ValidTenant(t) ==
  /\ NormalizePlan(t.plan) \in Plans
  /\ NormalizeMode(t.mode) \in {"self_hosted", "cloud"}
  /\ t.region # ""

\* normalize_member_role; callers pass roles in their normal form.
ValidMemberRole(role) == role \in {"owner", "admin", "member", "guest"}

EventTypes == {"subscription.created", "subscription.updated", "subscription.cancelled",
               "invoice.payment_failed", "invoice.paid", "plan.changed"}
BillingStatuses == {"active", "trialing", "past_due", "cancelled", "unpaid"}

\* What apply_provider_event accepts.
ValidEvent(e) ==
  /\ e.provider = "stripe"
  /\ e.type \in EventTypes
  /\ NormalizePlan(e.plan) \in Plans
  /\ e.status \in BillingStatuses
  /\ Filled(e.customer) /\ Filled(e.subscription)
  /\ e.period \in {"absent", "RFC 3339"}

(***************************************************************************)
(* Queries.                                                                *)
(***************************************************************************)

\* get_for_user: active members only; nothing suspends an organization.
IsMember(o, u) == members[o][u].role # "none" /\ members[o][u].active

\* require_admin
IsAdmin(o, u) == IsMember(o, u) /\ members[o][u].role \in {"owner", "admin"}

\* get_webhook_policy
AllowsOverrides(o) == orgs[o].exists /\ orgs[o].overrides

\* hostname is UNIQUE.
HostFree(h) == domains[h].org = None

(***************************************************************************)
(* Statements.                                                             *)
(***************************************************************************)

\* The slug is UNIQUE; the organization and its owner are one transaction.
InsertOrganization(o, u, plan) ==
  /\ ~orgs[o].exists
  /\ orgs' = [orgs EXCEPT ![o].exists = TRUE, ![o].plan = plan]
  /\ members' = [members EXCEPT ![o][u] = [role |-> "owner", active |-> TRUE]]

\* create_with_options
CreateWithOptions(u, name, plan) ==
  /\ Slugify(name) # Invalid
  /\ InsertOrganization(Slugify(name), u, plan)

\* Who is a member already becomes active and keeps the role.
InsertMember(o, u, role) ==
  members' = [members EXCEPT ![o][u] = [role |-> IF @.role = "none" THEN role ELSE @.role,
                                        active |-> TRUE]]

AddMember(o, u, role) == ValidMemberRole(role) /\ InsertMember(o, u, role)

SetMemberStatus(o, u, active) ==
  /\ members[o][u].role # "none"
  /\ members' = [members EXCEPT ![o][u].active = active]

\* Mutant: the UPDATE has no WHERE.
UpdatePlan_Everywhere(o, plan) ==
  /\ orgs[o].exists
  /\ orgs' = [p \in Orgs |-> [orgs[p] EXCEPT !.plan = plan]]

UpdatePlan(o, plan) ==
  /\ orgs[o].exists
  /\ orgs' = [orgs EXCEPT ![o].plan = plan]

\* upsert_state: one row per organization.
UpsertBilling(o, plan) == orgs' = [orgs EXCEPT ![o].billing = plan]

\* upsert_webhook_policy
UpsertPolicy(o, allow) == orgs[o].exists /\ orgs' = [orgs EXCEPT ![o].overrides = allow]

InsertDomain(o, h) ==
  /\ orgs[o].exists /\ HostFree(h)
  /\ domains' = [domains EXCEPT ![h] = [org |-> o, active |-> FALSE]]

\* The row is read, its token compared, and the row updated: between the two
\* statements nothing can change the organization or the token of a row.
ActivateDomain(o, h) ==
  /\ domains[h].org = o
  /\ domains' = [domains EXCEPT ![h].active = TRUE]
=============================================================================
