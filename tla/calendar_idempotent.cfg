SPECIFICATION MCCalendarSpec
CONSTANTS
  owner = owner
  bob = bob
  acme = acme
  labs = labs
  chat = chat
  UserIds = {1, 2, 3}
  SessionIds = {1, 2, 3}
  TokenIds = {1, 2, 3}
  AppIds = {1}
  HookIds = {1}
  Orgs = {acme, labs}
  Hosts = {chat}
  Names <- MCNames
  Slug <- MCSlug
  HostNames <- MCHostNames
  HostOf <- MCHostOf
  Tenants <- MCTenants
  BillingEvents <- MCBillingEvents
  MailDomains <- MCMailDomains
  Emails = {owner, bob}
  Owner = owner
  Founded = acme
  Typed <- MCTyped
  Address <- MCAddress
  DomainOf <- MCDomainOf
  s3 = s3
  old = old
  new = new
  Subjects = {s1, s2, s3}
  Issuers = {old, new}
  IssuerOf <- MCIssuerOf
  Providers <- MCProviders
  ExternalIds = {x1}
  Requests = {q1, q2}
  MaxRequests = 4
  ann = ann
  ben = ben
  standup = standup
  People = {ann, ben}
  Services = {"google", "caldav"}
  Meetings = {standup, retro}
  Manages <- MCManages
  Inputs <- MCInputs
  AccountIds = {1, 2, 3}
  EventIds = {1, 2, 3}
  Syncs = {y1, y2}
  MaxCalls = 4
  Callers = {owner}
  Spellings = {owner, "OWNER@"}
  CallerOf <- MCCallerOf
  Calls = {c1, c2}
  MaxDelay = 1
  Limit = 2
  Window = 4
  MaxTime = 9
  host = host
  lounge = lounge
  townhall = townhall
  huddle = huddle
  allhands = allhands
  Speakers = {cleo}
  VoiceRoles = {host}
  RoleRights <- MCRoleRights
  Channels = {lounge}
  VoiceKind = {lounge}
  Gatherings = {townhall, huddle, allhands}
  Place <- MCPlace
  Settings <- MCSettings
  Wishes <- MCWishes
  Joins = {j1}
  Ttl = 1
  MaxClock = 2
  MaxJoins = 1
  MaxChanges = 2
SYMMETRY MCSymmetry
CHECK_DEADLOCK FALSE
INVARIANT SyncIdempotent
