SPECIFICATION MCSpec
CONSTANTS
  m1 = m1
  m2 = m2
  Meetings = {m1, m2}
  Reminders = {1, 2}
  MeetingOf <- MCMeetingOf
  Requests = {q1}
  Workers = {w1, w2}
  BatchSize = 1
  Offsets = {0}
  SubSecond = 2
  MaxTime = 1
  MaxClock = 1
  MaxFaults = 1
  msg1 = msg1
  file2 = file2
  none = none
  Orgs = {1, 2}
  Rows = {msg1, file2}
  OrgOf <- MCOrgOf
  TableOf <- MCTableOf
  Policies <- MCPolicies
  Purgers = {p1}
  MaxDays = 2
  NoDays = none
  LastDay = 2
  MaxFailures = 1
CHECK_DEADLOCK FALSE
INVARIANTS MarkedAfterDelivery DuplicatesBounded
PROPERTIES SettledIsFinal DueIsSettled PolicyApplied ExpiredIsPurged
