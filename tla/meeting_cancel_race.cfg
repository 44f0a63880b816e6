SPECIFICATION FairSpec
CONSTANTS
  m1 = m1
  Meetings = {m1}
  Reminders = {1}
  MeetingOf <- MCOneMeeting
  Requests = {q1, q2}
  Workers = {w1}
  BatchSize = 2
  Offsets = {0, 1}
  SubSecond = 2
  MaxTime = 2
  MaxClock = 1
  MaxFaults = 1
CHECK_DEADLOCK FALSE
PROPERTIES CancelledStaysCancelled
