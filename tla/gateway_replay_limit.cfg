SPECIFICATION Spec
CONSTANTS
  Sockets = {k1, k2}
  Readers = {k1}
  Sessions = {s1}
  Bots = {b1}
  NoBot = NoBot
  NoSession = NoSession
  HubCapacity = 2
  ReplayLimit = 1
  Offers <- MCOffers
  Published <- MCPublished
  MaxEvents = 2
  MaxRetries = 0
  MaxSeq = 1
CHECK_DEADLOCK FALSE
INVARIANTS ResumeReplaysAll
