SPECIFICATION Spec
CONSTANTS
  Targets <- MCTargets
  KindOf <- MCKindOf
  MaxContent = 2
  MaxEmbeds = 2
  MaxFields = 1
  TextLimit <- MCTextLimit
  MaxTotal = 4
  MaxUrl = 1
  MaxColor = 1
  MessageIds = {1, 2}
  AttachmentIds = {1}
  Channels = {c1, c2}
  NoChannel = NoChannel
  Requests = {q1, q2}
  Users = {alice}
  Bot = bot
  Hook = hook
  Bodies <- MCBodies
  EmbedLists <- MCEmbedLists
  Policies <- MCPolicies
  FileLists <- MCFileLists
  MaxFiles = 2
  MaxComponents = 1
  MaxRequests = 3
  MaxPurges = 1
SYMMETRY MCSymmetry
CHECK_DEADLOCK FALSE
INVARIANTS ReferencesHold AnnouncedWhole RowsConsistent
PROPERTIES LinkedFrozen
