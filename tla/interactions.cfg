SPECIFICATION Spec
CONSTANTS
  Interactions = {i1, i2}
  Messages = {m1, m2}
  Requests = {r1, r2}
  Apps = {a1}
  Channels = {c1}
  s1 = s1
  SpaceOf <- MCSpaceOf
  NoInteraction = NoInteraction
  NoMessage = NoMessage
  Global = Global
SYMMETRY MCSymmetry
CHECK_DEADLOCK FALSE
INVARIANTS AcceptedIsStored AcknowledgedFirst DeletedOnce
PROPERTIES OwnMessagesOnly LifeSpec
