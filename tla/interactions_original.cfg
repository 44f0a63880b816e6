SPECIFICATION Spec
CONSTANTS
  Interactions = {i1}
  Messages = {m1}
  Requests = {r1, r2}
  Apps = {a1}
  Channels = {c1}
  s1 = s1
  SpaceOf <- MCSpaceOf
  NoInteraction = NoInteraction
  NoMessage = NoMessage
  Global = Global
CHECK_DEADLOCK FALSE
PROPERTIES OriginalExcluded
