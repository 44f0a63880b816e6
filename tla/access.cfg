SPECIFICATION Spec
CONSTANTS
  owner = owner
  mia = mia
  kim = kim
  c1 = c1
  c2 = c2
  r1 = r1
  n1 = n1
  n2 = n2
  Users = {owner, mia, kim}
  Owner = owner
  RoleIds = {r1, r2}
  Channels = {c1, c2}
  Names = {n1, n2}
  Workers = {w1, w2}
  Sockets = {s1}
  SocketUser <- MCSocketUser
  Menu <- MCMenu
  StartMember <- MCStartMember
  StartRole <- MCStartRole
  StartChannel <- MCStartChannel
  MaxRequests = 3
  NoName = NoName
  NoChannel = NoChannel
SYMMETRY MCSymmetry
CHECK_DEADLOCK FALSE
INVARIANTS OwnerKept OwnerNeverForbidden MembersOnly MemberDenyWins
PROPERTIES ArchivedFrozen DecidesByPrecedence
