SPECIFICATION FairSpec
CONSTANTS
  u1 = u1
  u2 = u2
  c1 = c1
  c2 = c2
  Uid = {u1}
  NoUid = NoUid
  Conn = {c1, c2}
  NoConn = NoConn
  PlayerCounts = {2}
  INT_MAX = 1
  MaxTasks = 3
  StartIds = {1}
PROPERTIES
  LoginSettles
  RoleFound
CHECK_DEADLOCK FALSE
